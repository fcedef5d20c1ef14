----------------------------- MODULE GitSearch -----------------------------
(***************************************************************************)
(* Searching a history while it is indexed: the indexer's documents, the   *)
(* queries and the conversion of their results put together                *)
(* (crep-server/server/src/indexer/index.rs, crep-indexer/src/index/       *)
(* git_index.rs).  A search holds the read lock, so it sees no run half    *)
(* done; it may well see what a failed run has left.                       *)
(***************************************************************************)
EXTENDS GitIndexer, SearchResult

CONSTANTS
  Lines,     \* the lines that occur, as sequences of characters
  Queries    \* the queries that are asked

\* The indexer knows a line by its words; here that must be enough to know it.
ASSUME LinesAssumption ==
  /\ Lines \subseteq Seq(Chars)
  /\ Words = UNION {TrigramsOf(line) : line \in Lines}
  /\ LineTexts = {TrigramsOf(line) : line \in Lines}
  /\ \A line, other \in Lines : TrigramsOf(line) = TrigramsOf(other) => line = other

\* The words of a plain query are what lies between white space, so not empty.
ASSUME QueriesAssumption ==
  \A q \in Queries :
    \/ q = EmptyQuery
    \/ q.kind = "plain" /\ q.words \in Seq(Seq(Chars) \ {<<>>})
    \/ q.kind = "regex" /\ q.expression \in Expressions

VARIABLES
  all_words, \* SearchIndex::all_words, rebuilt only when a run completes
  answer     \* the answer to the query being asked, if any

searchVars == <<vars, all_words, answer>>

LineOf == [text \in LineTexts |-> CHOOSE line \in Lines : TrigramsOf(line) = text]

NoAnswer == [query |-> EmptyQuery, outcome |-> "none", results |-> {}]

SearchInit == Init /\ all_words = {} /\ answer = NoAnswer

\* as_index_ref
View ==
  [all_words |-> all_words,
   ever      |-> ever,
   documents |-> [f \in {g \in Files : index[g].tracked} |-> index[f].document],
   head      |-> commits - 1]

\* What read_file_at_commit reads.  A match in bytes that are no text is left out.
Version(f, c) ==
  LET content == repo[c + 1][f]
  IN  IF content = Absent THEN NoFile
      ELSE File([i \in DOMAIN content.lines |-> LineOf[content.lines[i]]])

Versions(f) == [c \in 0..(commits - 1) |-> Version(f, c)]

\* do_incremental_index, or SearchIndex::new after the first run.
CompleteRun ==
  /\ FinishRun
  /\ all_words' = {w \in Words : ever[w] # {}}

IndexerStep ==
  /\ answer = NoAnswer
  /\ \/ CompleteRun
     \/ /\ \/ \E tree \in [Files -> Contents] : Commit(tree)
           \/ StartRun
           \/ RecordCommit
           \/ \E f \in Files : IndexFile(f)
           \/ AbandonRun
        /\ UNCHANGED all_words
  /\ UNCHANGED answer

\* No write lock is held, and the first run has completed.  Commits made since
\* the last run began change nothing of a search, and are left out.
Searching == phase = "idle" /\ finalized > 0 /\ target = Len(repo)

\* What a search finds, and what is shown of each raw result.
AnswerTo(q) ==
  LET found    == Search(View, q)
      shown(r) == FromRaw(q, r.commits, Versions(r.file), commits - 1)
  IN  [query   |-> q,
       outcome |-> found.outcome,
       results |-> {[raw |-> r, shown |-> shown(r)] : r \in found.results}]

\* The search endpoint, and Searcher::handle_query: search, then read the
\* commits of every raw result for what is shown of it.
Ask(q) ==
  /\ Searching
  /\ answer = NoAnswer
  /\ answer' = AnswerTo(q)
  /\ UNCHANGED <<vars, all_words>>

Dismiss ==
  /\ answer # NoAnswer
  /\ answer' = NoAnswer
  /\ UNCHANGED <<vars, all_words>>

SearchNext ==
  \/ IndexerStep
  \/ \E q \in Queries : Ask(q)
  \/ Dismiss

SearchSpec == SearchInit /\ [][SearchNext]_searchVars

-----------------------------------------------------------------------------
(* Properties.                                                             *)

LongWords(q) == \A i \in DOMAIN q.words : Len(q.words[i]) >= 3

(***************************************************************************)
(* Queries whose candidates cover all they match: plain ones of words of   *)
(* three characters or more; expressions that match no empty text, have no *)
(* empty part, whose literals are not two characters in three or more      *)
(* bytes, and that repeat more than three times only a literal or a class. *)
(***************************************************************************)
CoveredBy(x, covered) ==
  CASE x.kind = "literal" -> ByteLen(x.text) <= 2 \/ Len(x.text) >= 3
    [] x.kind = "class" -> TRUE
    [] x.kind = "repetition" ->
         covered[x.sub] /\ (x.max \in 0..3 \/ x.sub.kind \in {"literal", "class"})
    [] x.kind \in {"concat", "alternation"} -> \A i \in DOMAIN x.parts : covered[x.parts[i]]
    [] OTHER -> FALSE

Covered(e) ==
  LET covered[x \in Expressions] == CoveredBy(x, covered) IN covered[e]

Precise(q) ==
  \/ q.kind = "plain" /\ q.words # <<>> /\ LongWords(q)
  \/ q.kind = "regex" /\ Covered(q.expression) /\ ~IsMatch(q.expression, <<>>)

(***************************************************************************)
(* A search for words never panics: the iterator with a zero limit and the *)
(* unwraps of find_overlapping_document and find_matching_commit_histories *)
(* are safe because the lookup and the documents agree, even after a       *)
(* failed run; for short words only while no run has failed since the last *)
(* that completed, because all_words and the documents' words are rebuilt  *)
(* only then.                                                              *)
(***************************************************************************)
SearchesDoNotPanic ==
  LET q == answer.query
  IN  q.kind = "plain" /\ q.words # <<>> /\ (LongWords(q) \/ finalized = commits)
        => answer.outcome = "ok"

(***************************************************************************)
(* A search never names a commit without the file, so that reading it for  *)
(* the result does not fail and take the whole answer with it: deletions,  *)
(* the head that is added to the commits and the lazily filled bitmaps all *)
(* have a say in that (SearchResult::new, CommitsToSearch).                *)
(***************************************************************************)
ResultsAreReadable ==
  \A result \in answer.results :
    result.raw.file \in Searchable => \A c \in result.raw.commits : Version(result.raw.file, c).exists

(***************************************************************************)
(* A line that an expression matches has, for one of the candidates, a     *)
(* word for each of its trigrams: merging, repeating and concatenating the *)
(* parts of the expression, and leaving out literals that no file has ever *)
(* contained, lose no way to match (build_candidates_from_hir,             *)
(* regex_search.rs, permutation.rs).                                       *)
(***************************************************************************)
CandidatesCover ==
  LET q          == answer.query
      candidates == Demanding(BuildCandidates(View, q.expression).candidates)
      meets(line, trigram) ==
        \E word \in TrigramsOf(line) : word \in MatchingWords(trigram, TrigramsOf(line))
  IN  answer.outcome = "ok" /\ q.kind = "regex" /\ Precise(q)
        => \A f \in Searchable : \A c \in 0..(finalized - 1) :
             \A line \in Range(Version(f, c).lines) :
               IsMatch(q.expression, line) =>
                 \E cand \in candidates : \A i \in DOMAIN cand : meets(line, cand[i])

(***************************************************************************)
(* The oldest commit shown of a file is the commit that introduced the     *)
(* match, be it indexed in this run or an earlier one, and found through   *)
(* words or through any of the candidates of an expression.  Queries of    *)
(* several words are excepted: they need all words at one commit, and the  *)
(* last commit before a word leaves a file is lost (see                    *)
(* LastContainedCommitRecorded).                                           *)
(***************************************************************************)
FirstMatchIsExact ==
  LET q == answer.query
      matching(f) == {c \in 0..(finalized - 1) : MatchesIn(q, Version(f, c).lines) # {}}
  IN  answer.outcome = "ok" /\ Precise(q) /\ (q.kind = "plain" => Len(q.words) = 1)
        => \A f \in Searchable : matching(f) # {} =>
             \E result \in answer.results :
               result.raw.file = f /\ result.shown.first.commit = Min(matching(f))

(***************************************************************************)
(* What matches at the head of a completed run is shown as a match at the  *)
(* head, also when the commit that put it there is long gone.  Files that  *)
(* were ever deleted are excepted: is_deleted is never reset, and the head *)
(* is not among their commits.                                             *)
(***************************************************************************)
HeadMatchIsShown ==
  LET q == answer.query
  IN  answer.outcome = "ok" /\ Precise(q) /\ finalized = commits
        => \A f \in Searchable :
             ~index[f].document.is_deleted /\ MatchesIn(q, Version(f, commits - 1).lines) # {}
               => \E result \in answer.results :
                    /\ result.raw.file = f
                    /\ result.shown.first.is_head \/ result.shown.last.is_head

=============================================================================
