---------------------------- MODULE GitSearcher ----------------------------
(***************************************************************************)
(* Evaluating a query against the index (crep-indexer/src/search/          *)
(* git_searcher.rs, core/search_docs.rs, util/bitmap/utils.rs).            *)
(*                                                                         *)
(* view is the GitIndexRef a search works on:                              *)
(*   all_words   the words of the index when its last run completed        *)
(*   ever        word_to_file_id_ever_contained: word -> set of files      *)
(*   documents   file_id_to_document                                       *)
(*   head        index of the last commit                                  *)
(* A raw result is a file and the commits at which it may match.           *)
(***************************************************************************)
EXTENDS RegexCandidates

\* The text of a plain query is split at white space; a blank one has no words.
EmptyQuery == [kind |-> "empty"]
Plain(words) == [kind |-> "plain", words |-> words]
Regex(expression) == [kind |-> "regex", expression |-> expression]

RawResult(file, commits) == [file |-> file, commits |-> commits]
Found(results) == [outcome |-> "ok", results |-> results]
SearchPanics == [outcome |-> "panic", results |-> {}]
SearchRefused == [outcome |-> "refused", results |-> {}]

DocsOf(view, word) == IF word \in DOMAIN view.ever THEN view.ever[word] ELSE {}

-----------------------------------------------------------------------------
(* Words and trigrams to files.                                            *)

\* get_document_bitmap_containing_word: files that ever had all of the word's
\* trigrams; for a word of one or two bytes, any word with the key in it.
DocsWithWord(view, word) ==
  IF ByteLen(word) <= 2
    THEN UNION {DocsOf(view, w) : w \in {x \in view.all_words : IsWithin(word, x)}}
    ELSE {f \in DOMAIN view.documents : \A w \in TrigramsOf(word) : f \in DocsOf(view, w)}

\* find_matching_trigram: three characters are a key; anything else is looked
\* for in a set of words.
MatchingWords(trigram, words) ==
  IF Len(trigram) = 3 /\ \A i \in 1..3 : \E c \in trigram[i] : trigram[i] = {c}
    THEN {[i \in 1..3 |-> CHOOSE c \in trigram[i] : TRUE]}
    ELSE {w \in words : \E i \in 0..(Len(w) - Len(trigram)) :
                          \A j \in DOMAIN trigram : w[i + j] \in trigram[j]}

CandidateDocs(view, trigrams) ==
  {f \in DOMAIN view.documents : \A i \in DOMAIN trigrams :
     \E w \in MatchingWords(trigrams[i], view.all_words) : f \in DocsOf(view, w)}

-----------------------------------------------------------------------------
(* Files to commits.                                                       *)

\* A variant that looks only at commits that changed the file.
ModifiedOnly(view, doc) == doc.doc_modified_commits

\* Commits a result may name: those that changed the file, and the head
\* unless the file was ever deleted.
CommitsToSearch(view, doc) ==
  doc.doc_modified_commits \cup (IF doc.is_deleted THEN {} ELSE {view.head})

Bitmaps(doc, words) == {doc.words[w].commit_inclutivity : w \in words \cap DOMAIN doc.words}

\* find_matching_commit_histories_in_doc unwraps the words of a finalized
\* document, and a file without one of the trigrams ends in an iterator with
\* a zero limit: both panic.
CanMatchWord(doc, word) ==
  IF ByteLen(word) <= 2
    THEN doc.all_words # <<>>
           /\ \E w \in doc.all_words[1] \cap DOMAIN doc.words : IsWithin(word, w)
    ELSE TrigramsOf(word) \subseteq DOMAIN doc.words

\* A short word must be in all words that hold it.
HistoryOfWord(view, doc, word) ==
  {c \in CommitsToSearch(view, doc) : \A bits \in
     Bitmaps(doc, IF ByteLen(word) <= 2
                    THEN {w \in doc.all_words[1] : IsWithin(word, w)} ELSE TrigramsOf(word)) :
       c \in bits}

\* find_matching_commit_histories_in_doc_from_trigrams, when it is not None.
CanMatchTrigrams(doc, trigrams) ==
  /\ doc.all_words # <<>>
  /\ \A i \in DOMAIN trigrams : Bitmaps(doc, MatchingWords(trigrams[i], doc.all_words[1])) # {}

HistoryOfTrigrams(view, doc, trigrams) ==
  {c \in CommitsToSearch(view, doc) : \A i \in DOMAIN trigrams :
     \E bits \in Bitmaps(doc, MatchingWords(trigrams[i], doc.all_words[1])) : c \in bits}

-----------------------------------------------------------------------------
(* Plain searches.                                                         *)

\* raw_word_search and find_overlapping_document, which intersects the files
\* of no word at all for a blank query, and unwraps the None.
RawWordSearch(view, words) ==
  LET docs    == {f \in DOMAIN view.documents :
                    \A i \in DOMAIN words : f \in DocsWithWord(view, words[i])}
      doc(f)  == view.documents[f]
      commits(f) == {c \in CommitsToSearch(view, doc(f)) :
                       \A i \in DOMAIN words : c \in HistoryOfWord(view, doc(f), words[i])}
  IN  IF \/ words = <<>>
         \/ \E f \in docs, i \in DOMAIN words : ~CanMatchWord(doc(f), words[i])
        THEN SearchPanics
        ELSE Found({RawResult(f, commits(f)) : f \in {d \in docs : commits(d) # {}}})

-----------------------------------------------------------------------------
(* Regular expressions.                                                    *)

\* Parts are built in order, so the first that panics or is refused decides.
JoinCandidates(x, build) ==
  LET failed == {i \in DOMAIN x.parts : build[x.parts[i]].outcome # "ok"}
      built  == [i \in DOMAIN x.parts |-> build[x.parts[i]].candidates]
  IN  IF failed # {} THEN build[x.parts[Min(failed)]]
      ELSE IF x.kind = "concat" THEN ConcatCandidates(built)
      ELSE Ok(UNION Range(built))

\* The candidates of x, from those of its parts.  A literal that no file has
\* ever contained has none.
CandidatesOf(x, build, view) ==
  CASE x.kind = "empty"   -> Ok({})
    [] x.kind = "literal" ->
         Ok(IF DocsWithWord(view, x.text) = {} THEN {} ELSE {FromLongString(x.text)})
    [] x.kind = "class"   -> Ok({<< <<x.chars>> >>})
    [] x.kind = "capture" -> Refused
    [] x.kind = "repetition" ->
         IF build[x.sub].outcome # "ok" THEN build[x.sub]
         ELSE Repeat(build[x.sub].candidates, x.min, x.max)
    [] x.kind \in {"concat", "alternation"} -> JoinCandidates(x, build)

\* build_candidates_from_hir
BuildCandidates(view, e) ==
  LET build[x \in Expressions] == CandidatesOf(x, build, view) IN build[e]

\* The candidates that ask for a trigram at all; the others are left out.
Demanding(candidates) == {cand \in candidates : DOMAIN cand # {}}

\* regex_search: the results of every candidate that has trigrams.
RegexSearch(view, e) ==
  LET built == BuildCandidates(view, e)
      docs(cand) == {f \in CandidateDocs(view, cand) : CanMatchTrigrams(view.documents[f], cand)}
  IN  IF built.outcome = "panic" THEN SearchPanics
      ELSE IF built.outcome = "refused" THEN SearchRefused
      ELSE Found(UNION {{RawResult(f, HistoryOfTrigrams(view, view.documents[f], cand))
                           : f \in docs(cand)} : cand \in Demanding(built.candidates)})

\* GitSearcher::search, without a limit on the number of results.
Search(view, query) ==
  CASE query.kind = "empty" -> Found({})
    [] query.kind = "plain" -> RawWordSearch(view, query.words)
    [] query.kind = "regex" -> RegexSearch(view, query.expression)
=============================================================================
