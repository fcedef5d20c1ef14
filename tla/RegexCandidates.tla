--------------------------- MODULE RegexCandidates ---------------------------
(***************************************************************************)
(* From a regular expression to the trigrams a line that matches it must   *)
(* contain (crep-indexer/src/search/regex_search.rs, permutation.rs, and   *)
(* build_candidates_from_hir of git_searcher.rs).                          *)
(*                                                                         *)
(* A text is a sequence of characters.  An element of a trigram is the set *)
(* of the characters that may stand there, one for a Char and any number   *)
(* for a CharRange.  A candidate is the list of the trigrams of one way to *)
(* match the expression; a document must contain all of them.              *)
(***************************************************************************)
EXTENDS Integers, Sequences, FiniteSets, SequencesExt

NoMax == -1    \* a repetition without an upper bound

CONSTANTS
  Chars,       \* characters
  WideChars,   \* characters of two bytes; every other takes one
  Expressions, \* the expressions that occur, and all parts of theirs
  Depth        \* how deep the parts of each are nested

\* Expressions are finite trees.  A literal is not empty: regex_syntax has Empty for that.
ASSUME ExpressionsAssumption ==
  /\ WideChars \subseteq Chars
  /\ Depth \in [Expressions -> Nat]
  /\ \A e \in Expressions :
       /\ e.kind \in {"empty", "literal", "class", "capture", "repetition", "concat", "alternation"}
       /\ e.kind = "literal" => e.text \in Seq(Chars) \ {<<>>}
       /\ e.kind = "class" => e.chars \subseteq Chars
       /\ e.kind = "repetition" => e.min \in Nat /\ e.max \in Nat \cup {NoMax}
       /\ e.kind \in {"capture", "repetition"} => e.sub \in Expressions /\ Depth[e.sub] < Depth[e]
       /\ e.kind \in {"concat", "alternation"} =>
            e.parts \in Seq(Expressions) /\ \A i \in DOMAIN e.parts : Depth[e.parts[i]] < Depth[e]

\* Expressions, after regex_syntax has parsed and simplified them.
Literal(text) == [kind |-> "literal", text |-> text]
Class(chars) == [kind |-> "class", chars |-> chars]
Concat(parts) == [kind |-> "concat", parts |-> parts]
Alternation(parts) == [kind |-> "alternation", parts |-> parts]
Repetition(sub, min, max) == [kind |-> "repetition", sub |-> sub, min |-> min, max |-> max]
Empty == [kind |-> "empty"]
Capture(sub) == [kind |-> "capture", sub |-> sub]

\* str::len
ByteLen(text) == Len(text) + Cardinality({i \in DOMAIN text : text[i] \in WideChars})

Windows(s) == [i \in 1..(Len(s) - 2) |-> SubSeq(s, i, i + 2)]

\* split_by_trigram_to_set: a line of one or two characters is one word.
TrigramsOf(line) ==
  IF line = <<>> THEN {} ELSE IF Len(line) <= 2 THEN {line} ELSE Range(Windows(line))

\* The places where part starts in text.
PlacesOf(part, text) ==
  {i \in 1..(Len(text) - Len(part) + 1) : SubSeq(text, i, i + Len(part) - 1) = part}

IsWithin(part, text) == PlacesOf(part, text) # {}

-----------------------------------------------------------------------------
(* Trigrams.                                                               *)

\* Trigram::from_long_string.  The length that decides is in bytes: two
\* characters of three bytes or more have no trigram at all.
FromLongString(text) ==
  LET elements == [i \in DOMAIN text |-> {text[i]}]
  IN  IF ByteLen(text) < 3 THEN <<elements>> ELSE Windows(elements)

Unmergeable == [ok |-> FALSE, trigrams |-> <<>>]

(***************************************************************************)
(* merge_trigrams: the last trigram of the left list and the first of the  *)
(* right one are joined, into one trigram or into all windows of the two.  *)
(* No lists, an empty list among several and a short trigram with others   *)
(* behind it are index errors or failed assertions.                        *)
(***************************************************************************)
Merge(left, right) ==
  LET joined == Last(left.trigrams) \o Head(right)
      before == Front(left.trigrams)
  IN  IF ~left.ok \/ left.trigrams = <<>> \/ right = <<>> THEN Unmergeable
      ELSE IF Len(joined) <= 3
        THEN [ok |-> Len(right) = 1, trigrams |-> Append(before, joined)]
        ELSE [ok |-> TRUE, trigrams |-> before \o Windows(joined) \o Tail(right)]

MergeTrigrams(lists) ==
  LET merged[n \in 0..(Len(lists) - 1)] ==
        IF n = 0 THEN [ok |-> TRUE, trigrams |-> lists[1]] ELSE Merge(merged[n - 1], lists[n + 1])
  IN  IF lists = <<>> THEN Unmergeable ELSE merged[Len(lists) - 1]

\* PermutationIterator: every way to pick one element of each set.
AllPicks(sets) ==
  {picks \in [DOMAIN sets -> UNION Range(sets)] : \A i \in DOMAIN sets : picks[i] \in sets[i]}

-----------------------------------------------------------------------------
(* Candidates of an expression, a panic, or the refusal to search for it.  *)
(* The order of candidates makes no difference to what is found.           *)

Ok(candidates) == [outcome |-> "ok", candidates |-> candidates]
Panic == [outcome |-> "panic", candidates |-> {}]
Refused == [outcome |-> "refused", candidates |-> {}]

MergeAll(choices) ==
  LET merged == {MergeTrigrams(lists) : lists \in choices}
  IN  IF \A m \in merged : m.ok THEN Ok({m.trigrams : m \in merged}) ELSE Panic

\* The lists that are not empty, in their order.
Present(lists) ==
  LET kept[n \in 0..Len(lists)] ==
        IF n = 0 THEN <<>>
        ELSE kept[n - 1] \o (IF lists[n] = <<>> THEN <<>> ELSE <<lists[n]>>)
  IN  kept[Len(lists)]

\* RegexSearchCandidates::concat leaves parts without trigrams out.
ConcatCandidates(parts) ==
  IF \E i \in DOMAIN parts : parts[i] = {} THEN Ok({})
  ELSE MergeAll({Present(lists) : lists \in AllPicks(parts)})

\* Only repeat upto 3 really matters.
Counts(min, max) == (IF min < 3 THEN min ELSE 3)..(IF max = NoMax \/ max > 3 THEN 3 ELSE max)

Copies(part, counts) == UNION {AllPicks([j \in 1..n |-> part]) : n \in counts}

\* A variant whose zero copies are no candidate.
RepeatAtLeastOnce(part, min, max) ==
  LET some   == Counts(min, max) \ {0}
      merged == MergeAll(Copies(part, some))
  IN  IF merged.outcome = "panic" \/ (part = {} /\ some # {}) THEN Panic
      ELSE merged

(***************************************************************************)
(* RegexSearchCandidates::repeat: at most three copies.  Zero copies are a *)
(* candidate without trigrams; copies of a part without candidates are an  *)
(* iterator with a zero limit, which panics.                               *)
(***************************************************************************)
Repeat(part, min, max) ==
  LET counts == Counts(min, max)
      some   == counts \ {0}
      merged == MergeAll(Copies(part, some))
  IN  IF merged.outcome = "panic" \/ (part = {} /\ some # {}) THEN Panic
      ELSE Ok({<<>> : n \in counts \cap {0}} \cup merged.candidates)

-----------------------------------------------------------------------------
(* What the regex crate matches: <<i, j>> is in Spans(e, line) when e      *)
(* matches the characters after the i-th up to the j-th.                   *)

Then(r, s) == {<<x[1][1], x[2][2]>> : x \in {y \in r \X s : y[1][2] = y[2][1]}}

\* One after the other, from the places in same.
InARow(same, spans) ==
  LET row[n \in 0..Len(spans)] == IF n = 0 THEN same ELSE Then(row[n - 1], spans[n])
  IN  row[Len(spans)]

\* What x matches, from what its parts match.
SpansOf(x, spans, line) ==
  LET same == {<<i, i>> : i \in 0..Len(line)}
  IN  CASE x.kind = "empty"   -> same
        [] x.kind = "literal" ->
             {<<i - 1, i - 1 + Len(x.text)>> : i \in PlacesOf(x.text, line)}
        [] x.kind = "class"   -> {<<i - 1, i>> : i \in {k \in DOMAIN line : line[k] \in x.chars}}
        [] x.kind = "capture" -> spans[x.sub]
        [] x.kind = "repetition" ->
             LET sub == spans[x.sub]
             IN  UNION {InARow(same, [i \in 1..n |-> sub]) :
                          n \in {k \in x.min..(x.min + Len(line)) : x.max = NoMax \/ k <= x.max}}
        [] x.kind = "concat" -> InARow(same, [i \in DOMAIN x.parts |-> spans[x.parts[i]]])
        [] x.kind = "alternation" -> UNION {spans[x.parts[i]] : i \in DOMAIN x.parts}

Spans(e, line) ==
  LET spans[x \in Expressions] == SpansOf(x, spans, line) IN spans[e]

IsMatch(e, line) == Spans(e, line) # {}
=============================================================================
