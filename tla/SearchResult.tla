---------------------------- MODULE SearchResult ----------------------------
(***************************************************************************)
(* From a raw result to what is shown of a file: its first and last match  *)
(* (crep-indexer/src/search/result/search_result.rs,                       *)
(* single_commit_search_result.rs, simple_repo_reader.rs, and MatchDetail  *)
(* in crep-server/server/src/search/search.rs).                            *)
(*                                                                         *)
(* versions[c] is the file as the repository has it at commit c: a         *)
(* sequence of lines, each a sequence of characters, or NoFile.            *)
(***************************************************************************)
EXTENDS GitSearcher

NoFile == [exists |-> FALSE, lines |-> <<>>]
File(lines) == [exists |-> TRUE, lines |-> lines]

\* A match: the line, the place in it, and the word or (as 0) the expression.
Match(line, col, pattern) == [line |-> line, col |-> col, pattern |-> pattern]

-----------------------------------------------------------------------------
(* SingleCommitSearchResult: the matches in one version.                   *)

(***************************************************************************)
(* AhoCorasick, leftmost-first: the matches in a line do not overlap, and  *)
(* of the words that start at one place the first in the query wins.       *)
(***************************************************************************)
WordMatches(words, line) ==
  LET at(i) == {k \in DOMAIN words : i \in PlacesOf(words[k], line)}
      next(state, i) ==
        IF i < state.free \/ at(i) = {} THEN state
        ELSE LET k == Min(at(i))
             IN  [free |-> i + Len(words[k]), found |-> state.found \cup {<<i, k>>}]
      scan[i \in 0..Len(line)] ==
        IF i = 0 THEN [free |-> 1, found |-> {}] ELSE next(scan[i - 1], i)
  IN  scan[Len(line)].found

\* find_word_matches_in_document: the first match of each word.
FirstOfEachWord(words, lines) ==
  LET all == UNION {{Match(n, hit[1], hit[2]) : hit \in WordMatches(words, lines[n])} : n \in DOMAIN lines}
      before(m, o) == m.line < o.line \/ (m.line = o.line /\ m.col < o.col)
  IN  {m \in all : \A o \in all : o.pattern = m.pattern => ~before(o, m)}

MaxRegexMatches == 11

\* find_regex_matches_in_document: one match in each of the first 11 lines.
RegexMatches(e, lines) ==
  LET hits     == {n \in DOMAIN lines : IsMatch(e, lines[n])}
      first(n) == Min({span[1] : span \in Spans(e, lines[n])})
      shown    == {n \in hits : Cardinality({m \in hits : m < n}) < MaxRegexMatches}
  IN  {Match(n, first(n) + 1, 0) : n \in shown}

\* All words of the query must be found, each in a match of its own; none is no result.
MatchesIn(query, lines) ==
  IF query.kind = "regex" THEN RegexMatches(query.expression, lines)
  ELSE LET found == FirstOfEachWord(query.words, lines)
       IN  IF Cardinality(found) = Len(query.words) THEN found ELSE {}

\* The lines around the matches: two before, one after.
LinesAround(matches, lines) ==
  {n \in DOMAIN lines : \E m \in matches : m.line - 2 <= n /\ n <= m.line + 1}

-----------------------------------------------------------------------------
(* SearchResult::new: the versions are read one by one, and one that does  *)
(* not have the file is an error.                                          *)

NoMatch == [commit |-> -1, is_head |-> FALSE, matches |-> {}, lines |-> {}]

ResultAt(query, version, commit, head) ==
  LET matches == MatchesIn(query, version.lines)
  IN  IF matches = {} THEN NoMatch
      ELSE [commit |-> commit, is_head |-> commit = head,
            matches |-> matches, lines |-> LinesAround(matches, version.lines)]

Shown(first, last) == [outcome |-> "shown", first |-> first, last |-> last]
NotShown == [outcome |-> "none", first |-> NoMatch, last |-> NoMatch]
Unreadable == [outcome |-> "error", first |-> NoMatch, last |-> NoMatch]

FromRaw(query, commits, versions, head) ==
  LET matches(c) == versions[c].exists /\ MatchesIn(query, versions[c].lines) # {}
      matching   == {c \in commits : matches(c)}
      first      == Min(matching)
      later      == {c \in matching : c > first}
      at(c)      == ResultAt(query, versions[c], c, head)
      read       == {c \in commits : \/ matching = {}
                                     \/ c <= first
                                     \/ later = {}
                                     \/ c >= Max(later)}
  IN  IF \E c \in read : ~versions[c].exists THEN Unreadable
      ELSE IF matching = {} THEN NotShown
      ELSE Shown(at(first), IF later = {} THEN NoMatch ELSE at(Max(later)))
=============================================================================
