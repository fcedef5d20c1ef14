-------------------------- MODULE CommandLineProofs --------------------------
(***************************************************************************)
(* The walk over the history, and the command line and server around it.   *)
(*                                                                         *)
(* For any set of paths and trees, any history and any number of runs,     *)
(* failures and restarts: HistoryWalk's four invariants.  They are proved  *)
(* together, from one inductive invariant, Inductive.  Its parts are       *)
(* operators of the values they relate, so that a step that changes none   *)
(* of these preserves the part by being what it is.                        *)
(*                                                                         *)
(* The composition keeps what its parts promise: every behaviour of the    *)
(* command line is one of HistoryWalk, and its application shows the       *)
(* answer to the last query and panics only after a search did, for any    *)
(* inputs, outcomes and number of keys.                                    *)
(***************************************************************************)
EXTENDS CommandLine, TLAPS, FiniteSetTheorems

-----------------------------------------------------------------------------
(* The parts of the invariant of the walk.                                 *)

Contents == Texts \cup {Absent, Empty, Binary, Garbled}

\* Functions from some elements of A to B.
Maps(A, B) == UNION {[D -> B] : D \in SUBSET A}

Memories ==
  [commit_index_to_commit_id : Seq(Nat),
   commit_id_to_commit_index : Maps(Nat, Nat),
   file_id_to_path           : Seq(Paths),
   file_name_to_id           : Maps(Paths, Nat),
   contents                  : Maps(Nat, Contents),
   ignored                   : SUBSET Paths,
   lost                      : SUBSET Paths]

Shape(m) ==
  /\ m \in Memories
  /\ Tables(m)
  /\ DOMAIN m.contents \subseteq 0..(Len(m.file_id_to_path) - 1)

Recorded(m) == DOMAIN m.commit_id_to_commit_index

NothingRecorded(m) == m.commit_index_to_commit_id = <<>>

Commits == [tree : Trees, line : SUBSET Nat, past : SUBSET Nat]

\* The first parents of a commit form a line that ends in it; its ancestors are closed.
Linear(g) ==
  /\ g \in Seq(Commits)
  /\ \A c \in DOMAIN g :
       /\ c \in g[c].line /\ g[c].line \subseteq g[c].past
       /\ g[c].past \subseteq 1..c
       /\ \A d \in g[c].line : g[d].line = {e \in g[c].line : e <= d}
       /\ \A d \in g[c].past : g[d].past \subseteq g[c].past

\* What a run takes for indexed: what is, and what came in by merges.
Covers(g, m) == Recorded(m) \cup MergedIn(g, m)

\* No commit is recorded without its first parents, those merged in aside.
Closed(g, m) ==
  /\ Recorded(m) \subseteq DOMAIN g
  /\ \A c \in Recorded(m) : g[c].line \subseteq Covers(g, m)

Follows(g, m, tree) == \A p \in Known(g, m) : IndexedContent(m, p) \in Held(tree[p])

UpToDate(g, m) == ~ NothingRecorded(m) => Follows(g, m, g[LastRecorded(m)].tree)

SavedWell(g, s) ==
  s.state = "whole" =>
    LET m == FromSaved(s.index)
    IN  Shape(m) /\ Closed(g, m) /\ UpToDate(g, m) /\ ~ NothingRecorded(m)

\* A run in progress will have recorded all first parents of its target.
WalksOn(g, pr, m, w, t) ==
  pr \in {"walking", "diffing"} =>
    /\ t \in DOMAIN g
    /\ w \subseteq g[t].line
    /\ g[t].line \subseteq Covers(g, m) \cup w

Rests(g, pr, m, t) ==
  pr \in {"ready", "saving", "done"} =>
    /\ ~ NothingRecorded(m)
    /\ t # 0 => t \in DOMAIN g /\ g[t].line \subseteq Covers(g, m)

Serves(pr, s, m) ==
  /\ pr \in {"down", "walking", "diffing", "ready", "saving", "done"}
  /\ pr \in {"saving", "done"} => ~ s
  /\ s => ~ NothingRecorded(m)
  /\ ~ s => m.lost = {}

Hunks == [old : Contents, new : Contents]

Files == [id : Nat, status : {"added", "deleted", "modified"}]

Diffs ==
  [old : Trees, new : Trees, rest : SUBSET Paths,
   current : Seq(Files),
   due : Seq(Hunks), pending : Seq(Hunks)]

\* The hunks reported or gathered for the current file and not applied yet.
Gathered(d) == IF d.due # <<>> THEN d.due ELSE d.pending

\* p is the current file, and hunks of it are not applied yet.
Owner(m, d, p) ==
  /\ p \in DOMAIN m.file_name_to_id
  /\ d.current # <<>>
  /\ d.due # <<>> \/ d.pending # <<>>
  /\ m.file_name_to_id[p] = d.current[1].id

\* What a path is in the index, amid the callbacks of a diff.
InDiff(m, d, p) ==
  IF p \in d.rest
  THEN ~ Owner(m, d, p) /\ IndexedContent(m, p) \in Held(d.old[p])
  ELSE IF Owner(m, d, p)
  THEN /\ IndexedContent(m, p) = LinesOf(d.old[p])
       /\ Gathered(d) = HunksBetween(d.old[p], d.new[p])
       /\ d.current[1].status = Status(d.old[p], d.new[p])
  ELSE IndexedContent(m, p) \in Held(d.new[p])

Diffing(g, m, d) ==
  /\ d \in Diffs
  /\ d.due = <<>> \/ d.pending = <<>>
  /\ d.pending # <<>> => d.current # <<>>
  /\ d.current # <<>> => d.current[1].id < Len(m.file_id_to_path)
  /\ \A p \in Known(g, m) : InDiff(m, d, p)

Applies(g, pr, m, d) ==
  IF pr = "diffing"
  THEN ~ NothingRecorded(m) /\ d.new = g[LastRecorded(m)].tree /\ Diffing(g, m, d)
  ELSE d = NoDiff /\ UpToDate(g, m)

Inductive ==
  /\ Linear(graph) /\ head \in DOMAIN graph
  /\ SavedWell(graph, saved)
  /\ Shape(memory) /\ Closed(graph, memory)
  /\ WalksOn(graph, process, memory, walk, target)
  /\ Rests(graph, process, memory, target)
  /\ Serves(process, server, memory)
  /\ Applies(graph, process, memory, diff)

-----------------------------------------------------------------------------
(* Maps and tables.                                                        *)

LEMMA MapsElement ==
  ASSUME NEW A, NEW B, NEW f
  PROVE  f \in Maps(A, B) <=> DOMAIN f \subseteq A /\ f \in [DOMAIN f -> B]
BY DEF Maps

LEMMA MapToType ==
  ASSUME NEW A, NEW B, NEW f \in Maps(A, B), NEW k \in A, NEW v \in B
  PROVE  MapTo(f, k, v) \in Maps(A, B)
<1>1. DOMAIN f \subseteq A /\ f \in [DOMAIN f -> B]
  BY MapsElement
<1>2. MapTo(f, k, v) \in [DOMAIN f \cup {k} -> B]
  BY <1>1 DEF MapTo
<1>3. DOMAIN MapTo(f, k, v) = DOMAIN f \cup {k}
  BY DEF MapTo
<1> QED BY <1>1, <1>2, <1>3, MapsElement

LEMMA EmptyMapFacts ==
  ASSUME NEW A, NEW B
  PROVE  EmptyMap \in Maps(A, B) /\ DOMAIN EmptyMap = {}
<1>1. DOMAIN EmptyMap = {} /\ EmptyMap \in [{} -> B]
  BY DEF EmptyMap
<1> QED BY <1>1, MapsElement

\* The place of an element, when one place is the last.
LEMMA LastPlaceIs ==
  ASSUME NEW S, NEW s \in Seq(S), NEW i \in DOMAIN s, \A j \in DOMAIN s : s[j] = s[i] => j <= i
  PROVE  LastPlace(s, s[i]) = i - 1
<1>1. DOMAIN s = 1..Len(s) /\ Len(s) \in Nat
  OBVIOUS
<1>2. ASSUME NEW k \in DOMAIN s, s[k] = s[i], \A j \in DOMAIN s : s[j] = s[i] => j <= k
      PROVE  k = i
  BY <1>1, <1>2
<1> DEFINE k == CHOOSE k \in DOMAIN s : s[k] = s[i] /\ \A j \in DOMAIN s : s[j] = s[i] => j <= k
<1>3. k = i
  BY <1>2
<1> QED BY <1>3 DEF LastPlace

LEMMA PlacesInFunction ==
  ASSUME NEW s
  PROVE  PlacesIn(s) = [x \in DOMAIN PlacesIn(s) |-> PlacesIn(s)[x]]
<1> DEFINE D == {s[i] : i \in DOMAIN s}
           place(x) == LastPlace(s, x)
<1>1. PlacesIn(s) = [x \in D |-> place(x)]
  BY DEF PlacesIn
<1> HIDE DEF D, place
<1> QED BY <1>1

LEMMA NewMemoryFacts ==
  /\ Shape(NewMemory)
  /\ NothingRecorded(NewMemory)
  /\ Recorded(NewMemory) = {}
  /\ NewMemory.lost = {}
<1>1. NewMemory \in Memories
  BY EmptyMapFacts DEF NewMemory, Memories
<1>2. DOMAIN EmptyMap = {}
  BY EmptyMapFacts
<1>3. Tables(NewMemory)
  BY <1>2 DEF NewMemory, Tables, CommitsAgree, FilesAgree
<1>4. DOMAIN NewMemory.contents = {}
  BY <1>2 DEF NewMemory
<1> QED BY <1>1, <1>2, <1>3, <1>4 DEF Shape, NothingRecorded, Recorded, NewMemory

\* What is loaded is what was saved.
LEMMA SavedIsLoaded ==
  ASSUME NEW m, Shape(m), m.lost = {}
  PROVE  FromSaved(ToSaved(m)) = m
<1> DEFINE places == m.commit_index_to_commit_id
           paths  == m.file_id_to_path
<1>1. m \in Memories /\ Tables(m)
  BY DEF Shape
<1>2. places \in Seq(Nat) /\ paths \in Seq(Paths)
  BY <1>1 DEF Memories
<1>3. m.commit_id_to_commit_index \in [DOMAIN m.commit_id_to_commit_index -> Nat]
  <2>1. m.commit_id_to_commit_index \in Maps(Nat, Nat)
    BY <1>1 DEF Memories
  <2> QED BY <2>1, MapsElement
<1>4. m.file_name_to_id \in [DOMAIN m.file_name_to_id -> Nat]
  <2>1. m.file_name_to_id \in Maps(Paths, Nat)
    BY <1>1 DEF Memories
  <2> QED BY <2>1, MapsElement
<1>5. PlacesIn(places) = m.commit_id_to_commit_index
  <2>1. DOMAIN m.commit_id_to_commit_index = {places[i] : i \in DOMAIN places}
    BY <1>1 DEF Tables, CommitsAgree
  <2>2. ASSUME NEW c \in DOMAIN m.commit_id_to_commit_index
        PROVE  LastPlace(places, c) = m.commit_id_to_commit_index[c]
    <3>1. PICK i \in DOMAIN places : /\ i = m.commit_id_to_commit_index[c] + 1
                                     /\ places[i] = c
                                     /\ \A j \in DOMAIN places : places[j] = c => j <= i
      BY <1>1, <2>2 DEF Tables, CommitsAgree
    <3>2. LastPlace(places, c) = i - 1
      BY <1>2, <3>1, LastPlaceIs
    <3>3. m.commit_id_to_commit_index[c] \in Nat
      BY <1>3, <2>2
    <3> QED BY <3>1, <3>2, <3>3
  <2> QED BY <1>3, <2>1, <2>2 DEF PlacesIn
<1>6. PlacesIn(paths) = m.file_name_to_id
  <2>1. DOMAIN m.file_name_to_id = {paths[i] : i \in DOMAIN paths}
    BY <1>1 DEF Tables, FilesAgree
  <2>2. ASSUME NEW p \in DOMAIN m.file_name_to_id
        PROVE  LastPlace(paths, p) = m.file_name_to_id[p]
    <3>1. PICK i \in DOMAIN paths : /\ i = m.file_name_to_id[p] + 1
                                    /\ \A j \in DOMAIN paths : paths[j] = p <=> j = i
      BY <1>1, <2>2 DEF Tables, FilesAgree
    <3>2. m.file_name_to_id[p] \in Nat
      BY <1>4, <2>2
    <3>3. LastPlace(paths, p) = i - 1
      BY <1>2, <3>1, <3>2, LastPlaceIs
    <3> QED BY <3>1, <3>2, <3>3
  <2> QED BY <1>4, <2>1, <2>2 DEF PlacesIn
<1>7. m = [commit_index_to_commit_id |-> m.commit_index_to_commit_id,
           commit_id_to_commit_index |-> m.commit_id_to_commit_index,
           file_id_to_path           |-> m.file_id_to_path,
           file_name_to_id           |-> m.file_name_to_id,
           contents                  |-> m.contents,
           ignored                   |-> m.ignored,
           lost                      |-> m.lost]
  BY <1>1 DEF Memories
<1> HIDE DEF places, paths
<1>8. FromSaved(ToSaved(m)) =
        [commit_index_to_commit_id |-> m.commit_index_to_commit_id,
         commit_id_to_commit_index |-> PlacesIn(m.commit_index_to_commit_id),
         file_id_to_path           |-> m.file_id_to_path,
         file_name_to_id           |-> PlacesIn(m.file_id_to_path),
         contents                  |-> m.contents,
         ignored                   |-> m.ignored,
         lost                      |-> {}]
  BY DEF FromSaved, ToSaved
<1> QED BY <1>5, <1>6, <1>7, <1>8 DEF places, paths


-----------------------------------------------------------------------------
(* What the operations on the tables do.                                   *)

\* The fields of an indexer, typed.
LEMMA ShapeFacts ==
  ASSUME NEW m, Shape(m)
  PROVE  /\ m \in Memories /\ Tables(m)
         /\ DOMAIN m.contents \subseteq 0..(Len(m.file_id_to_path) - 1)
         /\ m.commit_index_to_commit_id \in Seq(Nat)
         /\ m.commit_id_to_commit_index \in Maps(Nat, Nat)
         /\ m.file_id_to_path \in Seq(Paths)
         /\ Len(m.file_id_to_path) \in Nat
         /\ m.file_name_to_id \in Maps(Paths, Nat)
         /\ m.contents \in Maps(Nat, Contents)
         /\ m.ignored \in SUBSET Paths
         /\ m.lost \in SUBSET Paths
BY DEF Shape, Memories

\* An id leads to its path and back.
LEMMA IdFacts ==
  ASSUME NEW m, Shape(m), NEW p \in DOMAIN m.file_name_to_id
  PROVE  /\ p \in Paths
         /\ m.file_name_to_id[p] \in 0..(Len(m.file_id_to_path) - 1)
         /\ \A q \in DOMAIN m.file_name_to_id : m.file_name_to_id[q] = m.file_name_to_id[p] => q = p
<1>1. m.file_name_to_id \in Maps(Paths, Nat) /\ Tables(m) /\ m.file_id_to_path \in Seq(Paths)
  BY ShapeFacts
<1>2. DOMAIN m.file_name_to_id \subseteq Paths /\ m.file_name_to_id \in [DOMAIN m.file_name_to_id -> Nat]
  BY <1>1, MapsElement
<1>3. \A q \in DOMAIN m.file_name_to_id :
        /\ m.file_name_to_id[q] \in Nat
        /\ m.file_name_to_id[q] + 1 \in DOMAIN m.file_id_to_path
        /\ m.file_id_to_path[m.file_name_to_id[q] + 1] = q
  BY <1>1, <1>2 DEF Tables, FilesAgree
<1> QED BY <1>1, <1>2, <1>3

LEMMA CommitsAgreeAppend ==
  ASSUME NEW places \in Seq(Nat), NEW index \in Maps(Nat, Nat), CommitsAgree(places, index), NEW c \in Nat
  PROVE  LET more == MapTo(index, c, Len(places))
         IN  /\ CommitsAgree(Append(places, c), more)
             /\ more \in Maps(Nat, Nat)
             /\ DOMAIN more = DOMAIN index \cup {c}
<1> DEFINE more == MapTo(index, c, Len(places))
           longer == Append(places, c)
<1>1. Len(places) \in Nat /\ DOMAIN places = 1..Len(places)
  OBVIOUS
<1>2. /\ more \in Maps(Nat, Nat)
      /\ DOMAIN more = DOMAIN index \cup {c}
      /\ more[c] = Len(places)
      /\ \A x \in DOMAIN index : x # c => more[x] = index[x]
  <2>1. more \in Maps(Nat, Nat)
    BY <1>1, MapToType
  <2> QED BY <2>1 DEF MapTo
<1>3. /\ DOMAIN longer = 1..(Len(places) + 1)
      /\ longer[Len(places) + 1] = c
      /\ \A i \in DOMAIN places : longer[i] = places[i]
  BY <1>1
<1> HIDE DEF more, longer
<1>4. DOMAIN more = {longer[i] : i \in DOMAIN longer}
  <2>1. DOMAIN index = {places[i] : i \in DOMAIN places}
    BY DEF CommitsAgree
  <2>2. DOMAIN longer = DOMAIN places \cup {Len(places) + 1}
    BY <1>1, <1>3
  <2> QED BY <1>2, <1>3, <2>1, <2>2
<1>5. ASSUME NEW x \in DOMAIN more
      PROVE  /\ more[x] + 1 \in DOMAIN longer
             /\ longer[more[x] + 1] = x
             /\ \A j \in DOMAIN longer : longer[j] = x => j <= more[x] + 1
  <2>1. CASE x = c
    BY <1>1, <1>2, <1>3, <2>1
  <2>2. CASE x # c
    <3>1. x \in DOMAIN index /\ more[x] = index[x]
      BY <1>2, <1>5, <2>2
    <3>2. /\ index[x] + 1 \in DOMAIN places
          /\ places[index[x] + 1] = x
          /\ \A j \in DOMAIN places : places[j] = x => j <= index[x] + 1
      BY <3>1 DEF CommitsAgree
    <3> QED BY <1>1, <1>3, <2>2, <3>1, <3>2
  <2> QED BY <2>1, <2>2
<1> QED BY <1>2, <1>4, <1>5 DEF CommitsAgree, more, longer

\* There are as many ids as there are paths.
LEMMA IdsCount ==
  ASSUME NEW paths \in Seq(Paths), NEW ids, FilesAgree(paths, ids)
  PROVE  Cardinality(DOMAIN ids) = Len(paths)
<1>1. Len(paths) \in Nat /\ DOMAIN paths = 1..Len(paths)
  OBVIOUS
<1>2. DOMAIN ids = {paths[i] : i \in DOMAIN paths}
  BY DEF FilesAgree
<1>3. \A i, j \in DOMAIN paths : paths[i] = paths[j] => i = j
  <2>1. ASSUME NEW i \in DOMAIN paths, NEW j \in DOMAIN paths, paths[i] = paths[j] PROVE i = j
    <3>1. paths[i] \in DOMAIN ids
      BY <1>2
    <3>2. i = ids[paths[i]] + 1 /\ j = ids[paths[i]] + 1
      BY <2>1, <3>1 DEF FilesAgree
    <3> QED BY <3>2
  <2> QED BY <2>1
<1>4. paths \in [1..Len(paths) -> DOMAIN ids]
  BY <1>1, <1>2
<1>5. \A p \in DOMAIN ids : \E i \in 1..Len(paths) : paths[i] = p
  BY <1>1, <1>2
<1>6. paths \in Bijection(1..Len(paths), DOMAIN ids)
  BY <1>1, <1>3, <1>4, <1>5 DEF Bijection, Injection, Surjection, IsInjective
<1>7. IsFiniteSet(1..Len(paths)) /\ Cardinality(1..Len(paths)) = Len(paths)
  <2> DEFINE last == Len(paths)
  <2>1. last \in Nat
    BY <1>1
  <2> HIDE DEF last
  <2>2. IsFiniteSet(1..last) /\ Cardinality(1..last) = IF 1 > last THEN 0 ELSE last - 1 + 1
    BY <2>1, FS_Interval
  <2>3. IsFiniteSet(1..last) /\ Cardinality(1..last) = last
    BY <2>1, <2>2
  <2> QED BY <2>3 DEF last
<1> QED BY <1>6, <1>7, FS_Bijection DEF ExistsBijection

LEMMA FilesAgreeAppend ==
  ASSUME NEW paths \in Seq(Paths), NEW ids \in Maps(Paths, Nat), FilesAgree(paths, ids),
         NEW p \in Paths, p \notin DOMAIN ids
  PROVE  LET more == MapTo(ids, p, Len(paths))
         IN  /\ FilesAgree(Append(paths, p), more)
             /\ more \in Maps(Paths, Nat)
             /\ DOMAIN more = DOMAIN ids \cup {p}
             /\ more[p] = Len(paths)
             /\ \A q \in DOMAIN ids : more[q] = ids[q]
<1> DEFINE more == MapTo(ids, p, Len(paths))
           longer == Append(paths, p)
<1>1. Len(paths) \in Nat /\ DOMAIN paths = 1..Len(paths)
  OBVIOUS
<1>2. /\ more \in Maps(Paths, Nat)
      /\ DOMAIN more = DOMAIN ids \cup {p}
      /\ more[p] = Len(paths)
      /\ \A x \in DOMAIN ids : more[x] = ids[x]
  <2>1. more \in Maps(Paths, Nat)
    BY <1>1, MapToType
  <2> QED BY <2>1 DEF MapTo
<1>3. /\ DOMAIN longer = 1..(Len(paths) + 1)
      /\ longer[Len(paths) + 1] = p
      /\ \A i \in DOMAIN paths : longer[i] = paths[i]
  BY <1>1
<1> HIDE DEF more, longer
<1>4. DOMAIN more = {longer[i] : i \in DOMAIN longer}
  <2>1. DOMAIN ids = {paths[i] : i \in DOMAIN paths}
    BY DEF FilesAgree
  <2>2. DOMAIN longer = DOMAIN paths \cup {Len(paths) + 1}
    BY <1>1, <1>3
  <2> QED BY <1>2, <1>3, <2>1, <2>2
<1>5. \A j \in DOMAIN paths : paths[j] # p
  BY DEF FilesAgree
<1>6. ASSUME NEW q \in DOMAIN more
      PROVE  /\ more[q] + 1 \in DOMAIN longer
             /\ \A j \in DOMAIN longer : longer[j] = q <=> j = more[q] + 1
  <2>1. CASE q = p
    BY <1>1, <1>2, <1>3, <1>5, <2>1
  <2>2. CASE q # p
    <3>1. q \in DOMAIN ids /\ more[q] = ids[q]
      BY <1>2, <1>6, <2>2
    <3>2. /\ ids[q] + 1 \in DOMAIN paths
          /\ \A j \in DOMAIN paths : paths[j] = q <=> j = ids[q] + 1
      BY <3>1 DEF FilesAgree
    <3> QED BY <1>1, <1>3, <2>2, <3>1, <3>2
  <2> QED BY <2>1, <2>2
<1> QED BY <1>2, <1>4, <1>6 DEF FilesAgree, more, longer


LEMMA RecordInFacts ==
  ASSUME NEW m, Shape(m), NEW c \in Nat, NEW n, n = RecordIn(m, c)
  PROVE  /\ Shape(n)
         /\ Recorded(n) = Recorded(m) \cup {c}
         /\ ~ NothingRecorded(n)
         /\ LastRecorded(n) = c
         /\ ~ NothingRecorded(m) =>
              n.commit_index_to_commit_id[1] = m.commit_index_to_commit_id[1]
         /\ n.ignored = m.ignored /\ n.lost = m.lost
         /\ n.file_id_to_path = m.file_id_to_path
         /\ n.file_name_to_id = m.file_name_to_id
         /\ n.contents = m.contents
<1> DEFINE places == m.commit_index_to_commit_id
           index  == m.commit_id_to_commit_index
           longer == Append(places, c)
           more   == MapTo(index, c, Len(places))
<1>1. m \in Memories /\ Tables(m) /\ places \in Seq(Nat) /\ index \in Maps(Nat, Nat)
      /\ DOMAIN m.contents \subseteq 0..(Len(m.file_id_to_path) - 1)
  BY ShapeFacts
<1>2. CommitsAgree(places, index) /\ FilesAgree(m.file_id_to_path, m.file_name_to_id)
  BY <1>1 DEF Tables
<1>3. CommitsAgree(longer, more) /\ more \in Maps(Nat, Nat) /\ DOMAIN more = DOMAIN index \cup {c}
  BY <1>1, <1>2, CommitsAgreeAppend
<1>4. /\ longer \in Seq(Nat) /\ longer # <<>> /\ longer[Len(longer)] = c
      /\ places # <<>> => longer[1] = places[1]
  BY <1>1
<1> HIDE DEF longer, more
<1>5. n = [m EXCEPT !.commit_index_to_commit_id = longer, !.commit_id_to_commit_index = more]
  BY <1>1 DEF RecordIn, Memories, longer, more
<1>6. /\ n.commit_index_to_commit_id = longer
      /\ n.commit_id_to_commit_index = more
      /\ n.ignored = m.ignored /\ n.lost = m.lost
      /\ n.file_id_to_path = m.file_id_to_path
      /\ n.file_name_to_id = m.file_name_to_id
      /\ n.contents = m.contents
      /\ n \in Memories
  BY <1>1, <1>3, <1>4, <1>5 DEF Memories
<1>7. Shape(n)
  BY <1>1, <1>2, <1>3, <1>6 DEF Shape, Tables
<1> QED BY <1>3, <1>4, <1>6, <1>7 DEF Recorded, NothingRecorded, LastRecorded

LEMMA WithIdFacts ==
  ASSUME NEW m, Shape(m), NEW p \in Paths, NEW n, n = WithId(m, p)
  PROVE  /\ Shape(n)
         /\ n.commit_index_to_commit_id = m.commit_index_to_commit_id
         /\ n.commit_id_to_commit_index = m.commit_id_to_commit_index
         /\ n.contents = m.contents
         /\ n.ignored = m.ignored /\ n.lost = m.lost
         /\ Len(n.file_id_to_path) >= Len(m.file_id_to_path)
         /\ DOMAIN n.file_name_to_id = DOMAIN m.file_name_to_id \cup {p}
         /\ \A q \in DOMAIN m.file_name_to_id : n.file_name_to_id[q] = m.file_name_to_id[q]
         /\ \A q \in Paths : IndexedContent(n, q) = IndexedContent(m, q)
<1> DEFINE paths  == m.file_id_to_path
           ids    == m.file_name_to_id
           longer == Append(paths, p)
           more   == MapTo(ids, p, Len(paths))
<1>1. /\ m \in Memories /\ Tables(m) /\ paths \in Seq(Paths) /\ ids \in Maps(Paths, Nat)
      /\ DOMAIN m.contents \subseteq 0..(Len(paths) - 1)
      /\ Len(paths) \in Nat
  BY ShapeFacts
<1>2. CASE p \in DOMAIN ids
  <2>1. n = m
    BY <1>2 DEF WithId
  <2> QED BY <1>1, <1>2, <2>1
<1>3. CASE p \notin DOMAIN ids
  <2>1. CommitsAgree(m.commit_index_to_commit_id, m.commit_id_to_commit_index) /\ FilesAgree(paths, ids)
    BY <1>1 DEF Tables
  <2>2. /\ FilesAgree(longer, more)
        /\ more \in Maps(Paths, Nat)
        /\ DOMAIN more = DOMAIN ids \cup {p}
        /\ more[p] = Len(paths)
        /\ \A q \in DOMAIN ids : more[q] = ids[q]
    BY <1>1, <1>3, <2>1, FilesAgreeAppend
  <2>3. longer \in Seq(Paths) /\ Len(longer) = Len(paths) + 1
    BY <1>1
  <2>4. n = [m EXCEPT !.file_name_to_id = more, !.file_id_to_path = longer]
    <3>1. Cardinality(DOMAIN ids) = Len(paths)
      BY <1>1, <2>1, IdsCount
    <3> QED BY <1>1, <1>3, <3>1 DEF WithId, Memories
  <2> HIDE DEF longer, more
  <2>5. /\ n.commit_index_to_commit_id = m.commit_index_to_commit_id
        /\ n.commit_id_to_commit_index = m.commit_id_to_commit_index
        /\ n.contents = m.contents
        /\ n.ignored = m.ignored /\ n.lost = m.lost
        /\ n.file_id_to_path = longer
        /\ n.file_name_to_id = more
        /\ n \in Memories
    BY <1>1, <2>2, <2>3, <2>4 DEF Memories
  <2>6. DOMAIN n.contents \subseteq 0..(Len(n.file_id_to_path) - 1)
    BY <1>1, <2>3, <2>5
  <2>7. Shape(n)
    BY <2>1, <2>2, <2>5, <2>6 DEF Shape, Tables
  <2>8. ASSUME NEW q \in Paths PROVE IndexedContent(n, q) = IndexedContent(m, q)
    <3>1. CASE q = p
      <4>1. Len(paths) \notin DOMAIN m.contents
        BY <1>1
      <4> HIDE DEF paths, ids
      <4>2. IndexedContent(n, p) = Absent
        BY <2>2, <2>5, <4>1 DEF IndexedContent, ContentOf
      <4>3. IndexedContent(m, p) = Absent
        BY <1>3 DEF IndexedContent, ids
      <4> QED BY <3>1, <4>2, <4>3
    <3>2. CASE q # p
      BY <2>2, <2>5, <3>2 DEF IndexedContent, ContentOf, ids
    <3> QED BY <3>1, <3>2
  <2>9. Len(n.file_id_to_path) >= Len(paths)
    BY <1>1, <2>3, <2>5
  <2> QED BY <2>2, <2>5, <2>7, <2>8, <2>9 DEF ids, paths
<1> QED BY <1>2, <1>3

\* Applying the gathered hunks changes the contents of one id.
LEMMA FlushFacts ==
  ASSUME NEW m, Shape(m), NEW d \in Diffs,
         d.pending # <<>> => d.current # <<>> /\ d.current[1].id < Len(m.file_id_to_path),
         NEW n, n = Flush(m, d)
  PROVE  /\ Shape(n)
         /\ n.commit_index_to_commit_id = m.commit_index_to_commit_id
         /\ n.commit_id_to_commit_index = m.commit_id_to_commit_index
         /\ n.file_id_to_path = m.file_id_to_path
         /\ n.file_name_to_id = m.file_name_to_id
         /\ n.ignored = m.ignored /\ n.lost = m.lost
         /\ \A p \in Paths :
              IndexedContent(n, p) =
                IF /\ d.pending # <<>> /\ p \in DOMAIN m.file_name_to_id
                   /\ m.file_name_to_id[p] = d.current[1].id
                THEN Applied(d.pending[1], d.current[1].status, IndexedContent(m, p))
                ELSE IndexedContent(m, p)
<1> DEFINE id == d.current[1].id
           new == Applied(d.pending[1], d.current[1].status, ContentOf(m, id))
           changed == MapTo(m.contents, id, new)
<1>1. /\ m \in Memories /\ Tables(m) /\ m.contents \in Maps(Nat, Contents)
      /\ DOMAIN m.contents \subseteq 0..(Len(m.file_id_to_path) - 1)
      /\ Len(m.file_id_to_path) \in Nat
  BY ShapeFacts
<1>2. CASE d.pending = <<>>
  <2>1. n = m
    BY <1>2 DEF Flush
  <2> QED BY <1>2, <2>1
<1>3. CASE d.pending # <<>>
  <2>1. d.current \in Seq(Files) /\ d.pending \in Seq(Hunks)
    BY DEF Diffs
  <2>2. id \in Nat /\ d.pending[1] \in Hunks /\ id < Len(m.file_id_to_path)
    <3>1. d.current[1] \in Files
      BY <1>3, <2>1
    <3>2. d.pending[1] \in Hunks
      BY <1>3, <2>1
    <3> QED BY <1>3, <3>1, <3>2 DEF Files
  <2>3. new \in Contents
    BY <2>2 DEF Applied, Hunks, Contents
  <2> HIDE DEF new, id
  <2>4. changed \in Maps(Nat, Contents)
    BY <1>1, <2>2, <2>3, MapToType
  <2>5. /\ DOMAIN changed = DOMAIN m.contents \cup {id}
        /\ changed[id] = new
        /\ \A k \in DOMAIN m.contents : k # id => changed[k] = m.contents[k]
    BY DEF MapTo
  <2>6. n = [m EXCEPT !.contents = changed]
    BY <1>1, <1>3 DEF Flush, Memories, new, id
  <2> HIDE DEF changed
  <2>7. /\ n.commit_index_to_commit_id = m.commit_index_to_commit_id
        /\ n.commit_id_to_commit_index = m.commit_id_to_commit_index
        /\ n.file_id_to_path = m.file_id_to_path
        /\ n.file_name_to_id = m.file_name_to_id
        /\ n.ignored = m.ignored /\ n.lost = m.lost
        /\ n.contents = changed
        /\ n \in Memories
    BY <1>1, <2>4, <2>6 DEF Memories
  <2>8. DOMAIN n.contents \subseteq 0..(Len(n.file_id_to_path) - 1)
    BY <1>1, <2>2, <2>5, <2>7
  <2>9. Shape(n)
    BY <1>1, <2>7, <2>8 DEF Shape, Tables
  <2>10. \A k : ContentOf(n, k) = IF k = id THEN new ELSE ContentOf(m, k)
    BY <2>5, <2>7 DEF ContentOf
  <2>11. ASSUME NEW p \in Paths
         PROVE  IndexedContent(n, p) =
                  IF p \in DOMAIN m.file_name_to_id /\ m.file_name_to_id[p] = id
                  THEN Applied(d.pending[1], d.current[1].status, IndexedContent(m, p))
                  ELSE IndexedContent(m, p)
    BY <2>7, <2>10 DEF IndexedContent, new
  <2> QED BY <1>3, <2>7, <2>9, <2>11 DEF id
<1> QED BY <1>2, <1>3


\* The lines of a file are among what may be held of it, and all that may unless it is binary.
LEMMA HeldFacts ==
  /\ \A content : LinesOf(content) \in Held(content)
  /\ \A content : content # Binary => Held(content) = {LinesOf(content)}
BY DEF Held, LinesOf, Binary, Empty

BinaryFiles(tree) == {p \in Paths : tree[p] = Binary}

\* The files of the first commit.
LEMMA IndexTreeFacts ==
  ASSUME NEW m, Shape(m), NEW tree \in Trees,
         NEW opaque \in SUBSET BinaryFiles(tree), NEW decoded \in SUBSET BinaryFiles(tree),
         NEW n, n = IndexTree(m, tree, opaque, decoded)
  PROVE  /\ Shape(n)
         /\ n.commit_index_to_commit_id = m.commit_index_to_commit_id
         /\ n.commit_id_to_commit_index = m.commit_id_to_commit_index
         /\ n.lost = m.lost
         /\ \A p \in Paths : tree[p] \notin Marked => IndexedContent(n, p) \in Held(tree[p])
<1> DEFINE S == {p \in Paths : tree[p] \in (Texts \ Marked) \cup {Empty}} \cup decoded
           texts == SetToSeq(S)
           ids == PlacesIn(texts)
           contents == [id \in {i - 1 : i \in DOMAIN texts} |-> LinesOf(tree[texts[id + 1]])]
<1> USE DEF BinaryFiles
<1>1. m \in Memories /\ Tables(m)
  BY ShapeFacts
<1>2. IsFiniteSet(S)
  BY WalkAssumption, FS_Subset
<1> HIDE DEF S
<1>3. Cardinality(S) \in Nat /\ texts \in [1..Cardinality(S) -> S] /\ IsInjective(texts)
  <2>1. Cardinality(S) \in Nat /\ \E f \in [1..Cardinality(S) -> S] : IsInjective(f)
    BY <1>2, FS_CardinalityType DEF ExistsBijection, Bijection, Injection, IsInjective
  <2> QED BY <2>1 DEF SetToSeq
<1>4. \A x \in S : \E i \in DOMAIN texts : texts[i] = x
  <2>1. texts \in Injection(1..Cardinality(S), S)
    BY <1>3 DEF Injection, IsInjective
  <2>2. IsFiniteSet(1..Cardinality(S)) /\ Cardinality(1..Cardinality(S)) = Cardinality(S)
    BY <1>3, FS_Interval
  <2>3. texts \in Surjection(1..Cardinality(S), S)
    BY <1>2, <2>1, <2>2, FS_Injection
  <2> QED BY <1>3, <2>3 DEF Surjection
<1> HIDE DEF texts
<1>5. S \subseteq Paths
  BY DEF S
<1>6. texts \in Seq(Paths) /\ DOMAIN texts = 1..Len(texts) /\ Len(texts) \in Nat
  BY <1>3, <1>5
<1>7. \A i, j \in DOMAIN texts : texts[i] = texts[j] => i = j
  BY <1>3 DEF IsInjective
<1>8. DOMAIN ids = S
  <2>1. DOMAIN ids = {texts[i] : i \in DOMAIN texts}
    BY DEF PlacesIn
  <2> QED BY <1>3, <1>4, <2>1
<1>9. \A i \in DOMAIN texts : ids[texts[i]] = i - 1
  <2>1. ASSUME NEW i \in DOMAIN texts PROVE ids[texts[i]] = i - 1
    <3>1. \A j \in DOMAIN texts : texts[j] = texts[i] => j <= i
      BY <1>6, <1>7
    <3>2. LastPlace(texts, texts[i]) = i - 1
      BY <1>6, <3>1, LastPlaceIs
    <3> QED BY <3>2 DEF PlacesIn
  <2> QED BY <2>1
<1> HIDE DEF ids
<1>10. FilesAgree(texts, ids)
  <2>1. DOMAIN ids = {texts[i] : i \in DOMAIN texts}
    BY <1>3, <1>4, <1>8
  <2>2. ASSUME NEW p \in DOMAIN ids
        PROVE  /\ ids[p] + 1 \in DOMAIN texts
               /\ \A j \in DOMAIN texts : texts[j] = p <=> j = ids[p] + 1
    <3>1. PICK i \in DOMAIN texts : texts[i] = p
      BY <1>4, <1>8
    <3>2. ids[p] + 1 = i
      BY <1>6, <1>9, <3>1
    <3> QED BY <1>7, <3>1, <3>2
  <2> QED BY <2>1, <2>2 DEF FilesAgree
<1>11. ids \in Maps(Paths, Nat)
  <2>1. \A p \in S : ids[p] \in Nat
    BY <1>4, <1>6, <1>9
  <2>2. ids = [x \in DOMAIN ids |-> ids[x]]
    BY PlacesInFunction DEF ids
  <2>3. ids \in [S -> Nat]
    BY <1>8, <2>1, <2>2
  <2> QED BY <1>5, <1>8, <2>3, MapsElement
<1>12. /\ contents \in Maps(Nat, Contents)
       /\ DOMAIN contents = 0..(Len(texts) - 1)
       /\ \A i \in DOMAIN texts : contents[i - 1] = LinesOf(tree[texts[i]])
  <2>1. DOMAIN contents = 0..(Len(texts) - 1)
    <3>1. DOMAIN contents = {i - 1 : i \in DOMAIN texts}
      OBVIOUS
    <3> HIDE DEF contents
    <3>2. \A k \in 0..(Len(texts) - 1) : k + 1 \in DOMAIN texts /\ (k + 1) - 1 = k
      BY <1>6
    <3>3. \A i \in DOMAIN texts : i - 1 \in 0..(Len(texts) - 1)
      BY <1>6
    <3> QED BY <3>1, <3>2, <3>3
  <2>2. \A i \in DOMAIN texts : contents[i - 1] = LinesOf(tree[texts[i]])
    BY <1>6
  <2>3. \A i \in DOMAIN texts : LinesOf(tree[texts[i]]) \in Contents
    BY <1>3 DEF LinesOf, Contents, S
  <2>4. \A id \in DOMAIN contents : id + 1 \in DOMAIN texts
    BY <1>6, <2>1
  <2>5. \A id \in DOMAIN contents : contents[id] \in Contents
    BY <2>3, <2>4
  <2>6. contents \in [DOMAIN contents -> Contents]
    BY <2>5
  <2>7. DOMAIN contents \subseteq Nat
    BY <1>6, <2>1
  <2> HIDE DEF contents
  <2> QED BY <2>1, <2>2, <2>6, <2>7, MapsElement
<1> HIDE DEF contents
<1>13. n = [m EXCEPT !.file_id_to_path = texts, !.file_name_to_id = ids,
                     !.contents = contents, !.ignored = opaque]
  BY DEF IndexTree, texts, ids, contents, S
<1>14. /\ n.commit_index_to_commit_id = m.commit_index_to_commit_id
       /\ n.commit_id_to_commit_index = m.commit_id_to_commit_index
       /\ n.lost = m.lost
       /\ n.file_id_to_path = texts
       /\ n.file_name_to_id = ids
       /\ n.contents = contents
       /\ n \in Memories
  BY <1>1, <1>6, <1>11, <1>12, <1>13 DEF Memories
<1>15. Shape(n)
  <2>1. Tables(n)
    BY <1>1, <1>10, <1>14 DEF Tables
  <2> QED BY <1>12, <1>14, <2>1 DEF Shape
<1>16. ASSUME NEW p \in Paths, tree[p] \notin Marked PROVE IndexedContent(n, p) \in Held(tree[p])
  <2>1. CASE p \in S
    <3>1. PICK i \in DOMAIN texts : texts[i] = p
      BY <1>4, <2>1
    <3>2. ids[p] = i - 1 /\ i - 1 \in DOMAIN contents /\ contents[i - 1] = LinesOf(tree[p])
      BY <1>6, <1>9, <1>12, <3>1
    <3>3. IndexedContent(n, p) = LinesOf(tree[p])
      BY <1>8, <1>14, <2>1, <3>2 DEF IndexedContent, ContentOf
    <3> QED BY <3>3, HeldFacts
  <2>2. CASE p \notin S
    <3>1. tree[p] \in Texts \cup {Absent, Empty, Binary}
      BY WalkAssumption
    <3>2. tree[p] \in {Absent, Binary}
      BY <1>16, <2>2, <3>1 DEF S
    <3>3. IndexedContent(n, p) = Absent
      BY <1>8, <1>14, <2>2 DEF IndexedContent
    <3> QED BY <3>2, <3>3 DEF Held, LinesOf
  <2> QED BY <2>1, <2>2
<1> QED BY <1>14, <1>15, <1>16


-----------------------------------------------------------------------------
(* Steps.                                                                  *)

LEMMA LastRecordedFacts ==
  ASSUME NEW m, Shape(m)
  PROVE  /\ ~ NothingRecorded(m) => LastRecorded(m) \in Recorded(m)
         /\ ~ NothingRecorded(m) => m.commit_index_to_commit_id[1] \in Recorded(m)
         /\ Recorded(m) # {} => ~ NothingRecorded(m)
<1> DEFINE places == m.commit_index_to_commit_id
<1>1. places \in Seq(Nat) /\ Recorded(m) = {places[i] : i \in DOMAIN places}
  BY ShapeFacts DEF Tables, CommitsAgree, Recorded
<1>2. places # <<>> => Len(places) \in DOMAIN places /\ 1 \in DOMAIN places
  BY <1>1
<1>3. Recorded(m) # {} => places # <<>>
  BY <1>1
<1> HIDE DEF places
<1>4. LastRecorded(m) = places[Len(places)] /\ (NothingRecorded(m) <=> places = <<>>)
  BY DEF LastRecorded, NothingRecorded, places
<1> QED BY <1>1, <1>2, <1>3, <1>4 DEF places

\* What is claimed of an indexer rests on these tables only.
LEMMA SameClaims ==
  ASSUME NEW g, NEW m, NEW n,
         n.commit_index_to_commit_id = m.commit_index_to_commit_id,
         n.commit_id_to_commit_index = m.commit_id_to_commit_index
  PROVE  /\ Recorded(n) = Recorded(m)
         /\ NothingRecorded(n) <=> NothingRecorded(m)
         /\ LastRecorded(n) = LastRecorded(m)
         /\ Covers(g, n) = Covers(g, m)
         /\ LeftOut(g, n) = LeftOut(g, m)
BY DEF Recorded, NothingRecorded, LastRecorded, Covers, MergedIn, LeftOut

\* A commit on top of c, as CommitTo makes it.
OneMore(g, c, tree, merged) ==
  Append(g, [tree |-> tree,
             line |-> g[c].line \cup {Len(g) + 1},
             past |-> g[c].past \cup {Len(g) + 1} \cup UNION {g[d].past : d \in merged}])

\* New commits leave what is recorded as good as it was.
Extends(h, g) == DOMAIN g \subseteq DOMAIN h /\ \A c \in DOMAIN g : h[c] = g[c]

LEMMA GraphGrows ==
  ASSUME NEW g, NEW h, Extends(h, g), NEW m, Shape(m), Closed(g, m)
  PROVE  /\ Covers(h, m) = Covers(g, m)
         /\ Known(h, m) = Known(g, m)
         /\ Closed(h, m)
         /\ UpToDate(g, m) => UpToDate(h, m)
         /\ ~ NothingRecorded(m) => h[LastRecorded(m)] = g[LastRecorded(m)]
<1>1. \A c \in Recorded(m) : c \in DOMAIN g /\ h[c] = g[c]
  BY DEF Closed, Extends
<1>2. Covers(h, m) = Covers(g, m)
  BY <1>1 DEF Covers, MergedIn, Recorded
<1>3. Closed(h, m)
  BY <1>1, <1>2 DEF Closed, Extends
<1>4. ~ NothingRecorded(m) => h[LastRecorded(m)] = g[LastRecorded(m)]
  BY <1>1, LastRecordedFacts
<1>5. LeftOut(h, m) = LeftOut(g, m)
  <2>1. ~ NothingRecorded(m) => h[m.commit_index_to_commit_id[1]] = g[m.commit_index_to_commit_id[1]]
    BY <1>1, LastRecordedFacts
  <2> QED BY <2>1 DEF LeftOut, NothingRecorded
<1>6. Known(h, m) = Known(g, m)
  BY <1>5 DEF Known
<1> QED BY <1>2, <1>3, <1>4, <1>6 DEF UpToDate, Follows

LEMMA GraphFacts ==
  ASSUME NEW g, Linear(g), NEW c \in DOMAIN g
  PROVE  /\ g[c].tree \in Trees /\ c \in Nat
         /\ c \in g[c].line /\ g[c].line \subseteq DOMAIN g
         /\ g[c].line \subseteq g[c].past /\ g[c].past \subseteq DOMAIN g
<1>1. /\ g \in Seq(Commits) /\ c \in g[c].line
      /\ g[c].line \subseteq g[c].past /\ g[c].past \subseteq 1..c
  BY DEF Linear
<1>2. Len(g) \in Nat /\ DOMAIN g = 1..Len(g) /\ g[c] \in Commits
  BY <1>1
<1>3. g[c].past \subseteq DOMAIN g /\ c \in Nat
  BY <1>1, <1>2
<1> QED BY <1>1, <1>2, <1>3 DEF Commits

LEMMA LinearAppend ==
  ASSUME NEW g, Linear(g), NEW c \in DOMAIN g, NEW tree \in Trees, NEW merged \in SUBSET DOMAIN g
  PROVE  /\ Linear(OneMore(g, c, tree, merged))
         /\ Extends(OneMore(g, c, tree, merged), g)
         /\ Len(g) + 1 \in DOMAIN OneMore(g, c, tree, merged)
<1> DEFINE line == g[c].line \cup {Len(g) + 1}
           past == g[c].past \cup {Len(g) + 1} \cup UNION {g[d].past : d \in merged}
           new == [tree |-> tree, line |-> line, past |-> past]
           h == OneMore(g, c, tree, merged)
<1>1. g \in Seq(Commits) /\ Len(g) \in Nat /\ DOMAIN g = 1..Len(g)
  BY DEF Linear
<1>2. \A d \in DOMAIN g :
        /\ d \in g[d].line /\ g[d].line \subseteq g[d].past
        /\ g[d].past \subseteq 1..d
        /\ \A e \in g[d].line : g[e].line = {x \in g[d].line : x <= e}
        /\ \A e \in g[d].past : g[e].past \subseteq g[d].past
  BY DEF Linear
<1>3. \A d \in DOMAIN g : g[d].past \subseteq DOMAIN g
  BY GraphFacts
<1>4. /\ line \subseteq past /\ Len(g) + 1 \in line
      /\ past \subseteq 1..(Len(g) + 1)
      /\ Len(g) + 1 \notin g[c].line
  <2>1. g[c].past \subseteq 1..Len(g)
    BY <1>1, <1>3
  <2>2. UNION {g[d].past : d \in merged} \subseteq 1..Len(g)
    BY <1>1, <1>3
  <2> QED BY <1>1, <1>2, <2>1, <2>2
<1>5. \A e \in past : e # Len(g) + 1 => e \in DOMAIN g /\ g[e].past \subseteq past
  <2>1. ASSUME NEW e \in g[c].past PROVE e \in DOMAIN g /\ g[e].past \subseteq g[c].past
    BY <1>2, <1>3
  <2>2. ASSUME NEW d \in merged, NEW e \in g[d].past PROVE e \in DOMAIN g /\ g[e].past \subseteq g[d].past
    BY <1>2, <1>3
  <2> QED BY <2>1, <2>2
<1> HIDE DEF line, past
<1>6. new \in Commits
  <2>1. past \subseteq Nat
    BY <1>1, <1>4
  <2> QED BY <1>4, <2>1 DEF Commits
<1>7. new.line = line /\ new.past = past
  OBVIOUS
<1> HIDE DEF new
<1>8. h = Append(g, new)
  BY DEF OneMore, new, line, past
<1> HIDE DEF h
<1>9. /\ h \in Seq(Commits)
      /\ DOMAIN h = DOMAIN g \cup {Len(g) + 1}
      /\ \A d \in DOMAIN g : h[d] = g[d]
      /\ h[Len(g) + 1] = new
  BY <1>1, <1>6, <1>8
<1>10. ASSUME NEW d \in DOMAIN h
       PROVE  /\ d \in h[d].line /\ h[d].line \subseteq h[d].past
              /\ h[d].past \subseteq 1..d
              /\ \A e \in h[d].line : h[e].line = {x \in h[d].line : x <= e}
              /\ \A e \in h[d].past : h[e].past \subseteq h[d].past
  <2>1. CASE d \in DOMAIN g
    BY <1>2, <1>3, <1>9, <2>1
  <2>2. CASE d = Len(g) + 1
    <3>1. h[d].line = line /\ h[d].past = past
      BY <1>7, <1>9, <2>2
    <3>2. ASSUME NEW e \in line PROVE h[e].line = {x \in line : x <= e}
      <4>1. line = g[c].line \cup {d} /\ \A x \in line : x \in Nat /\ x <= d
        <5>1. line = g[c].line \cup {d}
          BY <2>2 DEF line
        <5>2. line \subseteq 1..d /\ d \in Nat
          BY <1>1, <1>4, <2>2
        <5> QED BY <5>1, <5>2
      <4>2. CASE e = d
        BY <3>1, <4>1, <4>2
      <4>3. CASE e # d
        <5>1. e \in g[c].line /\ e \in DOMAIN g
          BY <1>2, <1>3, <4>1, <4>3
        <5>2. h[e].line = {x \in g[c].line : x <= e}
          BY <1>2, <1>9, <5>1
        <5>3. ~ (d <= e)
          BY <1>1, <2>2, <5>1
        <5> QED BY <4>1, <5>2, <5>3
      <4> QED BY <4>2, <4>3
    <3>3. ASSUME NEW e \in past PROVE h[e].past \subseteq past
      BY <1>5, <1>9, <2>2, <3>1
    <3> QED BY <1>4, <2>2, <3>1, <3>2, <3>3
  <2> QED BY <1>9, <2>1, <2>2
<1> QED BY <1>9, <1>10 DEF Linear, Extends, h

LEMMA CommitStep ==
  ASSUME Inductive, NEW tree \in Trees, NEW merged \in SUBSET DOMAIN graph, CommitTo(tree, merged)
  PROVE  Inductive'
<1>1. /\ graph' = OneMore(graph, head, tree, merged) /\ head' = Len(graph) + 1
      /\ UNCHANGED <<process, server, memory, walk, diff, target, saved>>
  BY DEF CommitTo, OneMore
<1>2. Linear(graph) /\ head \in DOMAIN graph
  BY DEF Inductive
<1>3. Linear(graph') /\ Extends(graph', graph) /\ head' \in DOMAIN graph'
  BY <1>1, <1>2, LinearAppend
<1>4. Shape(memory) /\ Closed(graph, memory)
  BY DEF Inductive
<1>5. /\ Closed(graph', memory') /\ Shape(memory')
      /\ Covers(graph', memory') = Covers(graph, memory)
      /\ Known(graph', memory') = Known(graph, memory)
  BY <1>1, <1>3, <1>4, GraphGrows
<1>6. SavedWell(graph', saved')
  BY <1>1, <1>3, GraphGrows DEF Inductive, SavedWell
<1>7. WalksOn(graph', process', memory', walk', target')
  BY <1>1, <1>3, <1>5 DEF Inductive, WalksOn, Extends
<1>8. Rests(graph', process', memory', target')
  BY <1>1, <1>3, <1>5 DEF Inductive, Rests, Extends
<1>9. Serves(process', server', memory')
  BY <1>1 DEF Inductive
<1>10. Applies(graph', process', memory', diff')
  BY <1>1, <1>3, <1>4, <1>5, GraphGrows DEF Inductive, Applies, Diffing
<1> QED BY <1>3, <1>5, <1>6, <1>7, <1>8, <1>9, <1>10 DEF Inductive


LEMMA MoveHeadStep ==
  ASSUME Inductive, NEW c \in DOMAIN graph, MoveHead(c)
  PROVE  Inductive'
BY DEF Inductive, MoveHead

\* A run may start with any tables that are closed and up to date.
LEMMA StartRunStep ==
  ASSUME Inductive, Shape(memory'), Closed(graph, memory'), UpToDate(graph, memory'),
         server' => ~ NothingRecorded(memory'), ~ server' => memory'.lost = {},
         diff = NoDiff, StartRun(memory')
  PROVE  Inductive'
<1> DEFINE m == memory'
<1>1. /\ walk' = Unvisited(m) /\ target' = head /\ process' = "walking"
      /\ UNCHANGED <<graph, head, diff, saved>>
  BY DEF StartRun
<1>2. graph[head].line \subseteq Covers(graph, m) \cup Unvisited(m)
  <2>1. CASE NothingRecorded(m)
    BY <2>1 DEF Unvisited, NothingRecorded
  <2>2. CASE ~ NothingRecorded(m)
    <3>1. LastRecorded(m) \in Recorded(m) /\ graph[LastRecorded(m)].line \subseteq Covers(graph, m)
      BY <2>2, LastRecordedFacts DEF Closed
    <3>2. graph[LastRecorded(m)].past \ graph[LastRecorded(m)].line \subseteq Covers(graph, m)
      BY <3>1 DEF Covers, MergedIn, Recorded
    <3> QED BY <3>1, <3>2 DEF Unvisited
  <2> QED BY <2>1, <2>2
<1>3. Unvisited(m) \subseteq graph[head].line
  BY DEF Unvisited
<1>4. WalksOn(graph', process', memory', walk', target')
  BY <1>1, <1>2, <1>3 DEF WalksOn, Inductive
<1>5. Rests(graph', process', memory', target')
  BY <1>1 DEF Rests
<1>6. Serves(process', server', memory')
  BY <1>1 DEF Serves
<1>7. Applies(graph', process', memory', diff')
  BY <1>1 DEF Applies
<1> QED BY <1>1, <1>4, <1>5, <1>6, <1>7 DEF Inductive

LEMMA RunStartsStep ==
  ASSUME Inductive,
         \/ IndexAfresh \/ LoadAndContinue
         \/ \E c \in DOMAIN graph : Reindex(c)
  PROVE  Inductive'
<1>1. CASE IndexAfresh
  <2>1. process = "down" /\ memory' = NewMemory /\ server' = FALSE /\ StartRun(memory')
    BY <1>1 DEF IndexAfresh
  <2>2. diff = NoDiff
    BY <2>1 DEF Inductive, Applies
  <2>3. Closed(graph, memory') /\ UpToDate(graph, memory')
    BY <2>1, NewMemoryFacts DEF Closed, UpToDate
  <2> QED BY <2>1, <2>2, <2>3, NewMemoryFacts, StartRunStep
<1>2. CASE LoadAndContinue
  <2>1. /\ process = "down" /\ saved.state = "whole"
        /\ memory' = FromSaved(saved.index) /\ server' = FALSE /\ StartRun(memory')
    BY <1>2 DEF LoadAndContinue, Loadable
  <2>2. diff = NoDiff
    BY <2>1 DEF Inductive, Applies
  <2>3. Shape(memory') /\ Closed(graph, memory') /\ UpToDate(graph, memory')
    BY <2>1 DEF Inductive, SavedWell
  <2>4. memory'.lost = {}
    BY <2>1 DEF FromSaved
  <2> QED BY <2>1, <2>2, <2>3, <2>4, StartRunStep
<1>3. ASSUME NEW c \in DOMAIN graph, Reindex(c) PROVE Inductive'
  <2>1. process = "ready" /\ server /\ StartRun(memory) /\ server' = server /\ memory' = memory
    BY <1>3 DEF Reindex
  <2>2. diff = NoDiff /\ UpToDate(graph, memory)
    BY <2>1 DEF Inductive, Applies
  <2>3. ~ NothingRecorded(memory) /\ Shape(memory) /\ Closed(graph, memory)
    BY <2>1 DEF Inductive, Serves
  <2>4. StartRun(memory')
    BY <2>1
  <2> QED BY <2>1, <2>2, <2>3, <2>4, StartRunStep
<1> QED BY <1>1, <1>2, <1>3

LEMMA LoadStep ==
  ASSUME Inductive, Load
  PROVE  Inductive'
<1>1. /\ process = "down" /\ saved.state = "whole"
      /\ memory' = FromSaved(saved.index) /\ server' \in BOOLEAN
      /\ target' = 0 /\ process' = "ready"
      /\ UNCHANGED <<graph, head, walk, diff, saved>>
  BY DEF Load, Loadable
<1>2. Shape(memory') /\ Closed(graph, memory') /\ UpToDate(graph, memory') /\ ~ NothingRecorded(memory')
  BY <1>1 DEF Inductive, SavedWell
<1>3. memory'.lost = {}
  BY <1>1 DEF FromSaved
<1>4. Rests(graph', process', memory', target') /\ WalksOn(graph', process', memory', walk', target')
  BY <1>1, <1>2 DEF Rests, WalksOn
<1>5. Serves(process', server', memory')
  BY <1>1, <1>2, <1>3 DEF Serves
<1>6. Applies(graph', process', memory', diff')
  BY <1>1, <1>2 DEF Inductive, Applies
<1> QED BY <1>1, <1>2, <1>4, <1>5, <1>6 DEF Inductive

\* Whoever ends, ends with nothing.
LEMMA ForgetStep ==
  ASSUME Inductive, Forget, UNCHANGED <<graph, head, saved>>
  PROVE  Inductive'
<1>1. /\ process' = "down" /\ memory' = NewMemory /\ server' = FALSE /\ diff' = NoDiff
      /\ UNCHANGED <<graph, head, saved>>
  BY DEF Forget
<1>2. Closed(graph', memory') /\ UpToDate(graph', memory') /\ Shape(memory')
  BY <1>1, NewMemoryFacts DEF Closed, UpToDate
<1>3. /\ WalksOn(graph', process', memory', walk', target')
      /\ Rests(graph', process', memory', target')
      /\ Serves(process', server', memory')
      /\ Applies(graph', process', memory', diff')
  BY <1>1, <1>2, NewMemoryFacts DEF WalksOn, Rests, Serves, Applies
<1> QED BY <1>1, <1>2, <1>3 DEF Inductive

LEMMA FinishRunStep ==
  ASSUME Inductive, FinishRun
  PROVE  Inductive'
<1>1. /\ process = "walking" /\ walk = {} /\ process' = "ready"
      /\ UNCHANGED <<graph, head, server, memory, walk, diff, target, saved>>
  BY DEF FinishRun
<1>2. target \in DOMAIN graph /\ graph[target].line \subseteq Covers(graph, memory)
  BY <1>1 DEF Inductive, WalksOn
<1>3. target \in graph[target].line
  BY <1>2 DEF Inductive, Linear
<1>4. ~ NothingRecorded(memory)
  <2>1. Recorded(memory) # {}
    BY <1>2, <1>3 DEF Covers, MergedIn, Recorded
  <2> QED BY <2>1, LastRecordedFacts DEF Inductive
<1>5. /\ WalksOn(graph', process', memory', walk', target')
      /\ Rests(graph', process', memory', target')
  BY <1>1, <1>2, <1>4 DEF WalksOn, Rests
<1>6. /\ Serves(process', server', memory')
      /\ Applies(graph', process', memory', diff')
  BY <1>1 DEF Inductive, Serves, Applies
<1> QED BY <1>1, <1>5, <1>6 DEF Inductive

LEMMA SaveStep ==
  ASSUME Inductive, BeginSave \/ EndSave
  PROVE  Inductive'
<1>1. /\ process \in {"ready", "saving"} /\ ~ server /\ process' \in {"saving", "done"}
      /\ UNCHANGED <<graph, head, server, memory, walk, diff, target>>
  BY DEF BeginSave, EndSave, Inductive, Serves
<1>2. UpToDate(graph, memory) /\ ~ NothingRecorded(memory) /\ memory.lost = {}
      /\ Shape(memory) /\ Closed(graph, memory)
  BY <1>1 DEF Inductive, Applies, Rests, Serves
<1>3. SavedWell(graph, saved')
  <2>1. CASE saved'.state = "torn" \/ saved' = saved
    BY <2>1 DEF Inductive, SavedWell
  <2>2. CASE saved' = [state |-> "whole", index |-> ToSaved(memory)]
    <3>1. FromSaved(saved'.index) = memory
      BY <1>2, <2>2, SavedIsLoaded
    <3> QED BY <1>2, <3>1 DEF SavedWell
  <2> QED BY <2>1, <2>2 DEF BeginSave, EndSave
<1>4. /\ WalksOn(graph', process', memory', walk', target')
      /\ Rests(graph', process', memory', target')
      /\ Serves(process', server', memory')
      /\ Applies(graph', process', memory', diff')
  BY <1>1 DEF Inductive, WalksOn, Rests, Serves, Applies
<1> QED BY <1>1, <1>3, <1>4 DEF Inductive


\* Contents are typed.
LEMMA TreeFacts ==
  ASSUME NEW tree \in Trees, NEW p \in Paths
  PROVE  tree[p] \in Contents /\ LinesOf(tree[p]) \in Contents
BY WalkAssumption DEF Contents, LinesOf

\* Before the first callback.
LEMMA NewDiffFacts ==
  ASSUME NEW g, NEW m, Shape(m), NEW old \in Trees, NEW new \in Trees, Follows(g, m, old)
  PROVE  Diffing(g, m, NewDiff(old, new))
<1> DEFINE d == NewDiff(old, new)
<1>1. d.old = old /\ d.new = new /\ d.rest = {p \in Paths : old[p] # new[p]}
      /\ d.current = <<>> /\ d.due = <<>> /\ d.pending = <<>>
  BY DEF NewDiff
<1>2. d \in Diffs
  BY DEF NewDiff, Diffs
<1> HIDE DEF d
<1>3. ASSUME NEW p \in Known(g, m) PROVE InDiff(m, d, p)
  <2>1. ~ Owner(m, d, p)
    BY <1>1 DEF Owner
  <2>2. IndexedContent(m, p) \in Held(old[p])
    BY DEF Follows
  <2>3. p \in Paths
    BY DEF Known
  <2> QED BY <1>1, <2>1, <2>2, <2>3 DEF InDiff
<1> QED BY <1>1, <1>2, <1>3 DEF Diffing, d

LEMMA RecordCommitStep ==
  ASSUME Inductive, RecordCommit
  PROVE  Inductive'
<1>1. PICK c \in walk :
        /\ IsNext(c)
        /\ walk' = walk \ {c}
        /\ LET recorded == RecordIn(memory, c)
               binary   == {p \in Paths : graph[c].tree[p] = Binary}
           IN  IF memory.commit_index_to_commit_id = <<>>
               THEN /\ \E opaque \in SUBSET binary : \E decoded \in SUBSET (binary \ opaque) :
                         memory' = IndexTree(recorded, graph[c].tree, opaque, decoded)
                    /\ UNCHANGED <<process, diff>>
               ELSE /\ memory' = recorded
                    /\ diff' = NewDiff(graph[LastRecorded(memory)].tree, graph[c].tree)
                    /\ process' = "diffing"
  BY DEF RecordCommit
<1>2. process = "walking" /\ UNCHANGED <<graph, head, server, target, saved>>
  BY DEF RecordCommit
<1>3. /\ Linear(graph) /\ Shape(memory) /\ Closed(graph, memory)
      /\ target \in DOMAIN graph
      /\ walk \subseteq graph[target].line
      /\ graph[target].line \subseteq Covers(graph, memory) \cup walk
      /\ diff = NoDiff /\ UpToDate(graph, memory)
      /\ Serves(process, server, memory)
  BY <1>2 DEF Inductive, WalksOn, Applies
<1>4. c \in DOMAIN graph /\ c \in Nat /\ graph[c].tree \in Trees
  <2>1. c \in graph[target].line
    BY <1>3
  <2> QED BY <1>3, <2>1, GraphFacts
<1>5. graph[c].line \subseteq Covers(graph, memory) \cup {c}
  <2>1. graph[c].line = {e \in graph[target].line : e <= c}
    BY <1>3 DEF Linear
  <2>2. \A e \in walk : e \in Nat
    BY <1>3, GraphFacts
  <2>3. ASSUME NEW e \in walk, e <= c PROVE e = c
    BY <1>1, <1>4, <2>2, <2>3 DEF IsNext
  <2> QED BY <1>3, <2>1, <2>3
<1> DEFINE n == RecordIn(memory, c)
<1>6. /\ Shape(n)
      /\ Recorded(n) = Recorded(memory) \cup {c}
      /\ ~ NothingRecorded(n)
      /\ LastRecorded(n) = c
      /\ ~ NothingRecorded(memory) =>
           n.commit_index_to_commit_id[1] = memory.commit_index_to_commit_id[1]
      /\ n.ignored = memory.ignored /\ n.lost = memory.lost
      /\ n.file_id_to_path = memory.file_id_to_path
      /\ n.file_name_to_id = memory.file_name_to_id
      /\ n.contents = memory.contents
  BY <1>3, <1>4, RecordInFacts
<1> HIDE DEF n
<1>7. /\ Shape(memory')
      /\ Recorded(memory') = Recorded(n)
      /\ ~ NothingRecorded(memory')
      /\ LastRecorded(memory') = c
      /\ memory'.lost = memory.lost
      /\ Applies(graph, process', memory', diff')
      /\ process' \in {"walking", "diffing"}
  <2>1. CASE NothingRecorded(memory)
    <3> DEFINE tree == graph[c].tree
    <3>1. PICK opaque \in SUBSET BinaryFiles(tree) : \E decoded \in SUBSET (BinaryFiles(tree) \ opaque) :
            memory' = IndexTree(n, tree, opaque, decoded)
      BY <1>1, <2>1 DEF n, NothingRecorded, BinaryFiles
    <3>2. process' = "walking" /\ diff' = NoDiff
      BY <1>1, <1>2, <1>3, <2>1 DEF NothingRecorded
    <3>3. /\ Shape(memory')
          /\ memory'.commit_index_to_commit_id = n.commit_index_to_commit_id
          /\ memory'.commit_id_to_commit_index = n.commit_id_to_commit_index
          /\ memory'.lost = n.lost
          /\ \A p \in Paths : tree[p] \notin Marked => IndexedContent(memory', p) \in Held(tree[p])
      <4>1. PICK decoded \in SUBSET (BinaryFiles(tree) \ opaque) : memory' = IndexTree(n, tree, opaque, decoded)
        BY <3>1
      <4>2. Shape(n) /\ tree \in Trees /\ decoded \in SUBSET BinaryFiles(tree)
        BY <1>4, <1>6
      <4> HIDE DEF tree
      <4> QED BY <4>1, <4>2, IndexTreeFacts
    <3>4. /\ Recorded(memory') = Recorded(n) /\ ~ NothingRecorded(memory')
          /\ LastRecorded(memory') = c
      BY <1>6, <3>3, SameClaims
    <3>5. UpToDate(graph, memory')
      <4>1. memory'.commit_index_to_commit_id # <<>> /\ memory'.commit_index_to_commit_id[1] = c
        BY <1>6, <2>1, <3>3 DEF n, RecordIn, NothingRecorded
      <4>2. \A p \in Known(graph, memory') : p \in Paths /\ graph[c].tree[p] \notin Marked
        BY <4>1 DEF Known, LeftOut
      <4> QED BY <3>3, <3>4, <4>2 DEF UpToDate, Follows
    <3> QED BY <1>6, <3>2, <3>3, <3>4, <3>5 DEF Applies
  <2>2. CASE ~ NothingRecorded(memory)
    <3>1. /\ memory' = n /\ process' = "diffing"
          /\ diff' = NewDiff(graph[LastRecorded(memory)].tree, graph[c].tree)
      BY <1>1, <2>2 DEF n, NothingRecorded
    <3>2. LastRecorded(memory) \in DOMAIN graph /\ graph[LastRecorded(memory)].tree \in Trees
      BY <1>3, <2>2, LastRecordedFacts, GraphFacts DEF Closed
    <3>3. Follows(graph, n, graph[LastRecorded(memory)].tree)
      <4>1. Known(graph, n) = Known(graph, memory)
        BY <1>6, <2>2 DEF Known, LeftOut, NothingRecorded
      <4> QED BY <1>3, <1>6, <2>2, <4>1 DEF UpToDate, Follows, IndexedContent, ContentOf
    <3>4. Diffing(graph, n, diff')
      BY <1>4, <1>6, <3>1, <3>2, <3>3, NewDiffFacts
    <3>5. diff'.new = graph[c].tree
      BY <3>1 DEF NewDiff
    <3> QED BY <1>6, <3>1, <3>4, <3>5 DEF Applies
  <2> QED BY <2>1, <2>2
<1>8. Covers(graph, memory) \cup {c} \subseteq Covers(graph, memory')
  BY <1>6, <1>7 DEF Covers, MergedIn, Recorded
<1>9. /\ Closed(graph, memory')
      /\ WalksOn(graph', process', memory', walk', target')
  <2>1. Closed(graph, memory')
    BY <1>3, <1>4, <1>5, <1>6, <1>7, <1>8 DEF Closed
  <2>2. WalksOn(graph', process', memory', walk', target')
    BY <1>1, <1>2, <1>3, <1>8 DEF WalksOn
  <2> QED BY <2>1, <2>2
<1>10. Rests(graph', process', memory', target') /\ Serves(process', server', memory')
  BY <1>2, <1>3, <1>7 DEF Rests, Serves
<1> QED BY <1>2, <1>7, <1>9, <1>10 DEF Inductive


-----------------------------------------------------------------------------
(* The callbacks.                                                          *)

\* The parts of a diff, typed.
LEMMA DiffFacts ==
  ASSUME NEW d \in Diffs
  PROVE  /\ d.old \in Trees /\ d.new \in Trees /\ d.rest \subseteq Paths
         /\ d.current \in Seq(Files) /\ d.due \in Seq(Hunks) /\ d.pending \in Seq(Hunks)
BY DEF Diffs

LEMMA HunkFacts ==
  ASSUME NEW a, NEW b, LinesOf(a) \in Contents, LinesOf(b) \in Contents
  PROVE  /\ HunksBetween(a, b) \in Seq(Hunks)
         /\ HunksBetween(a, b) = <<>> <=> LinesOf(a) = LinesOf(b)
         /\ HunksBetween(a, b) # <<>> =>
              Applied(HunksBetween(a, b)[1], Status(a, b), LinesOf(a)) = LinesOf(b)
<1>1. CASE LinesOf(a) = LinesOf(b)
  BY <1>1 DEF HunksBetween
<1>2. CASE LinesOf(a) # LinesOf(b)
  <2> DEFINE hunk == [old |-> LinesOf(a), new |-> LinesOf(b)]
  <2>1. HunksBetween(a, b) = <<hunk>>
    BY <1>2 DEF HunksBetween
  <2>2. hunk \in Hunks
    BY DEF Hunks
  <2>3. hunk.old = LinesOf(a) /\ hunk.new = LinesOf(b)
    OBVIOUS
  <2> HIDE DEF hunk
  <2>4. HunksBetween(a, b)[1] = hunk /\ HunksBetween(a, b) # <<>> /\ HunksBetween(a, b) \in Seq(Hunks)
    BY <2>1, <2>2
  <2>5. Status(a, b) = "deleted" => LinesOf(b) = Absent
    BY DEF Status, LinesOf, Absent, Empty, Binary
  <2>6. Applied(hunk, Status(a, b), LinesOf(a)) = LinesOf(b)
    BY <2>3, <2>5 DEF Applied
  <2> QED BY <1>2, <2>4, <2>6
<1> QED BY <1>1, <1>2

\* Once the gathered hunks are applied, the files before the next one are as in the
\* new tree, and the others as in the old.
LEMMA FlushSettles ==
  ASSUME NEW g, NEW m, Shape(m), NEW d, Diffing(g, m, d), d.due = <<>>, NEW n, n = Flush(m, d)
  PROVE  /\ Shape(n)
         /\ n.commit_index_to_commit_id = m.commit_index_to_commit_id
         /\ n.commit_id_to_commit_index = m.commit_id_to_commit_index
         /\ n.file_id_to_path = m.file_id_to_path
         /\ n.file_name_to_id = m.file_name_to_id
         /\ n.ignored = m.ignored /\ n.lost = m.lost
         /\ \A p \in Known(g, m) :
              IndexedContent(n, p) \in Held(IF p \in d.rest THEN d.old[p] ELSE d.new[p])
<1>1. /\ d \in Diffs
      /\ d.pending # <<>> => d.current # <<>> /\ d.current[1].id < Len(m.file_id_to_path)
      /\ \A p \in Known(g, m) : InDiff(m, d, p)
  BY DEF Diffing
<1>2. /\ Shape(n)
      /\ n.commit_index_to_commit_id = m.commit_index_to_commit_id
      /\ n.commit_id_to_commit_index = m.commit_id_to_commit_index
      /\ n.file_id_to_path = m.file_id_to_path
      /\ n.file_name_to_id = m.file_name_to_id
      /\ n.ignored = m.ignored /\ n.lost = m.lost
      /\ \A p \in Paths :
           IndexedContent(n, p) =
             IF /\ d.pending # <<>> /\ p \in DOMAIN m.file_name_to_id
                /\ m.file_name_to_id[p] = d.current[1].id
             THEN Applied(d.pending[1], d.current[1].status, IndexedContent(m, p))
             ELSE IndexedContent(m, p)
  BY <1>1, FlushFacts
<1>3. ASSUME NEW p \in Known(g, m)
      PROVE  IndexedContent(n, p) \in Held(IF p \in d.rest THEN d.old[p] ELSE d.new[p])
  <2>1. p \in Paths /\ InDiff(m, d, p)
    BY <1>1 DEF Known
  <2>2. Owner(m, d, p) <=> /\ d.pending # <<>> /\ p \in DOMAIN m.file_name_to_id
                           /\ m.file_name_to_id[p] = d.current[1].id
    BY <1>1 DEF Owner
  <2>3. CASE Owner(m, d, p)
    <3>1. /\ p \notin d.rest
          /\ IndexedContent(m, p) = LinesOf(d.old[p])
          /\ d.pending = HunksBetween(d.old[p], d.new[p])
          /\ d.current[1].status = Status(d.old[p], d.new[p])
      BY <2>1, <2>3 DEF InDiff, Gathered
    <3>2. LinesOf(d.old[p]) \in Contents /\ LinesOf(d.new[p]) \in Contents
      BY <1>1, <2>1, DiffFacts, TreeFacts
    <3>3. IndexedContent(n, p) = Applied(d.pending[1], d.current[1].status, IndexedContent(m, p))
      BY <1>2, <2>1, <2>2, <2>3
    <3>4. Applied(HunksBetween(d.old[p], d.new[p])[1], Status(d.old[p], d.new[p]), LinesOf(d.old[p]))
            = LinesOf(d.new[p])
      BY <2>2, <2>3, <3>1, <3>2, HunkFacts
    <3>5. IndexedContent(n, p) = LinesOf(d.new[p])
      BY <3>1, <3>3, <3>4
    <3> QED BY <3>1, <3>5, HeldFacts
  <2>4. CASE ~ Owner(m, d, p)
    <3>1. IndexedContent(n, p) = IndexedContent(m, p)
      BY <1>2, <2>1, <2>2, <2>4
    <3> QED BY <2>1, <2>4, <3>1 DEF InDiff
  <2> QED BY <2>3, <2>4
<1> QED BY <1>2, <1>3

LEMMA EndDiffStep ==
  ASSUME Inductive, EndDiff
  PROVE  Inductive'
<1>1. /\ process = "diffing" /\ diff.rest = {} /\ diff.due = <<>>
      /\ memory' = Flush(memory, diff) /\ diff' = NoDiff /\ process' = "walking"
      /\ UNCHANGED <<graph, head, server, walk, target, saved>>
  BY DEF EndDiff
<1>2. /\ ~ NothingRecorded(memory) /\ diff.new = graph[LastRecorded(memory)].tree
      /\ Diffing(graph, memory, diff) /\ Shape(memory) /\ Closed(graph, memory)
  BY <1>1 DEF Inductive, Applies
<1>3. /\ Shape(memory')
      /\ memory'.commit_index_to_commit_id = memory.commit_index_to_commit_id
      /\ memory'.commit_id_to_commit_index = memory.commit_id_to_commit_index
      /\ memory'.ignored = memory.ignored /\ memory'.lost = memory.lost
      /\ \A p \in Known(graph, memory) :
           IndexedContent(memory', p) \in Held(IF p \in diff.rest THEN diff.old[p] ELSE diff.new[p])
  BY <1>1, <1>2, FlushSettles
<1>4. /\ Recorded(memory') = Recorded(memory) /\ ~ NothingRecorded(memory')
      /\ LastRecorded(memory') = LastRecorded(memory)
      /\ Covers(graph, memory') = Covers(graph, memory)
      /\ Known(graph, memory') = Known(graph, memory)
  BY <1>2, <1>3, SameClaims DEF Known
<1>5. UpToDate(graph, memory')
  BY <1>1, <1>2, <1>3, <1>4 DEF UpToDate, Follows
<1>6. Closed(graph, memory')
  BY <1>2, <1>4 DEF Closed
<1>7. /\ WalksOn(graph', process', memory', walk', target')
      /\ Rests(graph', process', memory', target')
      /\ Serves(process', server', memory')
      /\ Applies(graph', process', memory', diff')
  BY <1>1, <1>3, <1>4, <1>5 DEF Inductive, WalksOn, Rests, Serves, Applies
<1> QED BY <1>1, <1>3, <1>6, <1>7 DEF Inductive

LEMMA HunkCallbackStep ==
  ASSUME Inductive, HunkCallback
  PROVE  Inductive'
<1>1. /\ process = "diffing" /\ diff.due # <<>>
      /\ diff' = [diff EXCEPT !.due = <<>>, !.pending = IF diff.current = <<>> THEN diff.pending ELSE diff.due]
      /\ UNCHANGED <<graph, head, process, server, memory, walk, target, saved>>
  BY DEF HunkCallback
<1>2. Diffing(graph, memory, diff)
  BY <1>1 DEF Inductive, Applies
<1>3. diff \in Diffs /\ diff.pending = <<>>
  BY <1>1, <1>2 DEF Diffing
<1>4. /\ diff'.old = diff.old /\ diff'.new = diff.new /\ diff'.rest = diff.rest
      /\ diff'.current = diff.current /\ diff'.due = <<>>
      /\ diff'.pending = IF diff.current = <<>> THEN diff.pending ELSE diff.due
      /\ diff' \in Diffs
  BY <1>1, <1>3 DEF Diffs
<1>5. ASSUME NEW p \in Known(graph, memory), InDiff(memory, diff, p) PROVE InDiff(memory, diff', p)
  <2>1. Owner(memory, diff', p) <=> Owner(memory, diff, p)
    BY <1>1, <1>3, <1>4 DEF Owner
  <2>2. Owner(memory, diff, p) => Gathered(diff') = Gathered(diff)
    BY <1>1, <1>4 DEF Owner, Gathered
  <2> QED BY <1>4, <1>5, <2>1, <2>2 DEF InDiff
<1>6. Diffing(graph, memory, diff')
  BY <1>2, <1>3, <1>4, <1>5 DEF Diffing
<1>7. Applies(graph', process', memory', diff')
  BY <1>1, <1>4, <1>6 DEF Inductive, Applies
<1> QED BY <1>1, <1>7 DEF Inductive


\* The sets of paths that nothing is claimed about matter to no table.
LEMMA SameTables ==
  ASSUME NEW m, Shape(m), NEW n \in Memories,
         n.commit_index_to_commit_id = m.commit_index_to_commit_id,
         n.commit_id_to_commit_index = m.commit_id_to_commit_index,
         n.file_id_to_path = m.file_id_to_path,
         n.file_name_to_id = m.file_name_to_id,
         n.contents = m.contents
  PROVE  /\ Shape(n)
         /\ \A p : IndexedContent(n, p) = IndexedContent(m, p)
BY DEF Shape, Tables, IndexedContent, ContentOf

LEMMA BinaryFileStep ==
  ASSUME Inductive, NEW p \in Paths, FileCallback(p), Binary \in {diff.old[p], diff.new[p]}
  PROVE  Inductive'
<1>1. /\ process = "diffing" /\ p \in diff.rest
      /\ memory' = [memory EXCEPT !.ignored = @ \cup {p}]
      /\ diff' = [diff EXCEPT !.rest = @ \ {p}]
      /\ UNCHANGED <<graph, head, process, server, walk, target, saved>>
  BY DEF FileCallback
<1>2. /\ ~ NothingRecorded(memory) /\ diff.new = graph[LastRecorded(memory)].tree
      /\ Diffing(graph, memory, diff) /\ Shape(memory) /\ Closed(graph, memory)
  BY <1>1 DEF Inductive, Applies
<1>3. /\ memory' \in Memories
      /\ memory'.commit_index_to_commit_id = memory.commit_index_to_commit_id
      /\ memory'.commit_id_to_commit_index = memory.commit_id_to_commit_index
      /\ memory'.file_id_to_path = memory.file_id_to_path
      /\ memory'.file_name_to_id = memory.file_name_to_id
      /\ memory'.contents = memory.contents
      /\ memory'.ignored = memory.ignored \cup {p}
      /\ memory'.lost = memory.lost
  BY <1>1, <1>2, ShapeFacts DEF Memories
<1>4. /\ Shape(memory')
      /\ Recorded(memory') = Recorded(memory)
      /\ NothingRecorded(memory') <=> NothingRecorded(memory)
      /\ LastRecorded(memory') = LastRecorded(memory)
      /\ Covers(graph, memory') = Covers(graph, memory)
      /\ \A q : IndexedContent(memory', q) = IndexedContent(memory, q)
      /\ Known(graph, memory') = Known(graph, memory) \ {p}
  <2>1. Known(graph, memory') = Known(graph, memory) \ {p}
    BY <1>3, SameClaims DEF Known
  <2> QED BY <1>2, <1>3, <2>1, SameTables, SameClaims
<1>5. diff \in Diffs
  BY <1>2 DEF Diffing
<1>6. /\ diff'.old = diff.old /\ diff'.new = diff.new /\ diff'.rest = diff.rest \ {p}
      /\ diff'.current = diff.current /\ diff'.due = diff.due /\ diff'.pending = diff.pending
      /\ diff' \in Diffs
  BY <1>1, <1>5 DEF Diffs
<1>7. ASSUME NEW q \in Known(graph, memory') PROVE InDiff(memory', diff', q)
  <2>1. q \in Known(graph, memory) /\ q # p /\ InDiff(memory, diff, q)
    BY <1>2, <1>4, <1>7 DEF Diffing
  <2>2. IndexedContent(memory', q) = IndexedContent(memory, q)
    BY <1>4
  <2>3. Owner(memory', diff', q) <=> Owner(memory, diff, q)
    BY <1>3, <1>6 DEF Owner
  <2>4. Gathered(diff') = Gathered(diff)
    BY <1>6 DEF Gathered
  <2> QED BY <1>6, <2>1, <2>2, <2>3, <2>4 DEF InDiff
<1>8. Diffing(graph, memory', diff')
  BY <1>2, <1>3, <1>6, <1>7 DEF Diffing
<1>9. Closed(graph, memory')
  BY <1>2, <1>4 DEF Closed
<1>10. /\ WalksOn(graph', process', memory', walk', target')
       /\ Rests(graph', process', memory', target')
       /\ Serves(process', server', memory')
       /\ Applies(graph', process', memory', diff')
  BY <1>1, <1>2, <1>3, <1>4, <1>6, <1>8 DEF Inductive, WalksOn, Rests, Serves, Applies
<1> QED BY <1>1, <1>4, <1>9, <1>10 DEF Inductive

\* What the tables n are after the file callback for p, with p as the current file.
CalledFor(g, m, d, p, n) ==
  /\ Shape(n)
  /\ n.commit_index_to_commit_id = m.commit_index_to_commit_id
  /\ n.commit_id_to_commit_index = m.commit_id_to_commit_index
  /\ n.ignored = m.ignored /\ n.lost = m.lost
  /\ \A q \in Known(g, m) :
       IndexedContent(n, q) \in Held(IF q \in d.rest THEN d.old[q] ELSE d.new[q])
  /\ IF p \in m.ignored
     THEN Current(m, d, p) = <<>>
     ELSE /\ p \in DOMAIN n.file_name_to_id
          /\ Current(m, d, p) = << [id |-> n.file_name_to_id[p], status |-> Status(d.old[p], d.new[p])] >>

LEMMA TextFileFacts ==
  ASSUME NEW g, NEW m, Shape(m), NEW d, Diffing(g, m, d), d.due = <<>>, NEW p \in Paths,
         NEW n, n = TextFile(m, d, p)
  PROVE  CalledFor(g, m, d, p, n)
<1> DEFINE f == Flush(m, d)
<1>1. /\ Shape(f)
      /\ f.commit_index_to_commit_id = m.commit_index_to_commit_id
      /\ f.commit_id_to_commit_index = m.commit_id_to_commit_index
      /\ f.file_id_to_path = m.file_id_to_path
      /\ f.file_name_to_id = m.file_name_to_id
      /\ f.ignored = m.ignored /\ f.lost = m.lost
      /\ \A q \in Known(g, m) :
           IndexedContent(f, q) \in Held(IF q \in d.rest THEN d.old[q] ELSE d.new[q])
  BY FlushSettles
<1>2. n = Named(f, p)
  BY DEF TextFile
<1> HIDE DEF f
<1>3. CASE p \in m.ignored
  <2>1. n = f
    BY <1>1, <1>2, <1>3 DEF Named
  <2> QED BY <1>1, <1>3, <2>1 DEF Current, CalledFor
<1>4. CASE p \notin m.ignored
  <2>1. n = WithId(f, p)
    BY <1>1, <1>2, <1>4 DEF Named
  <2>2. /\ Shape(n)
        /\ n.commit_index_to_commit_id = f.commit_index_to_commit_id
        /\ n.commit_id_to_commit_index = f.commit_id_to_commit_index
        /\ n.ignored = f.ignored /\ n.lost = f.lost
        /\ DOMAIN n.file_name_to_id = DOMAIN f.file_name_to_id \cup {p}
        /\ \A q \in Paths : IndexedContent(n, q) = IndexedContent(f, q)
    BY <1>1, <2>1, WithIdFacts
  <2>3. n.file_name_to_id = WithId(m, p).file_name_to_id
    <3>1. f \in Memories /\ m \in Memories
      BY <1>1, ShapeFacts
    <3>2. CASE p \in DOMAIN m.file_name_to_id
      BY <1>1, <2>1, <3>2 DEF WithId
    <3>3. CASE p \notin DOMAIN m.file_name_to_id
      <4>1. n.file_name_to_id = MapTo(f.file_name_to_id, p, Cardinality(DOMAIN f.file_name_to_id))
        BY <1>1, <2>1, <3>1, <3>3 DEF WithId, Memories
      <4>2. WithId(m, p).file_name_to_id = MapTo(m.file_name_to_id, p, Cardinality(DOMAIN m.file_name_to_id))
        BY <3>1, <3>3 DEF WithId, Memories
      <4> QED BY <1>1, <4>1, <4>2
    <3> QED BY <3>2, <3>3
  <2>4. Current(m, d, p) = << [id |-> n.file_name_to_id[p], status |-> Status(d.old[p], d.new[p])] >>
    BY <1>4, <2>3 DEF Current
  <2>5. \A q \in Known(g, m) : q \in Paths
    BY DEF Known
  <2> QED BY <1>1, <1>4, <2>2, <2>4, <2>5 DEF CalledFor
<1> QED BY <1>3, <1>4


LEMMA TextFileStep ==
  ASSUME Inductive, NEW p \in Paths, FileCallback(p), Binary \notin {diff.old[p], diff.new[p]}
  PROVE  Inductive'
<1> DEFINE m == memory
           d == diff
           n == memory'
           e == diff'
<1>1. /\ process = "diffing" /\ p \in d.rest /\ d.due = <<>>
      /\ n = TextFile(m, d, p)
      /\ e = [d EXCEPT !.rest = d.rest \ {p}, !.pending = <<>>,
                       !.due = HunksBetween(d.old[p], d.new[p]),
                       !.current = Current(m, d, p)]
      /\ UNCHANGED <<graph, head, process, server, walk, target, saved>>
  BY DEF FileCallback
<1>2. /\ ~ NothingRecorded(m) /\ d.new = graph[LastRecorded(m)].tree
      /\ Diffing(graph, m, d) /\ Shape(m) /\ Closed(graph, m)
  BY <1>1 DEF Inductive, Applies
<1>3. d \in Diffs /\ d.old \in Trees /\ d.new \in Trees /\ d.rest \subseteq Paths
  BY <1>2, DiffFacts DEF Diffing
<1>4. /\ Shape(n)
      /\ n.commit_index_to_commit_id = m.commit_index_to_commit_id
      /\ n.commit_id_to_commit_index = m.commit_id_to_commit_index
      /\ n.ignored = m.ignored /\ n.lost = m.lost
      /\ \A q \in Known(graph, m) :
           IndexedContent(n, q) \in Held(IF q \in d.rest THEN d.old[q] ELSE d.new[q])
      /\ IF p \in m.ignored
         THEN Current(m, d, p) = <<>>
         ELSE /\ p \in DOMAIN n.file_name_to_id
              /\ Current(m, d, p) = << [id |-> n.file_name_to_id[p], status |-> Status(d.old[p], d.new[p])] >>
  <2>1. CalledFor(graph, m, d, p, n)
    BY <1>1, <1>2, TextFileFacts
  <2> QED BY <2>1 DEF CalledFor
<1>5. /\ LinesOf(d.old[p]) \in Contents /\ LinesOf(d.new[p]) \in Contents
  BY <1>3, TreeFacts
<1>6. /\ HunksBetween(d.old[p], d.new[p]) \in Seq(Hunks)
      /\ HunksBetween(d.old[p], d.new[p]) = <<>> <=> LinesOf(d.old[p]) = LinesOf(d.new[p])
  BY <1>5, HunkFacts
<1>7. Current(m, d, p) \in Seq(Files)
  <2>1. CASE p \in m.ignored
    BY <1>4, <2>1
  <2>2. CASE p \notin m.ignored
    <3>1. n.file_name_to_id[p] \in 0..(Len(n.file_id_to_path) - 1)
      BY <1>4, <2>2, IdFacts
    <3>2. n.file_name_to_id[p] \in Nat
      BY <1>4, <3>1, ShapeFacts
    <3> DEFINE file == [id |-> n.file_name_to_id[p], status |-> Status(d.old[p], d.new[p])]
    <3>3. file \in Files
      BY <3>2 DEF Files, Status
    <3>4. Current(m, d, p) = <<file>>
      BY <1>4, <2>2
    <3> HIDE DEF file
    <3> QED BY <3>3, <3>4
  <2> QED BY <2>1, <2>2
<1>8. /\ e.old = d.old /\ e.new = d.new /\ e.rest = d.rest \ {p}
      /\ e.current = Current(m, d, p)
      /\ e.due = HunksBetween(d.old[p], d.new[p])
      /\ e.pending = <<>>
      /\ e \in Diffs
  BY <1>1, <1>3, <1>6, <1>7 DEF Diffs
<1> HIDE DEF n, e
<1>9. /\ p \notin m.ignored =>
           /\ e.current # <<>>
           /\ e.current[1].id = n.file_name_to_id[p]
           /\ e.current[1].status = Status(d.old[p], d.new[p])
      /\ p \in m.ignored => e.current = <<>>
  <2> DEFINE file == [id |-> n.file_name_to_id[p], status |-> Status(d.old[p], d.new[p])]
  <2>1. file.id = n.file_name_to_id[p] /\ file.status = Status(d.old[p], d.new[p])
    OBVIOUS
  <2>2. IF p \in m.ignored THEN e.current = <<>> ELSE e.current = <<file>>
    BY <1>4, <1>8
  <2> HIDE DEF file
  <2>3. e.current = <<file>> => e.current # <<>> /\ e.current[1] = file
    OBVIOUS
  <2> QED BY <2>1, <2>2, <2>3
<1>10. /\ Known(graph, n) = Known(graph, m)
       /\ Recorded(n) = Recorded(m)
       /\ NothingRecorded(n) <=> NothingRecorded(m)
       /\ LastRecorded(n) = LastRecorded(m)
       /\ Covers(graph, n) = Covers(graph, m)
  BY <1>4, SameClaims DEF Known
<1>11. \A q \in Paths : Owner(n, e, q) <=> q = p /\ p \notin m.ignored /\ e.due # <<>>
  <2>1. CASE p \in m.ignored
    BY <1>9, <2>1 DEF Owner
  <2>2. CASE p \notin m.ignored
    <3>1. e.current # <<>> /\ e.current[1].id = n.file_name_to_id[p]
      BY <1>9, <2>2
    <3>2. \A q \in DOMAIN n.file_name_to_id : n.file_name_to_id[q] = n.file_name_to_id[p] => q = p
      BY <1>4, <2>2, IdFacts
    <3> QED BY <1>4, <1>8, <2>2, <3>1, <3>2 DEF Owner
  <2> QED BY <2>1, <2>2
<1>12. ASSUME NEW q \in Known(graph, n) PROVE InDiff(n, e, q)
  <2>1. q \in Paths /\ q \in Known(graph, m) /\ q \notin m.ignored
    BY <1>10, <1>12 DEF Known
  <2>2. IndexedContent(n, q) \in Held(IF q \in d.rest THEN d.old[q] ELSE d.new[q])
    BY <1>4, <2>1
  <2>3. CASE q # p
    <3>1. ~ Owner(n, e, q)
      BY <1>11, <2>1, <2>3
    <3> QED BY <1>8, <2>2, <2>3, <3>1 DEF InDiff
  <2>4. CASE q = p /\ e.due = <<>>
    <3>1. ~ Owner(n, e, q) /\ q \notin e.rest
      BY <1>8, <1>11, <2>1, <2>4
    <3>2. IndexedContent(n, q) = LinesOf(d.old[p])
      BY <1>1, <2>2, <2>4, HeldFacts
    <3>3. IndexedContent(n, q) = LinesOf(e.new[q])
      BY <1>6, <1>8, <2>4, <3>2
    <3> QED BY <3>1, <3>3, HeldFacts DEF InDiff
  <2>5. CASE q = p /\ e.due # <<>>
    <3>1. Owner(n, e, q) /\ q \notin e.rest
      BY <1>8, <1>11, <2>1, <2>5
    <3>2. IndexedContent(n, q) = LinesOf(e.old[q])
      BY <1>1, <1>8, <2>2, <2>5, HeldFacts
    <3>3. Gathered(e) = HunksBetween(e.old[q], e.new[q])
      BY <1>8, <2>5 DEF Gathered
    <3>4. e.current[1].status = Status(e.old[q], e.new[q])
      BY <1>8, <1>9, <2>1, <2>5
    <3> QED BY <3>1, <3>2, <3>3, <3>4 DEF InDiff
  <2> QED BY <2>3, <2>4, <2>5
<1>13. e.current # <<>> => e.current[1].id < Len(n.file_id_to_path)
  <2>1. CASE p \in m.ignored
    BY <1>9, <2>1
  <2>2. CASE p \notin m.ignored
    <3>1. n.file_name_to_id[p] \in 0..(Len(n.file_id_to_path) - 1) /\ Len(n.file_id_to_path) \in Nat
      BY <1>4, <2>2, IdFacts, ShapeFacts
    <3>2. e.current[1].id = n.file_name_to_id[p]
      BY <1>9, <2>2
    <3> QED BY <3>1, <3>2
  <2> QED BY <2>1, <2>2
<1>14. Diffing(graph, n, e)
  BY <1>8, <1>12, <1>13 DEF Diffing
<1>15. Closed(graph, n)
  BY <1>2, <1>10 DEF Closed
<1>16. /\ WalksOn(graph', process', n, walk', target')
       /\ Rests(graph', process', n, target')
       /\ Serves(process', server', n)
       /\ Applies(graph', process', n, e)
  BY <1>1, <1>2, <1>4, <1>8, <1>10, <1>14 DEF Inductive, WalksOn, Rests, Serves, Applies
<1> QED BY <1>1, <1>4, <1>15, <1>16 DEF Inductive, n, e


LEMMA FailStep ==
  ASSUME Inductive, Fail
  PROVE  Inductive'
<1>1. process \in {"walking", "diffing"} /\ UNCHANGED <<graph, head, saved>>
  BY DEF Fail
<1>2. CASE Forget
  BY <1>1, <1>2, ForgetStep
<1>3. CASE ~ Forget
  <2>1. /\ server /\ server' = server /\ process' = "ready" /\ diff' = NoDiff /\ target' = 0
        /\ memory' = [memory EXCEPT !.lost = memory.lost \cup Unapplied]
    BY <1>3 DEF Fail
  <2>2. Shape(memory) /\ Closed(graph, memory) /\ ~ NothingRecorded(memory)
    BY <2>1 DEF Inductive, Serves
  <2>3. Unapplied \subseteq Paths
    <3>1. \A p \in DOMAIN memory.file_name_to_id : p \in Paths
      BY <2>2, IdFacts
    <3>2. diff.rest \subseteq Paths
      <4>1. CASE process = "diffing"
        BY <4>1, DiffFacts DEF Inductive, Applies, Diffing
      <4>2. CASE process # "diffing"
        BY <4>2 DEF Inductive, Applies, NoDiff
      <4> QED BY <4>1, <4>2
    <3> QED BY <3>1, <3>2 DEF Unapplied
  <2>4. /\ memory' \in Memories
        /\ memory'.commit_index_to_commit_id = memory.commit_index_to_commit_id
        /\ memory'.commit_id_to_commit_index = memory.commit_id_to_commit_index
        /\ memory'.file_id_to_path = memory.file_id_to_path
        /\ memory'.file_name_to_id = memory.file_name_to_id
        /\ memory'.contents = memory.contents
        /\ memory'.ignored = memory.ignored
        /\ memory'.lost = memory.lost \cup Unapplied
    BY <2>1, <2>2, <2>3, ShapeFacts DEF Memories
  <2>5. /\ Shape(memory')
        /\ Recorded(memory') = Recorded(memory)
        /\ ~ NothingRecorded(memory')
        /\ LastRecorded(memory') = LastRecorded(memory)
        /\ Covers(graph, memory') = Covers(graph, memory)
        /\ \A p : IndexedContent(memory', p) = IndexedContent(memory, p)
    BY <2>2, <2>4, SameTables, SameClaims
  <2>6. \A p \in Known(graph, memory') : p \in Known(graph, memory) /\ p \notin Unapplied
    BY <2>4, SameClaims DEF Known
  <2>7. Follows(graph, memory', graph[LastRecorded(memory)].tree)
    <3>1. CASE process = "walking"
      <4>1. Follows(graph, memory, graph[LastRecorded(memory)].tree)
        BY <2>2, <3>1 DEF Inductive, Applies, UpToDate
      <4> QED BY <2>5, <2>6, <4>1 DEF Follows
    <3>2. CASE process = "diffing"
      <4>1. diff.new = graph[LastRecorded(memory)].tree /\ Diffing(graph, memory, diff)
        BY <3>2 DEF Inductive, Applies
      <4>2. ASSUME NEW p \in Known(graph, memory') PROVE IndexedContent(memory', p) \in Held(diff.new[p])
        <5>1. p \notin diff.rest /\ ~ Owner(memory, diff, p)
          BY <2>6, <4>2 DEF Unapplied, Owner
        <5>2. InDiff(memory, diff, p)
          BY <2>6, <4>1, <4>2 DEF Diffing
        <5> QED BY <2>5, <5>1, <5>2 DEF InDiff
      <4> QED BY <4>1, <4>2 DEF Follows
    <3> QED BY <1>1, <3>1, <3>2
  <2>8. Closed(graph, memory')
    BY <2>2, <2>5 DEF Closed
  <2>9. /\ WalksOn(graph', process', memory', walk', target')
        /\ Rests(graph', process', memory', target')
        /\ Serves(process', server', memory')
        /\ Applies(graph', process', memory', diff')
    BY <1>1, <2>1, <2>5, <2>7 DEF WalksOn, Rests, Serves, Applies, UpToDate
  <2> QED BY <1>1, <2>5, <2>8, <2>9 DEF Inductive
<1> QED BY <1>2, <1>3

-----------------------------------------------------------------------------
(* The theorems.                                                           *)

LEMMA InductiveInit == Init => Inductive
<1> SUFFICES ASSUME Init PROVE Inductive
  OBVIOUS
<1>1. PICK t \in Trees : graph = <<[tree |-> t, line |-> {1}, past |-> {1}]>>
  BY DEF Init
<1>2. /\ head = 1 /\ process = "down" /\ server = FALSE /\ memory = NewMemory
      /\ diff = NoDiff /\ saved.state = "none"
  BY DEF Init
<1>3. Linear(graph) /\ head \in DOMAIN graph
  <2> DEFINE first == [tree |-> t, line |-> {1}, past |-> {1}]
  <2>1. first \in Commits /\ first.line = {1} /\ first.past = {1}
    BY DEF Commits
  <2> HIDE DEF first
  <2>2. graph \in Seq(Commits) /\ DOMAIN graph = {1} /\ graph[1] = first
    BY <1>1, <2>1 DEF first
  <2>3. \A c \in DOMAIN graph : graph[c].line = {1} /\ graph[c].past = {1} /\ c = 1
    BY <2>1, <2>2
  <2> QED BY <1>2, <2>2, <2>3 DEF Linear
<1>4. Shape(memory) /\ Closed(graph, memory) /\ UpToDate(graph, memory)
  BY <1>2, NewMemoryFacts DEF Closed, UpToDate
<1> QED BY <1>2, <1>3, <1>4, NewMemoryFacts
        DEF Inductive, SavedWell, WalksOn, Rests, Serves, Applies

LEMMA InductiveNext == Inductive /\ [WalkNext]_walkVars => Inductive'
<1> SUFFICES ASSUME Inductive, [WalkNext]_walkVars PROVE Inductive'
  OBVIOUS
<1>1. CASE RepositoryStep
  <2>1. CASE \E t \in Trees : \E merged \in SUBSET (DOMAIN graph \ graph[head].past) : CommitTo(t, merged)
    <3>1. PICK t \in Trees : \E merged \in SUBSET (DOMAIN graph \ graph[head].past) : CommitTo(t, merged)
      BY <2>1
    <3>2. PICK merged \in SUBSET (DOMAIN graph \ graph[head].past) : CommitTo(t, merged)
      BY <3>1
    <3>3. merged \in SUBSET DOMAIN graph
      OBVIOUS
    <3> QED BY <3>2, <3>3, CommitStep
  <2>2. CASE \E c \in DOMAIN graph : MoveHead(c)
    BY <2>2, MoveHeadStep
  <2> QED BY <1>1, <2>1, <2>2 DEF RepositoryStep
<1>2. CASE IndexAfresh \/ LoadAndContinue \/ \E c \in DOMAIN graph : Reindex(c)
  BY <1>2, RunStartsStep
<1>3. CASE Load
  BY <1>3, LoadStep
<1>4. CASE RecordCommit
  BY <1>4, RecordCommitStep
<1>5. ASSUME NEW p \in Paths, FileCallback(p) PROVE Inductive'
  BY <1>5, BinaryFileStep, TextFileStep
<1>6. CASE HunkCallback \/ EndDiff \/ FinishRun \/ Fail
  BY <1>6, HunkCallbackStep, EndDiffStep, FinishRunStep, FailStep
<1>7. CASE BeginSave \/ EndSave
  BY <1>7, SaveStep
<1>8. CASE Exit
  BY <1>8, ForgetStep DEF Exit
<1>9. CASE UNCHANGED walkVars
  BY <1>9 DEF walkVars, Inductive
<1> QED BY <1>1, <1>2, <1>3, <1>4, <1>5, <1>6, <1>7, <1>8, <1>9 DEF WalkNext, RunStep

\* Every reachable state of the walk satisfies its inductive invariant: a clean part
\* of memory, a saved file that is whole, a walk whose lists and gathered hunks belong
\* to the commit and the file at hand (index_history, index_diff, build_index).
THEOREM Invariance == WalkSpec => []Inductive
BY InductiveInit, InductiveNext, PTL DEF WalkSpec

\* The recorded tables and those rebuilt when an index is loaded agree, whatever was
\* indexed, saved, loaded and recorded twice (git_indexer.rs 35-53).
THEOREM TablesAlwaysAgree == WalkSpec => []TablesAgree
<1>1. Inductive => TablesAgree
  BY ShapeFacts DEF Inductive, TablesAgree
<1> QED BY <1>1, Invariance, PTL

\* A run that comes to its end has indexed HEAD and all its first parents, however
\* history branches and joins and whatever failed before; except for commits that an
\* indexed commit merged, which hide() takes for indexed (index_history 134-172).
THEOREM HeadIsAlwaysIndexed == WalkSpec => []HeadIsIndexed
<1>1. Inductive => HeadIsIndexed
  BY DEF Inductive, Rests, Covers, Recorded, HeadIsIndexed
<1> QED BY <1>1, Invariance, PTL

\* Between commits, the index holds what each file is in the commit recorded last,
\* whichever order the callbacks of a diff come in; except for files ignored or lost,
\* and those that index_tree left out of the first commit for their byte order mark
\* (index_diff 268-416, index_tree 458-491).
THEOREM ContentAlwaysFollows == WalkSpec => []ContentFollowsWalk
<1>1. Inductive => ContentFollowsWalk
  BY DEF Inductive, Applies, UpToDate, NothingRecorded, Follows, ContentFollowsWalk
<1> QED BY <1>1, Invariance, PTL

\* An index file that loads holds its commits with all their first parents that none
\* of them merged, and the files of the last, those with a byte order mark in the first
\* aside, whenever a process failed or was killed (build_index, encode_to_file).
THEOREM SavedIndexIsAlwaysWhole == WalkSpec => []SavedIndexIsWhole
<1>1. ASSUME Inductive, saved.state = "whole"
      PROVE  LET m == FromSaved(saved.index)
             IN  /\ m.commit_index_to_commit_id # <<>>
                 /\ \A c \in DOMAIN m.commit_id_to_commit_index :
                      graph[c].line \subseteq DOMAIN m.commit_id_to_commit_index \cup MergedIn(graph, m)
                 /\ \A p \in Known(graph, m) :
                      IndexedContent(m, p) \in Held(graph[LastRecorded(m)].tree[p])
  BY <1>1 DEF Inductive, SavedWell, Closed, Covers, UpToDate, Follows, NothingRecorded, Recorded
<1>2. Inductive => SavedIndexIsWhole
  BY <1>1 DEF SavedIndexIsWhole
<1> QED BY <1>2, Invariance, PTL

-----------------------------------------------------------------------------
(* The index and the repository.                                           *)

\* The application, the events of the terminal and the searches leave the repository,
\* the indexer and the index file alone, and what is left are steps of HistoryWalk:
\* the command line and the server implement it (main.rs 43-121).
THEOREM CommandLineImplementsWalk == CommandLineSpec => WalkSpec
<1>1. CommandLineInit => Init
  BY DEF CommandLineInit
<1>2. [CommandLineNext]_commandLineVars => [WalkNext]_walkVars
  <2>1. CASE Repository
    BY <2>1 DEF Repository, WalkNext
  <2>2. CASE Indexing
    BY <2>2 DEF Indexing, WalkNext
  <2>3. CASE OpenApp
    BY <2>3 DEF OpenApp
  <2>4. CASE Running
    BY <2>4 DEF Running
  <2>5. CASE EndProcess
    BY <2>5 DEF EndProcess, WalkNext
  <2>6. CASE UNCHANGED commandLineVars
    BY <2>6 DEF commandLineVars
  <2> QED BY <2>1, <2>2, <2>3, <2>4, <2>5, <2>6 DEF CommandLineNext
<1> QED BY <1>1, <1>2, PTL DEF CommandLineSpec, WalkSpec

-----------------------------------------------------------------------------
(* The application: its invariant.                                         *)

Requests == AppQueries \cup {Terminate}

\* Everything the search thread may have to do is a query or the word to stop; once
\* it has that word, the loop never handles an event again.
Stopping ==
  /\ requests \in Seq(Requests)
  /\ thread \in {"waiting", "searching", "ended", "dead"}
  /\ thread = "searching" => searching \in AppQueries
  /\ asked \in AppQueries \cup {NoQuery}
  /\ ui = "receive" => state # "Terminate"
  /\ ui # "off" /\ thread = "ended" => state = "Terminate"
  /\ (\E i \in DOMAIN requests : requests[i] = Terminate) => state = "Terminate"
  /\ ui = "off" => requests = <<>> /\ asked = NoQuery /\ ~ panicked
  /\ prev = <<>> \/ prev[1] \in QueryTypes
  /\ panicked => thread = "dead"

Messages ==
  {<<"Event", e>> : e \in Events} \cup
  {<<"SearchResults", q>> : q \in AppQueries \cup {NoQuery}} \cup {Log, Terminate}

IsResult(message) == message[1] = "SearchResults"

\* What handling the messages leaves shown.
Settles(queue, now, query) ==
  IF \E i \in DOMAIN queue : IsResult(queue[i])
  THEN \E i \in DOMAIN queue :
         /\ IsResult(queue[i]) /\ queue[i][2] = query
         /\ \A j \in DOMAIN queue : IsResult(queue[j]) => j <= i
  ELSE now = query

Shown(query) == IF Outcome[query] = "results" THEN query ELSE NoQuery

\* The last query typed is the last request, is searched for, or is answered in what
\* is shown or about to be.
Answering ==
  asked # NoQuery /\ thread \in {"waiting", "searching"} =>
    \/ requests # <<>> /\ Last(requests) \in {asked, Terminate}
    \/ requests = <<>> /\ thread = "searching" /\ searching = asked
    \/ /\ requests = <<>> /\ thread = "waiting"
       /\ Outcome[asked] \in {"results", "nothing"} => Settles(messages, shown, Shown(asked))

AppInvariant ==
  /\ messages \in Seq(Messages)
  /\ Stopping
  /\ Answering

LEMMA AppOffInvariant == AppOff => AppInvariant
BY DEF AppOff, AppInvariant, Stopping, Answering

-----------------------------------------------------------------------------
(* The two channels.                                                       *)

LEMMA MessageFacts ==
  /\ Log \in Messages /\ ~ IsResult(Log)
  /\ Terminate \in Messages /\ ~ IsResult(Terminate) /\ Terminate[1] # "Event"
  /\ \A e \in Events : <<"Event", e>> \in Messages /\ ~ IsResult(<<"Event", e>>)
  /\ \A q \in AppQueries \cup {NoQuery} :
       /\ <<"SearchResults", q>> \in Messages
       /\ IsResult(<<"SearchResults", q>>)
       /\ <<"SearchResults", q>>[2] = q
BY DEF Messages, IsResult, Log, Terminate

LEMMA RequestFacts ==
  /\ Terminate \in Requests
  /\ \A type \in QueryTypes : \A value \in Inputs :
       /\ <<type, value>> \in AppQueries
       /\ <<type, value>> \in Requests
       /\ <<type, value>> # Terminate
       /\ <<type, value>> # NoQuery
BY DEF Requests, AppQueries, Terminate, NoQuery

LEMMA SeqFacts ==
  ASSUME NEW S, NEW s \in Seq(S)
  PROVE  /\ DOMAIN s = 1..Len(s) /\ Len(s) \in Nat
         /\ s # <<>> => /\ Len(s) > 0 /\ Last(s) = s[Len(s)] /\ Head(s) = s[1]
                        /\ Head(s) \in S /\ Last(s) \in S
                        /\ Tail(s) \in Seq(S) /\ Len(Tail(s)) = Len(s) - 1
                        /\ \A i \in 1..(Len(s) - 1) : Tail(s)[i] = s[i + 1]
         /\ \A x \in S : /\ Append(s, x) \in Seq(S) /\ Append(s, x) # <<>>
                         /\ Len(Append(s, x)) = Len(s) + 1
                         /\ Append(s, x)[Len(s) + 1] = x
                         /\ Last(Append(s, x)) = x
                         /\ \A i \in 1..Len(s) : Append(s, x)[i] = s[i]
BY DEF Last

LEMMA SendTwo ==
  ASSUME NEW queue \in Seq(Messages), NEW first \in Messages, NEW second \in Messages
  PROVE  /\ queue \o <<first, second>> = Append(Append(queue, first), second)
         /\ Append(queue, first) \in Seq(Messages)
         /\ queue \o <<first, second>> \in Seq(Messages)
OBVIOUS

LEMMA SettlesAppend ==
  ASSUME NEW queue \in Seq(Messages), NEW now, NEW query, NEW message \in Messages,
         IF IsResult(message) THEN message[2] = query ELSE Settles(queue, now, query)
  PROVE  Settles(Append(queue, message), now, query)
<1> DEFINE more == Append(queue, message)
<1>1. /\ DOMAIN queue = 1..Len(queue) /\ Len(queue) \in Nat
      /\ DOMAIN more = 1..(Len(queue) + 1)
      /\ more[Len(queue) + 1] = message
      /\ \A i \in 1..Len(queue) : more[i] = queue[i]
  BY SeqFacts
<1> HIDE DEF more
<1>2. CASE IsResult(message)
  <2>1. Len(queue) + 1 \in DOMAIN more /\ \A j \in DOMAIN more : j <= Len(queue) + 1
    BY <1>1
  <2> QED BY <1>1, <1>2, <2>1 DEF Settles, more
<1>3. CASE ~ IsResult(message)
  <2>1. \A i \in DOMAIN more : IsResult(more[i]) => i \in DOMAIN queue /\ more[i] = queue[i]
    BY <1>1, <1>3
  <2>2. \A i \in DOMAIN queue : i \in DOMAIN more /\ more[i] = queue[i]
    BY <1>1
  <2> QED BY <1>3, <2>1, <2>2 DEF Settles, more
<1> QED BY <1>2, <1>3

LEMMA SettlesTail ==
  ASSUME NEW queue \in Seq(Messages), queue # <<>>, NEW now, NEW query, Settles(queue, now, query)
  PROVE  Settles(Tail(queue), IF IsResult(Head(queue)) THEN Head(queue)[2] ELSE now, query)
<1> DEFINE rest == Tail(queue)
           then == IF IsResult(Head(queue)) THEN Head(queue)[2] ELSE now
<1>1. /\ DOMAIN queue = 1..Len(queue) /\ Len(queue) \in Nat /\ Len(queue) > 0
      /\ Head(queue) = queue[1]
      /\ DOMAIN rest = 1..(Len(queue) - 1)
      /\ \A i \in 1..(Len(queue) - 1) : rest[i] = queue[i + 1]
  BY SeqFacts
<1> HIDE DEF rest
<1>2. \A i \in DOMAIN queue : i # 1 => i - 1 \in DOMAIN rest /\ rest[i - 1] = queue[i]
  BY <1>1
<1>3. \A i \in DOMAIN rest : i + 1 \in DOMAIN queue /\ rest[i] = queue[i + 1] /\ i + 1 # 1
  BY <1>1
<1>4. CASE \E i \in DOMAIN rest : IsResult(rest[i])
  <2>1. PICK i \in DOMAIN queue : /\ IsResult(queue[i]) /\ queue[i][2] = query
                                  /\ \A j \in DOMAIN queue : IsResult(queue[j]) => j <= i
    BY <1>3, <1>4 DEF Settles
  <2>2. i # 1
    BY <1>1, <1>3, <1>4, <2>1
  <2>3. i - 1 \in DOMAIN rest /\ rest[i - 1] = queue[i]
    BY <1>2, <2>2
  <2>4. \A j \in DOMAIN rest : IsResult(rest[j]) => j <= i - 1
    BY <1>1, <1>3, <2>1
  <2> QED BY <2>1, <2>3, <2>4 DEF Settles, rest
<1>5. CASE ~ \E i \in DOMAIN rest : IsResult(rest[i])
  <2>1. then = query
    <3>1. CASE IsResult(queue[1])
      <4>1. PICK i \in DOMAIN queue : IsResult(queue[i]) /\ queue[i][2] = query
        BY <1>1, <3>1 DEF Settles
      <4>2. i = 1
        BY <1>2, <1>5, <4>1
      <4> QED BY <1>1, <3>1, <4>1, <4>2
    <3>2. CASE ~ IsResult(queue[1])
      <4>1. ~ \E i \in DOMAIN queue : IsResult(queue[i])
        BY <1>2, <1>5, <3>2
      <4> QED BY <1>1, <3>2, <4>1 DEF Settles
    <3> QED BY <3>1, <3>2
  <2> QED BY <1>5, <2>1 DEF Settles, rest
<1> QED BY <1>4, <1>5


-----------------------------------------------------------------------------
(* The threads.                                                            *)

LEMMA StartAppStep ==
  ASSUME AppInvariant, StartApp
  PROVE  AppInvariant'
BY DEF StartApp, AppInvariant, Stopping, Answering

LEMMA PressStep ==
  ASSUME AppInvariant, NEW e \in Events, Press(e)
  PROVE  AppInvariant'
<1>1. /\ messages' = Append(messages, <<"Event", e>>)
      /\ UNCHANGED <<loopVars, requests, searchVars, asked>>
  BY DEF Press
<1>2. messages' \in Seq(Messages)
  BY <1>1, MessageFacts, SeqFacts DEF AppInvariant
<1>3. Stopping'
  BY <1>1 DEF AppInvariant, Stopping, loopVars, searchVars
<1>4. \A query : Settles(messages, shown, query) => Settles(messages', shown', query)
  BY <1>1, MessageFacts, SettlesAppend DEF AppInvariant, loopVars
<1>5. Answering'
  BY <1>1, <1>4 DEF AppInvariant, Answering, loopVars, searchVars
<1> QED BY <1>2, <1>3, <1>5 DEF AppInvariant

LEMMA TakeRequestStep ==
  ASSUME AppInvariant, TakeRequest
  PROVE  AppInvariant'
<1> DEFINE last == Last(requests)
<1>1. /\ thread = "waiting" /\ requests # <<>> /\ requests' = <<>>
      /\ IF last = Terminate
         THEN thread' = "ended" /\ UNCHANGED <<searching, messages>>
         ELSE thread' = "searching" /\ searching' = last /\ messages' = Append(messages, Log)
      /\ UNCHANGED <<loopVars, asked, keys>>
  BY DEF TakeRequest, Drain
<1>2. last \in Requests /\ \E i \in DOMAIN requests : requests[i] = last
  <2>1. requests \in Seq(Requests)
    BY DEF AppInvariant, Stopping
  <2>2. Len(requests) \in DOMAIN requests /\ requests[Len(requests)] = last /\ last \in Requests
    BY <1>1, <2>1, SeqFacts
  <2> QED BY <2>2
<1> HIDE DEF last
<1>3. messages' \in Seq(Messages)
  BY <1>1, MessageFacts, SeqFacts DEF AppInvariant
<1>4. last = Terminate => state = "Terminate"
  BY <1>2 DEF AppInvariant, Stopping
<1>5. last # Terminate => last \in AppQueries
  BY <1>2 DEF Requests
<1>6. Stopping'
  BY <1>1, <1>4, <1>5 DEF AppInvariant, Stopping, loopVars
<1>7. Answering'
  BY <1>1 DEF AppInvariant, Answering, last
<1> QED BY <1>3, <1>6, <1>7 DEF AppInvariant

LEMMA SearchDoneStep ==
  ASSUME AppInvariant, SearchDone
  PROVE  AppInvariant'
<1> DEFINE answer == <<"SearchResults", Shown(searching)>>
<1>1. /\ thread = "searching" /\ thread' \in {"waiting", "dead"}
      /\ \/ Outcome[searching] \in {"results", "nothing"} /\ messages' = messages \o <<answer, Log>>
         \/ Outcome[searching] \notin {"results", "nothing"} /\ messages' = messages
      /\ UNCHANGED <<loopVars, requests, asked, keys>>
  BY DEF SearchDone, After, Shown
<1>2. searching \in AppQueries /\ messages \in Seq(Messages)
  BY <1>1 DEF AppInvariant, Stopping
<1>3. answer \in Messages /\ IsResult(answer) /\ answer[2] = Shown(searching)
  BY <1>2, MessageFacts DEF Shown
<1> HIDE DEF answer
<1>4. /\ messages \o <<answer, Log>> = Append(Append(messages, answer), Log)
      /\ Append(messages, answer) \in Seq(Messages)
      /\ messages \o <<answer, Log>> \in Seq(Messages)
  <2>1. messages \in Seq(Messages) /\ answer \in Messages /\ Log \in Messages
    BY <1>2, <1>3, MessageFacts
  <2> HIDE DEF Messages, Log
  <2> QED BY <2>1, SendTwo
<1>5. Append(messages, answer) \in Seq(Messages) /\ messages' \in Seq(Messages)
  BY <1>1, <1>2, <1>4
<1>6. Stopping'
  BY <1>1 DEF AppInvariant, Stopping, loopVars
<1>7. Answering'
  <2> SUFFICES ASSUME asked # NoQuery, thread' = "waiting", requests = <<>>,
                      Outcome[asked] \in {"results", "nothing"}
               PROVE  Settles(messages', shown', Shown(asked))
    BY <1>1 DEF AppInvariant, Answering
  <2>1. searching = asked
    BY <1>1 DEF AppInvariant, Answering
  <2>2. Settles(Append(messages, answer), shown, Shown(asked))
    BY <1>2, <1>3, <2>1, SettlesAppend
  <2>3. Settles(Append(Append(messages, answer), Log), shown, Shown(asked))
    BY <1>5, <2>2, MessageFacts, SettlesAppend
  <2> QED BY <1>1, <1>4, <2>1, <2>3 DEF loopVars
<1> QED BY <1>5, <1>6, <1>7 DEF AppInvariant

LEMMA DrawStep ==
  ASSUME AppInvariant, Draw \/ Stop \/ Join
  PROVE  AppInvariant'
<1>1. UNCHANGED <<state, prev, shown, messages, requests, searchVars, asked>>
  BY DEF Draw, Stop, Join
<1>2. Stopping'
  <2>1. ui # "off" /\ ui' # "off" /\ (ui' = "receive" => state # "Terminate")
    BY DEF Draw, Stop, Join, Leave
  <2>2. panicked' => panicked \/ thread = "dead"
    BY DEF Draw, Stop, Join, Leave
  <2> QED BY <1>1, <2>1, <2>2 DEF AppInvariant, Stopping, searchVars
<1>3. Answering'
  BY <1>1 DEF AppInvariant, Answering, searchVars
<1> QED BY <1>1, <1>2, <1>3 DEF AppInvariant

\* What handling a message may do to the request channel and to the state.
LEMMA ReceiveFacts ==
  ASSUME AppInvariant, Receive
  PROVE  /\ ui = "receive" /\ messages # <<>> /\ UNCHANGED searchVars
         /\ ui' \in {"top", "joining"}
         /\ panicked' => panicked \/ thread \in {"ended", "dead"}
         /\ \/ /\ UNCHANGED <<requests, asked>>
               /\ \/ messages' = Tail(messages)
                  \/ messages' = Append(Tail(messages), Terminate) /\ thread \in {"ended", "dead"}
               /\ state' = "Terminate" => messages' = Append(Tail(messages), Terminate)
            \/ /\ requests' = Append(requests, Terminate)
               /\ asked' = asked /\ state' = "Terminate"
               /\ messages' = Append(Tail(messages), Terminate)
            \/ /\ asked' \in AppQueries
               /\ state' = state
               /\ \/ requests' = Append(requests, asked')
                  \/ requests' = requests /\ thread \in {"ended", "dead"}
               /\ messages' = Tail(messages)
         /\ shown' = IF IsResult(Head(messages)) THEN Head(messages)[2] ELSE shown
         /\ prev' = <<>> \/ prev'[1] \in QueryTypes
<1>1. ui = "receive" /\ messages # <<>> /\ UNCHANGED searchVars
  BY DEF Receive
<1>2. state # "Terminate"
  BY <1>1 DEF AppInvariant, Stopping
<1>3. CASE Head(messages)[1] = "Event"
  <2> DEFINE event == Head(messages)[2]
  <2>1. HandleEvent(event)
    BY <1>3 DEF Receive
  <2>2. /\ shown' = shown /\ ~ IsResult(Head(messages))
        /\ prev' = <<>> \/ prev'[1] \in QueryTypes
    BY <1>3, <2>1 DEF HandleEvent, IsResult, AppInvariant, Stopping
  <2> HIDE DEF event
  <2>3. CASE Ignored \/ Escape \/ Clear \/ ChooseQueryType("RawString") \/ ChooseQueryType("Regex")
    <3>1. /\ ui' = "top" /\ UNCHANGED <<panicked, requests, asked>> /\ messages' = Tail(messages)
      BY <2>3 DEF Ignored, Escape, Clear, ChooseQueryType, NoRequest
    <3>2. state' # "Terminate"
      BY <1>2, <2>3 DEF Ignored, Escape, Clear, ChooseQueryType, AppInvariant, Stopping, QueryTypes
    <3> QED BY <1>1, <2>2, <3>1, <3>2
  <2>4. CASE Quit
    BY <1>1, <2>2, <2>4 DEF Quit, SendRequest, Leave
  <2>5. CASE state \in QueryTypes /\ Type
    <3>1. PICK value \in Inputs : /\ asked' = <<state, value>>
                                  /\ messages' = Tail(messages)
                                  /\ SendRequest(<<state, value>>)
                                  /\ UNCHANGED state
      BY <2>5 DEF Type
    <3>2. asked' \in AppQueries
      BY <2>5, <3>1, RequestFacts
    <3> QED BY <1>1, <2>2, <3>1, <3>2 DEF SendRequest, Leave
  <2> QED BY <2>1, <2>3, <2>4, <2>5 DEF HandleEvent
<1>4. CASE Head(messages)[1] # "Event"
  BY <1>1, <1>2, <1>4 DEF Receive, IsResult, AppInvariant, Stopping
<1> QED BY <1>3, <1>4


LEMMA ReceiveStep ==
  ASSUME AppInvariant, Receive
  PROVE  AppInvariant'
<1>1. /\ ui = "receive" /\ messages # <<>> /\ UNCHANGED searchVars
      /\ ui' \in {"top", "joining"}
      /\ panicked' => panicked \/ thread \in {"ended", "dead"}
      /\ shown' = IF IsResult(Head(messages)) THEN Head(messages)[2] ELSE shown
      /\ prev' = <<>> \/ prev'[1] \in QueryTypes
  BY ReceiveFacts
<1>2. /\ messages \in Seq(Messages) /\ requests \in Seq(Requests)
      /\ thread # "ended" /\ state # "Terminate"
      /\ ~ \E i \in DOMAIN requests : requests[i] = Terminate
  BY <1>1 DEF AppInvariant, Stopping
<1>3. thread' = thread /\ searching' = searching
  BY <1>1 DEF searchVars
<1>4. /\ Tail(messages) \in Seq(Messages)
      /\ Append(Tail(messages), Terminate) \in Seq(Messages)
  BY <1>1, <1>2, MessageFacts, SeqFacts
<1>5. CASE /\ UNCHANGED <<requests, asked>>
           /\ \/ messages' = Tail(messages)
              \/ messages' = Append(Tail(messages), Terminate) /\ thread \in {"ended", "dead"}
  <2>1. Stopping'
    BY <1>1, <1>2, <1>3, <1>5 DEF AppInvariant, Stopping
  <2>2. Answering'
    <3> SUFFICES ASSUME asked # NoQuery, thread = "waiting", requests = <<>>,
                        Outcome[asked] \in {"results", "nothing"}
                 PROVE  Settles(messages', shown', Shown(asked))
      BY <1>3, <1>5 DEF AppInvariant, Answering
    <3>1. Settles(messages, shown, Shown(asked))
      BY DEF AppInvariant, Answering
    <3>2. messages' = Tail(messages)
      BY <1>5
    <3> QED BY <1>1, <1>2, <3>1, <3>2, SettlesTail
  <2> QED BY <1>4, <1>5, <2>1, <2>2 DEF AppInvariant
<1>6. CASE /\ requests' = Append(requests, Terminate)
           /\ asked' = asked /\ state' = "Terminate"
           /\ messages' = Append(Tail(messages), Terminate)
  <2>1. requests' \in Seq(Requests) /\ requests' # <<>> /\ Last(requests') = Terminate
    BY <1>2, <1>6, RequestFacts, SeqFacts
  <2>2. Stopping'
    BY <1>1, <1>2, <1>3, <1>6, <2>1 DEF AppInvariant, Stopping
  <2>3. Answering'
    BY <2>1 DEF Answering
  <2> QED BY <1>4, <1>6, <2>2, <2>3 DEF AppInvariant
<1>7. CASE /\ asked' \in AppQueries
           /\ state' = state
           /\ \/ requests' = Append(requests, asked')
              \/ requests' = requests /\ thread \in {"ended", "dead"}
           /\ messages' = Tail(messages)
  <2>1. asked' \in Requests /\ asked' # Terminate
    BY <1>7 DEF Requests, AppQueries, Terminate
  <2>2. CASE requests' = Append(requests, asked')
    <3>1. /\ requests' \in Seq(Requests) /\ requests' # <<>> /\ Last(requests') = asked'
          /\ DOMAIN requests' = 1..(Len(requests) + 1)
          /\ requests'[Len(requests) + 1] = asked'
          /\ \A i \in 1..Len(requests) : requests'[i] = requests[i]
          /\ DOMAIN requests = 1..Len(requests) /\ Len(requests) \in Nat
      BY <1>2, <2>1, <2>2, SeqFacts
    <3>2. ~ \E i \in DOMAIN requests' : requests'[i] = Terminate
      BY <1>2, <2>1, <3>1
    <3>3. Stopping'
      BY <1>1, <1>2, <1>3, <1>7, <3>1, <3>2 DEF AppInvariant, Stopping
    <3>4. Answering'
      BY <3>1 DEF Answering
    <3> QED BY <1>4, <1>7, <3>3, <3>4 DEF AppInvariant
  <2>3. CASE requests' = requests /\ thread \in {"ended", "dead"}
    <3>1. Stopping'
      BY <1>1, <1>2, <1>3, <1>7, <2>3 DEF AppInvariant, Stopping
    <3>2. Answering'
      BY <1>3, <2>3 DEF Answering
    <3> QED BY <1>4, <1>7, <3>1, <3>2 DEF AppInvariant
  <2> QED BY <1>7, <2>2, <2>3
<1> QED BY <1>5, <1>6, <1>7, ReceiveFacts

-----------------------------------------------------------------------------
(* The theorems.                                                           *)

LEMMA AppInvariantInit == CommandLineInit => AppInvariant
BY AppOffInvariant DEF CommandLineInit

LEMMA AppInvariantNext == AppInvariant /\ [CommandLineNext]_commandLineVars => AppInvariant'
<1> SUFFICES ASSUME AppInvariant, [CommandLineNext]_commandLineVars PROVE AppInvariant'
  OBVIOUS
<1>1. CASE UNCHANGED appVars
  BY <1>1 DEF appVars, AppInvariant, Stopping, Answering
<1>2. CASE OpenApp
  BY <1>2, StartAppStep DEF OpenApp
<1>3. CASE Running
  BY <1>3, PressStep, TakeRequestStep, SearchDoneStep, DrawStep, ReceiveStep
     DEF Running, SearchStep, LoopStep
<1>4. CASE EndProcess
  BY <1>4 DEF EndProcess, AppInvariant, Stopping, Answering
<1> QED BY <1>1, <1>2, <1>3, <1>4 DEF CommandLineNext, Repository, Indexing, commandLineVars

\* The terminal application keeps its invariant: what is in the two channels, what the
\* search thread is doing and what is shown belong together (App::run, app.rs 97-229).
THEOREM AppInvariance == CommandLineSpec => []AppInvariant
BY AppInvariantInit, AppInvariantNext, PTL DEF CommandLineSpec

\* Once both threads have caught up, what is shown answers the last query typed,
\* whatever requests were skipped and whatever events and results lay in the
\* channels (app.rs 108-175).
THEOREM ShownIsAlwaysLatest == CommandLineSpec => []ShownIsLatest
<1>1. ASSUME AppInvariant, ui = "receive", messages = <<>>, requests = <<>>, thread = "waiting", asked # NoQuery
      PROVE  /\ Outcome[asked] = "results" => shown = asked
             /\ Outcome[asked] = "nothing" => shown = NoQuery
  <2>1. Outcome[asked] \in {"results", "nothing"} => Settles(messages, shown, Shown(asked))
    BY <1>1 DEF AppInvariant, Answering
  <2>2. DOMAIN messages = {}
    BY <1>1
  <2> QED BY <2>1, <2>2 DEF Settles, Shown
<1>2. AppInvariant => ShownIsLatest
  BY <1>1 DEF ShownIsLatest
<1> QED BY <1>2, AppInvariance, PTL

\* The application panics only if a search did: the loop never sends to a search
\* thread that was told to stop (app.rs 313-334).
THEOREM PanicsOnlyAfterASearch == CommandLineSpec => []PanicsOnlyAfterSearch
<1>1. AppInvariant => PanicsOnlyAfterSearch
  BY DEF AppInvariant, Stopping, PanicsOnlyAfterSearch
<1> QED BY <1>1, AppInvariance, PTL

=============================================================================
