---------------------------- MODULE SearchServer ----------------------------
(***************************************************************************)
(* The search endpoint, its result cache and the reindexer, which share    *)
(* the index through a read-write lock (crep-server/server/src/api/        *)
(* search.rs, search/search_cache.rs, indexer/indexer.rs,                  *)
(* indexer/index.rs).                                                      *)
(*                                                                         *)
(* A version is the number of commits in the index.  The raw result of a   *)
(* query is a list of candidate files computed from one version; its i-th  *)
(* entry is <<version, i>>.  A candidate is converted, by reading the file *)
(* from the repository, to a hit or to nothing.  A request asks for one    *)
(* page of the candidates.                                                 *)
(***************************************************************************)
EXTENDS Integers, Sequences, FiniteSets, SequencesExt

CONSTANTS
  Handlers,        \* requests served at the same time
  Queries,         \* query strings, with their mode
  Rejected,        \* those whose search is an error, such as a bad regex
  RawCount,        \* [Queries -> [versions -> number of candidates]]
  FalsePositives,  \* <<query, version, i>> of candidates that convert to nothing
  Pages,           \* page numbers requested
  PageSizes,       \* page sizes requested; 0 is the default of the request
  CacheSize,       \* capacity of the LRU cache
  MaxVersion,      \* bound: commits in the repository
  MaxSignals,      \* bound: signals waiting for the reindexer
  MayFail          \* whether conversions and index runs may fail

ASSUME ServerAssumption ==
  /\ Queries # {} /\ Rejected \subseteq Queries
  /\ RawCount \in [Queries -> [1..MaxVersion -> Nat]]
  /\ Pages \subseteq Nat /\ PageSizes \subseteq Nat
  /\ CacheSize \in Nat \ {0} /\ MaxVersion \in Nat \ {0} /\ MaxSignals \in Nat
  /\ MayFail \in BOOLEAN

Reindexer == "reindexer"
ASSUME ReindexerIsNoHandler == Reindexer \notin Handlers

VARIABLES
  head,      \* commits in the repository
  versions,  \* commits in the index, now and before each update that changed it
  lock,      \* tasks waiting for the index lock, in order
  handlers,  \* per handler: its request and how far it is
  cache,     \* the LRU cache: entries, most recently used first
  worker,    \* the reindexer: "receiving", "locking", "evicting" or "reporting"
  signals    \* commits it was asked to index

vars == <<head, versions, lock, handlers, cache, worker, signals>>

version == Last(versions)

-----------------------------------------------------------------------------
(* The cache.                                                              *)

NoRaw == [version |-> 0, count |-> 0]
Nothing == 0    \* a candidate that converted to nothing, as the version of its hit

IsCached(q) == \E e \in Range(cache) : e.query = q
PlaceOf(q) == CHOOSE i \in DOMAIN cache : cache[i].query = q

\* The entries a new one leaves in the cache: the oldest is pushed out.
Kept == IF Len(cache) < CacheSize THEN cache ELSE Front(cache)

\* A variant that leaves the old copy of the entry behind.
InFrontOfItself(e) == <<e>> \o Kept

\* get and try_get_or_insert_mut move the entry to the front.
InFront(e) == <<e>> \o (IF IsCached(e.query) THEN RemoveAt(cache, PlaceOf(e.query)) ELSE Kept)

\* The entry to change, or a default one.
EntryOrDefault(q) ==
  IF IsCached(q) THEN cache[PlaceOf(q)]
  ELSE [query |-> q, raw |-> NoRaw, converted |-> [i \in {} |-> Nothing]]

Hit(i, v) == [kind |-> "hit", index |-> i, version |-> v]
Miss(i, v) == [kind |-> "miss", index |-> i, version |-> v]
NotExist(i) == [kind |-> "not exist", index |-> i, version |-> Nothing]

\* A variant that goes one past the last candidate.
LookupPastTheEnd(e, i) ==
  IF i > e.raw.count THEN NotExist(i)
  ELSE IF i \notin DOMAIN e.converted THEN Miss(i, e.raw.version)
  ELSE IF e.converted[i] = Nothing THEN NotExist(i)
  ELSE Hit(i, e.converted[i])

\* SearchCache::find of one index.
Lookup(e, i) ==
  IF i >= e.raw.count THEN NotExist(i)
  ELSE IF i \notin DOMAIN e.converted THEN Miss(i, e.raw.version)
  ELSE IF e.converted[i] = Nothing THEN NotExist(i)
  ELSE Hit(i, e.converted[i])

\* put_raw_result keeps what was converted.
PutRaw(q, v, n) == InFront([EntryOrDefault(q) EXCEPT !.raw = [version |-> v, count |-> n]])

\* put_search_results of the converted misses: index -> version or Nothing.
PutConverted(q, new) ==
  IF DOMAIN new = {} THEN cache
  ELSE InFront([EntryOrDefault(q) EXCEPT
                  !.converted = [i \in DOMAIN @ \cup DOMAIN new |->
                                   IF i \in DOMAIN new THEN new[i] ELSE @[i]]])

-----------------------------------------------------------------------------
(* Requests.                                                               *)

Fresh(pc, q, page, size) ==
  [pc |-> pc, query |-> q, page |-> page, size |-> size, guard |-> 0, results |-> <<>>]

\* Holding a SearchIndexGuard, which the conversion shares.
Reading == {"holding", "searching", "converting"}
Done == {"idle", "answered", "failed"}

\* A variant whose conversion runs without the guard.
ReadersBeforeConversion == {r \in Handlers : handlers[r].pc \in Reading \ {"converting"}}
Readers == {r \in Handlers : handlers[r].pc \in Reading}

First(h) == h.page * h.size
Index(h, k) == First(h) + k - 1

Init ==
  /\ head = 1
  /\ versions = <<1>>
  /\ lock = <<>>
  /\ handlers = [r \in Handlers |-> Fresh("idle", CHOOSE q \in Queries : TRUE, 0, 0)]
  /\ cache = <<>>
  /\ worker = "receiving"
  /\ signals = <<>>

\* A request with a non-empty query arrives and queues for a read lock.
Arrive(r) ==
  /\ handlers[r].pc \in Done
  /\ \E q \in Queries, page \in Pages, size \in PageSizes :
       handlers' = [handlers EXCEPT ![r] = Fresh("waiting", q, page, size)]
  /\ lock' = Append(lock, r)
  /\ UNCHANGED <<head, versions, cache, worker, signals>>

\* tokio's lock serves its waiters in order.
AcquireRead(r) ==
  /\ lock # <<>> /\ Head(lock) = r
  /\ lock' = Tail(lock)
  /\ handlers' = [handlers EXCEPT ![r].pc = "holding", ![r].guard = version]
  /\ UNCHANGED <<head, versions, cache, worker, signals>>

Find(r) ==
  LET h == handlers[r]
  IN  /\ h.pc = "holding"
      /\ IF IsCached(h.query)
           THEN LET e == cache[PlaceOf(h.query)]
                IN  /\ cache' = InFront(e)
                    /\ handlers' = [handlers EXCEPT
                         ![r].pc = "converting",
                         ![r].results = [k \in 1..h.size |-> Lookup(e, Index(h, k))]]
           ELSE /\ handlers' = [handlers EXCEPT ![r].pc = "searching"]
                /\ UNCHANGED cache
      /\ UNCHANGED <<head, versions, lock, worker, signals>>

\* The search itself, the caching of all of it, and the page that is asked for.
Search(r) ==
  LET h == handlers[r]
      n == RawCount[h.query][version]
  IN  /\ h.pc = "searching"
      /\ IF h.query \in Rejected
           THEN /\ handlers' = [handlers EXCEPT ![r].pc = "failed"]
                /\ UNCHANGED cache
           ELSE /\ cache' = PutRaw(h.query, version, n)
                /\ handlers' = [handlers EXCEPT
                     ![r].pc = "converting",
                     ![r].results = [k \in {j \in 1..h.size : Index(h, j) < n} |->
                                       Miss(Index(h, k), version)]]
      /\ UNCHANGED <<head, versions, lock, worker, signals>>

Converted(q, m) ==
  IF m.kind # "miss" THEN m
  ELSE IF <<q, m.version, m.index>> \in FalsePositives THEN NotExist(m.index)
  ELSE Hit(m.index, m.version)

\* A variant that starts over when the conversion fails.
ConvertOrSearchAgain(r) ==
  LET h       == handlers[r]
      misses  == {k \in DOMAIN h.results : h.results[k].kind = "miss"}
      results == [k \in DOMAIN h.results |-> Converted(h.query, h.results[k])]
      new     == [i \in {h.results[k].index : k \in misses} |->
                    results[i - First(h) + 1].version]
  IN  /\ h.pc = "converting"
      /\ \/ /\ cache' = PutConverted(h.query, new)
            /\ handlers' = [handlers EXCEPT ![r].pc = "answered", ![r].results = results]
         \/ /\ MayFail /\ misses # {}
            /\ handlers' = [handlers EXCEPT ![r].pc = "searching"]
            /\ UNCHANGED cache
      /\ UNCHANGED <<head, versions, lock, worker, signals>>

\* Conversion, the caching of what was converted, and the response.
Convert(r) ==
  LET h       == handlers[r]
      misses  == {k \in DOMAIN h.results : h.results[k].kind = "miss"}
      results == [k \in DOMAIN h.results |-> Converted(h.query, h.results[k])]
      new     == [i \in {h.results[k].index : k \in misses} |->
                    results[i - First(h) + 1].version]
  IN  /\ h.pc = "converting"
      /\ \/ /\ cache' = PutConverted(h.query, new)
            /\ handlers' = [handlers EXCEPT ![r].pc = "answered", ![r].results = results]
         \/ /\ MayFail /\ misses # {}
            /\ handlers' = [handlers EXCEPT ![r].pc = "failed"]
            /\ UNCHANGED cache
         \/ /\ MayFail
            /\ cache' = PutConverted(h.query, new)
            /\ handlers' = [handlers EXCEPT ![r].pc = "failed"]
      /\ UNCHANGED <<head, versions, lock, worker, signals>>

-----------------------------------------------------------------------------
(* Reindexing.                                                             *)

Foreign == 0     \* a commit outside the indexed history
Malformed == -1  \* not a commit id

Commit ==
  /\ head < MaxVersion
  /\ head' = head + 1
  /\ UNCHANGED <<versions, lock, handlers, cache, worker, signals>>

\* The webhook or the debouncer sends a signal.
RequestReindex ==
  /\ Len(signals) < MaxSignals
  /\ \E c \in (1..head) \cup {Foreign, Malformed} : signals' = Append(signals, c)
  /\ UNCHANGED <<head, versions, lock, handlers, cache, worker>>

\* The signal stays in front until it is handled.
Receive ==
  /\ worker = "receiving" /\ signals # <<>>
  /\ worker' = "locking"
  /\ lock' = Append(lock, Reindexer)
  /\ UNCHANGED <<head, versions, handlers, cache, signals>>

\* A variant that takes the next commit for one it knows.
KnownOrNext(c) == c \in 1..(version + 1)

\* commit_id_to_commit_index has the commit.
Known(c) == c \in 1..version

Publish(v) == versions' = IF v = version THEN versions ELSE Append(versions, v)

\* do_incremental_index, alone with the index: an update to the head of the
\* repository, nothing to do, a malformed id, or an error part of the way.
DoIncrementalIndex ==
  LET c == Head(signals)
  IN  /\ worker = "locking" /\ Head(lock) = Reindexer /\ Readers = {}
      /\ signals' = Tail(signals)
      /\ lock' = Tail(lock)
      /\ \/ /\ ~Known(c) /\ c # Malformed
            /\ Publish(head)
            /\ worker' = "evicting"
         \/ /\ Known(c)
            /\ worker' = "receiving"
            /\ UNCHANGED versions
         \/ /\ c = Malformed
            /\ worker' = "reporting"
            /\ UNCHANGED versions
         \/ /\ MayFail /\ ~Known(c) /\ c # Malformed
            /\ \E v \in version..head : Publish(v)
            /\ worker' = "reporting"
      /\ UNCHANGED <<head, handlers, cache>>

\* A variant that gives up while a request may be using the cache.
EvictUnlessInUse ==
  /\ worker = "evicting"
  /\ cache' = IF Readers = {} THEN <<>> ELSE cache
  /\ worker' = "receiving"
  /\ UNCHANGED <<head, versions, lock, handlers, signals>>

\* evict_cache_after_reindex, after the lock is released.
Evict ==
  /\ worker = "evicting"
  /\ cache' = <<>>
  /\ worker' = "receiving"
  /\ UNCHANGED <<head, versions, lock, handlers, signals>>

\* An error is printed; the cache stays as it is.
Report ==
  /\ worker = "reporting"
  /\ worker' = "receiving"
  /\ UNCHANGED <<head, versions, lock, handlers, cache, signals>>

Next ==
  \/ \E r \in Handlers : Arrive(r) \/ AcquireRead(r) \/ Find(r) \/ Search(r) \/ Convert(r)
  \/ Commit
  \/ RequestReindex
  \/ Receive
  \/ DoIncrementalIndex
  \/ Evict
  \/ Report

\* Tasks of the runtime keep running, and so do the lock and the reindexer.
Fairness ==
  /\ \A r \in Handlers : WF_vars(AcquireRead(r) \/ Find(r) \/ Search(r) \/ Convert(r))
  /\ WF_vars(Receive \/ DoIncrementalIndex \/ Evict \/ Report)

Spec == Init /\ [][Next]_vars /\ Fairness

-----------------------------------------------------------------------------
(* Properties.                                                             *)

Versions == 0..MaxVersion

TypeOK ==
  /\ head \in 1..MaxVersion /\ versions \in BoundedSeq(1..head, MaxVersion)
  /\ IsInjective(lock) /\ Range(lock) \subseteq Handlers \cup {Reindexer}
  /\ \A r \in Handlers :
       /\ handlers[r].pc \in Done \cup Reading \cup {"waiting"}
       /\ handlers[r].pc = "waiting" <=> r \in Range(lock)
       /\ handlers[r].guard \in Versions
  /\ worker \in {"receiving", "locking", "evicting", "reporting"}
  /\ worker = "locking" <=> Reindexer \in Range(lock)
  /\ Len(cache) <= CacheSize
  /\ \A i, j \in DOMAIN cache : i # j => cache[i].query # cache[j].query

(***************************************************************************)
(* A handler looks candidates up, converts them and names their commits    *)
(* against one version of the index: it cannot change between the guard's  *)
(* acquisition and the response (index_guard in api/search.rs).            *)
(***************************************************************************)
OneVersionPerRequest ==
  \A r \in Handlers : handlers[r].pc \in Reading => handlers[r].guard = version

(***************************************************************************)
(* The eviction that follows an update lags behind the lock, so handlers   *)
(* may read, and even write back, results of an older version.  They are   *)
(* never more than one update (candidates) or two (hits) behind, and one   *)
(* better once the eviction is over.                                       *)
(***************************************************************************)
Behind(v, w) == Cardinality({u \in Range(versions) : v < u /\ u <= w})

Lag == IF worker = "evicting" THEN 1 ELSE 0

CacheIsRecent ==
  \A i \in DOMAIN cache :
    LET e == cache[i]
    IN  /\ e.raw = NoRaw \/ Behind(e.raw.version, version) <= Lag
        /\ \A j \in DOMAIN e.converted :
             e.converted[j] = Nothing \/ Behind(e.converted[j], version) <= Lag + 1

(***************************************************************************)
(* What a user gets is at most two updates old: a hit that was converted   *)
(* from old candidates just before an eviction may outlive it.             *)
(***************************************************************************)
AnswersAreRecent ==
  \A r \in Handlers : handlers[r].pc = "answered" =>
    \A k \in DOMAIN handlers[r].results :
      LET a == handlers[r].results[k]
      IN  a.kind = "hit" => Behind(a.version, handlers[r].guard) <= 2

HitIndexes(h) == {h.results[k].index : k \in {j \in DOMAIN h.results : h.results[j].kind = "hit"}}

TrueHits(h) ==
  {i \in First(h)..(First(h) + h.size - 1) :
     /\ i < RawCount[h.query][h.guard]
     /\ <<h.query, h.guard, i>> \notin FalsePositives}

(***************************************************************************)
(* While the index does not change and the cache holds every query, two    *)
(* requests that fill the same entry in any order, page by page, do not    *)
(* disturb each other: an answer holds the hits of its page and no others. *)
(***************************************************************************)
AnswersAreExact ==
  \A r \in Handlers : handlers[r].pc = "answered" =>
    HitIndexes(handlers[r]) = TrueHits(handlers[r])

(***************************************************************************)
(* Every request is answered: a handler never waits for the reindexer and  *)
(* the reindexer for the handlers in a circle (read_owned, blocking_write).*)
(***************************************************************************)
RequestsAreAnswered ==
  \A r \in Handlers : handlers[r].pc = "waiting" ~> handlers[r].pc \in {"answered", "failed"}

(***************************************************************************)
(* A signal is not lost: its commit is in the index in the end, or an      *)
(* update fails after it, however many requests hold the lock meanwhile    *)
(* (handle_re_index).                                                      *)
(***************************************************************************)
SignalsAreIndexed ==
  \A c \in 1..MaxVersion : c \in Range(signals) ~> (version >= c \/ worker = "reporting")

(***************************************************************************)
(* crep-server/README.md, Search API: the endpoint returns the first and   *)
(* last commits that contained the match.  So a candidate that exists, and *)
(* is not a false positive, is in the answer, be it an older one.          *)
(***************************************************************************)
HitsAreReturned ==
  \A r \in Handlers : handlers[r].pc = "answered" =>
    TrueHits(handlers[r]) \subseteq HitIndexes(handlers[r])
=============================================================================
