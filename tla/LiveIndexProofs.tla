--------------------------- MODULE LiveIndexProofs ---------------------------
(***************************************************************************)
(* The debouncer has one timer task at a time, and so sends heads in the   *)
(* order it reads them: for any number of slots, commits, notifications    *)
(* and waiting signals.                                                    *)
(***************************************************************************)
EXTENDS LiveIndex, TLAPS

OneTimer == \A t, u \in Timers : timers[t] # "none" /\ timers[u] # "none" => t = u

\* What a task is about to send is a commit.
ReadsCommits == \A t \in Timers : timers[t] = "sending" => headRead[t] # 0

Inductive == TypeOK /\ OneTimer /\ ReadsCommits /\ SignalsInOrder

(* The two queues.                                                         *)

LEMMA BoundedSeqElement ==
  ASSUME NEW S, NEW n \in Nat, NEW s
  PROVE  s \in BoundedSeq(S, n) <=> s \in Seq(S) /\ Len(s) <= n
<1>1. ASSUME s \in BoundedSeq(S, n) PROVE s \in Seq(S) /\ Len(s) <= n
  BY <1>1 DEF BoundedSeq, SeqOf
<1>2. ASSUME s \in Seq(S), Len(s) <= n PROVE s \in BoundedSeq(S, n)
  <2>1. Len(s) \in 0..n /\ s \in [1..Len(s) -> S]
    BY <1>2
  <2> QED BY <2>1 DEF BoundedSeq, SeqOf
<1> QED BY <1>1, <1>2

LEMMA EventQueues ==
  /\ <<>> \in BoundedSeq(Paths, MaxEvents)
  /\ \A s \in BoundedSeq(Paths, MaxEvents) :
       /\ s # <<>> => Tail(s) \in BoundedSeq(Paths, MaxEvents)
       /\ Len(s) < MaxEvents => \A p \in Paths : Append(s, p) \in BoundedSeq(Paths, MaxEvents)
<1>1. MaxEvents \in Nat
  BY LiveIndexAssumption
<1>2. \A s : s \in BoundedSeq(Paths, MaxEvents) <=> s \in Seq(Paths) /\ Len(s) <= MaxEvents
  BY <1>1, BoundedSeqElement
<1>3. <<>> \in Seq(Paths) /\ Len(<<>>) <= MaxEvents
  BY <1>1
<1>4. ASSUME NEW s \in Seq(Paths), Len(s) <= MaxEvents
      PROVE  /\ s # <<>> => Tail(s) \in Seq(Paths) /\ Len(Tail(s)) <= MaxEvents
             /\ Len(s) < MaxEvents =>
                  \A p \in Paths : Append(s, p) \in Seq(Paths) /\ Len(Append(s, p)) <= MaxEvents
  BY <1>1, <1>4
<1> QED BY <1>2, <1>3, <1>4

LEMMA LargerSeq ==
  ASSUME NEW S, NEW T, S \subseteq T, NEW s \in Seq(S)
  PROVE  s \in Seq(T)
OBVIOUS

LEMMA Queued ==
  ASSUME NEW S, NEW s \in Seq(S)
  PROVE  /\ s # <<>> => Head(s) \in S /\ Head(s) = s[1] /\ Tail(s) \in Seq(S) /\ Len(Tail(s)) = Len(s) - 1
                        /\ DOMAIN Tail(s) = 1..(Len(s) - 1)
                        /\ \A i \in 1..(Len(s) - 1) : Tail(s)[i] = s[i + 1]
         /\ \A x \in S : /\ Append(s, x) \in Seq(S) /\ Len(Append(s, x)) = Len(s) + 1
                         /\ DOMAIN Append(s, x) = 1..(Len(s) + 1)
                         /\ Append(s, x)[Len(s) + 1] = x
                         /\ \A i \in 1..Len(s) : Append(s, x)[i] = s[i]
         /\ DOMAIN s = 1..Len(s) /\ Len(s) \in Nat
OBVIOUS

-----------------------------------------------------------------------------
(* Every step preserves the invariant.                                     *)

LEMMA Started == Init => Inductive
<1> SUFFICES ASSUME Init PROVE Inductive
  OBVIOUS
<1>1. events \in BoundedSeq(Paths, MaxEvents)
  BY EventQueues DEF Init
<1>2. /\ branch \in 1..MaxCommits /\ indexed \in 1..branch
      /\ exists \in BOOLEAN /\ isTimerSet \in BOOLEAN
      /\ headRead \in [Timers -> 0..branch]
      /\ signals \in Seq(1..branch)
      /\ failed \in 0..branch
  <2>1. branch \in 1..MaxCommits /\ indexed \in 1..branch /\ 0 \in 0..branch
    BY LiveIndexAssumption DEF Init
  <2>2. exists \in BOOLEAN /\ isTimerSet \in BOOLEAN
    BY DEF Init
  <2> QED BY <2>1, <2>2 DEF Init
<1>3. /\ timers \in [Timers -> {"none", "sleeping", "sending", "clearing", "panicked"}]
      /\ \A t \in Timers : timers[t] = "none"
      /\ ~ isTimerSet
  BY DEF Init
<1>4. TypeOK
  BY <1>1, <1>2, <1>3 DEF TypeOK
<1>5. OneTimer /\ ReadsCommits
  BY <1>3 DEF OneTimer, ReadsCommits
<1>6. SignalsInOrder
  BY <1>3 DEF Init, SignalsInOrder
<1> QED BY <1>4, <1>5, <1>6 DEF Inductive

\* A step other than the reindexer's reports no failed run.
LEMMA NoFailure ==
  ASSUME TypeOK, branch' = branch, failed' = 0
  PROVE  failed' \in 0..branch'
BY LiveIndexAssumption DEF TypeOK

\* git adds a notification, and may move the branch on.
LEMMA GitStep ==
  ASSUME Inductive, Commit \/ OtherWrite \/ ToggleBranch
  PROVE  Inductive'
<1>1. \E path \in Paths : Notify(path)
  BY DEF Commit, OtherWrite, ToggleBranch, Paths
<1>2. /\ branch \in 1..MaxCommits /\ branch' \in 1..MaxCommits /\ branch <= branch'
      /\ UNCHANGED <<isTimerSet, timers, headRead, signals, indexed>> /\ failed' = 0
  <2>1. branch \in 1..MaxCommits /\ MaxCommits \in Nat
    BY LiveIndexAssumption DEF Inductive, TypeOK
  <2>2. branch' = branch \/ (branch' = branch + 1 /\ branch < MaxCommits)
    BY DEF Commit, OtherWrite, ToggleBranch
  <2>3. UNCHANGED <<isTimerSet, timers, headRead, signals, indexed>> /\ failed' = 0
    BY DEF Commit, OtherWrite, ToggleBranch
  <2> QED BY <2>1, <2>2, <2>3
<1>3. events' \in BoundedSeq(Paths, MaxEvents)
  BY <1>1, EventQueues DEF Notify, Inductive, TypeOK
<1>8. exists' \in BOOLEAN
  BY DEF Commit, OtherWrite, ToggleBranch, Inductive, TypeOK
<1>4. /\ indexed' \in 1..branch'
      /\ headRead' \in [Timers -> 0..branch']
      /\ signals' \in Seq(1..branch')
      /\ failed' \in 0..branch'
  <2>1. 1..branch \subseteq 1..branch' /\ 0..branch \subseteq 0..branch'
    BY <1>2
  <2>2. signals \in Seq(1..branch')
    BY <2>1, LargerSeq DEF Inductive, TypeOK
  <2>3. failed' \in 0..branch'
    BY <1>2
  <2> QED BY <1>2, <2>1, <2>2, <2>3 DEF Inductive, TypeOK
<1>5. TypeOK'
  BY <1>2, <1>3, <1>4, <1>8 DEF Inductive, TypeOK
<1>6. OneTimer' /\ ReadsCommits' /\ SignalsInOrder'
  BY <1>2 DEF Inductive, OneTimer, ReadsCommits, SignalsInOrder
<1> QED BY <1>5, <1>6 DEF Inductive

\* A task is started only if none is there, since the flag is set for as long as one is.
LEMMA DeliverStep ==
  ASSUME Inductive, DeliverEvent
  PROVE  Inductive'
<1>1. /\ UNCHANGED <<branch, exists, headRead, signals, indexed>>
      /\ events' \in BoundedSeq(Paths, MaxEvents)
      /\ failed' \in 0..branch'
  BY EventQueues, NoFailure DEF DeliverEvent, Inductive, TypeOK
<1>2. CASE UNCHANGED <<isTimerSet, timers>>
  BY <1>1, <1>2 DEF Inductive, TypeOK, OneTimer, ReadsCommits, SignalsInOrder
<1>3. CASE /\ ~ isTimerSet /\ isTimerSet' = TRUE
           /\ \E t \in Timers : timers' = [timers EXCEPT ![t] = "sleeping"]
  <2>1. PICK t \in Timers : timers' = [timers EXCEPT ![t] = "sleeping"]
    BY <1>3
  <2>2. \A u \in Timers : timers[u] = "none" /\ (u # t => timers'[u] = "none")
    BY <1>3, <2>1 DEF Inductive, TypeOK
  <2>3. timers'[t] = "sleeping"
    BY <2>1 DEF Inductive, TypeOK
  <2>4. TypeOK'
    BY <1>1, <1>3, <2>1, <2>3 DEF Inductive, TypeOK
  <2>5. OneTimer'
    BY <2>2 DEF OneTimer
  <2>6. ReadsCommits' /\ SignalsInOrder'
    BY <1>1, <2>2, <2>3 DEF Inductive, ReadsCommits, SignalsInOrder
  <2> QED BY <2>4, <2>5, <2>6 DEF Inductive
<1> QED BY <1>2, <1>3 DEF DeliverEvent, ScheduleGitChangeCheck

\* What is read is the newest commit, and no older than what was sent before.
LEMMA WakeStep ==
  ASSUME Inductive, NEW t \in Timers, Wake(t)
  PROVE  Inductive'
<1>1. /\ UNCHANGED <<branch, exists, events, isTimerSet, signals, indexed>>
      /\ timers[t] = "sleeping" /\ timers'[t] \in {"sending", "panicked"}
      /\ timers' \in [Timers -> {"none", "sleeping", "sending", "clearing", "panicked"}]
      /\ \A u \in Timers : u # t => timers'[u] = timers[u]
      /\ failed' \in 0..branch'
  BY NoFailure DEF Wake, Inductive, TypeOK
<1>2. /\ headRead' \in [Timers -> 0..branch]
      /\ timers'[t] = "sending" => headRead'[t] = branch
  BY LiveIndexAssumption DEF Wake, Inductive, TypeOK
<1>3. \A u \in Timers : u # t => timers[u] = "none"
  BY <1>1 DEF Inductive, OneTimer
<1>4. TypeOK'
  <2>1. isTimerSet /\ \E u \in Timers : timers'[u] # "none"
    BY <1>1 DEF Inductive, TypeOK
  <2> QED BY <1>1, <1>2, <2>1 DEF Inductive, TypeOK
<1>5. OneTimer' /\ ReadsCommits'
  <2>1. branch # 0
    BY LiveIndexAssumption DEF Inductive, TypeOK
  <2>2. OneTimer'
    BY <1>1, <1>3 DEF OneTimer
  <2>3. \A u \in Timers : u # t => timers'[u] # "sending"
    BY <1>1, <1>3
  <2> QED BY <1>2, <2>1, <2>2, <2>3 DEF ReadsCommits
<1>6. SignalsInOrder'
  <2>1. \A i \in DOMAIN signals : signals[i] <= branch
    BY DEF Inductive, TypeOK
  <2> QED BY <1>1, <1>2, <1>3, <2>1 DEF Inductive, SignalsInOrder
<1> QED BY <1>4, <1>5, <1>6 DEF Inductive

LEMMA SendStep ==
  ASSUME Inductive, NEW t \in Timers, Send(t)
  PROVE  Inductive'
<1>1. /\ UNCHANGED <<branch, exists, events, isTimerSet, indexed>>
      /\ timers[t] = "sending" /\ timers'[t] = "clearing"
      /\ timers' \in [Timers -> {"none", "sleeping", "sending", "clearing", "panicked"}]
      /\ \A u \in Timers : u # t => timers'[u] = timers[u]
      /\ headRead' \in [Timers -> 0..branch]
      /\ signals' = Append(signals, headRead[t])
      /\ failed' \in 0..branch'
  BY NoFailure DEF Send, Inductive, TypeOK
<1>2. \A u \in Timers : u # t => timers[u] = "none"
  BY <1>1 DEF Inductive, OneTimer
<1>3. \A i \in DOMAIN signals : signals[i] <= headRead[t]
  BY <1>1 DEF Inductive, SignalsInOrder
<1>4. headRead[t] \in 1..branch
  BY <1>1, LiveIndexAssumption DEF Inductive, TypeOK, ReadsCommits
<1>5. signals' \in Seq(1..branch)
  BY <1>1, <1>4, Queued DEF Inductive, TypeOK
<1>6. TypeOK'
  <2>1. isTimerSet /\ \E u \in Timers : timers'[u] # "none"
    BY <1>1 DEF Inductive, TypeOK
  <2> QED BY <1>1, <1>5, <2>1 DEF Inductive, TypeOK
<1>7. OneTimer' /\ ReadsCommits'
  BY <1>1, <1>2 DEF OneTimer, ReadsCommits
<1>8. SignalsInOrder'
  <2>1. /\ signals \in Seq(1..branch) /\ DOMAIN signals = 1..Len(signals) /\ Len(signals) \in Nat
        /\ DOMAIN signals' = 1..(Len(signals) + 1)
        /\ signals'[Len(signals) + 1] = headRead[t]
        /\ \A i \in 1..Len(signals) : signals'[i] = signals[i]
    BY <1>1, <1>4, Queued DEF Inductive, TypeOK
  <2>2. ASSUME NEW i \in DOMAIN signals', NEW j \in DOMAIN signals', i < j
        PROVE  signals'[i] <= signals'[j]
    <3>1. i \in 1..Len(signals)
      BY <2>1, <2>2
    <3>2. CASE j \in 1..Len(signals)
      BY <2>1, <2>2, <3>1, <3>2 DEF Inductive, SignalsInOrder
    <3>3. CASE j = Len(signals) + 1
      BY <1>3, <2>1, <3>1, <3>3
    <3> QED BY <2>1, <3>2, <3>3
  <2>3. \A u \in Timers : timers'[u] # "sending"
    BY <1>1, <1>2
  <2> QED BY <2>2, <2>3 DEF SignalsInOrder
<1> QED BY <1>6, <1>7, <1>8 DEF Inductive

LEMMA ClearStep ==
  ASSUME Inductive, NEW t \in Timers, ClearTimer(t)
  PROVE  Inductive'
<1>1. /\ UNCHANGED <<branch, exists, events, headRead, signals, indexed>>
      /\ isTimerSet' = FALSE
      /\ timers[t] = "clearing"
      /\ timers' \in [Timers -> {"none", "sleeping", "sending", "clearing", "panicked"}]
      /\ timers'[t] = "none" /\ \A u \in Timers : u # t => timers'[u] = timers[u]
      /\ failed' \in 0..branch'
  BY NoFailure DEF ClearTimer, Inductive, TypeOK
<1>2. \A u \in Timers : timers'[u] = "none"
  BY <1>1 DEF Inductive, OneTimer
<1>3. TypeOK'
  BY <1>1, <1>2 DEF Inductive, TypeOK
<1>4. OneTimer' /\ ReadsCommits' /\ SignalsInOrder'
  BY <1>1, <1>2 DEF Inductive, OneTimer, ReadsCommits, SignalsInOrder
<1> QED BY <1>3, <1>4 DEF Inductive

LEMMA ReIndexStep ==
  ASSUME Inductive, ReIndex
  PROVE  Inductive'
<1>1. /\ UNCHANGED <<branch, exists, events, isTimerSet, timers, headRead>>
      /\ signals # <<>> /\ signals \in Seq(1..branch) /\ signals' = Tail(signals)
      /\ indexed' \in {indexed, branch} \cup (indexed..branch)
      /\ failed' \in {0, Head(signals)}
  BY DEF ReIndex, Run, Inductive, TypeOK
<1>2. TypeOK'
  <2>1. signals' \in Seq(1..branch) /\ Head(signals) \in 1..branch
    BY <1>1, Queued
  <2>2. branch \in Nat /\ indexed' \in 1..branch /\ failed' \in 0..branch
    BY <1>1, <2>1, LiveIndexAssumption DEF Inductive, TypeOK
  <2> QED BY <1>1, <2>1, <2>2 DEF Inductive, TypeOK
<1>3. SignalsInOrder'
  <2>1. /\ DOMAIN signals = 1..Len(signals) /\ Len(signals) \in Nat
        /\ DOMAIN signals' = 1..(Len(signals) - 1)
        /\ \A i \in 1..(Len(signals) - 1) : signals'[i] = signals[i + 1]
    BY <1>1, Queued
  <2>2. \A i \in DOMAIN signals' : i + 1 \in DOMAIN signals /\ signals'[i] = signals[i + 1]
    BY <2>1
  <2>3. \A i, j \in DOMAIN signals' : i < j => i + 1 < j + 1
    BY <2>1
  <2> QED BY <1>1, <2>2, <2>3 DEF Inductive, SignalsInOrder
<1>4. OneTimer' /\ ReadsCommits'
  BY <1>1 DEF Inductive, OneTimer, ReadsCommits
<1> QED BY <1>2, <1>3, <1>4 DEF Inductive

LEMMA Stutter ==
  ASSUME Inductive, UNCHANGED vars
  PROVE  Inductive'
BY DEF vars, Inductive, TypeOK, OneTimer, ReadsCommits, SignalsInOrder

\* Every reachable state satisfies the inductive invariant.
THEOREM Invariance == Spec => []Inductive
<1>1. Inductive /\ [Next]_vars => Inductive'
  <2> SUFFICES ASSUME Inductive, [Next]_vars PROVE Inductive'
    OBVIOUS
  <2> QED BY GitStep, DeliverStep, WakeStep, SendStep, ClearStep, ReIndexStep, Stutter DEF Next
<1> QED BY <1>1, Started, PTL DEF Spec

\* The flag is set exactly as long as a task is there, a task that has panicked
\* included; an index never gets ahead of its branch (debouncer.rs 41-84).
THEOREM TypeCorrect == Spec => []TypeOK
<1>1. Inductive => TypeOK
  BY DEF Inductive
<1> QED BY <1>1, Invariance, PTL

\* Heads are sent in the order they were read (schedule_git_change_check).
THEOREM SignalsAlwaysInOrder == Spec => []SignalsInOrder
<1>1. Inductive => SignalsInOrder
  BY DEF Inductive
<1> QED BY <1>1, Invariance, PTL

=============================================================================
