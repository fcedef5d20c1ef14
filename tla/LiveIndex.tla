----------------------------- MODULE LiveIndex ------------------------------
(***************************************************************************)
(* Keeping a server's index up to date with the repository it watches      *)
(* (crep-server/server/src/reindex_notify/debouncer.rs, repo_watcher.rs,   *)
(* indexer/indexer.rs, indexer/index.rs).                                  *)
(*                                                                         *)
(* git writes below .git reach a callback on an OS thread.  The callback   *)
(* starts at most one timer task at a time; the task sleeps, reads the     *)
(* head of the watched branch, sends it to the reindexer and only then     *)
(* allows the next timer.  Commits are numbered along the branch, which is *)
(* the branch that is checked out and only moves forward; 0 stands for no  *)
(* commit.                                                                 *)
(***************************************************************************)
EXTENDS Integers, Sequences, SequencesExt

CONSTANTS
  Timers,          \* slots for the timer tasks that may exist at once
  MaxCommits,      \* bound: commits on the watched branch
  MaxEvents,       \* bound: file system events not delivered yet
  MaxSignals,      \* bound: git is quiet while this many signals wait
  BranchMayVanish, \* whether the watched branch may be renamed
  MayFail          \* whether a run of the indexer may fail

ASSUME LiveIndexAssumption ==
  /\ MaxCommits \in Nat \ {0} /\ MaxEvents \in Nat \ {0}
  /\ MaxSignals \in Nat \ {0}
  /\ BranchMayVanish \in BOOLEAN /\ MayFail \in BOOLEAN

VARIABLES
  branch,      \* newest commit of the watched branch
  exists,      \* whether refs/heads/<branch> exists
  events,      \* paths below .git with an undelivered event, oldest first
  isTimerSet,  \* is_timer_set
  timers,      \* per slot: "none", "sleeping", "sending", "clearing" or "panicked"
  headRead,    \* per slot: the commit its task has read
  signals,     \* the unbounded channel to the reindexer
  indexed,     \* newest commit recorded in the index
  failed       \* the signal whose run has just failed and been reported, or 0

vars == <<branch, exists, events, isTimerSet, timers, headRead, signals, indexed, failed>>

\* WATCH_GIT_PATHS against the rest, objects and packs.
WatchedPath == "/refs/heads"
OtherPath == "/objects"
Paths == {WatchedPath, OtherPath}

\* The server starts with a saved index, which may be older than the branch.
Init ==
  /\ branch \in 1..MaxCommits
  /\ indexed \in 1..branch
  /\ exists = TRUE
  /\ events = <<>>
  /\ isTimerSet = FALSE
  /\ timers = [t \in Timers |-> "none"]
  /\ headRead = [t \in Timers |-> 0]
  /\ signals = <<>>
  /\ failed = 0

-----------------------------------------------------------------------------
(* git.                                                                    *)

Notify(path) ==
  /\ Len(events) < MaxEvents /\ Len(signals) < MaxSignals
  /\ events' = Append(events, path)

\* git moves the branch: the reference is renamed into place.
Commit ==
  /\ exists /\ branch < MaxCommits
  /\ branch' = branch + 1
  /\ Notify(WatchedPath)
  /\ failed' = 0
  /\ UNCHANGED <<exists, isTimerSet, timers, headRead, signals, indexed>>

\* Anything else below .git: objects, lock files, reflogs, other branches.
OtherWrite ==
  /\ \E path \in Paths : Notify(path)
  /\ failed' = 0
  /\ UNCHANGED <<branch, exists, isTimerSet, timers, headRead, signals, indexed>>

\* The watched branch is renamed away, HEAD following it, or comes back.
ToggleBranch ==
  /\ BranchMayVanish
  /\ exists' = ~exists
  /\ Notify(WatchedPath)
  /\ failed' = 0
  /\ UNCHANGED <<branch, isTimerSet, timers, headRead, signals, indexed>>

-----------------------------------------------------------------------------
(* The watcher's callback and the timer task.                              *)

\* schedule_git_change_check: the flag is swapped, a task spawned if it was clear.
ScheduleGitChangeCheck ==
  IF isTimerSet THEN UNCHANGED <<isTimerSet, timers>>
  ELSE /\ isTimerSet' = TRUE
       /\ \E t \in Timers :
            /\ timers[t] = "none"
            /\ timers' = [timers EXCEPT ![t] = "sleeping"]

\* A variant that takes the flag before it looks at the path.
DeliverEventFlagFirst ==
  /\ events # <<>>
  /\ events' = Tail(events)
  /\ IF Head(events) = WatchedPath
       THEN ScheduleGitChangeCheck
       ELSE isTimerSet' = TRUE /\ UNCHANGED timers
  /\ failed' = 0
  /\ UNCHANGED <<branch, exists, headRead, signals, indexed>>

DeliverEvent ==
  /\ events # <<>>
  /\ events' = Tail(events)
  /\ IF Head(events) = WatchedPath
       THEN ScheduleGitChangeCheck
       ELSE UNCHANGED <<isTimerSet, timers>>
  /\ failed' = 0
  /\ UNCHANGED <<branch, exists, headRead, signals, indexed>>

\* A variant that lets the next timer start as soon as this one wakes.
WakeAndClear(t) ==
  /\ timers[t] = "sleeping"
  /\ headRead' = [headRead EXCEPT ![t] = branch]
  /\ timers' = [timers EXCEPT ![t] = "sending"]
  /\ isTimerSet' = FALSE
  /\ failed' = 0
  /\ UNCHANGED <<branch, exists, events, signals, indexed>>

\* The sleep is over: the head is read, and a missing reference is unwrapped.
Wake(t) ==
  /\ timers[t] = "sleeping"
  /\ IF exists
       THEN /\ headRead' = [headRead EXCEPT ![t] = branch]
            /\ timers' = [timers EXCEPT ![t] = "sending"]
       ELSE /\ timers' = [timers EXCEPT ![t] = "panicked"]
            /\ UNCHANGED headRead
  /\ failed' = 0
  /\ UNCHANGED <<branch, exists, events, isTimerSet, signals, indexed>>

Send(t) ==
  /\ timers[t] = "sending"
  /\ signals' = Append(signals, headRead[t])
  /\ headRead' = [headRead EXCEPT ![t] = 0]
  /\ timers' = [timers EXCEPT ![t] = "clearing"]
  /\ failed' = 0
  /\ UNCHANGED <<branch, exists, events, isTimerSet, indexed>>

\* The task ends by allowing the next timer.
ClearTimer(t) ==
  /\ timers[t] = "clearing"
  /\ isTimerSet' = FALSE
  /\ timers' = [timers EXCEPT ![t] = "none"]
  /\ failed' = 0
  /\ UNCHANGED <<branch, exists, events, headRead, signals, indexed>>

-----------------------------------------------------------------------------
(* The reindexer: a signal for a commit it already has changes nothing,    *)
(* any other indexes everything up to the head of the repository.          *)

\* do_incremental_index for one signal.  A run that fails or panics is only printed;
\* it may have recorded some of the commits.
Run(signal) ==
  \/ signal <= indexed /\ indexed' = indexed /\ failed' = 0
  \/ signal > indexed /\ indexed' = branch /\ failed' = 0
  \/ signal > indexed /\ MayFail /\ indexed' \in indexed..branch /\ failed' = signal

\* A variant that drops the signals queued behind the one it handles.
ReIndexOnce ==
  /\ signals # <<>>
  /\ signals' = <<>>
  /\ Run(Head(signals))
  /\ UNCHANGED <<branch, exists, events, isTimerSet, timers, headRead>>

\* One turn of the loop of handle_re_index; a failed signal is not tried again.
ReIndex ==
  /\ signals # <<>>
  /\ signals' = Tail(signals)
  /\ Run(Head(signals))
  /\ UNCHANGED <<branch, exists, events, isTimerSet, timers, headRead>>

Next ==
  \/ Commit
  \/ OtherWrite
  \/ ToggleBranch
  \/ DeliverEvent
  \/ \E t \in Timers : Wake(t) \/ Send(t) \/ ClearTimer(t)
  \/ ReIndex

\* The watcher's thread and the server's tasks keep running; git owes nothing.
Fairness ==
  /\ WF_vars(DeliverEvent)
  /\ \A t \in Timers : WF_vars(Wake(t) \/ Send(t) \/ ClearTimer(t))
  /\ WF_vars(ReIndex)

Spec == Init /\ [][Next]_vars /\ Fairness

-----------------------------------------------------------------------------
(* Properties.                                                             *)

TypeOK ==
  /\ branch \in 1..MaxCommits /\ indexed \in 1..branch
  /\ exists \in BOOLEAN /\ isTimerSet \in BOOLEAN
  /\ events \in BoundedSeq(Paths, MaxEvents)
  /\ timers \in [Timers -> {"none", "sleeping", "sending", "clearing", "panicked"}]
  /\ headRead \in [Timers -> 0..branch]
  /\ signals \in Seq(1..branch)
  /\ failed \in 0..branch
  /\ isTimerSet <=> \E t \in Timers : timers[t] # "none"

(***************************************************************************)
(* One timer task at a time means the heads are sent in the order they     *)
(* were read: no signal is for an older commit than the one before it, and *)
(* what a task has yet to send is no older than what is in the channel.    *)
(***************************************************************************)
SignalsInOrder ==
  /\ \A i, j \in DOMAIN signals : i < j => signals[i] <= signals[j]
  /\ \A t \in Timers, i \in DOMAIN signals :
       timers[t] = "sending" => signals[i] <= headRead[t]

\* The task found the branch missing, and its panic left the flag set.
Panicked == \E t \in Timers : timers[t] = "panicked"

(***************************************************************************)
(* A commit that is on the branch while a timer sleeps gets indexed,       *)
(* however many signals wait in the channel and whatever commits the index *)
(* had when the server started, unless the branch is missing on waking or  *)
(* a run for a signal that recent fails from then on (handle_re_index only *)
(* prints that, indexer.rs 63-82).                                         *)
(***************************************************************************)
SleepingTimerIndexes ==
  \A c \in 1..MaxCommits :
    (branch >= c /\ failed = 0 /\ \E t \in Timers : timers[t] = "sleeping")
      ~> (indexed >= c \/ failed >= c \/ Panicked)

(***************************************************************************)
(* Debouncing does not turn itself off, short of that panic: is_timer_set  *)
(* is cleared again.                                                       *)
(***************************************************************************)
TimerIsCleared == isTimerSet ~> (~isTimerSet \/ Panicked)

(***************************************************************************)
(* debouncer.rs:14-16: whenever the .git directory is changed, debouncer   *)
(* gets notified and will wake up to check the repository.  So the commit  *)
(* of every delivered notification is indexed in the end.                  *)
(***************************************************************************)
NotifiedCommitIsIndexed ==
  \A c \in 1..MaxCommits :
    (branch >= c /\ exists /\ WatchedPath \in Range(events)) ~> indexed >= c
=============================================================================
