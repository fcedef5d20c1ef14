-------------------------------- MODULE App --------------------------------
(***************************************************************************)
(* The terminal application (crep-indexer-cli/src/app.rs): the keyboard    *)
(* thread, the loop that draws and handles messages, and the thread that   *)
(* searches, over two channels and one lock.  The index does not change,   *)
(* so that the outcome of a query is fixed.  Scrolling and layout are left *)
(* out, and of the log only that each entry wakes the loop.                *)
(***************************************************************************)
EXTENDS Integers, Sequences, SequencesExt

CONSTANTS
  Inputs,       \* values of the input line
  EmptyInput,   \* the value after Enter
  Outcome,      \* what handle_query does: [query -> OutcomeKinds]
  MaxKeys       \* bound: events of the terminal

QueryTypes == {"RawString", "Regex"}
AppQueries == QueryTypes \X Inputs
Terminate == <<"Terminate">>
Log == <<"Log">>
OutcomeKinds == {"results", "nothing", "error", "panic"}
Characters == {"i", "r", "q"}
Events == Characters \cup {"Esc", "Enter", "resize"}   \* resize is no key
NoQuery == <<>>

ASSUME AppAssumption ==
  /\ EmptyInput \in Inputs
  /\ Outcome \in [AppQueries -> OutcomeKinds]
  /\ MaxKeys \in Nat

VARIABLES
  ui,         \* the loop: "off", "top", "receive", "joining" or "exited"
  panicked,   \* whether the loop panicked
  state,      \* "Control", "Terminate", or the query type of State::Input
  prev,       \* prev_query_type, or <<>>
  input,      \* the input line
  shown,      \* the query whose results are shown, NoQuery if there are none
  messages,   \* the channel to the loop
  requests,   \* the channel to the search thread
  thread,     \* the search thread: "waiting", "searching", "ended" or "dead"
  searching,  \* the query it searches for
  asked,      \* the last query sent to it (not in the code)
  keys        \* events so far

appVars ==
  <<ui, panicked, state, prev, input, shown, messages, requests, thread, searching, asked, keys>>

loopVars == <<ui, panicked, state, prev, input, shown>>
searchVars == <<thread, searching>>

AppOff ==
  /\ ui = "off" /\ panicked = FALSE /\ state = "RawString" /\ prev = <<>>
  /\ input = EmptyInput /\ shown = NoQuery
  /\ messages = <<>> /\ requests = <<>>
  /\ thread = "ended" /\ searching = NoQuery /\ asked = NoQuery /\ keys = 0

\* App::new and the head of run.
StartApp ==
  /\ ui = "off"
  /\ ui' = "top"
  /\ thread' = "waiting"
  /\ UNCHANGED <<panicked, state, prev, input, shown, messages, requests, searching, asked, keys>>

-----------------------------------------------------------------------------
(* The keyboard thread.                                                    *)

Press(event) ==
  /\ ui # "off"
  /\ keys < MaxKeys
  /\ keys' = keys + 1
  /\ messages' = Append(messages, <<"Event", event>>)
  /\ UNCHANGED <<loopVars, requests, searchVars, asked>>

-----------------------------------------------------------------------------
(* The search thread.                                                      *)

\* A variant that keeps the first request.
DrainToFirst(queue) == [taken |-> Head(queue), left |-> <<>>]

\* recv, and try_recv until there is no more: only the last request counts.
Drain(queue) == [taken |-> Last(queue), left |-> <<>>]

\* recv, and the lock: the loop holds it only while it draws.
TakeRequest ==
  /\ thread = "waiting"
  /\ requests # <<>>
  /\ LET next == Drain(requests)
     IN  /\ requests' = next.left
         /\ IF next.taken = Terminate
            THEN /\ thread' = "ended"
                 /\ UNCHANGED <<searching, messages>>
            ELSE /\ thread' = "searching"
                 /\ searching' = next.taken
                 /\ messages' = Append(messages, Log)
  /\ UNCHANGED <<loopVars, asked, keys>>

\* A variant that leaves its loop on an error.
AfterErrorEnded(outcome) == IF outcome = "panic" THEN "dead" ELSE IF outcome = "error" THEN "ended" ELSE "waiting"

\* A panic is in the search itself and leaves the lock poisoned.
After(outcome) == IF outcome = "panic" THEN "dead" ELSE "waiting"

\* handle_query returns, or panics.
SearchDone ==
  /\ thread = "searching"
  /\ thread' = After(Outcome[searching])
  /\ messages' = CASE Outcome[searching] = "results" -> messages \o << <<"SearchResults", searching>>, Log >>
                   [] Outcome[searching] = "nothing" -> messages \o << <<"SearchResults", NoQuery>>, Log >>
                   [] OTHER -> messages
  /\ searching' = NoQuery
  /\ UNCHANGED <<loopVars, requests, asked, keys>>

-----------------------------------------------------------------------------
(* The loop.                                                               *)

\* Leaving the scope joins the search thread, whether the loop ended or panicked.
Leave(panics) ==
  /\ ui' = "joining"
  /\ panicked' = panics

\* terminal.draw: results are drawn under the lock, and a poisoned lock is a panic.
Draw ==
  /\ ui = "top"
  /\ state # "Terminate"
  /\ \/ /\ shown # NoQuery /\ thread = "dead"
        /\ Leave(TRUE)
     \/ /\ shown = NoQuery \/ thread \notin {"searching", "dead"}
        /\ ui' = "receive"
        /\ UNCHANGED panicked
  /\ UNCHANGED <<state, prev, input, shown, messages, requests, searchVars, asked, keys>>

\* The test of the state at the top of the loop.
Stop ==
  /\ ui = "top"
  /\ state = "Terminate"
  /\ Leave(FALSE)
  /\ UNCHANGED <<state, prev, input, shown, messages, requests, searchVars, asked, keys>>

\* search_send.send(..).unwrap(): no one receives once the thread has gone.
SendRequest(request) ==
  IF thread \in {"ended", "dead"}
  THEN Leave(TRUE) /\ UNCHANGED requests
  ELSE ui' = "top" /\ requests' = Append(requests, request) /\ UNCHANGED panicked

NoRequest == ui' = "top" /\ UNCHANGED <<panicked, requests, asked>>

\* Esc: between the input line and the control state.
Escape ==
  /\ state' = IF state = "Control" THEN (IF prev = <<>> THEN "RawString" ELSE prev[1]) ELSE "Control"
  /\ messages' = Tail(messages)
  /\ NoRequest
  /\ UNCHANGED input

\* Enter clears the input line, and searches for nothing.
Clear ==
  /\ input' = IF state = "Control" THEN input ELSE EmptyInput
  /\ messages' = Tail(messages)
  /\ NoRequest
  /\ UNCHANGED state

\* A variant that does not tell the search thread.
QuitQuietly ==
  /\ state' = "Terminate"
  /\ messages' = Append(Tail(messages), Terminate)
  /\ NoRequest
  /\ UNCHANGED input

\* 'q' in the control state: Terminate goes to both threads.
Quit ==
  /\ state' = "Terminate"
  /\ messages' = Append(Tail(messages), Terminate)
  /\ SendRequest(Terminate)
  /\ UNCHANGED <<input, asked>>

\* 'i' and 'r' in the control state.
ChooseQueryType(type) ==
  /\ state' = type
  /\ messages' = Tail(messages)
  /\ NoRequest
  /\ UNCHANGED input

\* A character of the input line.  What it makes of the line is the editor's choice;
\* the search starts at once.
Type ==
  \E value \in Inputs :
    /\ input' = value
    /\ asked' = <<state, value>>
    /\ messages' = Tail(messages)
    /\ SendRequest(<<state, value>>)
    /\ UNCHANGED state

Ignored ==
  /\ messages' = Tail(messages)
  /\ NoRequest
  /\ UNCHANGED <<state, input>>

\* handle_event.  The query type is remembered before the event is looked at.
HandleEvent(event) ==
  /\ prev' = IF state \in QueryTypes THEN <<state>> ELSE prev
  /\ \/ event = "resize" /\ Ignored
     \/ event = "Esc" /\ Escape
     \/ event = "Enter" /\ Clear
     \/ state = "Control" /\ event = "i" /\ ChooseQueryType("RawString")
     \/ state = "Control" /\ event = "r" /\ ChooseQueryType("Regex")
     \/ state = "Control" /\ event = "q" /\ Quit
     \/ state \in QueryTypes /\ event \in Characters /\ Type
  /\ UNCHANGED shown

\* ui_recv.recv() and the match on the message.
Receive ==
  /\ ui = "receive"
  /\ messages # <<>>
  /\ LET message == Head(messages)
     IN  IF message[1] = "Event" THEN HandleEvent(message[2])
         ELSE /\ messages' = Tail(messages)
              /\ shown' = IF message[1] = "SearchResults" THEN message[2] ELSE shown
              /\ ui' = IF message = Terminate THEN "joining" ELSE "top"
              /\ UNCHANGED <<panicked, state, prev, input, requests, asked>>
  /\ UNCHANGED <<searchVars, keys>>

\* The end of the scope: a panic of either thread becomes one of run.
Join ==
  /\ ui = "joining"
  /\ thread \in {"ended", "dead"}
  /\ ui' = "exited"
  /\ panicked' = (panicked \/ thread = "dead")
  /\ UNCHANGED <<state, prev, input, shown, messages, requests, searchVars, asked, keys>>

LoopStep == Draw \/ Stop \/ Receive \/ Join

SearchStep == TakeRequest \/ SearchDone

AppNext == StartApp \/ (\E e \in Events : Press(e)) \/ SearchStep \/ LoopStep

-----------------------------------------------------------------------------
(* Properties.                                                             *)

\* Once both threads have caught up, what is shown answers the last query typed, if
\* that query was answered at all (the draining of requests, app.rs 117-121, and the order of
\* results in the channel to the loop).
ShownIsLatest ==
  ui = "receive" /\ messages = <<>> /\ requests = <<>> /\ thread = "waiting" /\ asked # NoQuery =>
    /\ Outcome[asked] = "results" => shown = asked
    /\ Outcome[asked] = "nothing" => shown = NoQuery

\* The application ends with a panic only if a search panicked: sending to a thread
\* that has gone and drawing under a poisoned lock cannot happen otherwise.
PanicsOnlyAfterSearch == panicked => thread = "dead"

\* 'q' ends the application, whatever the search thread is doing and whatever is
\* still in the channels (the scope waits for the search thread, app.rs 108-175).
QuitExits == (state = "Terminate" /\ ui # "off") ~> (ui \in {"exited", "off"})
=============================================================================
