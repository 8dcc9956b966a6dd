-------------------------- MODULE BackgroundWatcher --------------------------
(***************************************************************************)
(* The life of a BackgroundWatcher (mail/watch.py): a control thread starts*)
(* and stops worker threads that all drive the one InboxWatcher, over one  *)
(* IMAP connection.  What the loop fetches is Watcher's subject; here a    *)
(* cycle is its calls, its handler and its waits, and the state is what    *)
(* the threads share: the stop event, _opened, the connection, _thread.    *)
(***************************************************************************)
EXTENDS Naturals, FiniteSets

CONSTANT
    MaxStarts           \* bound: worker threads started in one behaviour

ASSUME ThreadsAssumption == MaxStarts \in Nat \ {0}

VARIABLES
    slowJoins,          \* setting: stop(timeout=...) may give up on a worker
    partialOpen,        \* setting: it may log in, then refuse SELECT or STATUS
    stopEvent,          \* InboxWatcher._stop
    opened,             \* InboxWatcher._opened
    connected,          \* IMAPConnection._imap is set
    thread,             \* BackgroundWatcher._thread
    worker,             \* the next step of each worker thread
    control             \* the next step of the control thread

(* The settings are arbitrary and do not change.                           *)
setting == <<slowJoins, partialOpen>>
vars == <<setting, stopEvent, opened, connected, thread, worker, control>>

Threads == 1..MaxStarts
NoThread == 0

WorkerSteps ==
    {"unborn", "begin", "test", "open", "connect", "select", "mark", "call",
     "batch", "handler", "wait", "failed", "done"}

Alive == {t \in Threads : worker[t] \notin {"unborn", "done"}}

TypeOK ==
    /\ {slowJoins, partialOpen} \subseteq BOOLEAN
    /\ stopEvent \in BOOLEAN
    /\ opened \in BOOLEAN
    /\ connected \in BOOLEAN
    /\ thread \in Threads \cup {NoThread}
    /\ worker \in [Threads -> WorkerSteps]
    /\ control \in {"idle", "joining", "detach", "closing", "releasing"}
    /\ control = "joining" => thread \in Threads

Init ==
    /\ slowJoins \in BOOLEAN
    /\ partialOpen \in BOOLEAN
    /\ stopEvent = FALSE
    /\ opened = FALSE
    /\ connected = FALSE
    /\ thread = NoThread
    /\ worker = [t \in Threads |-> "unborn"]
    /\ control = "idle"

Goto(t, step) == worker' = [worker EXCEPT ![t] = step]

-----------------------------------------------------------------------------
(* A worker thread. *)

(* __iter__ clears the stop event before its first test. *)
Clear(t) ==
    /\ worker[t] = "begin"
    /\ stopEvent' = FALSE
    /\ Goto(t, "test")
    /\ UNCHANGED <<setting, opened, connected, thread, control>>

(* Mutant: the event is cleared at the top of every cycle. *)
Test_Clears(t) ==
    /\ worker[t] = "test"
    /\ stopEvent' = FALSE
    /\ Goto(t, "open")
    /\ UNCHANGED <<setting, opened, connected, thread, control>>

Test(t) ==
    /\ worker[t] = "test"
    /\ Goto(t, IF stopEvent THEN "done" ELSE "open")
    /\ UNCHANGED <<setting, stopEvent, opened, connected, thread, control>>

OpenTest(t) ==
    /\ worker[t] = "open"
    /\ Goto(t, IF opened THEN "call" ELSE "connect")
    /\ UNCHANGED <<setting, stopEvent, opened, connected, thread, control>>

(* source.open: connect (nothing to do when connected), then SELECT and    *)
(* STATUS.                                                                 *)
Connect(t) ==
    /\ worker[t] = "connect"
    /\ connected' = TRUE
    /\ Goto(t, "select")
    /\ UNCHANGED <<setting, stopEvent, opened, thread, control>>

Select(t) ==
    /\ worker[t] = "select"
    /\ Goto(t, "mark")
    /\ UNCHANGED <<setting, stopEvent, opened, connected, thread, control>>

MarkOpened(t) ==
    /\ worker[t] = "mark"
    /\ opened' = TRUE
    /\ Goto(t, "call")
    /\ UNCHANGED <<setting, stopEvent, connected, thread, control>>

(* The calls of a poll; _ready reopens a connection that was dropped.      *)
Call(t) ==
    /\ worker[t] = "call"
    /\ connected' = TRUE
    /\ Goto(t, "batch")
    /\ UNCHANGED <<setting, stopEvent, opened, thread, control>>

(* A failed command closes the connection, a refused one keeps it.         *)
Fail(t) ==
    /\ worker[t] \in {"connect", "select", "call", "wait"}
    /\ connected' \in CASE worker[t] = "connect" -> {connected}
                        [] worker[t] = "select" -> {FALSE, partialOpen}
                        [] OTHER -> BOOLEAN
    /\ Goto(t, "failed")
    /\ UNCHANGED <<setting, stopEvent, opened, thread, control>>

(* Mutant: the backoff sleeps without looking at the stop event. *)
Backoff_Deaf(t) ==
    /\ worker[t] = "failed"
    /\ Goto(t, "open")
    /\ UNCHANGED <<setting, stopEvent, opened, connected, thread, control>>

(* on_error, then the stop event is waited for until the delay has passed. *)
Backoff(t) ==
    /\ worker[t] = "failed"
    /\ Goto(t, IF stopEvent THEN "done" ELSE "test")
    /\ UNCHANGED <<setting, stopEvent, opened, connected, thread, control>>

(* The next message of the batch, or the end of the batch. *)
Batch(t) ==
    /\ worker[t] = "batch"
    /\ \/ stopEvent /\ Goto(t, "done")
       \/ ~stopEvent /\ (Goto(t, "handler") \/ Goto(t, "wait"))
    /\ UNCHANGED <<setting, stopEvent, opened, connected, thread, control>>

HandlerReturns(t) ==
    /\ worker[t] = "handler"
    /\ Goto(t, "batch")
    /\ UNCHANGED <<setting, stopEvent, opened, connected, thread, control>>

(* on_message calls BackgroundWatcher.stop: the event is set, joining the  *)
(* current thread raises, and _run logs that and goes on.                  *)
HandlerStops(t) ==
    /\ worker[t] = "handler"
    /\ thread = t
    /\ stopEvent' = TRUE
    /\ Goto(t, "batch")
    /\ UNCHANGED <<setting, opened, connected, thread, control>>

(* source.wait goes through _ready, whether or not a stop is pending.      *)
WaitReturns(t) ==
    /\ worker[t] = "wait"
    /\ connected' = TRUE
    /\ Goto(t, "test")
    /\ UNCHANGED <<setting, stopEvent, opened, thread, control>>

Worker(t) ==
    \/ Clear(t) \/ Test(t) \/ OpenTest(t) \/ Connect(t) \/ Select(t) \/ MarkOpened(t)
    \/ Call(t) \/ Fail(t) \/ Backoff(t) \/ Batch(t) \/ HandlerReturns(t)
    \/ HandlerStops(t) \/ WaitReturns(t)

-----------------------------------------------------------------------------
(* The control thread. *)

(* Mutant: start does not ask whether the last thread is running. *)
Start_Always ==
    /\ control = "idle"
    /\ \E t \in Threads :
          /\ worker[t] = "unborn"
          /\ thread' = t
          /\ Goto(t, "begin")
    /\ UNCHANGED <<setting, stopEvent, opened, connected, control>>

(* start is a no-op while the thread it started last is alive. *)
Start ==
    /\ control = "idle"
    /\ thread \notin Alive
    /\ \E t \in Threads :
          /\ worker[t] = "unborn"
          /\ thread' = t
          /\ Goto(t, "begin")
    /\ UNCHANGED <<setting, stopEvent, opened, connected, control>>

(* stop: set the event, join, forget the thread, close the watcher. *)
Stop ==
    /\ control = "idle"
    /\ stopEvent' = TRUE
    /\ control' = IF thread = NoThread THEN "detach" ELSE "joining"
    /\ UNCHANGED <<setting, opened, connected, thread, worker>>

Joined ==
    /\ control = "joining"
    /\ worker[thread] = "done"
    /\ control' = "detach"
    /\ UNCHANGED <<setting, stopEvent, opened, connected, thread, worker>>

(* The join gives up on a worker whose call, handler or wait is slow, or   *)
(* which has yet to run its first line: the timeout is the caller's.       *)
JoinTimesOut ==
    /\ slowJoins
    /\ control = "joining"
    /\ control' = "detach"
    /\ UNCHANGED <<setting, stopEvent, opened, connected, thread, worker>>

Detach ==
    /\ control = "detach"
    /\ thread' = NoThread
    /\ control' = "closing"
    /\ UNCHANGED <<setting, stopEvent, opened, connected, worker>>

(* Mutant: close has nothing to do for a watcher that was stopped already. *)
CloseWatcher_Unstopped ==
    /\ control = "closing"
    /\ stopEvent' = TRUE
    /\ opened' = (opened /\ stopEvent)
    /\ control' = IF opened /\ ~stopEvent THEN "releasing" ELSE "idle"
    /\ UNCHANGED <<setting, connected, thread, worker>>

(* InboxWatcher.close: the source is closed only if it was marked opened.  *)
CloseWatcher ==
    /\ control = "closing"
    /\ stopEvent' = TRUE
    /\ opened' = FALSE
    /\ control' = IF opened THEN "releasing" ELSE "idle"
    /\ UNCHANGED <<setting, connected, thread, worker>>

Release ==
    /\ control = "releasing"
    /\ connected' = FALSE
    /\ control' = "idle"
    /\ UNCHANGED <<setting, stopEvent, opened, thread, worker>>

Stopping == Joined \/ JoinTimesOut \/ Detach \/ CloseWatcher \/ Release

Next ==
    \/ \E t \in Threads : Worker(t)
    \/ Start \/ Stop \/ Stopping

Spec == Init /\ [][Next]_vars

(* Threads run; calls, handlers and waits return or fail; and a stop that  *)
(* was begun goes on.  Nobody has to call start or stop.                   *)
LiveSpec ==
    /\ Spec
    /\ \A t \in Threads : WF_vars(Worker(t))
    /\ WF_vars(Stopping)

-----------------------------------------------------------------------------
(* Properties. *)

(* docs/watching.md: one InboxWatcher drives one loop.  So it does as long *)
(* as joins wait for the worker; after one that gave up, start would begin *)
(* a second loop over the same watcher and connection.                     *)
SingleLoop == ~slowJoins => Cardinality(Alive) <= 1

(* docs/watching.md: stop "closes the connection".  When a stop has        *)
(* returned no connection is left, unless its join gave up (the worker may *)
(* open the connection again) or a SELECT or STATUS was refused after the  *)
(* login (close takes the source for not opened).                          *)
Released ==
    ~slowJoins /\ ~partialOpen =>
        (control = "idle" /\ thread = NoThread /\ Alive = {} => ~connected)

(* A stop that finds the loop begun returns, whatever the loop is doing:   *)
(* polling, failing, backing off, handling a message or waiting.  One that *)
(* comes before the thread's first line is erased by it (Clear).           *)
StopReturns ==
    (control = "joining" /\ stopEvent /\ worker[thread] # "begin") ~> control = "idle"

(* Once the event is set and stop has returned, whether its join waited or *)
(* gave up or a handler called it, every loop ends: two loops over the     *)
(* watcher as well as one, and from any step.  It needs that no thread has *)
(* yet to run its first line, then or before the loops have ended: that    *)
(* line (Clear) erases the event for all of them, be it of a thread that   *)
(* stop came too early for or of one that start began after a join that    *)
(* gave up.                                                                *)
StoppedLoopsEnd ==
    (control = "idle" /\ stopEvent /\ \A t \in Threads : worker[t] # "begin")
        ~> (Alive = {} \/ \E t \in Threads : worker[t] = "begin")
=============================================================================
