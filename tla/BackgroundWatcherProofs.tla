----------------------- MODULE BackgroundWatcherProofs -----------------------
(***************************************************************************)
(* Theorems about BackgroundWatcher, for any number of threads started.    *)
(***************************************************************************)
EXTENDS BackgroundWatcher, FiniteSetTheorems, TLAPS

ControlNext == Start \/ Stop \/ Stopping

LEMMA ThreadIds == Threads \subseteq Nat \ {NoThread}
BY ThreadsAssumption DEF Threads, NoThread

-----------------------------------------------------------------------------
(* Type correctness. *)

LEMMA InitTyped == Init => TypeOK
BY DEF Init, TypeOK, WorkerSteps

LEMMA WorkerTyped ==
    ASSUME TypeOK, NEW t \in Threads, Worker(t)
    PROVE  TypeOK'
<1> USE DEF TypeOK, WorkerSteps, Goto, setting
<1>1. CASE Clear(t) \/ Test(t) \/ OpenTest(t) \/ Connect(t) \/ Select(t) \/ MarkOpened(t)
  <2>1. CASE Clear(t)
    BY <2>1 DEF Clear
  <2>2. CASE Test(t)
    BY <2>2 DEF Test
  <2>3. CASE OpenTest(t)
    BY <2>3 DEF OpenTest
  <2>4. CASE Connect(t)
    BY <2>4 DEF Connect
  <2>5. CASE Select(t)
    BY <2>5 DEF Select
  <2>6. CASE MarkOpened(t)
    BY <2>6 DEF MarkOpened
  <2> QED
    BY <1>1, <2>1, <2>2, <2>3, <2>4, <2>5, <2>6
<1>2. CASE Call(t) \/ Backoff(t) \/ Batch(t) \/ HandlerReturns(t) \/ HandlerStops(t)
           \/ WaitReturns(t)
  <2>1. CASE Call(t)
    BY <2>1 DEF Call
  <2>2. CASE Backoff(t)
    BY <2>2 DEF Backoff
  <2>3. CASE Batch(t)
    BY <2>3 DEF Batch
  <2>4. CASE HandlerReturns(t)
    BY <2>4 DEF HandlerReturns
  <2>5. CASE HandlerStops(t)
    BY <2>5 DEF HandlerStops
  <2>6. CASE WaitReturns(t)
    BY <2>6 DEF WaitReturns
  <2> QED
    BY <1>2, <2>1, <2>2, <2>3, <2>4, <2>5, <2>6
<1>3. CASE Fail(t)
  <2>1. connected' \in BOOLEAN
    BY <1>3, Zenon DEF Fail
  <2> QED
    BY <1>3, <2>1 DEF Fail
<1> QED
  BY <1>1, <1>2, <1>3 DEF Worker

LEMMA ControlTyped ==
    ASSUME TypeOK, ControlNext
    PROVE  TypeOK'
<1> USE DEF TypeOK, WorkerSteps, Goto, setting
<1>1. CASE Start
  BY <1>1 DEF Start
<1>2. CASE Stop
  BY <1>2 DEF Stop
<1>3. CASE Joined \/ JoinTimesOut \/ Detach
  BY <1>3 DEF Joined, JoinTimesOut, Detach
<1>4. CASE CloseWatcher
  BY <1>4 DEF CloseWatcher
<1>5. CASE Release
  BY <1>5 DEF Release
<1> QED
  BY <1>1, <1>2, <1>3, <1>4, <1>5 DEF ControlNext, Stopping

LEMMA NextTyped == TypeOK /\ [Next]_vars => TypeOK'
<1>1. ASSUME TypeOK, UNCHANGED vars PROVE TypeOK'
  BY <1>1 DEF TypeOK, vars, setting
<1> QED
  BY <1>1, WorkerTyped, ControlTyped DEF Next, ControlNext

(* Every reachable state of the threads is well typed; in particular a join*)
(* is always of a thread that was started.                                 *)
THEOREM ThreadsTyped == Spec => []TypeOK
BY InitTyped, NextTyped, PTL DEF Spec

-----------------------------------------------------------------------------
(* One loop. *)

(* Only the thread that was started last can be alive, and none is once a  *)
(* join that does not give up has returned.                                *)
OneAlive ==
    ~slowJoins =>
        /\ Alive \subseteq {thread}
        /\ control \in {"detach", "closing", "releasing"} => Alive = {}

LEMMA InitAlive == Init => OneAlive
BY DEF Init, OneAlive, Alive

LEMMA SettingsKept == [Next]_vars => slowJoins' = slowJoins /\ partialOpen' = partialOpen
<1> USE DEF setting
<1>1. \A t \in Threads : Worker(t) => UNCHANGED setting
  BY DEF Worker, Clear, Test, OpenTest, Connect, Select, MarkOpened, Call, Fail, Backoff,
         Batch, HandlerReturns, HandlerStops, WaitReturns
<1>2. Start \/ Stop \/ Stopping => UNCHANGED setting
  BY DEF Start, Stop, Stopping, Joined, JoinTimesOut, Detach, CloseWatcher, Release
<1>3. UNCHANGED vars => UNCHANGED setting
  BY DEF vars
<1> QED
  BY <1>1, <1>2, <1>3 DEF Next

(* A worker's step is a step of a living thread and brings none to life.   *)
LEMMA WorkerStep ==
    ASSUME TypeOK, NEW t \in Threads, Worker(t)
    PROVE  /\ t \in Alive
           /\ worker[t] # "unborn" /\ worker[t] # "done"
           /\ \E step \in WorkerSteps : worker' = [worker EXCEPT ![t] = step]
           /\ Alive' \subseteq Alive
           /\ UNCHANGED <<thread, control>>
<1>1. /\ worker[t] \notin {"unborn", "done"}
      /\ \E step \in WorkerSteps : worker' = [worker EXCEPT ![t] = step]
      /\ UNCHANGED <<thread, control>>
  <2> USE DEF Goto, WorkerSteps
  <2>1. CASE Clear(t) \/ Test(t) \/ OpenTest(t) \/ Connect(t) \/ Select(t) \/ MarkOpened(t)
    BY <2>1 DEF Clear, Test, OpenTest, Connect, Select, MarkOpened
  <2>2. CASE Call(t) \/ Fail(t) \/ Backoff(t) \/ Batch(t)
    BY <2>2 DEF Call, Fail, Backoff, Batch
  <2>3. CASE HandlerReturns(t) \/ HandlerStops(t) \/ WaitReturns(t)
    BY <2>3 DEF HandlerReturns, HandlerStops, WaitReturns
  <2> QED
    BY <2>1, <2>2, <2>3 DEF Worker
<1> QED
  BY <1>1 DEF Alive, TypeOK

LEMMA NextAlive == TypeOK /\ OneAlive /\ [Next]_vars => OneAlive'
<1> SUFFICES ASSUME TypeOK, OneAlive, [Next]_vars, ~slowJoins
             PROVE  /\ Alive' \subseteq {thread'}
                    /\ control' \in {"detach", "closing", "releasing"} => Alive' = {}
  BY SettingsKept DEF OneAlive
<1>0. /\ Alive \subseteq {thread}
      /\ control \in {"detach", "closing", "releasing"} => Alive = {}
  BY DEF OneAlive
<1>1. ASSUME NEW t \in Threads, Worker(t)
      PROVE  /\ Alive' \subseteq {thread'}
             /\ control' \in {"detach", "closing", "releasing"} => Alive' = {}
  BY <1>0, <1>1, WorkerStep
<1>2. CASE Start
  <2>1. Alive = {} /\ control' = "idle"
    BY <1>0, <1>2 DEF Start
  <2>2. PICK t \in Threads : thread' = t /\ worker' = [worker EXCEPT ![t] = "begin"]
    BY <1>2 DEF Start, Goto
  <2> QED
    BY <2>1, <2>2 DEF Alive, TypeOK
<1>3. CASE Stop
  <2>1. UNCHANGED <<thread, worker>> /\ (control' = "joining" \/ thread = NoThread)
    BY <1>3 DEF Stop
  <2>2. Alive' = Alive /\ Alive \subseteq Threads
    BY <2>1 DEF Alive
  <2> QED
    BY <1>0, <1>3, <2>1, <2>2, ThreadIds DEF Stop
<1>4. CASE Joined
  <2>1. UNCHANGED <<thread, worker>> /\ thread \notin Alive
    BY <1>4 DEF Joined, Alive
  <2> QED
    BY <1>0, <2>1 DEF Alive
<1>5. CASE JoinTimesOut
  BY <1>5 DEF JoinTimesOut
<1>6. CASE Detach \/ CloseWatcher \/ Release
  <2>1. Alive = {} /\ UNCHANGED worker
    BY <1>0, <1>6 DEF Detach, CloseWatcher, Release
  <2> QED
    BY <2>1 DEF Alive
<1>7. CASE UNCHANGED vars
  BY <1>0, <1>7 DEF vars, Alive
<1> QED
  BY <1>1, <1>2, <1>3, <1>4, <1>5, <1>6, <1>7 DEF Next, Stopping

(* Where joins wait for the worker, start and stop in any order never leave*)
(* two loops over the one watcher, however many threads are started.       *)
THEOREM OneLoop == Spec => []SingleLoop
<1>1. Spec => [](TypeOK /\ OneAlive)
  <2>1. TypeOK /\ OneAlive /\ [Next]_vars => OneAlive'
    BY NextAlive
  <2> QED
    BY <2>1, ThreadsTyped, InitAlive, PTL DEF Spec
<1>2. OneAlive => SingleLoop
  <2> SUFFICES ASSUME OneAlive, ~slowJoins PROVE Cardinality(Alive) <= 1
    BY DEF SingleLoop
  <2>1. Alive \in SUBSET {thread}
    BY DEF OneAlive
  <2>2. IsFiniteSet({thread}) /\ Cardinality({thread}) = 1
    BY FS_Singleton
  <2>3. Cardinality(Alive) <= Cardinality({thread})
    BY <2>1, <2>2, FS_Subset
  <2> QED
    BY <2>2, <2>3
<1> QED
  BY <1>1, <1>2, PTL

-----------------------------------------------------------------------------
(* The connection. *)

(* A connection that the watcher does not count as opened is one that a    *)
(* worker is about to count, or one that close is releasing; a worker past *)
(* _open finds the watcher opened.                                         *)
OpenedKnown ==
    ~slowJoins /\ ~partialOpen =>
        /\ connected /\ ~opened =>
              \/ control = "releasing"
              \/ \E t \in Threads : worker[t] \in {"select", "mark"}
        /\ \A t \in Threads : worker[t] \in {"call", "batch", "handler", "wait"} => opened
        /\ control = "idle" /\ thread = NoThread => ~connected

LEMMA InitOpened == Init => OpenedKnown
BY DEF Init, OpenedKnown

LEMMA WorkerOpened ==
    ASSUME TypeOK, OneAlive, OpenedKnown, ~slowJoins, ~partialOpen,
           NEW t \in Threads, Worker(t)
    PROVE  /\ connected' /\ ~opened' => worker'[t] \in {"select", "mark"}
           /\ \A u \in Threads : worker'[u] \in {"call", "batch", "handler", "wait"} => opened'
           /\ thread' # NoThread
<1> USE DEF TypeOK, Goto, setting
<1>1. /\ thread = t /\ thread' = t
      /\ control \notin {"detach", "closing", "releasing"}
      /\ \A u \in Threads : u # t => worker[u] \in {"unborn", "done"}
  BY WorkerStep DEF OneAlive, Alive
<1>2. /\ connected /\ ~opened => worker[t] \in {"select", "mark"}
      /\ worker[t] \in {"call", "batch", "handler", "wait"} => opened
  BY <1>1 DEF OpenedKnown
<1>3. \A u \in Threads : u # t => worker'[u] = worker[u]
  BY WorkerStep
<1>4. /\ connected' /\ ~opened' => worker'[t] \in {"select", "mark"}
      /\ worker'[t] \in {"call", "batch", "handler", "wait"} => opened'
  <2>1. CASE Clear(t) \/ Test(t) \/ OpenTest(t) \/ Backoff(t)
    BY <1>2, <2>1 DEF Clear, Test, OpenTest, Backoff
  <2>2. CASE Connect(t) \/ Select(t) \/ MarkOpened(t)
    BY <1>2, <2>2 DEF Connect, Select, MarkOpened
  <2>3. CASE Call(t) \/ WaitReturns(t)
    BY <1>2, <2>3 DEF Call, WaitReturns
  <2>4. CASE Batch(t) \/ HandlerReturns(t) \/ HandlerStops(t)
    BY <1>2, <2>4 DEF Batch, HandlerReturns, HandlerStops
  <2>5. CASE Fail(t)
    <3>1. /\ worker[t] \in {"connect", "select", "call", "wait"}
          /\ worker'[t] = "failed" /\ opened' = opened
          /\ worker[t] = "connect" => connected' = connected
      BY <2>5 DEF Fail
    <3>2. worker[t] = "select" => ~connected'
      BY <2>5, Zenon DEF Fail
    <3> QED
      BY <1>2, <3>1, <3>2
  <2> QED
    BY <2>1, <2>2, <2>3, <2>4, <2>5 DEF Worker
<1> QED
  BY <1>1, <1>3, <1>4, ThreadIds

LEMMA NextOpened == TypeOK /\ OneAlive /\ OpenedKnown /\ [Next]_vars => OpenedKnown'
<1> SUFFICES ASSUME TypeOK, OneAlive, OpenedKnown, [Next]_vars, ~slowJoins, ~partialOpen
             PROVE  OpenedKnown'
  BY SettingsKept DEF OpenedKnown
<1> USE DEF TypeOK, Goto, setting
<1>1. ASSUME NEW t \in Threads, Worker(t) PROVE OpenedKnown'
  BY <1>1, WorkerOpened DEF OpenedKnown
<1>2. CASE Start
  <2>1. PICK t \in Threads :
          /\ worker[t] = "unborn" /\ thread' = t
          /\ worker' = [worker EXCEPT ![t] = "begin"]
    BY <1>2 DEF Start
  <2>2. UNCHANGED <<opened, connected, control>>
    BY <1>2 DEF Start
  <2> QED
    BY <2>1, <2>2, ThreadIds DEF OpenedKnown
<1>3. CASE Stop \/ Joined \/ JoinTimesOut \/ Detach
  <2>1. /\ UNCHANGED <<opened, connected, worker>>
        /\ control # "releasing" /\ control' # "idle"
    BY <1>3 DEF Stop, Joined, JoinTimesOut, Detach
  <2> QED
    BY <2>1 DEF OpenedKnown
<1>4. CASE CloseWatcher
  <2>1. /\ control = "closing" /\ opened' = FALSE
        /\ UNCHANGED <<connected, worker>>
        /\ control' = IF opened THEN "releasing" ELSE "idle"
    BY <1>4 DEF CloseWatcher
  <2>2. \A t \in Threads : worker[t] \in {"unborn", "done"}
    BY <2>1 DEF OneAlive, Alive
  <2>3. connected => opened
    BY <2>1, <2>2 DEF OpenedKnown
  <2>4. CASE opened
    <3>1. control' = "releasing"
      BY <2>1, <2>4
    <3> QED
      BY <2>1, <2>2, <3>1 DEF OpenedKnown
  <2>5. CASE ~opened
    <3>1. ~connected'
      BY <2>1, <2>3, <2>5
    <3> QED
      BY <2>1, <2>2, <3>1 DEF OpenedKnown
  <2> QED
    BY <2>4, <2>5
<1>5. CASE Release
  <2>1. /\ control = "releasing" /\ ~connected'
        /\ UNCHANGED worker
    BY <1>5 DEF Release
  <2>2. \A t \in Threads : worker[t] \in {"unborn", "done"}
    BY <2>1 DEF OneAlive, Alive
  <2> QED
    BY <2>1, <2>2 DEF OpenedKnown
<1>6. CASE UNCHANGED vars
  BY <1>6 DEF vars, OpenedKnown
<1> QED
  BY <1>1, <1>2, <1>3, <1>4, <1>5, <1>6 DEF Next, Stopping

(* Where joins wait and no SELECT or STATUS is refused after the login, a  *)
(* stop that has returned leaves no connection behind, through any number  *)
(* of starts, stops and failures.                                          *)
THEOREM NothingLeftOpen == Spec => []Released
<1>1. Spec => [](TypeOK /\ OneAlive)
  <2>1. TypeOK /\ OneAlive /\ [Next]_vars => OneAlive'
    BY NextAlive
  <2> QED
    BY <2>1, ThreadsTyped, InitAlive, PTL DEF Spec
<1>2. Spec => []OpenedKnown
  <2>1. TypeOK /\ OneAlive /\ OpenedKnown /\ [Next]_vars => OpenedKnown'
    BY NextOpened
  <2> QED
    BY <1>1, <2>1, InitOpened, PTL DEF Spec
<1>3. OpenedKnown => Released
  BY DEF OpenedKnown, Released
<1> QED
  BY <1>2, <1>3, PTL
=============================================================================
