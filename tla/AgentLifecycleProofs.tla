----------------------- MODULE AgentLifecycleProofs -----------------------
(***************************************************************************)
(* Proofs about AgentLifecycle, for every size of the pool, every finite   *)
(* set of pages, either kind of connection and any number of runs: its     *)
(* types, that the pool is used and never overdrawn, and that nothing      *)
(* outlives the main thread.                                               *)
(*                                                                         *)
(* All rest on how far the main thread is: Stage says, for each point of   *)
(* it, which tasks, threads and connections there can be.                  *)
(***************************************************************************)
EXTENDS AgentLifecycle, FiniteSetTheorems, TLAPS

\* A thread is the watcher's or the receiver's, or serves a page.
WatcherThread  == IF watcher \in {"running", "cancelled"} THEN 1 ELSE 0
ReceiverThread == IF receiver \in Loop THEN 1 ELSE 0

\* What there can be before and after each point of the main thread.
Stage ==
    /\ main \in {"off", "start"} =>
          watcher \in {"none", "done"} /\ served = {} /\ link = "down"
    /\ main \in {"restored", "listening", "serving", "stop", "stopped"} =>
          watcher = "running"
    /\ main \in {"start", "restored", "listening"} => receiver = "none"
    /\ main = "restored" => served = {}
    /\ main \notin {"listening", "serving", "stop"} => waiting = {}
    /\ main = "start" => watcher = "none"

\* The connection is the receiving task's, or the reactor's while it serves.
LinkIsKept ==
    /\ receiver \in Loop =>
          etype = "mqtt" /\ main \in {"serving", "stop", "stopped", "cancelled", "joining"}
    /\ link # "down" => receiver \in Loop \/ (etype = "websocket" /\ main = "serving")

StageInv == TypeOK /\ Stage /\ LinkIsKept /\ PoolIsUsed

-----------------------------------------------------------------------------
\* The number of threads is one of naturals; nothing else is asked of it than
\* how each of its three parts changes.
LEMMA ThreadsInNat ==
    ASSUME TypeOK
    PROVE  /\ IsFiniteSet(served) /\ Cardinality(served) \in Nat
           /\ Threads = Cardinality(served) + WatcherThread + ReceiverThread
           /\ Threads \in Nat
           /\ WatcherThread \in {0, 1} /\ ReceiverThread \in {0, 1}
<1>1. IsFiniteSet(served)
  BY AgentLifecycleAssumption, FS_Subset DEF AgentLifecycleAssumption, TypeOK
<1>2. Cardinality(served) \in Nat
  BY <1>1, FS_CardinalityType
<1>3. QED
  BY <1>1, <1>2 DEF Threads, WatcherThread, ReceiverThread

LEMMA StageInit == Init => StageInv
<1> SUFFICES ASSUME Init PROVE StageInv
  OBVIOUS
<1>1. TypeOK
  BY AgentLifecycleAssumption DEF AgentLifecycleAssumption, Init, TypeOK, MainPoints
<1>2. Stage /\ LinkIsKept
  BY DEF Init, Stage, LinkIsKept, Loop
<1>3. Threads = 0
  BY FS_EmptySet DEF Init, Threads, Loop
<1>4. QED
  BY <1>1, <1>2, <1>3, AgentLifecycleAssumption
  DEF AgentLifecycleAssumption, Init, StageInv, PoolIsUsed

-----------------------------------------------------------------------------
(***************************************************************************)
(* Types.                                                                  *)
(***************************************************************************)

LEMMA TypeStep == TypeOK /\ Stage /\ [Next]_vars => TypeOK'
<1> SUFFICES ASSUME TypeOK, Stage, [Next]_vars PROVE TypeOK'
  OBVIOUS
<1> USE AgentLifecycleAssumption DEF AgentLifecycleAssumption, TypeOK, MainPoints, Loop
<1>1. CASE Start
  BY <1>1 DEF Start
<1>2. CASE Dies \/ NoThreadAvailable \/ TerminationRequest
  BY <1>2 DEF Dies, NoThreadAvailable, ProcessEnds, TerminationRequest, pages, tasks
<1>3. CASE StartWatcher \/ StartServer \/ StartReactor
  BY <1>3 DEF StartWatcher, StartServer, StartReactor, pages, tasks
<1>4. CASE StartReceiver
  BY <1>4 DEF StartReceiver, pages, tasks
<1>5. CASE StopServer \/ CancelWatcher \/ CancelReceiver \/ JoinAll
  BY <1>5 DEF StopServer, CancelWatcher, CancelReceiver, JoinAll, pages, tasks
<1>6. CASE WatcherEnds \/ Sleep \/ IsConnected \/ Connect
  BY <1>6 DEF WatcherEnds, Sleep, IsConnected, Connect, pages, tasks
<1>7. CASE Cloud \/ OnTimeout
  BY <1>7 DEF Cloud, Connected, ConnectFails, ConnectionLost, OnTimeout, pages, tasks
<1>8. ASSUME NEW p \in Pages, Open(p) PROVE TypeOK'
  BY <1>8 DEF Open, tasks
<1>9. ASSUME NEW p \in Pages, Close(p) PROVE TypeOK'
  BY <1>9 DEF Close, tasks
<1>10. CASE UNCHANGED vars
  BY <1>10 DEF vars
<1>11. QED
  BY <1>1, <1>2, <1>3, <1>4, <1>5, <1>6, <1>7, <1>8, <1>9, <1>10 DEF Next, Main, Task

(***************************************************************************)
(* The stages of the main thread.                                          *)
(***************************************************************************)

LEMMA StageStep == StageInv /\ [Next]_vars => Stage' /\ LinkIsKept'
<1> SUFFICES ASSUME StageInv, [Next]_vars PROVE Stage' /\ LinkIsKept'
  OBVIOUS
<1>0. TypeOK /\ Stage /\ LinkIsKept
  BY DEF StageInv
<1> USE <1>0 DEF TypeOK, Stage, LinkIsKept, MainPoints, Loop
<1>1. CASE Start
  BY <1>1 DEF Start
<1>2. CASE Dies \/ NoThreadAvailable \/ TerminationRequest
  BY <1>2 DEF Dies, NoThreadAvailable, ProcessEnds, TerminationRequest, pages, tasks
<1>3. CASE StartWatcher \/ StartServer \/ StartReactor
  BY <1>3, AgentLifecycleAssumption
  DEF AgentLifecycleAssumption, StartWatcher, StartServer, StartReactor, pages, tasks
<1>4. CASE StartReceiver
  BY <1>4 DEF StartReceiver, pages, tasks
<1>5. CASE StopServer \/ CancelWatcher \/ CancelReceiver
  BY <1>5 DEF StopServer, CancelWatcher, CancelReceiver, pages, tasks
<1>6. CASE JoinAll
  <2>1. served = {} /\ watcher \notin {"running", "cancelled"} /\ receiver \notin Loop
    <3>1. Cardinality(served) = 0 /\ WatcherThread = 0 /\ ReceiverThread = 0
      BY <1>6, ThreadsInNat DEF JoinAll
    <3>2. QED
      BY <3>1, ThreadsInNat, FS_EmptySet DEF WatcherThread, ReceiverThread
  <2>2. QED
    BY <1>6, <2>1 DEF JoinAll, pages, tasks
<1>7. CASE WatcherEnds \/ Sleep \/ IsConnected \/ Connect
  BY <1>7 DEF WatcherEnds, Sleep, IsConnected, Connect, pages, tasks
<1>8. CASE Cloud \/ OnTimeout
  BY <1>8 DEF Cloud, Connected, ConnectFails, ConnectionLost, OnTimeout, pages, tasks
<1>9. ASSUME NEW p \in Pages, Open(p) \/ Close(p)
      PROVE  Stage' /\ LinkIsKept'
  BY <1>9 DEF Open, Close, Listening, pages, tasks
<1>10. CASE UNCHANGED vars
  BY <1>10 DEF vars
<1>11. QED
  BY <1>1, <1>2, <1>3, <1>4, <1>5, <1>6, <1>7, <1>8, <1>9, <1>10 DEF Next, Main, Task

(***************************************************************************)
(* The pool.                                                               *)
(***************************************************************************)

LEMMA PoolStep == StageInv /\ [Next]_vars => PoolIsUsed'
<1> SUFFICES ASSUME StageInv, [Next]_vars PROVE PoolIsUsed'
  OBVIOUS
<1>0. TypeOK /\ Stage /\ LinkIsKept /\ PoolIsUsed /\ Pool \in Nat \ {0}
  BY AgentLifecycleAssumption DEF AgentLifecycleAssumption, StageInv
<1>a. TypeOK'
  BY <1>0, TypeStep
<1>b. /\ Threads = Cardinality(served) + WatcherThread + ReceiverThread
      /\ Threads' = Cardinality(served') + WatcherThread' + ReceiverThread'
      /\ IsFiniteSet(served) /\ Cardinality(served) \in Nat /\ Cardinality(served') \in Nat
      /\ WatcherThread \in {0, 1} /\ ReceiverThread \in {0, 1}
      /\ WatcherThread' \in {0, 1} /\ ReceiverThread' \in {0, 1}
  <2>1. IsFiniteSet(served') /\ Cardinality(served') \in Nat
    BY <1>a, AgentLifecycleAssumption, FS_Subset, FS_CardinalityType
    DEF AgentLifecycleAssumption, TypeOK
  <2>2. QED
    BY <1>0, <2>1, ThreadsInNat DEF Threads, WatcherThread, ReceiverThread
<1>1. CASE Start \/ Dies \/ NoThreadAvailable
  <2>1. Threads' = 0 /\ waiting' = {}
    BY <1>1, FS_EmptySet DEF Start, Dies, NoThreadAvailable, ProcessEnds, Threads, Loop
  <2>2. QED
    BY <1>0, <2>1 DEF PoolIsUsed
\* The first task finds an empty pool.
<1>2. CASE StartWatcher
  <2>1. served' = {} /\ waiting' = {} /\ WatcherThread' = 1 /\ ReceiverThread' = 0
    BY <1>0, <1>2 DEF StartWatcher, Stage, WatcherThread, ReceiverThread, pages, Loop
  <2>2. Threads' = 1
    BY <1>b, <2>1, FS_EmptySet
  <2>3. QED
    BY <1>0, <2>1, <2>2 DEF PoolIsUsed
<1>3. CASE StartReceiver
  <2>1. /\ served' = served /\ waiting' = waiting /\ Threads < Pool /\ receiver = "none"
        /\ WatcherThread' = WatcherThread /\ ReceiverThread = 0 /\ ReceiverThread' = 1
    BY <1>0, <1>3 DEF StartReceiver, Stage, WatcherThread, ReceiverThread, pages, Loop
  <2>2. waiting = {}
    BY <1>0, <1>b, <2>1 DEF PoolIsUsed
  <2>3. QED
    BY <1>0, <1>b, <2>1, <2>2 DEF PoolIsUsed
\* No thread changes hands.
<1>4. ASSUME served' = served, WatcherThread' = WatcherThread,
             ReceiverThread' = ReceiverThread, receiver' = receiver \/ receiver' \in Loop,
             waiting' = {} \/ waiting' = waiting
      PROVE  PoolIsUsed'
  <2>1. Threads' = Threads
    BY <1>b, <1>4
  <2>2. receiver = "dead" => receiver' = "dead"
    BY <1>4 DEF ReceiverThread, Loop
  <2>3. QED
    BY <1>0, <1>4, <2>1, <2>2 DEF PoolIsUsed
\* A task ends when no page waits, but for the receiver that dies.
<1>5. CASE WatcherEnds
  <2>1. /\ served' = served /\ waiting' = waiting /\ waiting = {}
        /\ WatcherThread = 1 /\ WatcherThread' = 0 /\ ReceiverThread' = ReceiverThread
    BY <1>0, <1>5
    DEF WatcherEnds, Stage, TypeOK, MainPoints, WatcherThread, ReceiverThread, pages
  <2>2. QED
    BY <1>0, <1>b, <2>1 DEF PoolIsUsed
<1>6. CASE Sleep \/ Connect
  <2>1. CASE receiver' \in Loop
    <3>1. receiver \in Loop /\ served' = served /\ watcher' = watcher /\ waiting' = waiting
      BY <1>6 DEF Sleep, Connect, Loop, pages
    <3>2. QED
      BY <1>4, <2>1, <3>1 DEF WatcherThread, ReceiverThread
  <2>2. CASE receiver' \notin Loop
    <3>1. /\ served' = served /\ waiting' = waiting
          /\ WatcherThread' = WatcherThread /\ ReceiverThread = 1 /\ ReceiverThread' = 0
      BY <1>6, <2>2 DEF Sleep, Connect, WatcherThread, ReceiverThread, pages, Loop
    <3>2. receiver' = "dead" \/ waiting = {}
      BY <1>0, <1>6, <2>2 DEF Sleep, Connect, Stage, Loop
    <3>3. QED
      BY <1>0, <1>b, <3>1, <3>2 DEF PoolIsUsed
  <2>3. QED
    BY <2>1, <2>2
\* A page takes a free thread or waits; one that leaves hands its thread on.
<1>7. ASSUME NEW p \in Pages, Open(p) PROVE PoolIsUsed'
  <2>1. /\ p \notin served
        /\ WatcherThread' = WatcherThread /\ ReceiverThread' = ReceiverThread
        /\ receiver' = receiver
    BY <1>7 DEF Open, tasks, WatcherThread, ReceiverThread
  <2>2. CASE Threads < Pool
    <3>1. served' = served \cup {p} /\ waiting' = waiting
      BY <1>7, <2>2 DEF Open
    <3>2. Cardinality(served') = Cardinality(served) + 1
      BY <1>b, <2>1, <3>1, FS_AddElement
    <3>3. waiting # {} => receiver = "dead"
      BY <1>0, <1>b, <2>2 DEF PoolIsUsed
    <3>4. QED
      BY <1>0, <1>b, <2>1, <2>2, <3>1, <3>2, <3>3 DEF PoolIsUsed
  <2>3. CASE ~(Threads < Pool)
    <3>1. served' = served
      BY <1>7, <2>3 DEF Open
    <3>2. QED
      BY <1>0, <1>b, <2>1, <2>3, <3>1 DEF PoolIsUsed
  <2>4. QED
    BY <2>2, <2>3
<1>8. ASSUME NEW p \in Pages, Close(p) PROVE PoolIsUsed'
  <2>1. /\ p \in served
        /\ WatcherThread' = WatcherThread /\ ReceiverThread' = ReceiverThread
        /\ receiver' = receiver
    BY <1>8 DEF Close, tasks, WatcherThread, ReceiverThread
  <2>2. /\ IsFiniteSet(served \ {p})
        /\ Cardinality(served \ {p}) = Cardinality(served) - 1
    BY <1>b, <2>1, FS_RemoveElement
  <2>3. CASE waiting = {} /\ served' = served \ {p} /\ UNCHANGED waiting
    BY <1>0, <1>b, <2>1, <2>2, <2>3 DEF PoolIsUsed
  <2>4. ASSUME NEW q \in waiting,
               served' = (served \ {p}) \cup {q}, waiting' = waiting \ {q}
        PROVE  PoolIsUsed'
    <3>1. q \notin served
      BY <1>0 DEF TypeOK
    <3>2. Cardinality(served') = Cardinality(served)
      <4>1. q \notin served \ {p}
        BY <3>1
      <4>2. Cardinality((served \ {p}) \cup {q}) = Cardinality(served \ {p}) + 1
        BY <2>2, <4>1, FS_AddElement
      <4>3. QED
        BY <1>b, <2>2, <2>4, <4>2
    <3>3. QED
      BY <1>0, <1>b, <2>1, <2>4, <3>2 DEF PoolIsUsed
  <2>5. QED
    BY <1>8, <2>3, <2>4 DEF Close
<1>9. CASE \/ StartServer \/ StartReactor \/ TerminationRequest \/ StopServer
           \/ CancelWatcher \/ CancelReceiver \/ JoinAll \/ IsConnected
           \/ Cloud \/ OnTimeout \/ UNCHANGED vars
  <2>1. /\ served' = served
        /\ receiver' = receiver \/ (receiver \in Loop /\ receiver' \in Loop)
        /\ watcher' = watcher \/ (watcher = "running" /\ watcher' = "cancelled")
        /\ waiting' = {} \/ waiting' = waiting
    BY <1>0, <1>9
    DEF StartServer, StartReactor, TerminationRequest, StopServer, CancelWatcher,
        CancelReceiver, JoinAll, IsConnected, Cloud, Connected, ConnectFails,
        ConnectionLost, OnTimeout, vars, pages, tasks, Loop, Stage
  <2>2. QED
    BY <1>4, <2>1 DEF WatcherThread, ReceiverThread
<1>10. QED
  BY <1>1, <1>2, <1>3, <1>5, <1>6, <1>7, <1>8, <1>9 DEF Next, Main, Task

-----------------------------------------------------------------------------
LEMMA StageHolds == Spec => []StageInv
<1>1. StageInv /\ [Next]_vars => StageInv'
  BY TypeStep, StageStep, PoolStep DEF StageInv
<1>2. QED
  BY <1>1, StageInit, PTL DEF Spec

\* The variables keep their types, and no page both has a thread and waits
\* for one, in every behaviour.
THEOREM TypeCorrect == Spec => []TypeOK
<1>1. StageInv => TypeOK
  BY DEF StageInv
<1>2. QED
  BY <1>1, StageHolds, PTL

\* The pool that tasks and pages share is never overdrawn, and no page waits
\* beside a free thread, but for one that the receiver's death left.
THEOREM PoolIsShared == Spec => []PoolIsUsed
<1>1. StageInv => PoolIsUsed
  BY DEF StageInv
<1>2. QED
  BY <1>1, StageHolds, PTL

\* When the agent is off, no task, no page's thread and no connection of the
\* run before is left, however it ended.
THEOREM NothingIsLeft == Spec => []NothingOutlivesMain
<1>1. StageInv => NothingOutlivesMain
  <2> SUFFICES ASSUME StageInv, main = "off" PROVE Threads = 0 /\ link = "down"
    BY DEF NothingOutlivesMain
  <2>1. served = {} /\ watcher \in {"none", "done"} /\ link = "down" /\ receiver \notin Loop
    BY DEF StageInv, Stage, LinkIsKept
  <2>2. QED
    BY <2>1, FS_EmptySet DEF Threads
<1>2. QED
  BY <1>1, StageHolds, PTL
=============================================================================
