------------------------- MODULE AgentLifecycle -------------------------
(***************************************************************************)
(* The agent from start to end, over several runs of the process: the main *)
(* thread starts the watcher, the HTTP server and the receiver of cloud    *)
(* events, waits for the termination request, and takes them down again.   *)
(*                                                                         *)
(* The tasks and the pages' connections take their threads from the same   *)
(* pool.  The receiver keeps up one connection to the cloud: over MQTT     *)
(* with a task of its own, which connects again, or over WebSocket with a  *)
(* reactor, which does not.  The watcher itself is in DeviceMonitor, what  *)
(* arrives over the connection in CloudEvents.                             *)
(***************************************************************************)
EXTENDS Integers, FiniteSets

CONSTANTS Pool,     \* capacity of ThreadPool::defaultPool
          Pages,    \* WebSocket pages
          Etypes,   \* values of the property config.etype
          MaxRuns   \* bound: how often the agent is started

ASSUME AgentLifecycleAssumption ==
    /\ Pool \in Nat \ {0} /\ IsFiniteSet(Pages)
    /\ Etypes \subseteq {"mqtt", "websocket"} /\ Etypes # {}
    /\ MaxRuns \in Nat

VARIABLES
    etype,     \* the property config.etype
    main,      \* how far the main thread is
    runs,      \* how often the agent was started
    watcher,   \* the task AdaptiveRecevier
    receiver,  \* the task CloudEventRecevier: where its loop is
    link,      \* the connection to the cloud
    served,    \* pages that have a thread
    waiting,   \* pages whose connection waits for a thread
    clientId   \* the property clientId: 0 as in the file, or that of a run

vars  == <<etype, main, runs, watcher, receiver, link, served, waiting, clientId>>
pages == <<served, waiting>>
tasks == <<watcher, receiver>>

MainPoints == {"off", "start", "restored", "listening", "serving", "stop", "stopped",
               "cancelled", "joining"}
Loop       == {"sleep", "test", "connect"}    \* where runTask is

Threads == Cardinality(served)
           + (IF watcher \in {"running", "cancelled"} THEN 1 ELSE 0)
           + (IF receiver \in Loop THEN 1 ELSE 0)

Listening == main \in {"listening", "serving", "stop"}

Init ==
    /\ etype \in Etypes
    /\ main = "off"
    /\ runs = 0
    /\ watcher = "none"
    /\ receiver = "none"
    /\ link = "down"
    /\ served = {}
    /\ waiting = {}
    /\ clientId = 0

-----------------------------------------------------------------------------
(***************************************************************************)
(* The main thread.                                                        *)
(***************************************************************************)

\* The process is started: nothing is left of the run before.
Start ==
    /\ main = "off"
    /\ runs < MaxRuns
    /\ main' = "start"
    /\ runs' = runs + 1
    /\ watcher' = "none" /\ receiver' = "none" /\ link' = "down"
    /\ served' = {} /\ waiting' = {}
    /\ clientId' = 0
    /\ UNCHANGED etype

ProcessEnds ==
    /\ main' = "off"
    /\ served' = {} /\ waiting' = {}
    /\ watcher' = "none" /\ receiver' = "none" /\ link' = "down"
    /\ UNCHANGED <<etype, runs>>

\* At any time: it is killed, or main throws (the registry key or the port
\* cannot be had) and run() reports it.
Dies ==
    /\ main # "off"
    /\ ProcessEnds
    /\ UNCHANGED clientId

\* tm.start(new AdaptiveRecevier); restoreProperties().
StartWatcher ==
    /\ main = "start"
    /\ watcher' = "running"
    /\ main' = "restored"
    /\ UNCHANGED <<etype, runs, receiver, link, pages, clientId>>

\* srv.start(): pages may connect from here on.
StartServer ==
    /\ main = "restored"
    /\ main' = "listening"
    /\ UNCHANGED <<etype, runs, tasks, link, pages, clientId>>

\* new CloudEventRecevier creates the client, under a new identifier, and
\* tm.start gives it a thread.
StartReceiver ==
    /\ main = "listening" /\ etype = "mqtt"
    /\ Threads < Pool
    /\ clientId' = runs
    /\ receiver' = "sleep"
    /\ main' = "serving"
    /\ UNCHANGED <<etype, runs, watcher, link, pages>>

\* Mutant: main waits until a page gives a thread back.
NoThreadAvailable_Waits ==
    /\ main = "listening" /\ etype = "mqtt"
    /\ Threads >= Pool
    /\ UNCHANGED vars

\* Pages have taken all the threads: tm.start throws, and so does main.
NoThreadAvailable ==
    /\ main = "listening" /\ etype = "mqtt"
    /\ Threads >= Pool
    /\ clientId' = runs
    /\ ProcessEnds

\* The reactor gets a thread that is not of the pool; the connector connects
\* once.
StartReactor ==
    /\ main = "listening" /\ etype = "websocket"
    /\ link' = "connecting"
    /\ main' = "serving"
    /\ UNCHANGED <<etype, runs, tasks, pages, clientId>>

\* waitForTerminationRequest returns; in the WebSocket branch the reactor is
\* stopped and joined.
TerminationRequest ==
    /\ main = "serving"
    /\ main' = "stop"
    /\ link' = IF etype = "websocket" THEN "down" ELSE link
    /\ UNCHANGED <<etype, runs, tasks, pages, clientId>>

\* Mutant: the tasks are cancelled with the server still running.
StopServer_Forgotten ==
    /\ main = "stop"
    /\ main' = "stopped"
    /\ UNCHANGED <<etype, runs, tasks, link, pages, clientId>>

\* srv.stop(): connections that wait are dropped, those served go on.
StopServer ==
    /\ main = "stop"
    /\ waiting' = {}
    /\ main' = "stopped"
    /\ UNCHANGED <<etype, runs, tasks, link, served, clientId>>

\* tm.cancelAll(): AdaptiveRecevier::cancel, ...
CancelWatcher ==
    /\ main = "stopped"
    /\ watcher' = "cancelled"
    /\ main' = "cancelled"
    /\ UNCHANGED <<etype, runs, receiver, link, pages, clientId>>

\* ... and CloudEventRecevier::cancel, which disconnects; its task, in the
\* middle of a round, may connect again after that.
CancelReceiver ==
    /\ main = "cancelled"
    /\ link' = IF receiver \in Loop THEN "down" ELSE link
    /\ main' = "joining"
    /\ UNCHANGED <<etype, runs, tasks, pages, clientId>>

\* Mutant: joinAll waits for the tasks only as long as pages are served.
JoinAll_TasksLeft ==
    /\ main = "joining"
    /\ served = {}
    /\ main' = "off"
    /\ UNCHANGED <<etype, runs, tasks, link, pages, clientId>>

\* tm.joinAll() waits for every thread of the pool, the pages' too.
JoinAll ==
    /\ main = "joining"
    /\ Threads = 0
    /\ main' = "off"
    /\ UNCHANGED <<etype, runs, tasks, link, pages, clientId>>

-----------------------------------------------------------------------------
(***************************************************************************)
(* The tasks and the connection.                                           *)
(***************************************************************************)

\* CancelEndsTask of DeviceMonitor.
WatcherEnds ==
    /\ watcher = "cancelled"
    /\ watcher' = "done"
    /\ UNCHANGED <<etype, main, runs, receiver, link, pages, clientId>>

\* Mutant: the loop does not look at what sleep returns.
Sleep_Ignored ==
    /\ receiver = "sleep"
    /\ receiver' = "test"
    /\ UNCHANGED <<etype, main, runs, watcher, link, pages, clientId>>

\* sleep(2000) runs out, or returns true: the task ends, and its destructor
\* destroys the client.
Sleep ==
    /\ receiver = "sleep"
    /\ IF main = "joining"
       THEN receiver' = "done" /\ link' = "down"
       ELSE receiver' = "test" /\ UNCHANGED link
    /\ UNCHANGED <<etype, main, runs, watcher, pages, clientId>>

\* Mutant: the test is inverted.
IsConnected_Inverted ==
    /\ receiver = "test"
    /\ receiver' = IF link = "up" THEN "connect" ELSE "sleep"
    /\ UNCHANGED <<etype, main, runs, watcher, link, pages, clientId>>

\* isConnected() is false while a connection is being made, too.
IsConnected ==
    /\ receiver = "test"
    /\ receiver' = IF link = "up" THEN "sleep" ELSE "connect"
    /\ UNCHANGED <<etype, main, runs, watcher, link, pages, clientId>>

\* connect: the library takes the request, or the exception ends the task.
Connect ==
    /\ receiver = "connect"
    /\ \/ receiver' = "sleep" /\ link' = "connecting"
       \/ receiver' = "dead" /\ link' = "down"
    /\ UNCHANGED <<etype, main, runs, watcher, pages, clientId>>

\* onSuccess, or the WSQTTHandler is created.
Connected ==
    /\ link = "connecting"
    /\ link' = "up"
    /\ UNCHANGED <<etype, main, runs, tasks, pages, clientId>>

\* Mutant: the failure is kept for the task to look at.
ConnectFails_Kept ==
    /\ link = "connecting"
    /\ link' = "lost"
    /\ UNCHANGED <<etype, main, runs, tasks, pages, clientId>>

\* onFailure; the connector gives up.
ConnectFails ==
    /\ link = "connecting"
    /\ link' = "down"
    /\ UNCHANGED <<etype, main, runs, tasks, pages, clientId>>

\* connectionLost; or onShutdown or an exception of onReadable, which delete
\* the WSQTTHandler.  A WebSocket may also go silent.
ConnectionLost ==
    /\ link = "up"
    /\ \/ link' = "down"
       \/ etype = "websocket" /\ link' = "silent"
    /\ UNCHANGED <<etype, main, runs, tasks, pages, clientId>>

\* onTimeout sends a heart beat, which fails at last, and the handler is deleted.
OnTimeout ==
    /\ link = "silent"
    /\ link' = "down"
    /\ UNCHANGED <<etype, main, runs, tasks, pages, clientId>>

-----------------------------------------------------------------------------
(***************************************************************************)
(* The pages.                                                              *)
(***************************************************************************)

\* The dispatcher starts a thread of the pool, or the connection waits.
Open(p) ==
    /\ Listening
    /\ p \notin served \cup waiting
    /\ IF Threads < Pool
       THEN served' = served \cup {p} /\ UNCHANGED waiting
       ELSE waiting' = waiting \cup {p} /\ UNCHANGED served
    /\ UNCHANGED <<etype, main, runs, tasks, link, clientId>>

\* A page leaves, and its thread goes on with a connection that waits.
Close(p) ==
    /\ p \in served
    /\ \/ waiting = {} /\ served' = served \ {p} /\ UNCHANGED waiting
       \/ \E q \in waiting : /\ served' = (served \ {p}) \cup {q}
                             /\ waiting' = waiting \ {q}
    /\ UNCHANGED <<etype, main, runs, tasks, link, clientId>>

Main ==
    \/ StartWatcher \/ StartServer \/ StartReceiver \/ NoThreadAvailable \/ StartReactor
    \/ StopServer \/ CancelWatcher \/ CancelReceiver \/ JoinAll
Task == Sleep \/ IsConnected \/ Connect
Cloud == Connected \/ ConnectFails \/ ConnectionLost

Next ==
    \/ Start \/ Dies \/ TerminationRequest \/ Main
    \/ WatcherEnds \/ Task \/ Cloud \/ OnTimeout
    \/ \E p \in Pages : Open(p) \/ Close(p)

\* The threads run on.  An attempt to connect ends, and one of infinitely many
\* succeeds: the cloud is not out of reach for ever.  The reactor's timeout
\* comes when nothing is readable.  Pages may stay open for ever.
Fairness ==
    /\ WF_vars(Main) /\ WF_vars(WatcherEnds) /\ WF_vars(Task) /\ WF_vars(OnTimeout)
    /\ WF_vars(Connected \/ ConnectFails) /\ SF_vars(Connected)

Spec == Init /\ [][Next]_vars /\ Fairness

-----------------------------------------------------------------------------
(***************************************************************************)
(* Properties.                                                             *)
(***************************************************************************)

\* Every variable has its type, and a page is not both served and waiting.
TypeOK ==
    /\ etype \in Etypes
    /\ main \in MainPoints
    /\ runs \in 0..MaxRuns
    /\ watcher \in {"none", "running", "cancelled", "done"}
    /\ receiver \in Loop \cup {"none", "dead", "done"}
    /\ link \in {"down", "connecting", "up", "silent"}
    /\ served \subseteq Pages /\ waiting \subseteq Pages \ served
    /\ clientId \in {0, runs}

\* The pool that tasks and pages share is never overdrawn, and no page waits
\* while a thread is free, except for one that the receiver's death left.
PoolIsUsed ==
    /\ Threads <= Pool
    /\ waiting # {} => Threads = Pool \/ receiver = "dead"

\* Nothing of a run is left when it ends in good order: no task runs on, and
\* the connection that a round may have made after cancel's disconnect is gone.
NothingOutlivesMain ==
    main = "off" => Threads = 0 /\ link = "down"

\* A start comes to an end, however many pages come in while the main thread is
\* at it: the agent serves, or the process ends and may be started again.  It
\* does not hang with pages open and nothing that brings their pushes.
StartsOrEnds == (main = "start") ~> (main \in {"serving", "off"})

\* The termination request ends the agent, unless a page stays open.
AgentStops == (main = "stop") ~> (main = "off" \/ served # {})

\* Over MQTT the agent gets its connection back, unless the library refused a
\* request to connect, which ends the task for the rest of the run.
PushesResume ==
    (main = "serving" /\ receiver \in Loop) ~> (link = "up" \/ receiver = "dead" \/ main # "serving")
=============================================================================
