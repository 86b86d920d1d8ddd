-------------------------- MODULE DeviceMonitor --------------------------
(***************************************************************************)
(* The agent's view of the inserted keys.                                  *)
(*                                                                         *)
(* Another process, UKEYMonitor, records the keys in the table DeviceSet   *)
(* of DeQLite.db and raises the named event DeviceChangedEvent.  The task  *)
(* AdaptiveRecevier waits for the event, reads the table, and publishes    *)
(* what it read in two places: the property engine.mode and the container  *)
(* of open sessions.  The HTTP handlers read the two places, without a     *)
(* common lock, in Utility::getSession.  At termination the main thread    *)
(* cancels the task.                                                       *)
(***************************************************************************)
EXTENDS CommandResponse, FiniteSets

CONSTANTS Devices,      \* the keys that can be plugged in
          Engines,      \* the drivers that serve them (column ENGINE)
          EngineOf,     \* the driver of each key
          NoEngine,     \* engine.mode when it was never set: the empty string
          Requests,     \* the HTTP threads that handle a request
          MaxChanges    \* bound: how often keys are plugged or pulled

ASSUME DeviceMonitorAssumption ==
    /\ EngineOf \in [Devices -> Engines]
    /\ NoEngine \notin Engines
    /\ MaxChanges \in Nat

VARIABLES
    present,      \* the rows of DeviceSet with PRESENT = 1
    changes,      \* how often present has changed
    unsignalled,  \* DeviceSet was written and the event is not yet raised
    event,        \* DeviceChangedEvent, a named auto-reset event
    pc,           \* where AdaptiveRecevier::runTask is
    seen,         \* the rows its last SELECT returned
    failed,       \* its last check ended in the catch block
    mode,         \* the property engine.mode
    session,      \* the session container: "none", "open" or "closed"
    quit,         \* how far the main thread is in cancelling the task
    req,          \* the request each HTTP thread handles, or handled last
    opened        \* history: a key was registered, its session once opened

table == <<present, changes, unsignalled>>
task  == <<pc, seen, failed>>
vars  == <<present, changes, unsignalled, event, pc, seen, failed, mode,
           session, quit, req, opened>>

\* The task's state is TASK_CANCELLING and its sleep is interrupted.
Cancelled == quit \in {"cancelled", "signalled"}

Single(S) == \E d \in S : S = {d}

\* SessionContainer::shutdown closes what is open and keeps the entries.
ShutDown(sessions) ==
    [e \in Engines |-> IF sessions[e] = "none" THEN "none" ELSE "closed"]

-----------------------------------------------------------------------------
(***************************************************************************)
(* UKEYMonitor.                                                            *)
(***************************************************************************)

\* A key is plugged or pulled and DeviceSet is updated.
DeviceChange(d) ==
    /\ ~unsignalled
    /\ changes < MaxChanges
    /\ changes' = changes + 1
    /\ present' = IF d \in present THEN present \ {d} ELSE present \union {d}
    /\ unsignalled' = TRUE
    /\ UNCHANGED <<event, pc, seen, failed, mode, session, quit, req, opened>>

\* The event is raised; it stays raised until one wait consumes it.
SetEvent ==
    /\ unsignalled
    /\ unsignalled' = FALSE
    /\ event' = TRUE
    /\ UNCHANGED <<present, changes, pc, seen, failed, mode, session, quit, req, opened>>

-----------------------------------------------------------------------------
(***************************************************************************)
(* AdaptiveRecevier::runTask and CheckDeviceDBEnv.                         *)
(***************************************************************************)

\* The SELECT.  No row leads to the removal branch, one row to the branch
\* that registers its engine, more rows to neither.
Select ==
    /\ pc = "select"
    /\ seen' = present
    /\ failed' = FALSE
    /\ \/ /\ present = {}
          /\ pc' = "shutdown"
       \/ /\ Single(present)
          /\ pc' = "setmode"
       \/ /\ present # {}
          /\ ~Single(present)
          /\ pc' = "sleep"
    /\ UNCHANGED <<table, event, mode, session, quit, req, opened>>

\* The SELECT throws (the file is locked or missing): the catch block only
\* writes a debug message, and the event that led here is spent.
SelectFails ==
    /\ pc = "select"
    /\ failed' = TRUE
    /\ pc' = "sleep"
    /\ UNCHANGED <<table, event, seen, mode, session, quit, req, opened>>

\* The container is shut down; its entries stay until the next step.
ShutdownSessions ==
    /\ pc = "shutdown"
    /\ session' = ShutDown(session)
    /\ pc' = "clear"
    /\ UNCHANGED <<table, event, seen, failed, mode, quit, req, opened>>

\* Mutant: the container is shut down and not cleared.
ClearSessions_Forgotten ==
    /\ pc = "clear"
    /\ pc' = "sleep"
    /\ UNCHANGED <<table, event, seen, failed, mode, session, quit, req, opened>>

\* Mutant: engine.mode is reset when the container is cleared.
ClearSessions_ResetsMode ==
    /\ pc = "clear"
    /\ session' = [e \in Engines |-> "none"]
    /\ mode' = NoEngine
    /\ pc' = "sleep"
    /\ UNCHANGED <<table, event, seen, failed, quit, req, opened>>

\* engine.mode keeps the name of the engine that was removed.
ClearSessions ==
    /\ pc = "clear"
    /\ session' = [e \in Engines |-> "none"]
    /\ pc' = "sleep"
    /\ UNCHANGED <<table, event, seen, failed, mode, quit, req, opened>>

\* Mutant: the row's hardware identifier is taken for its engine.
SetEngineMode_WrongColumn ==
    /\ pc = "setmode"
    /\ \E d \in seen : mode' = d
    /\ pc' = "add"
    /\ UNCHANGED <<table, event, seen, failed, session, quit, req, opened>>

\* app.config().setString("engine.mode", engine), before the session is added.
SetEngineMode ==
    /\ pc = "setmode"
    /\ \E d \in seen : mode' = EngineOf[d]
    /\ pc' = "add"
    /\ UNCHANGED <<table, event, seen, failed, session, quit, req, opened>>

\* SessionContainer::add opens a session for a new name, is silent for a name
\* whose session is open, and throws when that session was shut down.
AddSession ==
    /\ pc = "add"
    /\ \E d \in seen :
          /\ session[EngineOf[d]] # "closed"
          /\ session' = [session EXCEPT ![EngineOf[d]] = "open"]
    /\ opened' = TRUE
    /\ pc' = "sleep"
    /\ UNCHANGED <<table, event, seen, failed, mode, quit, req>>

\* add throws: the session was shut down, or the key cannot be opened.
AddFails ==
    /\ pc = "add"
    /\ \E d \in seen : session[EngineOf[d]] # "open"
    /\ failed' = TRUE
    /\ pc' = "sleep"
    /\ UNCHANGED <<table, event, seen, mode, session, quit, req, opened>>

\* Mutant: the event is reset before each wait.
SleepTimeout_ResetsEvent ==
    /\ pc = "sleep"
    /\ ~Cancelled
    /\ pc' = "wait"
    /\ event' = FALSE
    /\ UNCHANGED <<table, seen, failed, mode, session, quit, req, opened>>

\* sleep(500) runs into its timeout.
SleepTimeout ==
    /\ pc = "sleep"
    /\ ~Cancelled
    /\ pc' = "wait"
    /\ UNCHANGED <<table, event, seen, failed, mode, session, quit, req, opened>>

\* sleep(500) is interrupted by Task::cancel and ends the loop.
SleepCancelled ==
    /\ pc = "sleep"
    /\ Cancelled
    /\ pc' = "stopped"
    /\ UNCHANGED <<table, event, seen, failed, mode, session, quit, req, opened>>

\* _event.wait() consumes the event.
WaitEvent ==
    /\ pc = "wait"
    /\ event
    /\ event' = FALSE
    /\ pc' = "woken"
    /\ UNCHANGED <<table, seen, failed, mode, session, quit, req, opened>>

\* if (isCancelled()) break; CheckDeviceDBEnv();
Woken ==
    /\ pc = "woken"
    /\ pc' = IF Cancelled THEN "stopped" ELSE "select"
    /\ UNCHANGED <<table, event, seen, failed, mode, session, quit, req, opened>>

Task == \/ Select \/ SelectFails
        \/ ShutdownSessions \/ ClearSessions
        \/ SetEngineMode \/ AddSession \/ AddFails
        \/ SleepTimeout \/ SleepCancelled \/ WaitEvent \/ Woken

-----------------------------------------------------------------------------
(***************************************************************************)
(* The main thread: waitForTerminationRequest returns, TaskManager calls   *)
(* AdaptiveRecevier::cancel, whose three calls are steps of their own, and *)
(* joinAll waits for the task.                                             *)
(***************************************************************************)

TerminationRequest ==
    /\ quit = "no"
    /\ quit' = "requested"
    /\ UNCHANGED <<table, event, task, mode, session, req, opened>>

CancelShutdown ==
    /\ quit = "requested"
    /\ session' = ShutDown(session)
    /\ quit' = "shutdown"
    /\ UNCHANGED <<table, event, task, mode, req, opened>>

CancelTask ==
    /\ quit = "shutdown"
    /\ quit' = "cancelled"
    /\ UNCHANGED <<table, event, task, mode, session, req, opened>>

\* Mutant: cancel does not raise the event.
CancelSignal_Forgotten ==
    /\ quit = "cancelled"
    /\ quit' = "signalled"
    /\ UNCHANGED <<table, event, task, mode, session, req, opened>>

CancelSignal ==
    /\ quit = "cancelled"
    /\ event' = TRUE
    /\ quit' = "signalled"
    /\ UNCHANGED <<table, task, mode, session, req, opened>>

Main == CancelShutdown \/ CancelTask \/ CancelSignal

-----------------------------------------------------------------------------
(***************************************************************************)
(* The handlers that need the key.  at is the next step of the handler;    *)
(* result is how the last request ended: "session" (it got a session),     *)
(* "fallback" (VerifySignByP1 verified without the key) or "failed"; late  *)
(* remembers that a key had been registered before the request arrived.    *)
(***************************************************************************)
Idle == [at |-> "idle", engine |-> NoEngine, result |-> "none", code |-> RAR_OK,
         late |-> FALSE]

Answered(r, result, code) ==
    req' = [req EXCEPT ![r] =
              [Idle EXCEPT !.result = result, !.code = code, !.late = req[r].late]]

\* A request for a handler that calls getSession at once, or for VerifySignByP1.
Arrive(r) ==
    /\ req[r].at = "idle"
    /\ \E step \in {"choose", "mode"} :
          req' = [req EXCEPT ![r] = [Idle EXCEPT !.at = step, !.late = opened]]
    /\ UNCHANGED <<table, event, task, mode, session, quit, opened>>

\* VerifySignByP1::run reads engine.mode and keeps the branch it leads to.
ChooseVerifier(r) ==
    /\ req[r].at = "choose"
    /\ req' = [req EXCEPT ![r].at = IF mode = NoEngine THEN "software" ELSE "mode"]
    /\ UNCHANGED <<table, event, task, mode, session, quit, opened>>

\* FJCA_VerifySign, whatever the watcher has published since; its verdict is
\* either.
VerifyInSoftware(r) ==
    /\ req[r].at = "software"
    /\ \/ Answered(r, "fallback", RAR_OK)
       \/ Answered(r, "fallback", ErrorResponse(Rejected(RAR_UNKNOWNERR)))
    /\ UNCHANGED <<table, event, task, mode, session, quit, opened>>

\* getSession reads engine.mode ...
ReadMode(r) ==
    /\ req[r].at = "mode"
    /\ req' = [req EXCEPT ![r].at = "get", ![r].engine = mode]
    /\ UNCHANGED <<table, event, task, mode, session, quit, opened>>

Lookup(engine) == IF engine \in Engines THEN session[engine] ELSE "none"

\* ... and looks that engine up in the container, which throws if it has no
\* such session or shut it down.  The operation on the session is not modelled.
GetSession(r) ==
    /\ req[r].at = "get"
    /\ LET found == Lookup(req[r].engine)
       IN \/ found = "open"   /\ Answered(r, "session", RAR_OK)
          \/ found = "none"   /\ Answered(r, "failed", ErrorResponse(NotFound))
          \/ found = "closed" /\ Answered(r, "failed", ErrorResponse(InvalidAccess))
    /\ UNCHANGED <<table, event, task, mode, session, quit, opened>>

Request(r) == \/ ChooseVerifier(r) \/ VerifyInSoftware(r)
              \/ ReadMode(r) \/ GetSession(r)

-----------------------------------------------------------------------------
\* Mutant: runTask waits for the event before its first check.
Init_NoFirstCheck ==
    /\ present \in SUBSET Devices
    /\ changes = 0
    /\ unsignalled = FALSE
    /\ event = FALSE
    /\ pc = "sleep"
    /\ seen = {}
    /\ failed = FALSE
    /\ mode = NoEngine
    /\ session = [e \in Engines |-> "none"]
    /\ quit = "no"
    /\ req = [r \in Requests |-> Idle]
    /\ opened = FALSE

Init ==
    /\ present \in SUBSET Devices
    /\ changes = 0
    /\ unsignalled = FALSE
    /\ event = FALSE
    /\ pc = "select"
    /\ seen = {}
    /\ failed = FALSE
    /\ mode = NoEngine
    /\ session = [e \in Engines |-> "none"]
    /\ quit = "no"
    /\ req = [r \in Requests |-> Idle]
    /\ opened = FALSE

Next ==
    \/ \E d \in Devices : DeviceChange(d)
    \/ SetEvent
    \/ Task
    \/ TerminationRequest
    \/ Main
    \/ \E r \in Requests : Arrive(r) \/ Request(r)

\* The threads of the agent run, and UKEYMonitor raises the event after it
\* wrote the table.  Nobody has to plug a key, send a request or terminate.
Fairness ==
    /\ WF_vars(SetEvent)
    /\ WF_vars(Task)
    /\ WF_vars(Main)
    /\ \A r \in Requests : WF_vars(Request(r))

Spec == Init /\ [][Next]_vars /\ Fairness

-----------------------------------------------------------------------------
(***************************************************************************)
(* Properties.                                                             *)
(***************************************************************************)

\* The variables keep their types.
TypeOK ==
    /\ present \subseteq Devices
    /\ changes \in 0..MaxChanges
    /\ unsignalled \in BOOLEAN
    /\ event \in BOOLEAN
    /\ pc \in {"select", "shutdown", "clear", "setmode", "add", "sleep",
               "wait", "woken", "stopped"}
    /\ seen \subseteq Devices
    /\ failed \in BOOLEAN
    /\ mode \in Engines \union {NoEngine}
    /\ session \in [Engines -> {"none", "open", "closed"}]
    /\ quit \in {"no", "requested", "shutdown", "cancelled", "signalled"}
    /\ req \in [Requests ->
                  [at : {"idle", "choose", "software", "mode", "get"},
                   engine : Engines \union {NoEngine},
                   result : {"none", "session", "fallback", "failed"},
                   code : Int,
                   late : BOOLEAN]]
    /\ opened \in BOOLEAN

\* No wake-up is lost: when the table differs from what the task last read,
\* the task will look again, because it is about to read, or the event is
\* raised or about to be.  The exceptions are a check that threw (its event
\* is spent, and the next change is needed to repeat it) and a stopped task.
\* It rests on the check before the first wait and on the event staying
\* raised while the task is busy.
NoLostChange ==
    seen = present \/ failed \/ unsignalled \/ event
      \/ pc \in {"select", "woken", "stopped"}

\* What the handlers find once the key whose rows are S is published, or its
\* removal is.
Published(S) ==
    /\ S = {} => \A e \in Engines : session[e] = "none"
    /\ \A d \in S : mode = EngineOf[d] /\ session[mode] = "open"

\* Between two checks, engine.mode and the session container agree with the
\* rows last read, for no row and for one: the two are written in separate
\* steps, across several checks and several engines.  A check that threw, the
\* container's shutdown at termination, and two keys at once are excepted.
SettledAgreement ==
    (/\ pc \in {"sleep", "wait", "woken"}
     /\ ~failed
     /\ quit \in {"no", "requested"}
     /\ seen = {} \/ Single(seen))
      => Published(seen)

\* A request that arrives after a key was registered is never verified in
\* software, not even when that key, and every other one, is pulled again:
\* engine.mode is written before the session is added and never reset.  A
\* request that read engine.mode before may be overtaken by the registration,
\* and is then verified in software beside an open session.
FallbackOnlyWithoutKey ==
    \A r \in Requests :
        (req[r].at = "software" \/ req[r].result = "fallback") => ~req[r].late

\* A change is reflected: if the table stays at no row or one row, and no
\* check throws and nobody terminates the agent, the handlers come to find it.
EventuallyPublished ==
    \A S \in SUBSET Devices :
        (S = {} \/ Single(S))
          => (present = S /\ quit = "no")
                ~> (Published(S) \/ present # S \/ failed \/ quit # "no")

\* Cancelling ends the task, wherever it is: asleep, in a check, or waiting
\* for an event that UKEYMonitor may never raise again.
CancelEndsTask == (quit = "requested") ~> (pc = "stopped")

\* An answer with code 0000 means success: routes/ErrorCode.h:3 glosses RAR_OK as
\* success.  A request that found no session must carry another code.
FailureIsNotOK ==
    \A r \in Requests : req[r].result = "failed" => req[r].code # RAR_OK

\* With several keys inserted a request is not served by the session of one
\* of them: routes/ErrorCode.h:5 has RAR_MULTIPLEDEVICE for this case.
MultipleDevicesRefused ==
    [][\A r \in Requests :
          (req[r].at = "get" /\ req'[r].result = "session" /\ pc = "wait")
            => seen = {} \/ Single(seen)]_vars
=============================================================================
