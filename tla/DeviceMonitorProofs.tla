----------------------- MODULE DeviceMonitorProofs -----------------------
(***************************************************************************)
(* Proofs about DeviceMonitor, for every set of keys, engines and HTTP     *)
(* threads: its types, that no wake-up is lost, and that what the handlers *)
(* find between two checks agrees with the rows last read.                 *)
(***************************************************************************)
EXTENDS DeviceMonitor, TLAPS

(***************************************************************************)
(* Types.                                                                  *)
(***************************************************************************)

\* Every code that an answer can carry is a number.
LEMMA ResponseCodes ==
    /\ RAR_OK \in Int
    /\ ErrorResponse(NotFound) \in Int
    /\ ErrorResponse(InvalidAccess) \in Int
    /\ ErrorResponse(Rejected(RAR_UNKNOWNERR)) \in Int
  BY DEF RAR_OK, ErrorResponse, NotFound, InvalidAccess, Rejected,
         RAR_UNKNOWNERR, RAR_OPENDEVICEFAILED

Answer == [at : {"idle", "choose", "software", "mode", "get"},
           engine : Engines \union {NoEngine},
           result : {"none", "session", "fallback", "failed"},
           code : Int,
           late : BOOLEAN]

\* Shutting the container down keeps its type.
LEMMA ShutDownType ==
    ASSUME NEW s \in [Engines -> {"none", "open", "closed"}]
    PROVE  ShutDown(s) \in [Engines -> {"none", "open", "closed"}]
  BY DEF ShutDown

LEMMA TypeInit == Init => TypeOK
<1> SUFFICES ASSUME Init PROVE TypeOK
  OBVIOUS
<1>1. req \in [Requests -> Answer]
  BY DEF Init, Answer, Idle, RAR_OK
<1>2. changes \in 0..MaxChanges
  BY DeviceMonitorAssumption DEF DeviceMonitorAssumption, Init
<1>3. QED
  BY <1>1, <1>2 DEF Init, TypeOK, Answer

\* A step of a handler keeps the type of the requests.
LEMMA RequestType ==
    ASSUME TypeOK, NEW r \in Requests, Arrive(r) \/ Request(r)
    PROVE  req' \in [Requests -> Answer]
<1>0. req \in [Requests -> Answer]
  BY DEF TypeOK, Answer
<1>1. CASE Arrive(r)
  <2>1. PICK step \in {"choose", "mode"} :
           req' = [req EXCEPT ![r] = [Idle EXCEPT !.at = step, !.late = opened]]
    BY <1>1 DEF Arrive
  <2>2. [Idle EXCEPT !.at = step, !.late = opened] \in Answer
    <3>1. opened \in BOOLEAN /\ step \in {"choose", "mode"} /\ NoEngine \notin Engines
      BY <2>1, DeviceMonitorAssumption DEF TypeOK, DeviceMonitorAssumption
    <3>2. Idle \in Answer
      BY DEF Idle, Answer, RAR_OK
    <3>3. QED
      BY <3>1, <3>2 DEF Answer
  <2>3. QED
    BY <1>0, <2>1, <2>2
<1>2. ASSUME NEW result \in {"session", "fallback", "failed"},
             NEW code \in Int, Answered(r, result, code)
      PROVE  req' \in [Requests -> Answer]
  <2>1. req[r].late \in BOOLEAN
    BY <1>0 DEF Answer
  <2>2. [Idle EXCEPT !.result = result, !.code = code, !.late = req[r].late] \in Answer
    BY <2>1, <1>2 DEF Idle, Answer
  <2>3. QED
    BY <1>0, <1>2, <2>2 DEF Answered
<1>3. CASE ChooseVerifier(r) \/ VerifyInSoftware(r)
  <2>1. CASE ChooseVerifier(r)
    BY <1>0, <2>1 DEF ChooseVerifier, Answer
  <2>2. CASE VerifyInSoftware(r)
    BY <1>2, <2>2, ResponseCodes DEF VerifyInSoftware
  <2>3. QED
    BY <1>3, <2>1, <2>2
<1>4. CASE ReadMode(r)
  BY <1>0, <1>4 DEF ReadMode, Answer, TypeOK
<1>5. CASE GetSession(r)
  BY <1>2, <1>5, ResponseCodes DEF GetSession
<1>6. QED
  BY <1>1, <1>3, <1>4, <1>5 DEF Request

LEMMA TypeStep == TypeOK /\ [Next]_vars => TypeOK'
<1> SUFFICES ASSUME TypeOK, [Next]_vars PROVE TypeOK'
  OBVIOUS
<1> USE DeviceMonitorAssumption DEF DeviceMonitorAssumption, TypeOK, table, task
<1>1. ASSUME NEW d \in Devices, DeviceChange(d) PROVE TypeOK'
  BY <1>1 DEF DeviceChange
<1>2. CASE SetEvent
  BY <1>2 DEF SetEvent
<1>3. CASE Task
  <2>1. CASE Select
    BY <2>1 DEF Select
  <2>2. CASE SelectFails
    BY <2>2 DEF SelectFails
  <2>3. CASE ShutdownSessions
    BY <2>3, ShutDownType DEF ShutdownSessions
  <2>4. CASE ClearSessions
    BY <2>4 DEF ClearSessions
  <2>5. CASE SetEngineMode
    BY <2>5 DEF SetEngineMode
  <2>6. CASE AddSession
    BY <2>6 DEF AddSession
  <2>7. CASE AddFails
    BY <2>7 DEF AddFails
  <2>8. CASE SleepTimeout \/ SleepCancelled \/ WaitEvent \/ Woken
    BY <2>8 DEF SleepTimeout, SleepCancelled, WaitEvent, Woken
  <2>9. QED
    BY <1>3, <2>1, <2>2, <2>3, <2>4, <2>5, <2>6, <2>7, <2>8 DEF Task
<1>4. CASE TerminationRequest
  BY <1>4 DEF TerminationRequest
<1>5. CASE Main
  <2>1. CASE CancelShutdown
    BY <2>1, ShutDownType DEF CancelShutdown
  <2>2. CASE CancelTask \/ CancelSignal
    BY <2>2 DEF CancelTask, CancelSignal
  <2>3. QED
    BY <1>5, <2>1, <2>2 DEF Main
<1>6. ASSUME NEW r \in Requests, Arrive(r) \/ Request(r) PROVE TypeOK'
  <2>1. req' \in [Requests -> Answer]
    BY <1>6, RequestType
  <2>2. UNCHANGED <<table, event, task, mode, session, quit, opened>>
    BY <1>6 DEF Arrive, Request, ChooseVerifier, VerifyInSoftware, ReadMode,
         GetSession
  <2>3. QED
    BY <2>1, <2>2 DEF Answer
<1>7. CASE UNCHANGED vars
  BY <1>7 DEF vars
<1>8. QED
  BY <1>1, <1>2, <1>3, <1>4, <1>5, <1>6, <1>7 DEF Next

\* The variables keep their types in every behaviour.
THEOREM TypeCorrect == Spec => []TypeOK
<1>1. QED
  BY TypeInit, TypeStep, PTL DEF Spec

(***************************************************************************)
(* No wake-up is lost.  The invariant is inductive as it stands: a change  *)
(* sets unsignalled, raising the event moves the debt to event, the wait   *)
(* moves it to pc = "woken", and that leads to the next SELECT.            *)
(***************************************************************************)

\* In every behaviour, a table that differs from the rows last read will be
\* read again, unless a check threw or the task stopped.
THEOREM NoWakeUpIsLost == Spec => []NoLostChange
<1>1. Init => NoLostChange
  BY DEF Init, NoLostChange
<1>2. TypeOK /\ NoLostChange /\ [Next]_vars => NoLostChange'
  <2> SUFFICES ASSUME TypeOK, NoLostChange, [Next]_vars PROVE NoLostChange'
    OBVIOUS
  <2> USE DEF NoLostChange, table, task
  <2>1. ASSUME NEW d \in Devices, DeviceChange(d) PROVE NoLostChange'
    BY <2>1 DEF DeviceChange
  <2>2. CASE SetEvent
    BY <2>2 DEF SetEvent
  <2>3. CASE Select \/ SelectFails
    BY <2>3 DEF Select, SelectFails
  <2>4. CASE ShutdownSessions \/ ClearSessions
    BY <2>4 DEF ShutdownSessions, ClearSessions
  <2>5. CASE SetEngineMode \/ AddSession \/ AddFails
    BY <2>5 DEF SetEngineMode, AddSession, AddFails
  <2>6. CASE SleepTimeout \/ SleepCancelled
    BY <2>6 DEF SleepTimeout, SleepCancelled
  <2>7. CASE WaitEvent \/ Woken
    BY <2>7 DEF WaitEvent, Woken
  <2>8. CASE TerminationRequest \/ Main
    BY <2>8 DEF TerminationRequest, Main, CancelShutdown, CancelTask, CancelSignal
  <2>9. ASSUME NEW r \in Requests, Arrive(r) \/ Request(r) PROVE NoLostChange'
    BY <2>9 DEF Arrive, Request, ChooseVerifier, VerifyInSoftware, ReadMode,
         GetSession
  <2>10. CASE UNCHANGED vars
    BY <2>10 DEF vars
  <2>11. QED
    BY <2>1, <2>2, <2>3, <2>4, <2>5, <2>6, <2>7, <2>8, <2>9, <2>10 DEF Next, Task
<1>3. QED
  BY <1>1, <1>2, TypeCorrect, PTL DEF Spec

(***************************************************************************)
(* Agreement.  SettledAgreement speaks of the moments between two checks;  *)
(* the strengthening says what holds inside one: which branch is taken for *)
(* which rows, that engine.mode is published before the session, and that  *)
(* only a shutdown closes sessions.                                        *)
(***************************************************************************)

BranchFollowsRows ==
    /\ pc \in {"shutdown", "clear"} => seen = {}
    /\ pc \in {"setmode", "add"} => Single(seen)

ModeIsWrittenFirst ==
    pc = "add" => \A d \in seen : mode = EngineOf[d]

ClosedByShutdownOnly ==
    (pc # "clear" /\ quit \in {"no", "requested"})
      => \A e \in Engines : session[e] # "closed"

AgreementInv ==
    /\ TypeOK
    /\ BranchFollowsRows
    /\ ModeIsWrittenFirst
    /\ ClosedByShutdownOnly
    /\ SettledAgreement

LEMMA AgreementInit == Init => AgreementInv
  BY TypeInit DEF Init, AgreementInv, BranchFollowsRows, ModeIsWrittenFirst,
                  ClosedByShutdownOnly, SettledAgreement

\* The steps that write neither the rows read nor what is published.
LEMMA AgreementKept ==
    ASSUME AgreementInv, TypeOK',
           seen' = seen, mode' = mode, session' = session, failed' = failed,
           \/ pc' = pc
           \/ /\ pc \in {"sleep", "wait", "woken"}
              /\ pc' \in {"wait", "woken", "select", "stopped"},
           \/ quit' = quit
           \/ quit = "no"
           \/ quit' \notin {"no", "requested"}
    PROVE  AgreementInv'
  BY DEF AgreementInv, BranchFollowsRows, ModeIsWrittenFirst,
         ClosedByShutdownOnly, SettledAgreement, Published, Single, TypeOK

LEMMA AgreementStep == AgreementInv /\ [Next]_vars => AgreementInv'
<1> SUFFICES ASSUME AgreementInv, [Next]_vars PROVE AgreementInv'
  OBVIOUS
<1>0. TypeOK /\ TypeOK'
  BY TypeStep DEF AgreementInv
<1> USE <1>0 DEF table, task
<1>1. ASSUME NEW d \in Devices, DeviceChange(d) PROVE AgreementInv'
  BY <1>1, AgreementKept DEF DeviceChange
<1>2. CASE SetEvent
  BY <1>2, AgreementKept DEF SetEvent
<1>3. CASE Task
  <2> USE DEF AgreementInv, BranchFollowsRows, ModeIsWrittenFirst,
              ClosedByShutdownOnly, SettledAgreement
  <2>1. CASE Select
    BY <2>1 DEF Select, Single, TypeOK
  <2>2. CASE SelectFails
    BY <2>2 DEF SelectFails
  <2>3. CASE ShutdownSessions
    BY <2>3 DEF ShutdownSessions
  <2>4. CASE ClearSessions
    BY <2>4 DEF ClearSessions, Published
  <2>5. CASE SetEngineMode
    BY <2>5 DEF SetEngineMode, Single
  <2>6. CASE AddSession
    <3>1. PICK d \in seen : /\ seen = {d}
                            /\ session' = [session EXCEPT ![EngineOf[d]] = "open"]
      BY <2>6 DEF AddSession, Single
    <3>2. mode = EngineOf[d] /\ mode \in Engines
      BY <2>6, <3>1, DeviceMonitorAssumption
      DEF AddSession, DeviceMonitorAssumption, TypeOK
    <3>3. Published(seen)'
      BY <2>6, <3>1, <3>2 DEF AddSession, Published, TypeOK
    <3>4. ClosedByShutdownOnly'
      BY <2>6, <3>1, <3>2 DEF AddSession, TypeOK
    <3>5. QED
      BY <2>6, <3>3, <3>4 DEF AddSession
  <2>7. CASE AddFails
    BY <2>7 DEF AddFails
  <2>8. CASE SleepTimeout \/ SleepCancelled \/ WaitEvent \/ Woken
    BY <2>8, AgreementKept DEF SleepTimeout, SleepCancelled, WaitEvent, Woken
  <2>9. QED
    BY <1>3, <2>1, <2>2, <2>3, <2>4, <2>5, <2>6, <2>7, <2>8 DEF Task
<1>4. CASE TerminationRequest
  BY <1>4, AgreementKept DEF TerminationRequest
<1>5. CASE Main
  <2>1. CASE CancelShutdown
    BY <2>1 DEF CancelShutdown, AgreementInv, BranchFollowsRows,
                ModeIsWrittenFirst, ClosedByShutdownOnly, SettledAgreement
  <2>2. CASE CancelTask \/ CancelSignal
    BY <2>2, AgreementKept DEF CancelTask, CancelSignal
  <2>3. QED
    BY <1>5, <2>1, <2>2 DEF Main
<1>6. ASSUME NEW r \in Requests, Arrive(r) \/ Request(r) PROVE AgreementInv'
  BY <1>6, AgreementKept DEF Arrive, Request, ChooseVerifier, VerifyInSoftware, ReadMode,
         GetSession
<1>7. CASE UNCHANGED vars
  BY <1>7, AgreementKept DEF vars
<1>8. QED
  BY <1>1, <1>2, <1>3, <1>4, <1>5, <1>6, <1>7 DEF Next

\* Between two checks engine.mode and the container agree with the rows last
\* read, in every behaviour.
THEOREM AgreementBetweenChecks == Spec => []SettledAgreement
<1>1. AgreementInv => SettledAgreement
  BY DEF AgreementInv
<1>2. QED
  BY <1>1, AgreementInit, AgreementStep, PTL DEF Spec

(***************************************************************************)
(* The software verification.  FallbackOnlyWithoutKey is not inductive:    *)
(* that the mode read by a handler was unset tells of the past only        *)
(* because engine.mode is written before a session is added and never      *)
(* unset, so that while it is unset no session was ever opened.            *)
(***************************************************************************)

NeverOpenedWithoutMode == mode = NoEngine => ~opened
LateAfterOpened        == \A r \in Requests : req[r].late => opened

FallbackInv == /\ AgreementInv
               /\ NeverOpenedWithoutMode
               /\ LateAfterOpened
               /\ FallbackOnlyWithoutKey

LEMMA FallbackInit == Init => FallbackInv
  BY AgreementInit DEF Init, FallbackInv, NeverOpenedWithoutMode, LateAfterOpened,
                       FallbackOnlyWithoutKey, Idle

\* The watcher publishes: the mode is set before the first session is added.
LEMMA PublicationKeepsFallback ==
    ASSUME FallbackInv, SetEngineMode \/ AddSession
    PROVE  FallbackInv'
<1>0. AgreementInv'
  BY AgreementStep DEF FallbackInv, Next, Task
<1>1. mode' # NoEngine
  <2>1. seen # {} /\ \A d \in seen : EngineOf[d] # NoEngine
    BY DeviceMonitorAssumption
    DEF FallbackInv, AgreementInv, TypeOK, BranchFollowsRows, Single,
        DeviceMonitorAssumption, SetEngineMode, AddSession
  <2>2. CASE SetEngineMode
    BY <2>1, <2>2 DEF SetEngineMode
  <2>3. CASE AddSession
    BY <2>1, <2>3 DEF AddSession, FallbackInv, AgreementInv, ModeIsWrittenFirst
  <2>4. QED
    BY <2>2, <2>3
<1>2. req' = req /\ (opened => opened')
  BY DEF SetEngineMode, AddSession
<1>3. QED
  BY <1>0, <1>1, <1>2 DEF FallbackInv, NeverOpenedWithoutMode, LateAfterOpened,
                          FallbackOnlyWithoutKey

\* A handler decides by the mode it reads, and its decision outlives the read.
LEMMA HandlerKeepsFallback ==
    ASSUME FallbackInv, NEW q \in Requests, Arrive(q) \/ Request(q)
    PROVE  FallbackInv'
<1>0. AgreementInv'
  BY AgreementStep DEF FallbackInv, Next
<1>1. req \in [Requests -> Answer] /\ opened \in BOOLEAN
  BY DEF FallbackInv, AgreementInv, TypeOK, Answer
<1>2. NeverOpenedWithoutMode'
  BY DEF FallbackInv, NeverOpenedWithoutMode, Arrive, Request, ChooseVerifier,
         VerifyInSoftware, ReadMode, GetSession
<1>3. opened' = opened
  BY DEF Arrive, Request, ChooseVerifier, VerifyInSoftware, ReadMode, GetSession
<1> USE <1>0, <1>1, <1>2, <1>3
    DEF FallbackInv, LateAfterOpened, FallbackOnlyWithoutKey, Answer
<1>4. CASE Arrive(q)
  BY <1>4 DEF Arrive, Idle
<1>5. CASE ChooseVerifier(q)
  <2>1. mode = NoEngine => ~req[q].late
    BY DEF NeverOpenedWithoutMode
  <2>2. QED
    BY <1>5, <2>1 DEF ChooseVerifier
<1>6. ASSUME NEW result, NEW code, Answered(q, result, code),
             result = "fallback" => ~req[q].late
      PROVE  FallbackInv'
  <2>1. /\ req'[q].at = "idle"
        /\ req'[q].result = result
        /\ req'[q].late = req[q].late
        /\ \A r \in Requests \ {q} : req'[r] = req[r]
    BY <1>6 DEF Answered, Idle
  <2>2. QED
    BY <1>6, <2>1
<1>7. CASE VerifyInSoftware(q)
  <2>1. ~req[q].late
    BY <1>7 DEF VerifyInSoftware
  <2>2. QED
    BY <1>6, <1>7, <2>1 DEF VerifyInSoftware
<1>8. CASE ReadMode(q)
  BY <1>8 DEF ReadMode
<1>9. CASE GetSession(q)
  BY <1>6, <1>9 DEF GetSession
<1>10. QED
  BY <1>4, <1>5, <1>7, <1>8, <1>9 DEF Request

LEMMA FallbackStep == FallbackInv /\ [Next]_vars => FallbackInv'
<1> SUFFICES ASSUME FallbackInv, [Next]_vars PROVE FallbackInv'
  OBVIOUS
<1>1. CASE SetEngineMode \/ AddSession
  BY <1>1, PublicationKeepsFallback
<1>2. ASSUME NEW q \in Requests, Arrive(q) \/ Request(q) PROVE FallbackInv'
  BY <1>2, HandlerKeepsFallback
<1>3. CASE UNCHANGED <<mode, req, opened>>
  <2>1. AgreementInv'
    BY AgreementStep DEF FallbackInv
  <2>2. QED
    BY <1>3, <2>1 DEF FallbackInv, NeverOpenedWithoutMode, LateAfterOpened,
                      FallbackOnlyWithoutKey
<1>4. \/ SetEngineMode \/ AddSession
      \/ \E q \in Requests : Arrive(q) \/ Request(q)
      \/ UNCHANGED <<mode, req, opened>>
  BY DEF Next, vars, task, Task, Main, DeviceChange, SetEvent, Select, SelectFails,
         ShutdownSessions, ClearSessions, AddFails, SleepTimeout, SleepCancelled,
         WaitEvent, Woken, TerminationRequest, CancelShutdown, CancelTask, CancelSignal
<1>5. QED
  BY <1>1, <1>2, <1>3, <1>4

\* A request that arrives once a key has been registered is not verified in
\* software, in every behaviour.
THEOREM NoFallbackAfterKey == Spec => []FallbackOnlyWithoutKey
<1>1. FallbackInv => FallbackOnlyWithoutKey
  BY DEF FallbackInv
<1>2. QED
  BY <1>1, FallbackInit, FallbackStep, PTL DEF Spec
=============================================================================
