------------------------ MODULE CloudSessionProofs ------------------------
(***************************************************************************)
(* Proofs about CloudSession, for every set of HTTP threads and of         *)
(* transactions: its types, that effects come of granted requests only,    *)
(* and that both handlers that read authType mean the same credential.     *)
(*                                                                         *)
(* A request is changed by its own thread alone, so that the first two     *)
(* rest on what holds of one request at each point of its way.             *)
(***************************************************************************)
EXTENDS CloudSession, TLAPS

Request == [cmd : Senders \cup Collectors, trans : Trans, at : Points,
            plain : {"some", "none"}, reply : Replies, got : SUBSET Fields,
            granted : BOOLEAN, code : Int, data : SUBSET Items,
            file : {"before", "whole", "cut"}]

\* What a request has, by how far it came: no effect before it was granted,
\* and a reply only from the cloud.
OnItsWay(r) ==
    /\ r.at \in {"mixValue", "sendRequest", "reply"} => r.data = {} /\ r.file = "before"
    /\ r.at \in {"mixValue", "sendRequest"} => r.reply = "none"
    /\ r.at \in {"sendRequest", "reply", "rest"} => r.cmd \in Senders
    /\ r.at = "rest" => r.reply = "accepted"
    /\ r.reply = "accepted" => r.granted
    /\ r.cmd \in Senders /\ (r.data # {} \/ r.file # "before") => r.granted

\* While authType has its value, what was asked for by it is what it says.
AskedByType ==
    \A t \in Trans : asked[t] # "none" =>
        asked[t] = IF ConvertBool(authType) THEN "keySn" ELSE "token"

SessionInv == TypeOK /\ (\A h \in Handlers : OnItsWay(req[h])) /\ AskedByType

-----------------------------------------------------------------------------
(***************************************************************************)
(* The table of commands.                                                  *)
(***************************************************************************)

\* What a command takes out of an answer are fields, and what it hands on
\* are items of the page's answer.
LEMMA RowFields ==
    ASSUME NEW c \in Senders
    PROVE  Rows[c].needs \subseteq Fields /\ Rows[c].gives \subseteq Fields \cap Items
<1>1. Rows[c] \in {CloudLoginAuth, CloudEncryptAuth, CloudDevryptAuth, CloudGetCertAuth,
                  CloudSealAuth, CloudSignByP7, CloudGetCertBase64, CloudGetCompanyCert,
                  CloudGetSealList, CloudEncryptData, CloudEncryptFile, CloudDevryptData,
                  CloudDevryptFile, CloudReceiveDevryptResult, CloudLogoutAuth,
                  CloudLogout}
  BY DEF Senders, Rows
<1>2. ASSUME NEW row \in {CloudLoginAuth, CloudEncryptAuth, CloudDevryptAuth,
                         CloudGetCertAuth, CloudSealAuth, CloudSignByP7}
      PROVE  row.needs \subseteq Fields /\ row.gives \subseteq Fields \cap Items
  <2>1. row.needs = {} /\ row.gives \in {{}, {"body"}}
    BY DEF Row, CloudLoginAuth, CloudEncryptAuth, CloudDevryptAuth, CloudGetCertAuth,
           CloudSealAuth, CloudSignByP7
  <2> QED
    BY <2>1 DEF Fields, Items
<1>3. ASSUME NEW row \in {CloudGetCertBase64, CloudGetCompanyCert, CloudGetSealList,
                         CloudEncryptData, CloudEncryptFile, CloudDevryptData,
                         CloudDevryptFile, CloudReceiveDevryptResult, CloudLogoutAuth,
                         CloudLogout}
      PROVE  row.needs \subseteq Fields /\ row.gives \subseteq Fields \cap Items
  <2>1. /\ row.needs \in {{}, {"pubkey"}, {"body"}}
        /\ row.gives \in {{}, {"body"}, Certs, Certs \cup {"keySn", "signSn"}}
    BY DEF Row, CloudGetCertBase64, CloudGetCompanyCert, CloudGetSealList,
           CloudEncryptData, CloudEncryptFile, CloudDevryptData, CloudDevryptFile,
           CloudReceiveDevryptResult, CloudLogoutAuth, CloudLogout
  <2> QED
    BY <2>1 DEF Fields, Items, Certs
<1> QED
  BY <1>1, <1>2, <1>3

\* The two that collect a decision are not of it.
LEMMA CollectorsSendNothing == Collectors \cap Senders = {}
BY DEF Collectors, Senders, Rows
(***************************************************************************)
(* Steps of a request.                                                     *)
(***************************************************************************)

Requests(f) == f \in [Handlers -> Request] /\ \A h \in Handlers : OnItsWay(f[h])

\* A thread that puts a good request in its place keeps all of them good.
LEMMA OneRequest ==
    ASSUME Requests(req), NEW h \in Handlers, NEW r \in Request, OnItsWay(r),
           req' = [req EXCEPT ![h] = r]
    PROVE  Requests(req')
<1>1. req \in [Handlers -> Request]
  BY DEF Requests
<1>2. req' \in [Handlers -> Request] /\ req'[h] = r
  BY <1>1
<1>3. \A g \in Handlers \ {h} : req'[g] = req[g]
  BY <1>1
<1> QED
  BY <1>2, <1>3 DEF Requests

\* A request ends with an exception before anything of it took effect, or
\* after it was granted.
LEMMA ThrowStep ==
    ASSUME Requests(req), NEW h \in Handlers, NEW exc, Throw(h, exc),
           ErrorResponse(exc) \in Int,
           req[h].at \in {"mixValue", "reply", "rest"}
    PROVE  Requests(req')
<1> DEFINE e == ErrorResponse(exc)
           at == IF req[h].cmd = "CloudGetSealList" THEN "dropped" ELSE "answered"
           r  == [req[h] EXCEPT !.at = at, !.code = e]
<1>1. req[h] \in Request /\ OnItsWay(req[h]) /\ req \in [Handlers -> Request]
  BY DEF Requests
<1>2. e \in Int /\ at \in {"dropped", "answered"}
  OBVIOUS
<1>3. req' = [req EXCEPT ![h] = r]
  BY <1>1 DEF Throw
<1> HIDE DEF e, at
<1>4. r \in Request
  BY <1>1, <1>2 DEF Request, Points
<1>5. OnItsWay(r)
  BY <1>1, <1>2 DEF Request, OnItsWay, e
<1> QED
  BY <1>3, <1>4, <1>5, OneRequest

\* A request ends with an answer: the thread has what it gives of a granted
\* one, or collected it.
LEMMA AnswerStep ==
    ASSUME Requests(req), NEW h \in Handlers, NEW data \in SUBSET Items, Answer(h, data),
           req[h].granted \/ (req[h].cmd \notin Senders)
    PROVE  Requests(req')
<1> DEFINE r == [req[h] EXCEPT !.at = "answered", !.code = RAR_OK, !.data = data]
<1>1. req[h] \in Request /\ OnItsWay(req[h]) /\ req \in [Handlers -> Request]
  BY DEF Requests
<1>2. req' = [req EXCEPT ![h] = r]
  BY <1>1 DEF Answer
<1>3. r \in Request
  <2>1. RAR_OK \in Int /\ "answered" \in Points /\ data \in SUBSET Items
    BY DEF RAR_OK, Points
  <2> QED
    BY <1>1, <2>1 DEF Request
<1>4. OnItsWay(r)
  BY <1>1 DEF Request, OnItsWay
<1> QED
  BY <1>2, <1>3, <1>4, OneRequest

LEMMA CodesAreNumbers ==
    /\ ErrorResponse(PocoError) \in Int /\ ErrorResponse(InvalidAccess) \in Int
    /\ ErrorResponse(Refusal(RAR_ERRORSTACKOVERFLOW)) \in Int
    /\ ErrorResponse(Refusal(SomeCloudCode)) \in Int
BY DEF ErrorResponse, PocoError, InvalidAccess, Refusal, RAR_ERRORSTACKOVERFLOW,
       SomeCloudCode, RAR_OK, RAR_OPENDEVICEFAILED

\* Each step of a thread.
LEMMA ServeStep ==
    ASSUME Requests(req), NEW h \in Handlers, Serve(h)
    PROVE  Requests(req')
<1> DEFINE r == req[h]
<1>0. /\ r \in Request /\ OnItsWay(r) /\ req \in [Handlers -> Request]
      /\ r.cmd \in Senders \cup Collectors
  BY DEF Requests, Request
<1>1. CASE Mix(h)
  <2>1. r.at = "mixValue" /\ r.reply = "none" /\ r.cmd \in Senders
    BY <1>0, <1>1 DEF Mix, OnItsWay
  <2>2. CASE req' = [req EXCEPT ![h].at = "sendRequest"]
    <3> DEFINE n == [r EXCEPT !.at = "sendRequest"]
    <3>1. n \in Request /\ OnItsWay(n)
      BY <1>0, <2>1 DEF Request, Points, OnItsWay
    <3> QED
      BY <1>0, <2>2, <3>1, OneRequest
  <2>3. CASE Throw(h, PocoError) \/ Throw(h, Refusal(RAR_ERRORSTACKOVERFLOW))
    BY <2>1, <2>3, CodesAreNumbers, ThrowStep
  <2> QED
    BY <1>1, <2>2, <2>3 DEF Mix
<1>2. CASE SendRequest(h)
  <2>1. r.at = "sendRequest" /\ r.data = {} /\ r.file = "before" /\ r.cmd \in Senders
    BY <1>0, <1>2 DEF SendRequest, OnItsWay
  <2>2. ASSUME NEW got \in SUBSET Fields,
               req' = [req EXCEPT ![h].at = "reply", ![h].granted = TRUE,
                                  ![h].reply = "accepted", ![h].got = got]
        PROVE  Requests(req')
    <3> DEFINE n == [r EXCEPT !.at = "reply", !.granted = TRUE, !.reply = "accepted",
                              !.got = got]
    <3>1. n \in Request /\ OnItsWay(n)
      BY <1>0, <2>1 DEF Request, Points, Replies, OnItsWay
    <3> QED
      BY <1>0, <2>2, <3>1, OneRequest
  <2>3. CASE req' = [req EXCEPT ![h].at = "reply", ![h].granted = TRUE, ![h].reply = "lost"]
    <3> DEFINE n == [r EXCEPT !.at = "reply", !.granted = TRUE, !.reply = "lost"]
    <3>1. n \in Request /\ OnItsWay(n)
      BY <1>0, <2>1 DEF Request, Points, Replies, OnItsWay
    <3> QED
      BY <1>0, <2>3, <3>1, OneRequest
  <2>4. ASSUME NEW k \in Replies \ {"none", "accepted"}, NEW got \in SUBSET Fields,
               req' = [req EXCEPT ![h].at = "reply", ![h].reply = k, ![h].got = got]
        PROVE  Requests(req')
    <3> DEFINE n == [r EXCEPT !.at = "reply", !.reply = k, !.got = got]
    <3>1. n \in Request /\ OnItsWay(n)
      BY <1>0, <2>1, <2>4 DEF Request, Points, Replies, OnItsWay
    <3> QED
      BY <1>0, <2>4, <3>1, OneRequest
  <2>5. /\ Rows[r.cmd].needs \cup Rows[r.cmd].gives \in SUBSET Fields
        /\ Rows[r.cmd].needs \in SUBSET Fields /\ {} \in SUBSET Fields
    BY <2>1, RowFields
  <2> QED
    BY <1>2, <2>2, <2>3, <2>4, <2>5 DEF SendRequest
<1>3. CASE ReplyFails(h)
  <2>1. r.at = "reply"
    BY <1>3 DEF ReplyFails
  <2>2. CASE r.reply \in {"lost", "garbled"} /\ Throw(h, PocoError)
    BY <2>1, <2>2, CodesAreNumbers, ThrowStep
  <2>3. CASE r.reply = "refused" /\ Throw(h, Refusal(SomeCloudCode))
    BY <2>1, <2>3, CodesAreNumbers, ThrowStep
  <2>4. CASE r.reply = "refusedBare" /\ Throw(h, InvalidAccess)
    BY <2>1, <2>4, CodesAreNumbers, ThrowStep
  <2>5. CASE Drop(h)
    <3> DEFINE n == [r EXCEPT !.at = "dropped"]
    <3>1. n \in Request /\ OnItsWay(n)
      BY <1>0, <2>1 DEF Request, Points, OnItsWay
    <3> QED
      BY <1>0, <2>5, <3>1, OneRequest DEF Drop
  <2> QED
    BY <1>3, <2>2, <2>3, <2>4, <2>5 DEF ReplyFails
<1>4. CASE ExtractFails(h)
  <2>1. r.at = "reply" /\ r.reply = "accepted"
    BY <1>4 DEF ExtractFails
  <2>2. Throw(h, PocoError) \/ Throw(h, InvalidAccess)
    BY <1>4 DEF ExtractFails
  <2> QED
    BY <2>1, <2>2, CodesAreNumbers, ThrowStep
<1>5. CASE Produce(h)
  <2>1. r.at = "reply" /\ r.reply = "accepted" /\ r.granted
    BY <1>0, <1>5 DEF Produce, OnItsWay
  <2>2. CASE req' = [req EXCEPT ![h].at = "hung"]
    <3> DEFINE n == [r EXCEPT !.at = "hung"]
    <3>1. n \in Request /\ OnItsWay(n)
      BY <1>0, <2>1 DEF Request, Points, OnItsWay
    <3> QED
      BY <1>0, <2>2, <3>1, OneRequest
  <2>3. ASSUME NEW f \in {"before", "whole", "cut"},
               req' = [req EXCEPT ![h].at = "rest", ![h].file = f]
        PROVE  Requests(req')
    <3> DEFINE n == [r EXCEPT !.at = "rest", !.file = f]
    <3>1. n \in Request /\ OnItsWay(n)
      BY <1>0, <2>1 DEF Request, Points, OnItsWay
    <3> QED
      BY <1>0, <2>3, <3>1, OneRequest
  <2> QED
    BY <1>5, <2>2, <2>3 DEF Produce
<1>6. CASE TakeRest(h)
  <2>1. r.at = "rest" /\ r.reply = "accepted" /\ r.granted /\ r.cmd \in Senders
    BY <1>0, <1>6 DEF TakeRest, OnItsWay
  <2>2. CASE Throw(h, InvalidAccess)
    BY <2>1, <2>2, CodesAreNumbers, ThrowStep
  <2>3. CASE Answer(h, Rows[r.cmd].gives)
    <3>1. Rows[r.cmd].gives \in SUBSET Items
      BY <2>1, RowFields
    <3> QED
      BY <2>1, <2>3, <3>1, AnswerStep
  <2> QED
    BY <1>6, <2>2, <2>3 DEF TakeRest
<1>7. CASE CloudGetAuth(h) \/ CloudGetSignResult(h)
  <2>1. r.at = "mixValue" /\ r.reply = "none" /\ r.cmd \notin Senders
    BY <1>0, <1>7, CollectorsSendNothing
    DEF CloudGetAuth, CloudGetSignResult, OnItsWay, Collectors
  <2>2. Throw(h, PocoError) \/ \E data \in SUBSET Items : Answer(h, data)
    BY <1>7 DEF CloudGetAuth, CloudGetSignResult, Items
  <2> QED
    BY <2>1, <2>2, CodesAreNumbers, ThrowStep, AnswerStep
<1> QED
  BY <1>1, <1>2, <1>3, <1>4, <1>5, <1>6, <1>7 DEF Serve

\* Init's requests.
LEMMA NothingIsGood ==
    /\ Nothing \in Request /\ OnItsWay(Nothing)
    /\ Nothing.data = {} /\ Nothing.file = "before" /\ Nothing.reply = "none"
<1>1. "CloudLogout" \in Senders
  BY DEF Senders, Rows
<1> QED
  BY <1>1, CloudSessionAssumption
  DEF CloudSessionAssumption, Nothing, Request, Points, Replies, RAR_OK, OnItsWay

\* A thread that is done takes the next request, with nothing of the last.
LEMMA ReceiveStep ==
    ASSUME Requests(req), NEW h \in Handlers, NEW c \in Senders \cup Collectors,
           NEW t \in Trans, NEW plain \in {"some", "none"}, Receive(h, c, t, plain)
    PROVE  Requests(req')
<1> DEFINE n == [Nothing EXCEPT !.cmd = c, !.trans = t, !.plain = plain, !.at = "mixValue"]
           d == [Nothing EXCEPT !.cmd = c, !.trans = t, !.at = "dropped"]
<1>1. n \in Request /\ OnItsWay(n) /\ d \in Request /\ OnItsWay(d)
  <2>1. n \in Request /\ d \in Request
    BY NothingIsGood DEF Request, Points
  <2>2. /\ n.at = "mixValue" /\ n.data = {} /\ n.file = "before" /\ n.reply = "none"
        /\ d.at = "dropped" /\ d.data = {} /\ d.file = "before" /\ d.reply = "none"
    BY NothingIsGood DEF Request
  <2> QED
    BY <2>1, <2>2 DEF OnItsWay
<1>2. req' = [req EXCEPT ![h] = n] \/ req' = [req EXCEPT ![h] = d]
  BY DEF Receive
<1> QED
  BY <1>1, <1>2, OneRequest

-----------------------------------------------------------------------------
(***************************************************************************)
(* The invariant.                                                          *)
(***************************************************************************)

\* TypeOK has the type of the requests, and of what they share.
LEMMA TypeParts ==
    TypeOK <=> /\ authType \in AuthTypes
               /\ opened \in [Trans -> {"none", "nobody", "us"}]
               /\ decided \in [Trans -> Decisions \cup {"none"}]
               /\ cache \in [Trans -> Decisions \cup {"none"}]
               /\ asked \in [Trans -> {"none", "token", "keySn"}]
               /\ req \in [Handlers -> Request]
BY DEF TypeOK, Request

LEMMA SessionInit == Init => SessionInv
<1> SUFFICES ASSUME Init PROVE SessionInv
  OBVIOUS
<1>1. TypeOK
  BY NothingIsGood, TypeParts DEF Init, AuthTypes
<1>2. (\A h \in Handlers : OnItsWay(req[h])) /\ AskedByType
  BY NothingIsGood DEF Init, AskedByType
<1> QED
  BY <1>1, <1>2 DEF SessionInv

\* The transactions keep their types, and authType and what was asked for by
\* it go together.
LEMMA SharedStep ==
    SessionInv /\ [Next]_vars =>
        /\ authType' \in AuthTypes
        /\ opened' \in [Trans -> {"none", "nobody", "us"}]
        /\ decided' \in [Trans -> Decisions \cup {"none"}]
        /\ cache' \in [Trans -> Decisions \cup {"none"}]
        /\ asked' \in [Trans -> {"none", "token", "keySn"}]
        /\ AskedByType'
<1> DEFINE Goal == /\ authType' \in AuthTypes
                   /\ opened' \in [Trans -> {"none", "nobody", "us"}]
                   /\ decided' \in [Trans -> Decisions \cup {"none"}]
                   /\ cache' \in [Trans -> Decisions \cup {"none"}]
                   /\ asked' \in [Trans -> {"none", "token", "keySn"}]
                   /\ AskedByType'
<1> SUFFICES ASSUME SessionInv, [Next]_vars PROVE Goal
  OBVIOUS
<1>0. /\ TypeOK /\ AskedByType
      /\ authType \in AuthTypes
      /\ opened \in [Trans -> {"none", "nobody", "us"}]
      /\ decided \in [Trans -> Decisions \cup {"none"}]
      /\ cache \in [Trans -> Decisions \cup {"none"}]
      /\ asked \in [Trans -> {"none", "token", "keySn"}]
      /\ \A h \in Handlers : req[h].trans \in Trans
  BY DEF SessionInv, TypeOK
<1>1. ASSUME NEW h \in Handlers, Mix(h) PROVE Goal
  <2>1. /\ UNCHANGED <<authType, opened, decided, cache>>
        /\ \/ asked' = asked
           \/ asked' = [asked EXCEPT ![req[h].trans] =
                          IF ConvertBool(authType) THEN "keySn" ELSE "token"]
    BY <1>1 DEF Mix, cloud
  <2>2. asked' \in [Trans -> {"none", "token", "keySn"}]
    BY <1>0, <2>1
  <2>3. \A t \in Trans :
           \/ asked'[t] = asked[t]
           \/ asked'[t] = IF ConvertBool(authType) THEN "keySn" ELSE "token"
    BY <1>0, <2>1
  <2> QED
    BY <1>0, <2>1, <2>2, <2>3 DEF AskedByType
<1>2. ASSUME NEW h \in Handlers, SendRequest(h) PROVE Goal
  <2>1. /\ UNCHANGED <<authType, decided, cache, asked>>
        /\ \/ opened' = opened
           \/ \E to \in {"us", "nobody"} :
                 opened' = [opened EXCEPT ![req[h].trans] = to]
    BY <1>2 DEF SendRequest, CloudAccepts
  <2> QED
    BY <1>0, <2>1 DEF AskedByType
<1>3. ASSUME NEW v \in AuthTypes, SetAuthType(v) PROVE Goal
  BY <1>0, <1>3 DEF SetAuthType, cloud, AskedByType
<1>4. ASSUME NEW t \in Trans, NEW d \in Decisions, Decide(t, d) PROVE Goal
  BY <1>0, <1>4 DEF Decide, AskedByType
<1>5. ASSUME NEW t \in Trans, PushArrives(t) \/ Expire(t) PROVE Goal
  BY <1>0, <1>5 DEF PushArrives, Expire, AskedByType
<1>6. CASE UNCHANGED <<authType, cloud, asked>>
  BY <1>0, <1>6 DEF cloud, AskedByType
<1>7. ASSUME NEW h \in Handlers, Serve(h)
      PROVE  Mix(h) \/ SendRequest(h) \/ UNCHANGED <<authType, cloud, asked>>
  BY <1>7 DEF Serve, ReplyFails, ExtractFails, Produce, TakeRest, CloudGetAuth,
              CloudGetSignResult
<1>8. ASSUME NEW h \in Handlers, NEW c \in Senders \cup Collectors, NEW t \in Trans,
             NEW plain \in {"some", "none"}, Receive(h, c, t, plain)
      PROVE  UNCHANGED <<authType, cloud, asked>>
  BY <1>8 DEF Receive
<1>9. UNCHANGED vars => UNCHANGED <<authType, cloud, asked>>
  BY DEF vars, cloud
<1> QED
  BY <1>1, <1>2, <1>3, <1>4, <1>5, <1>6, <1>7, <1>8, <1>9 DEF Next

LEMMA SessionStep == SessionInv /\ [Next]_vars => SessionInv'
<1> SUFFICES ASSUME SessionInv, [Next]_vars PROVE SessionInv'
  OBVIOUS
<1>1. Requests(req)
  BY TypeParts DEF SessionInv, Requests
<1>2. Requests(req')
  <2>1. CASE UNCHANGED req
    BY <1>1, <2>1
  <2>2. \/ \E h \in Handlers : Serve(h)
        \/ \E h \in Handlers, c \in Senders \cup Collectors, t \in Trans,
              plain \in {"some", "none"} : Receive(h, c, t, plain)
        \/ UNCHANGED req
    BY DEF Next, vars, SetAuthType, Decide, PushArrives, Expire
  <2> QED
    BY <1>1, <2>1, <2>2, ServeStep, ReceiveStep
<1>3. TypeOK'
  BY <1>2, SharedStep DEF Requests, Request, TypeOK
<1> QED
  BY <1>2, <1>3, SharedStep DEF Requests, SessionInv

LEMMA SessionHolds == Spec => []SessionInv
<1> QED
  BY SessionInit, SessionStep, PTL DEF Spec

\* The variables keep their types in every behaviour.
THEOREM TypeCorrect == Spec => []TypeOK
<1>1. SessionInv => TypeOK
  BY DEF SessionInv
<1> QED
  BY <1>1, SessionHolds, PTL

\* Data in an answer and a change of the output file come of a request that
\* the cloud granted, in every behaviour.
THEOREM NoEffectUngranted == Spec => []EffectsWereGranted
<1>1. SessionInv => EffectsWereGranted
  BY DEF SessionInv, OnItsWay, EffectsWereGranted
<1> QED
  BY <1>1, SessionHolds, PTL

(***************************************************************************)
(* The two readings of authType.                                           *)
(***************************************************************************)

\* Where getUInt does not throw, both conversions say the same, but for the
\* other ways to write zero: getUInt compares values, the bool texts.
LEMMA ReadingsAgree ==
    ASSUME NEW v \in AuthTypes \ OtherZeros, IsUInt(v)
    PROVE  ConvertBool(v) <=> ~UIntIsZero(v)
BY DEF AuthTypes, OtherZeros, IsUInt, ConvertBool, UIntIsZero

\* The credential that a page collects is of the kind that was asked for its
\* transaction, as long as no page sets authType and it is not zero written
\* otherwise than "0".
THEOREM SameCredential == Spec => CredentialAsAsked
<1> DEFINE Step == \A h \in Handlers :
              LET t == req[h].trans
                  credential == req'[h].data \cap {"token", "keySn"}
              IN req[h].cmd = "CloudGetAuth" /\ req[h].at = "mixValue"
                 /\ req'[h].at = "answered" /\ asked[t] # "none"
                 /\ authType \notin OtherZeros
                 => credential \subseteq {asked[t]}
<1>1. SessionInv /\ [Next]_vars => [Step]_vars
  <2> SUFFICES ASSUME SessionInv, Next, NEW h \in Handlers,
                      req[h].cmd = "CloudGetAuth", req[h].at = "mixValue",
                      req'[h].at = "answered", asked[req[h].trans] # "none",
                      authType \notin OtherZeros
               PROVE  req'[h].data \cap {"token", "keySn"} \subseteq {asked[req[h].trans]}
    OBVIOUS
  <2>0. /\ req \in [Handlers -> Request] /\ OnItsWay(req[h]) /\ req[h].trans \in Trans
        /\ AskedByType /\ authType \in AuthTypes
    BY TypeParts DEF SessionInv, Request
  <2>1. req'[h] # req[h]
    OBVIOUS
  <2>2. Serve(h)
    <3>1. ASSUME NEW g \in Handlers, g # h, Serve(g) PROVE req'[h] = req[h]
      BY <2>0, <3>1 DEF Serve, Mix, SendRequest, ReplyFails, ExtractFails, Produce,
                        TakeRest, CloudGetAuth, CloudGetSignResult, Throw, Answer, Drop
    <3>2. ASSUME NEW g \in Handlers, NEW c \in Senders \cup Collectors, NEW t \in Trans,
                 NEW plain \in {"some", "none"}, Receive(g, c, t, plain)
          PROVE  req'[h] = req[h]
      <4>1. g # h
        BY <3>2 DEF Receive, Idle
      <4> QED
        BY <2>0, <3>2, <4>1 DEF Receive
    <3> QED
      BY <2>1, <3>1, <3>2 DEF Next, SetAuthType, Decide, PushArrives, Expire
  <2>3. CloudGetAuth(h)
    <3>1. "CloudGetAuth" \notin Senders
      BY CollectorsSendNothing DEF Collectors
    <3> QED
      BY <2>2, <3>1 DEF Serve, Mix, SendRequest, ReplyFails, ExtractFails, Produce, TakeRest,
                        CloudGetSignResult
  <2>4. req[h].data = {}
    BY <2>0 DEF OnItsWay
  <2>5. CASE Answer(h, {}) \/ Throw(h, PocoError)
    <3>1. req'[h].data = {}
      BY <2>0, <2>4, <2>5 DEF Answer, Throw, Request
    <3> QED
      BY <3>1
  <2>6. CASE /\ IsUInt(authType)
             /\ Answer(h, {"authResult", IF UIntIsZero(authType) THEN "token" ELSE "keySn"})
    <3>1. req'[h].data = {"authResult", IF UIntIsZero(authType) THEN "token" ELSE "keySn"}
      BY <2>0, <2>6 DEF Answer, Request
    <3>2. asked[req[h].trans] = IF UIntIsZero(authType) THEN "token" ELSE "keySn"
      BY <2>0, <2>6, ReadingsAgree DEF AskedByType
    <3> QED
      BY <3>1, <3>2
  <2> QED
    BY <2>3, <2>5, <2>6 DEF CloudGetAuth
<1> QED
  BY <1>1, SessionHolds, PTL DEF Spec, CredentialAsAsked
=============================================================================
