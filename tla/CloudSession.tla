-------------------------- MODULE CloudSession --------------------------
(***************************************************************************)
(* The cloud commands of routes/CloudAPI: a page asks the agent, the agent *)
(* asks the cloud, and the page gets what the cloud answered.  Some        *)
(* commands open a transaction that the user decides on the phone; the     *)
(* cloud pushes the decision to the agent that the command named           *)
(* (CloudEvents has the way of a push in detail), and the page collects it *)
(* with CloudGetAuth or CloudGetSignResult.                                *)
(*                                                                         *)
(* All commands run alike: mixValue fills in a template, sendRequest makes *)
(* the round trip, success() tests the answer, extract() takes fields out  *)
(* of it.  They differ in the rows below.                                  *)
(***************************************************************************)
EXTENDS CommandResponse

CONSTANTS Handlers,  \* threads of the HTTP server
          Trans      \* transaction identifiers

ASSUME CloudSessionAssumption == Trans # {}

\* A command: the transaction fields it fills in, whether the cloud opens a
\* transaction that the user decides, the fields of the answer it needs, in
\* order of extraction before (needs) and after (gives) it seals and writes,
\* what it encrypts with SM2, and whether it writes a file.
Row(sends, opens, needs, seals, writes, gives) ==
    [sends |-> sends, opens |-> opens, needs |-> needs, seals |-> seals,
     writes |-> writes, gives |-> gives]

Opening     == {"transid", "authCode", "clientId"}
WithToken   == {"transid", "authCode", "token"}
Certs       == {"signCertBase64", "encCertBase64"}

CloudLoginAuth     == Row(Opening, TRUE, {}, "nothing", FALSE, {"body"})
CloudEncryptAuth   == Row(Opening, TRUE, {}, "nothing", FALSE, {"body"})
CloudDevryptAuth   == Row(Opening, TRUE, {}, "nothing", FALSE, {"body"})
CloudGetCertAuth   == Row(Opening, TRUE, {}, "nothing", FALSE, {"body"})
CloudSealAuth      == Row(Opening \cup {"keySn"}, TRUE, {}, "nothing", FALSE, {"body"})
\* Mutant: the cloud is not told which agent waits for the signature.
CloudSignByP7_NoClient ==
                      Row(WithToken \cup {"keySn"}, TRUE, {}, "nothing", FALSE, {})
CloudSignByP7      == Row(Opening \cup {"token", "keySn"}, TRUE, {}, "nothing", FALSE, {})
CloudGetCertBase64 == Row(WithToken, FALSE, {}, "nothing", FALSE, {"body"})
CloudGetCompanyCert == Row(WithToken, FALSE, {}, "nothing", FALSE, Certs)
CloudGetSealList   == Row({"token", "authCode"}, FALSE, {}, "nothing", FALSE,
                          Certs \cup {"keySn", "signSn"})
CloudEncryptData   == Row(WithToken, FALSE, {"pubkey"}, "symKey", FALSE, Certs)
CloudEncryptFile   == Row(WithToken, FALSE, {"pubkey"}, "source", TRUE, Certs)
CloudDevryptData   == Row(WithToken, FALSE, {}, "nothing", FALSE, {"body"})
CloudDevryptFile   == Row(WithToken, FALSE, {"body"}, "nothing", TRUE, {})
CloudReceiveDevryptResult ==
                      Row({"token", "authCode"}, FALSE, {}, "nothing", FALSE, {})
CloudLogoutAuth    == Row({"token", "authCode"}, FALSE, {}, "nothing", FALSE, {})
CloudLogout        == Row({"userId", "authCode"}, FALSE, {}, "nothing", FALSE, {})

\* RequestHandlerFactory creates one of these for each path.
Rows ==
    [CloudLoginAuth     |-> CloudLoginAuth,
     CloudEncryptAuth   |-> CloudEncryptAuth,
     CloudDevryptAuth   |-> CloudDevryptAuth,
     CloudGetCertAuth   |-> CloudGetCertAuth,
     CloudSealAuth      |-> CloudSealAuth,
     CloudSignByP7      |-> CloudSignByP7,
     CloudGetCertBase64 |-> CloudGetCertBase64,
     CloudGetCompanyCert |-> CloudGetCompanyCert,
     CloudGetSealList   |-> CloudGetSealList,
     CloudEncryptData   |-> CloudEncryptData,
     CloudEncryptFile   |-> CloudEncryptFile,
     CloudDevryptData   |-> CloudDevryptData,
     CloudDevryptFile   |-> CloudDevryptFile,
     CloudReceiveDevryptResult |-> CloudReceiveDevryptResult,
     CloudLogoutAuth    |-> CloudLogoutAuth,
     CloudLogout        |-> CloudLogout]

Senders    == DOMAIN Rows
Collectors == {"CloudGetAuth", "CloudGetSignResult"}
Items      == {"body", "authResult", "token", "keySn", "signSn", "signdMsg", "certBase64",
               "signCertBase64", "encCertBase64"}
Fields     == {"body", "pubkey", "keySn", "signSn"} \cup Certs

Decisions == {"approved", "denied"}

\* Values of the property authType.  "00" stands for every other way to write
\* zero ("+0", "000"), "1" for every other number, "false" for a word.
AuthTypes  == {"0", "00", "1", "false", ""}
OtherZeros == {"00"}

\* Two handlers read the property, each with a conversion of its own.
\* Var::convert<bool> compares texts: it takes the empty one, "0" and "false"
\* for false and every other for true.
ConvertBool(v) == v \notin {"", "0", "false"}
\* AbstractConfiguration::getUInt parses a number, and throws for what is none.
IsUInt(v)      == v \in {"0", "00", "1"}
UIntIsZero(v)  == v \in {"0", "00"}

VARIABLES
    authType,  \* property authType; any page sets it with ConfigParameters
    opened,    \* the cloud: which agent it will push each transaction's
               \* decision to: "none", "nobody" or "us"
    decided,   \* the user's decisions that have not arrived
    cache,     \* TokenManager's cache
    asked,     \* history: the credential CloudSealAuth last asked the cloud
               \* for, by transaction, while authType has its value
    req        \* the request each thread serves, or has served last

vars  == <<authType, opened, decided, cache, asked, req>>
cloud == <<opened, decided, cache>>

\* at: where the thread is; got: the fields of the cloud's reply; granted:
\* did the cloud accept this request; code, data: the answer; file: what
\* became of the output file.  "dropped": an exception left the handler, and
\* the page gets no answer of Command's.
Points   == {"mixValue", "sendRequest", "reply", "rest", "hung", "answered", "dropped"}
Replies  == {"none", "accepted", "refused", "refusedBare", "refusedNoHex", "garbled",
             "lost"}
Nothing  == [cmd |-> "CloudLogout", trans |-> CHOOSE t \in Trans : TRUE,
             at |-> "answered", plain |-> "some", reply |-> "none", got |-> {},
             granted |-> FALSE, code |-> RAR_OK, data |-> {}, file |-> "before"]

Idle(h) == req[h].at \in {"answered", "dropped"}

Init ==
    /\ authType = "0"                       \* rsyncAgent.properties
    /\ opened = [t \in Trans |-> "none"]
    /\ decided = [t \in Trans |-> "none"]
    /\ cache  = [t \in Trans |-> "none"]
    /\ asked  = [t \in Trans |-> "none"]
    /\ req    = [h \in Handlers |-> Nothing]

-----------------------------------------------------------------------------
(***************************************************************************)
(* Endings of a request.                                                   *)
(***************************************************************************)

\* run() threw: execute answers with the code that its catch clause finds.
\* CloudGetSealList has an execute of its own, without catch clauses.
Throw(h, exc) ==
    req' = [req EXCEPT ![h].at   = IF req[h].cmd = "CloudGetSealList"
                                   THEN "dropped" ELSE "answered",
                       ![h].code = ErrorResponse(exc)]

\* An exception that no catch clause of execute takes, or thrown outside it.
Drop(h) == req' = [req EXCEPT ![h].at = "dropped"]

Answer(h, data) ==
    req' = [req EXCEPT ![h].at = "answered", ![h].code = RAR_OK, ![h].data = data]

PocoError  == [class |-> "Exception", code |-> 0]
Refusal(c) == [class |-> "CloudCommandException", code |-> c]
RAR_ERRORSTACKOVERFLOW == 36901   \* 0x9025
SomeCloudCode          == 24577   \* a code the cloud refuses with

-----------------------------------------------------------------------------
(***************************************************************************)
(* A command that goes to the cloud.                                       *)
(***************************************************************************)

\* handleRequest reads the form and constructs the command.  The constructor
\* of CloudDevryptFile opens its input, outside of execute.
Receive(h, c, t, plain) ==
    /\ Idle(h)
    /\ plain = "some" \/ (c \in Senders /\ Rows[c].seals # "nothing")
    /\ \/ req' = [req EXCEPT ![h] = [Nothing EXCEPT !.cmd = c, !.trans = t,
                                        !.plain = plain, !.at = "mixValue"]]
       \/ /\ c = "CloudDevryptFile"
          /\ req' = [req EXCEPT ![h] = [Nothing EXCEPT !.cmd = c, !.trans = t,
                                        !.at = "dropped"]]
    /\ UNCHANGED <<authType, cloud, asked>>

\* Mutant: CloudDevryptFile opens its output before it asks the cloud.
Mix_OpensFile(h) ==
    LET r == req[h] IN
    /\ r.at = "mixValue"
    /\ r.cmd \in Senders
    /\ req' = [req EXCEPT ![h].at = "sendRequest",
                          ![h].file = IF Rows[r.cmd].writes THEN "cut" ELSE "before"]
    /\ UNCHANGED <<authType, cloud, asked>>

\* mixValue: the template is read and filled in.  It may be missing;
\* CloudSignByP7 refuses a long text.  CloudSealAuth asks for the user's
\* token (action 4) or for the key's credential (action 5), by authType.
Mix(h) ==
    LET r == req[h] IN
    /\ r.at = "mixValue"
    /\ r.cmd \in Senders
    /\ \/ /\ req' = [req EXCEPT ![h].at = "sendRequest"]
          /\ asked' = IF r.cmd = "CloudSealAuth"
                      THEN [asked EXCEPT ![r.trans] =
                                IF ConvertBool(authType) THEN "keySn" ELSE "token"]
                      ELSE asked
       \/ /\ Throw(h, PocoError)
          /\ UNCHANGED asked
       \/ /\ r.cmd = "CloudSignByP7"
          /\ Throw(h, Refusal(RAR_ERRORSTACKOVERFLOW))
          /\ UNCHANGED asked
    /\ UNCHANGED <<authType, cloud>>

\* The cloud takes the request; what it accepts may open a transaction.
\* Its reply, or the request, may get lost: the client times out.  An
\* accepted reply has some of the fields in its body.
CloudAccepts(r) ==
    opened' = IF Rows[r.cmd].opens
              THEN [opened EXCEPT ![r.trans] =
                       IF "clientId" \in Rows[r.cmd].sends THEN "us" ELSE "nobody"]
              ELSE opened

SendRequest(h) ==
    LET r == req[h]
        needed == Rows[r.cmd].needs \cup Rows[r.cmd].gives
    IN
    /\ r.at = "sendRequest"
    /\ \/ /\ CloudAccepts(r)
          /\ \E got \in {needed, Rows[r.cmd].needs, {}} :
                req' = [req EXCEPT ![h].at = "reply", ![h].granted = TRUE,
                                   ![h].reply = "accepted", ![h].got = got]
       \/ /\ CloudAccepts(r)
          /\ req' = [req EXCEPT ![h].at = "reply", ![h].granted = TRUE,
                                ![h].reply = "lost"]
       \/ /\ \E k \in Replies \ {"none", "accepted"}, got \in {needed, {}} :
                req' = [req EXCEPT ![h].at = "reply", ![h].reply = k,
                                   ![h].got = IF k = "refused" THEN got ELSE {}]
          /\ UNCHANGED opened
    /\ UNCHANGED <<authType, decided, cache, asked>>

\* No reply, or one that is not JSON: Poco throws, and its code is 0.  A
\* refusal throws with the code the cloud gave, read as a hexadecimal number.
\* Both arguments of that exception are extracted first: of a refusal whose
\* head lacks message or code ("refusedBare") the extract throws instead, and
\* for a code that is no number std::stoi does, which execute does not catch.
ReplyFails(h) ==
    /\ req[h].at = "reply"
    /\ \/ req[h].reply \in {"lost", "garbled"} /\ Throw(h, PocoError)
       \/ req[h].reply = "refused"             /\ Throw(h, Refusal(SomeCloudCode))
       \/ req[h].reply = "refusedBare"         /\ Throw(h, InvalidAccess)
       \/ req[h].reply = "refusedNoHex"        /\ Drop(h)
    /\ UNCHANGED <<authType, cloud, asked>>

\* extract() of the fields that come first throws for a missing one.  After
\* them the source may be missing, SM2 may fail, the file may not open.
ExtractFails(h) ==
    LET row == Rows[req[h].cmd] IN
    /\ req[h].at = "reply" /\ req[h].reply = "accepted"
    /\ IF row.needs \subseteq req[h].got
       THEN /\ row.seals # "nothing" \/ row.writes
            /\ Throw(h, PocoError)
       ELSE Throw(h, InvalidAccess)
    /\ UNCHANGED <<authType, cloud, asked>>

\* The text is sealed (Sm2Encrypt, which does not return for an empty text)
\* and the file is written; a write that fails is not noticed ("cut").
Produce(h) ==
    LET row == Rows[req[h].cmd] IN
    /\ req[h].at = "reply" /\ req[h].reply = "accepted"
    /\ row.needs \subseteq req[h].got
    /\ IF row.seals # "nothing" /\ req[h].plain = "none"
       THEN req' = [req EXCEPT ![h].at = "hung"]
       ELSE \E f \in IF row.writes THEN {"whole", "cut"} ELSE {"before"} :
               req' = [req EXCEPT ![h].at = "rest", ![h].file = f]
    /\ UNCHANGED <<authType, cloud, asked>>

\* extract() of the other fields, for the answer.
TakeRest(h) ==
    LET row == Rows[req[h].cmd] IN
    /\ req[h].at = "rest"
    /\ IF row.gives \subseteq req[h].got
       THEN Answer(h, row.gives)
       ELSE Throw(h, InvalidAccess)
    /\ UNCHANGED <<authType, cloud, asked>>

-----------------------------------------------------------------------------
(***************************************************************************)
(* A command that collects the decision from the cache.                    *)
(***************************************************************************)

\* Mutant: the test of authType is inverted.
CloudGetAuth_Inverted(h) ==
    LET r == req[h] IN
    /\ r.at = "mixValue"
    /\ r.cmd = "CloudGetAuth"
    /\ \/ cache[r.trans] = "none" /\ Answer(h, {})
       \/ /\ cache[r.trans] # "none"
          /\ IsUInt(authType)
          /\ Answer(h, {"authResult", IF UIntIsZero(authType) THEN "keySn" ELSE "token"})
    /\ UNCHANGED <<authType, cloud, asked>>

\* CloudGetAuth: pending, or the decision with the token (authType 0) or with
\* the property keySn.  A decision may lack a field, which throws.
CloudGetAuth(h) ==
    LET r == req[h] IN
    /\ r.at = "mixValue"
    /\ r.cmd = "CloudGetAuth"
    /\ \/ cache[r.trans] = "none" /\ Answer(h, {})
       \/ /\ cache[r.trans] # "none"
          /\ IsUInt(authType)
          /\ Answer(h, {"authResult", IF UIntIsZero(authType) THEN "token" ELSE "keySn"})
       \/ /\ cache[r.trans] # "none"
          /\ Throw(h, PocoError)
    /\ UNCHANGED <<authType, cloud, asked>>

\* CloudGetSignResult: the signature only of an approved decision.
CloudGetSignResult(h) ==
    LET r == req[h] IN
    /\ r.at = "mixValue"
    /\ r.cmd = "CloudGetSignResult"
    /\ \/ cache[r.trans] = "none"     /\ Answer(h, {})
       \/ cache[r.trans] = "denied"   /\ Answer(h, {"authResult"})
       \/ cache[r.trans] = "approved" /\ Answer(h, {"authResult", "signdMsg", "certBase64"})
       \/ cache[r.trans] # "none"     /\ Throw(h, PocoError)
    /\ UNCHANGED <<authType, cloud, asked>>

-----------------------------------------------------------------------------
(***************************************************************************)
(* The others.                                                             *)
(***************************************************************************)

\* A page sets authType (ConfigParameters::run).
SetAuthType(v) ==
    /\ v # authType
    /\ authType' = v
    /\ asked' = [t \in Trans |-> "none"]
    /\ UNCHANGED <<cloud, req>>

\* The user decides, and the cloud pushes the decision to the agent it was
\* told of.  The push arrives (ReceiveGood of CloudEvents).
Decide(t, d) ==
    /\ opened[t] # "none"
    /\ decided[t] = "none"
    /\ decided' = [decided EXCEPT ![t] = d]
    /\ UNCHANGED <<authType, opened, cache, asked, req>>

\* Mutant: the token is filed in place of the decision.
PushArrives_Token(t) ==
    /\ decided[t] # "none"
    /\ opened[t] = "us"
    /\ cache' = [cache EXCEPT ![t] = "token"]
    /\ opened' = [opened EXCEPT ![t] = "none"]
    /\ decided' = [decided EXCEPT ![t] = "none"]
    /\ UNCHANGED <<authType, asked, req>>

PushArrives(t) ==
    /\ decided[t] # "none"
    /\ opened[t] = "us"
    /\ cache' = [cache EXCEPT ![t] = decided[t]]
    /\ opened' = [opened EXCEPT ![t] = "none"]
    /\ decided' = [decided EXCEPT ![t] = "none"]
    /\ UNCHANGED <<authType, asked, req>>

\* AccessExpireCache drops the decision ten minutes after its last use.
Expire(t) ==
    /\ cache[t] # "none"
    /\ cache' = [cache EXCEPT ![t] = "none"]
    /\ UNCHANGED <<authType, opened, decided, asked, req>>

Serve(h) == \/ Mix(h) \/ SendRequest(h) \/ ReplyFails(h) \/ ExtractFails(h)
            \/ Produce(h) \/ TakeRest(h)
            \/ CloudGetAuth(h) \/ CloudGetSignResult(h)

Next ==
    \/ \E h \in Handlers : Serve(h)
    \/ \E h \in Handlers, c \in Senders \cup Collectors, t \in Trans,
          plain \in {"some", "none"} : Receive(h, c, t, plain)
    \/ \E v \in AuthTypes : SetAuthType(v)
    \/ \E t \in Trans, d \in Decisions : Decide(t, d)
    \/ \E t \in Trans : PushArrives(t)
    \/ \E t \in Trans : Expire(t)

\* A push in flight arrives, the connection lasting: CloudEvents has what
\* becomes of it when the connection does not.
Fairness == \A t \in Trans : WF_vars(PushArrives(t))

Spec == Init /\ [][Next]_vars /\ Fairness

-----------------------------------------------------------------------------
(***************************************************************************)
(* Properties.                                                             *)
(***************************************************************************)

\* Every variable has its type.
TypeOK ==
    /\ authType \in AuthTypes
    /\ opened \in [Trans -> {"none", "nobody", "us"}]
    /\ decided \in [Trans -> Decisions \cup {"none"}]
    /\ cache \in [Trans -> Decisions \cup {"none"}]
    /\ asked \in [Trans -> {"none", "token", "keySn"}]
    /\ req \in [Handlers ->
                 [cmd : Senders \cup Collectors, trans : Trans, at : Points,
                  plain : {"some", "none"}, reply : Replies, got : SUBSET Fields,
                  granted : BOOLEAN, code : Int, data : SUBSET Items,
                  file : {"before", "whole", "cut"}]]

\* What the cloud did not grant has no effect: data in an answer, and any
\* change of the output file, come of a request that the cloud granted,
\* whatever gets lost and however the reply is cut.  (A granted command may
\* fail after it replaced the file: CloudEncryptFile writes it before it
\* extracts the certificates.  An answer without data says nothing: code 0000
\* is also what a lost reply is answered with.)
EffectsWereGranted ==
    \A h \in Handlers :
        LET r == req[h] IN
        r.cmd \in Senders /\ (r.data # {} \/ r.file # "before") => r.granted

\* An answer with code 0000 means success (routes/ErrorCode.h:3 glosses RAR_OK
\* so): what the cloud refused is answered with another code, by any command.
RefusalIsNotSuccess ==
    \A h \in Handlers :
        LET r == req[h] IN
        (/\ r.reply \in {"refused", "refusedBare", "refusedNoHex"}
         /\ r.at = "answered")
          => r.code # RAR_OK

\* CloudSealAuth and CloudGetAuth agree on the credential: what the page
\* collects for a transaction is of the kind that was asked for it, unless a
\* page set authType in between, for every text that authType may hold but
\* one.  The exception is zero written otherwise than "0", which is true for
\* the one and 0 for the other: there the key's credential is asked for and
\* the token handed out.
CredentialAsAsked ==
    [][\A h \in Handlers :
          LET t == req[h].trans
              credential == req'[h].data \cap {"token", "keySn"}
          IN req[h].cmd = "CloudGetAuth" /\ req[h].at = "mixValue"
             /\ req'[h].at = "answered" /\ asked[t] # "none"
             /\ authType \notin OtherZeros
             => credential \subseteq {asked[t]}]_vars

\* What the user decides comes back to this agent, for every command that
\* opens a transaction.
DecisionComesBack ==
    \A t \in Trans, d \in Decisions : decided[t] = d ~> cache[t] = d
=============================================================================
