------------------------ MODULE KeyOperationsProofs ------------------------
(***************************************************************************)
(* Proofs about KeyOperations, for every set of keys, of HTTP threads and  *)
(* of envelopes, and every number of tries: its types, and that whatever   *)
(* the user exchanges while commands run, each works for the key that its  *)
(* page named, spends at most one try of it, and touches no file when it   *)
(* refuses.                                                                *)
(*                                                                         *)
(* A request keeps the session it took.  What holds of it at each point of *)
(* its way is said of that session, and never of the key in the socket.    *)
(***************************************************************************)
EXTENDS KeyOperations, TLAPS

AnyKey  == Keys \cup {NoKey}

Request == [cmd : Commands, uid : AnyKey, pin : Pins, env : SUBSET Envelopes,
            at : Points, sess : AnyKey, code : Int, from : AnyKey,
            plain : Plains, spent : [Keys -> 0..MaxTries],
            accepted : BOOLEAN, threw : BOOLEAN]

OnKey      == {"named", "retries", "cert", "call", "write"}
Decrypting == {"KeyDecryptData", "KeyDecryptFile"}
Verifying  == Remote \cup {"VerifySignByP1"}

\* A page brings one text, and a file has one.
Single(env) == \A e, f \in env : e = f

\* The text is that of the named key, behind whose certificate it came.
Decrypted(r) == r.sess = r.uid /\ \E e \in r.env : e.good /\ e.to = r.uid /\ e.tag = r.uid

\* What a request has, by how far it came.
OnItsWay(r) ==
    /\ Single(r.env)
    /\ r.at \in OnKey \cup {"run"} => r.cmd \in DOMAIN Rows
    /\ r.at \in OnKey => r.sess \in Keys
    /\ r.at \in {"local", "remote"} => r.cmd \in Remote
    /\ ~(r.at \in {"answered", "dropped"}) =>
          /\ r.from = NoKey /\ r.plain = "before" /\ r.spent = [k \in Keys |-> 0]
          /\ r.code = RAR_OK
    /\ r.at = "write" => r.cmd = "KeyDecryptFile" /\ Decrypted(r)
    /\ r.at \in {"retries", "cert", "call"} => (Rows[r.cmd].names => r.uid = r.sess)
    /\ r.at \in OnKey /\ r.cmd = "CertLogin" => r.pin # ""
    /\ r.at = "retries" => r.cmd = "CertLogin"
    /\ r.at = "call" /\ r.cmd \in Decrypting /\ Tagged(r.env) =>
          \A e \in r.env : e.tag = r.sess

\* What its page may rely on.
InGoodOrder(r) ==
    /\ r.from # NoKey => r.cmd \in DOMAIN Rows
    /\ r.from # NoKey /\ r.cmd \notin {"GetPinRetryCount", "GetUserList"} => r.from = r.uid
    /\ r.from # NoKey /\ r.cmd \in Decrypting =>
          \A e \in r.env : e.to = r.uid /\ e.tag \in {r.uid, NoKey}
    /\ r.plain # "before" => r.code = RAR_OK /\ Decrypted(r)
    /\ r.cmd \in Verifying /\ r.at = "answered" /\ r.code = RAR_OK => r.accepted \/ r.threw
    /\ \A k \in Keys : r.spent[k] > 0 =>
          r.spent[k] = 1 /\ k = r.uid /\ (r.cmd = "CertLogin" => r.pin # "")

Good(r) == r \in Request /\ OnItsWay(r) /\ InGoodOrder(r)

DeviceOK ==
    /\ plugged \in AnyKey /\ session \in AnyKey /\ moded \in BOOLEAN
    /\ tries \in [Keys -> 0..MaxTries]
    /\ login \in [Keys -> BOOLEAN]

FileOK == file \subseteq Envelopes /\ Single(file)

Requests(f) == f \in [Handlers -> Request] /\ \A h \in Handlers : Good(f[h])

KeyInv == DeviceOK /\ FileOK /\ Requests(req)

-----------------------------------------------------------------------------
(***************************************************************************)
(* The table of commands.                                                  *)
(***************************************************************************)

\* The fifteen commands of the table.
LEMMA RowNames ==
    DOMAIN Rows = {"CertLogin", "ChangePassWd", "KeyStatus", "KeySignByP1", "KeySignByP7",
                   "KeyGetDeviceInfo", "KeyGetKeySn", "GetCertBase64String",
                   "GetPinRetryCount", "GetUserList", "KeyEncryptData", "KeyEncryptFile",
                   "KeyDecryptData", "KeyDecryptFile", "VerifySignByP1"}
BY DEF Rows

\* A command that hands on what a key told, takes a PIN or decrypts, compares
\* the key that the page named; two commands name none.
LEMMA RowFacts ==
    ASSUME NEW c \in DOMAIN Rows
    PROVE  /\ Rows[c].names \in BOOLEAN /\ Rows[c].gives \in BOOLEAN
           /\ Rows[c].refusal \in Int
           /\ Rows[c].call \in {"login", "changePW"} => Rows[c].names
           /\ Rows[c].gives /\ ~Rows[c].names => c \in {"GetPinRetryCount", "GetUserList"}
           /\ Rows[c].call = "decrypt" <=> c \in Decrypting
           /\ c \in Decrypting => Rows[c].names
           /\ Rows[c].call = "verify" <=> c = "VerifySignByP1"
           /\ c = "VerifySignByP1" => Rows[c].refusal = RAR_UNKNOWNERR
<1> DEFINE Fact(d, row) ==
              /\ row.names \in BOOLEAN /\ row.gives \in BOOLEAN
              /\ row.refusal \in Int
              /\ row.call \in {"login", "changePW"} => row.names
              /\ row.gives /\ ~row.names => d \in {"GetPinRetryCount", "GetUserList"}
              /\ row.call = "decrypt" <=> d \in Decrypting
              /\ d \in Decrypting => row.names
              /\ row.call = "verify" <=> d = "VerifySignByP1"
              /\ d = "VerifySignByP1" => row.refusal = RAR_UNKNOWNERR
<1> USE DEF Row, Decrypting, RAR_OK, RAR_UNKNOWNERR, RAR_9011, RAR_9028, RAR_NOUNIQUEID,
            RAR_DECRYPTFAILED
<1>1. /\ Fact("CertLogin", CertLogin) /\ Fact("ChangePassWd", ChangePassWd)
      /\ Fact("KeyStatus", KeyStatus)
  BY DEF CertLogin, ChangePassWd, KeyStatus
<1>2. Fact("KeySignByP1", KeySignByP1) /\ Fact("KeySignByP7", KeySignByP7)
  BY DEF KeySignByP1, KeySignByP7
<1>3. /\ Fact("KeyGetDeviceInfo", KeyGetDeviceInfo) /\ Fact("KeyGetKeySn", KeyGetKeySn)
      /\ Fact("GetCertBase64String", GetCertBase64String)
  BY DEF KeyGetDeviceInfo, KeyGetKeySn, GetCertBase64String
<1>4. Fact("GetPinRetryCount", GetPinRetryCount) /\ Fact("GetUserList", GetUserList)
  BY DEF GetPinRetryCount, GetUserList
<1>5. Fact("KeyEncryptData", KeyEncryptData) /\ Fact("KeyEncryptFile", KeyEncryptFile)
  BY DEF KeyEncryptData, KeyEncryptFile
<1>6. Fact("KeyDecryptData", KeyDecryptData) /\ Fact("KeyDecryptFile", KeyDecryptFile)
  BY DEF KeyDecryptData, KeyDecryptFile
<1>7. Fact("VerifySignByP1", VerifySignByP1)
  BY DEF VerifySignByP1
<1> HIDE DEF Fact, Row, Decrypting
<1>8. Fact(c, Rows[c])
  BY <1>1, <1>2, <1>3, <1>4, <1>5, <1>6, <1>7, RowNames DEF Rows
<1> QED
  BY <1>8 DEF Fact

\* No command of the table is one of those that never come to a session.
LEMMA RowsAreApart == DOMAIN Rows \cap Sessionless = {} /\ "VerifySignByP1" \in DOMAIN Rows
BY RowNames DEF Sessionless, Remote

(***************************************************************************)
(* The ends of a request.                                                  *)
(***************************************************************************)

\* A thread that puts a good request in its place keeps all of them good.
LEMMA OneRequest ==
    ASSUME Requests(req), NEW h \in Handlers, NEW r, Good(r), req' = [req EXCEPT ![h] = r]
    PROVE  Requests(req')
<1>1. req \in [Handlers -> Request] /\ r \in Request
  BY DEF Requests, Good
<1>2. req' \in [Handlers -> Request] /\ req'[h] = r
  BY <1>1
<1>3. \A g \in Handlers \ {h} : req'[g] = req[g]
  BY <1>1
<1> QED
  BY <1>2, <1>3 DEF Requests

\* A command that threw, or refused, leaves nothing behind.
LEMMA EndStep ==
    ASSUME Requests(req), NEW h \in Handlers, ~Idle(h),
           NEW c \in Int, NEW threw \in BOOLEAN, threw \/ c # RAR_OK,
           req' = [req EXCEPT ![h].at = "answered", ![h].threw = threw, ![h].code = c]
    PROVE  Requests(req')
<1> DEFINE n == [req[h] EXCEPT !.at = "answered", !.threw = threw, !.code = c]
<1>1. Good(req[h]) /\ req[h] \in Request /\ req \in [Handlers -> Request]
  BY DEF Requests, Good
<1>2. req' = [req EXCEPT ![h] = n]
  BY <1>1
<1>3. n \in Request
  BY <1>1 DEF Request, Points
<1>4. /\ n.at = "answered" /\ n.threw = threw /\ n.code = c
      /\ n.cmd = req[h].cmd /\ n.uid = req[h].uid /\ n.env = req[h].env
      /\ n.from = NoKey /\ n.plain = "before" /\ n.spent = [k \in Keys |-> 0]
      /\ Single(n.env)
  BY <1>1 DEF Request, Good, OnItsWay, Idle
<1>5. OnItsWay(n)
  BY <1>4 DEF OnItsWay, OnKey
<1>6. InGoodOrder(n)
  <2>1. \A k \in Keys : ~(n.spent[k] > 0)
    BY <1>4
  <2> HIDE DEF n
  <2> QED
    BY <1>4, <2>1 DEF InGoodOrder
<1> QED
  BY <1>2, <1>3, <1>5, <1>6, OneRequest DEF Good

LEMMA ThrowStep ==
    ASSUME Requests(req), NEW h \in Handlers, ~Idle(h), Throw(h)
    PROVE  Requests(req')
<1> DEFINE c == ErrorResponse(InvalidAccess)
<1>1. c \in Int
  BY DEF ErrorResponse, InvalidAccess
<1>2. req' = [req EXCEPT ![h].at = "answered", ![h].threw = TRUE, ![h].code = c]
  BY DEF Throw
<1> QED
  BY <1>1, <1>2, EndStep

LEMMA RefuseStep ==
    ASSUME Requests(req), NEW h \in Handlers, ~Idle(h), NEW c \in Int \ {RAR_OK}, Refuse(h, c)
    PROVE  Requests(req')
<1>0. ErrorResponse(Rejected(c)) = c
  BY DEF ErrorResponse, Rejected
<1>1. req[h] \in Request /\ req \in [Handlers -> Request] /\ req[h].threw \in BOOLEAN
  BY DEF Requests, Request
<1>2. req' = [req EXCEPT ![h].at = "answered", ![h].threw = req[h].threw, ![h].code = c]
  BY <1>0, <1>1 DEF Refuse, Request
<1> QED
  BY <1>1, <1>2, EndStep

\* A request under way has done nothing yet that its page could rely on, and
\* one that is over has nothing left to do.
LEMMA UnderWay ==
    ASSUME NEW r \in Request, OnItsWay(r), r.at \notin {"answered", "dropped"}
    PROVE  Good(r)
<1>1. r.from = NoKey /\ r.plain = "before" /\ r.spent = [k \in Keys |-> 0]
  BY DEF OnItsWay
<1>2. \A k \in Keys : ~(r.spent[k] > 0)
  BY <1>1
<1> QED
  BY <1>1, <1>2 DEF Good, InGoodOrder

LEMMA Over ==
    ASSUME NEW r, Single(r.env), r.at \in {"answered", "dropped"}
    PROVE  OnItsWay(r)
BY DEF OnItsWay, OnKey

-----------------------------------------------------------------------------
(***************************************************************************)
(* The way to the call.                                                    *)
(***************************************************************************)

Codes == {RAR_NOUNIQUEID, RAR_UNIQUEIDUNCORRECT, RAR_9010, RAR_9011, RAR_ERRNOENCRYPT,
          RAR_ERRNODECRYPT, RAR_ERRDECRYPTFILEFORMAT, RAR_9028, RAR_ERRDECRYPTCERT,
          RAR_DECRYPTFAILED, RAR_UNKNOWNERR}

LEMMA CodesAreNotOK == Codes \subseteq Int \ {RAR_OK}
BY DEF Codes, RAR_NOUNIQUEID, RAR_UNIQUEIDUNCORRECT, RAR_9010, RAR_9011, RAR_ERRNOENCRYPT,
       RAR_ERRNODECRYPT, RAR_ERRDECRYPTFILEFORMAT, RAR_9028, RAR_ERRDECRYPTCERT,
       RAR_DECRYPTFAILED, RAR_UNKNOWNERR, RAR_OK

\* The session is taken: from here on it is what the request is about.
LEMMA GetSessionStep ==
    ASSUME Requests(req), FileOK, session \in AnyKey, NEW h \in Handlers, GetSession(h)
    PROVE  Requests(req')
<1> DEFINE r == req[h]
           env == IF r.cmd = "KeyDecryptFile" THEN file ELSE r.env
           n == [r EXCEPT !.at = "named", !.sess = session, !.env = env]
<1>1. r \in Request /\ OnItsWay(r) /\ req \in [Handlers -> Request] /\ r.at = "run"
  BY DEF Requests, Good, GetSession
<1>2. ~Idle(h)
  BY <1>1 DEF Idle
<1>3. CASE Throw(h) \/ Refuse(h, RAR_9010) \/ Refuse(h, RAR_ERRNODECRYPT)
  BY <1>2, <1>3, ThrowStep, RefuseStep, CodesAreNotOK DEF Codes
<1>4. CASE /\ session # NoKey
           /\ r.cmd = "CertLogin" => r.uid # NoKey /\ r.pin # ""
           /\ req' = [req EXCEPT ![h].at = "named", ![h].sess = session, ![h].env = env]
  <2>1. env \in SUBSET Envelopes /\ Single(env)
    BY <1>1 DEF FileOK, Request, OnItsWay
  <2>2. req' = [req EXCEPT ![h] = n]
    BY <1>1, <1>4
  <2> HIDE DEF env
  <2>3. n \in Request
    BY <1>1, <2>1 DEF Request, Points
  <2>4. OnItsWay(n)
    <3>1. /\ n.at = "named" /\ n.sess = session /\ n.env = env
          /\ n.cmd = r.cmd /\ n.pin = r.pin /\ n.code = r.code
          /\ n.from = r.from /\ n.plain = r.plain /\ n.spent = r.spent
      BY <1>1 DEF Request
    <3>2. session \in Keys
      BY <1>4 DEF AnyKey
    <3> HIDE DEF n
    <3> QED
      BY <1>1, <1>4, <2>1, <3>1, <3>2 DEF OnItsWay, OnKey
  <2>5. n.at = "named"
    BY <1>1 DEF Request
  <2>6. Good(n)
    BY <2>3, <2>4, <2>5, UnderWay
  <2> QED
    BY <2>2, <2>6, OneRequest
<1> QED
  BY <1>3, <1>4 DEF GetSession

\* One step on: at is all that changes.
LEMMA GotoStep ==
    ASSUME Requests(req), NEW h \in Handlers, ~Idle(h),
           NEW at \in Points \ {"answered", "dropped", "run"}, Goto(h, at),
           at = "write" => req[h].cmd = "KeyDecryptFile" /\ Decrypted(req[h]),
           at \in OnKey => req[h].at \in OnKey,
           at \in {"local", "remote"} => req[h].cmd \in Remote,
           at = "retries" => req[h].cmd = "CertLogin",
           at \in {"retries", "cert", "call"} =>
               (Rows[req[h].cmd].names => req[h].uid = req[h].sess),
           at = "call" /\ req[h].cmd \in Decrypting /\ Tagged(req[h].env) =>
               \A e \in req[h].env : e.tag = req[h].sess
    PROVE  Requests(req')
<1> DEFINE r == req[h]
           n == [r EXCEPT !.at = at]
<1>1. r \in Request /\ OnItsWay(r) /\ req \in [Handlers -> Request]
  BY DEF Requests, Good
<1>2. req' = [req EXCEPT ![h] = n]
  BY <1>1 DEF Goto
<1>3. n \in Request
  BY <1>1 DEF Request
<1>4. /\ n.at = at /\ n.sess = r.sess /\ n.env = r.env /\ n.uid = r.uid
      /\ n.cmd = r.cmd /\ n.pin = r.pin /\ n.code = r.code
      /\ n.from = r.from /\ n.plain = r.plain /\ n.spent = r.spent
  BY <1>1 DEF Request
<1>5. r.at \notin {"answered", "dropped"}
  BY DEF Idle
<1> HIDE DEF n
<1>6. Decrypted(r) => Decrypted(n)
  BY <1>4 DEF Decrypted
<1>7. OnItsWay(n)
  BY <1>1, <1>4, <1>5, <1>6 DEF OnItsWay, OnKey
<1>8. Good(n)
  BY <1>3, <1>4, <1>7, UnderWay
<1> QED
  BY <1>2, <1>8, OneRequest

\* The comparison with the key that the page named, of the session; what the
\* command says of the certificate behind the text; the tries that are left.
LEMMA CompareStep ==
    ASSUME Requests(req), NEW h \in Handlers, Named(h) \/ Retries(h) \/ CompareCert(h)
    PROVE  Requests(req')
<1> DEFINE r == req[h]
<1>1. /\ r \in Request /\ OnItsWay(r)
      /\ r.at \in {"named", "retries", "cert"} /\ r.at \in OnKey
      /\ r.cmd \in DOMAIN Rows /\ r.sess \in Keys /\ ~Idle(h) /\ Single(r.env)
  BY DEF Requests, Good, Named, Retries, CompareCert, OnKey, OnItsWay, Idle
<1>2. CASE Named(h)
  <2>1. CASE Refuse(h, RAR_UNIQUEIDUNCORRECT)
    BY <1>1, <2>1, RefuseStep, CodesAreNotOK DEF Codes
  <2>2. CASE ~(Rows[r.cmd].names /\ r.uid # r.sess)
    <3>1. \/ Goto(h, "retries") /\ r.cmd = "CertLogin"
          \/ Goto(h, "cert")
          \/ Goto(h, "call") /\ ~(r.cmd \in Decrypting /\ Tagged(r.env))
      BY <1>2, <2>2, RowFacts DEF Named, Decrypting
    <3>2. {"retries", "cert", "call"} \subseteq Points \ {"answered", "dropped", "run"}
      BY DEF Points
    <3>3. Rows[r.cmd].names => r.uid = r.sess
      BY <2>2
    <3>4. CASE Goto(h, "retries") /\ r.cmd = "CertLogin"
      BY <1>1, <3>2, <3>3, <3>4, GotoStep
    <3>5. CASE Goto(h, "cert")
      BY <1>1, <3>2, <3>3, <3>5, GotoStep
    <3>6. CASE Goto(h, "call") /\ ~(r.cmd \in Decrypting /\ Tagged(r.env))
      BY <1>1, <3>2, <3>3, <3>6, GotoStep
    <3> QED
      BY <3>1, <3>4, <3>5, <3>6
  <2> QED
    BY <1>2, <2>1, <2>2 DEF Named
<1>3. CASE Retries(h)
  <2>1. CASE Throw(h) \/ Refuse(h, RAR_UNKNOWNERR)
    BY <1>1, <2>1, ThrowStep, RefuseStep, CodesAreNotOK DEF Codes
  <2>2. CASE Goto(h, "call")
    <3>1. r.cmd = "CertLogin" /\ (Rows[r.cmd].names => r.uid = r.sess)
      BY <1>1, <1>3 DEF Retries, OnItsWay
    <3>2. ~(r.cmd \in Decrypting) /\ "call" \in Points \ {"answered", "dropped", "run"}
      BY <3>1 DEF Decrypting, Points
    <3> QED
      BY <1>1, <2>2, <3>1, <3>2, GotoStep
  <2> QED
    BY <1>3, <2>1, <2>2 DEF Retries
<1>4. CASE CompareCert(h)
  <2>1. CASE Throw(h) \/ Refuse(h, RAR_ERRDECRYPTCERT)
    BY <1>1, <2>1, ThrowStep, RefuseStep, CodesAreNotOK DEF Codes
  <2>2. CASE Goto(h, "call") /\ Works(h) /\ \E e \in r.env : e.tag = plugged
    <3>1. \A e \in r.env : e.tag = r.sess
      BY <1>1, <2>2 DEF Works, Single
    <3>2. r.at = "cert" /\ (Rows[r.cmd].names => r.uid = r.sess)
      BY <1>1, <1>4 DEF CompareCert, OnItsWay
    <3> QED
      BY <1>1, <2>2, <3>1, <3>2, GotoStep DEF Points
  <2> QED
    BY <1>4, <2>1, <2>2 DEF CompareCert
<1> QED
  BY <1>2, <1>3, <1>4

-----------------------------------------------------------------------------
(***************************************************************************)
(* The calls, and the answers.                                             *)
(***************************************************************************)

\* An answer of which only the verdict is the page's concern.
LEMMA AnswerStep ==
    ASSUME Requests(req), NEW h \in Handlers, ~Idle(h),
           NEW accepted \in BOOLEAN, accepted \/ req[h].cmd \notin Verifying,
           req' = [req EXCEPT ![h].at = "answered", ![h].accepted = accepted]
    PROVE  Requests(req')
<1> DEFINE n == [req[h] EXCEPT !.at = "answered", !.accepted = accepted]
<1>1. Good(req[h]) /\ req[h] \in Request /\ req \in [Handlers -> Request]
  BY DEF Requests, Good
<1>2. req' = [req EXCEPT ![h] = n]
  BY <1>1
<1>3. n \in Request
  BY <1>1 DEF Request, Points
<1>4. /\ n.at = "answered" /\ n.accepted = accepted
      /\ n.cmd = req[h].cmd /\ n.env = req[h].env
      /\ n.from = NoKey /\ n.plain = "before" /\ n.spent = [k \in Keys |-> 0]
      /\ Single(n.env)
  BY <1>1 DEF Request, Good, OnItsWay, Idle
<1>5. \A k \in Keys : ~(n.spent[k] > 0)
  BY <1>4
<1> HIDE DEF n
<1>6. InGoodOrder(n)
  BY <1>4, <1>5 DEF InGoodOrder
<1> QED
  BY <1>2, <1>3, <1>4, <1>6, Over, OneRequest DEF Good

\* An answer without a verdict, of a command that gives none.
LEMMA SilentStep ==
    ASSUME Requests(req), NEW h \in Handlers, ~Idle(h), req[h].cmd \notin Verifying,
           Goto(h, "answered")
    PROVE  Requests(req')
<1>1. req \in [Handlers -> Request] /\ req[h].accepted \in BOOLEAN
  BY DEF Requests, Request
<1>2. req' = [req EXCEPT ![h].at = "answered", ![h].accepted = req[h].accepted]
  BY <1>1 DEF Goto, Request
<1> QED
  BY <1>1, <1>2, AnswerStep

\* What a request has when it comes to its call.
LEMMA AtTheCall ==
    ASSUME Requests(req), NEW h \in Handlers, req[h].at = "call"
    PROVE  /\ req[h] \in Request /\ req \in [Handlers -> Request] /\ ~Idle(h)
           /\ Good(req[h]) /\ req[h].cmd \in DOMAIN Rows /\ req[h].sess \in Keys
           /\ Rows[req[h].cmd].call # "verify" => req[h].cmd \notin Verifying
           /\ Rows[req[h].cmd].names => req[h].uid = req[h].sess
           /\ req[h].from = NoKey /\ req[h].plain = "before"
           /\ req[h].spent = [k \in Keys |-> 0] /\ Single(req[h].env)
<1>1. req[h] \in Request /\ req \in [Handlers -> Request] /\ Good(req[h]) /\ OnItsWay(req[h])
  BY DEF Requests, Good
<1>2. req[h].cmd \in DOMAIN Rows /\ req[h].sess \in Keys /\ ~Idle(h)
  BY <1>1 DEF OnItsWay, OnKey, Idle
<1>3. Rows[req[h].cmd].call # "verify" => req[h].cmd \notin Verifying
  BY <1>2, RowFacts, RowsAreApart DEF Verifying, Sessionless
<1> QED
  BY <1>1, <1>2, <1>3 DEF OnItsWay

LEMMA RunFailsStep ==
    ASSUME Requests(req), NEW h \in Handlers, RunFails(h) \/ VerifySoftly(h)
    PROVE  Requests(req')
<1>1. ~Idle(h)
  BY DEF RunFails, VerifySoftly, Idle
<1>2. CASE Throw(h) \/ Refuse(h, RAR_UNKNOWNERR)
  BY <1>1, <1>2, ThrowStep, RefuseStep, CodesAreNotOK DEF Codes
<1>3. CASE req' = [req EXCEPT ![h].at = "answered", ![h].accepted = TRUE]
  BY <1>1, <1>3, AnswerStep
<1> QED
  BY <1>2, <1>3 DEF RunFails, VerifySoftly

LEMMA CallFailsStep ==
    ASSUME Requests(req), NEW h \in Handlers, CallFails(h)
    PROVE  Requests(req')
<1> DEFINE row == Rows[req[h].cmd]
<1>1. req[h].at = "call"
  BY DEF CallFails
<1>2. ~Idle(h) /\ req[h].cmd \in DOMAIN Rows
  BY <1>1, AtTheCall
<1>3. CASE Throw(h)
  BY <1>2, <1>3, ThrowStep
<1>4. CASE row.refusal # RAR_OK /\ Refuse(h, row.refusal)
  <2>1. row.refusal \in Int \ {RAR_OK}
    BY <1>2, <1>4, RowFacts
  <2> HIDE DEF row
  <2> QED
    BY <1>2, <1>4, <2>1, RefuseStep
<1>5. CASE row.refusal = RAR_OK /\ Goto(h, "answered")
  <2>1. req[h].cmd # "VerifySignByP1"
    BY <1>2, <1>5, RowFacts DEF RAR_OK, RAR_UNKNOWNERR
  <2>2. row.call # "verify"
    BY <1>2, <2>1, RowFacts
  <2> QED
    BY <1>1, <1>2, <1>5, <2>2, AtTheCall, SilentStep
<1> QED
  BY <1>3, <1>4, <1>5 DEF CallFails

\* A wrong PIN is the only thing a request spends, of the key it named.
LEMMA GivePinStep ==
    ASSUME Requests(req), DeviceOK, NEW h \in Handlers, GivePin(h)
    PROVE  Requests(req') /\ DeviceOK'
<1> DEFINE r == req[h]
           one == IF tries[r.sess] > 0 THEN r.spent[r.sess] + 1 ELSE r.spent[r.sess]
           c == ErrorResponse(Rejected(Rows[r.cmd].refusal))
           n == [r EXCEPT !.at = "answered", !.code = c, !.spent = [@ EXCEPT ![r.sess] = one]]
<1>1. /\ r.at = "call" /\ r \in Request /\ req \in [Handlers -> Request] /\ ~Idle(h)
      /\ r.cmd \in DOMAIN Rows /\ r.sess \in Keys /\ r.spent = [k \in Keys |-> 0]
      /\ r.from = NoKey /\ r.plain = "before" /\ Single(r.env)
  BY AtTheCall DEF GivePin
<1>2. /\ Rows[r.cmd].call \in {"login", "changePW"} /\ r.cmd \notin Verifying
      /\ r.uid = r.sess /\ (r.cmd = "CertLogin" => r.pin # "")
  <2>1. Rows[r.cmd].call \in {"login", "changePW"} /\ Rows[r.cmd].names
    BY <1>1, RowFacts DEF GivePin
  <2>2. OnItsWay(r)
    BY DEF Requests, Good
  <2> QED
    BY <1>1, <2>1, <2>2, AtTheCall DEF OnItsWay, OnKey
<1>3. MaxTries \in Nat \ {0} /\ tries \in [Keys -> 0..MaxTries] /\ login \in [Keys -> BOOLEAN]
  BY KeyOperationsAssumption DEF DeviceOK
<1>4. DeviceOK'
  <2>1. plugged' = plugged /\ session' = session /\ moded' = moded
    BY DEF GivePin
  <2>2. tries[r.sess] \in 0..MaxTries
    BY <1>1, <1>3
  <2>3. CASE /\ tries' = [tries EXCEPT ![r.sess] = MaxTries]
             /\ login' = [login EXCEPT ![r.sess] = TRUE] \/ login' = login
    <3>1. MaxTries \in 0..MaxTries
      BY <1>3
    <3>2. tries' \in [Keys -> 0..MaxTries]
      BY <1>3, <2>3, <3>1
    <3>3. login' \in [Keys -> BOOLEAN]
      BY <1>3, <2>3
    <3> QED
      BY <2>1, <3>2, <3>3 DEF DeviceOK
  <2>4. CASE /\ tries' = [tries EXCEPT ![r.sess] = IF @ > 0 THEN @ - 1 ELSE 0]
             /\ login' = login
    <3>1. tries' \in [Keys -> 0..MaxTries]
      BY <1>1, <1>3, <2>2, <2>4
    <3> QED
      BY <1>3, <2>1, <2>4, <3>1 DEF DeviceOK
  <2>5. \/ /\ tries' = [tries EXCEPT ![r.sess] = MaxTries]
           /\ login' = [login EXCEPT ![r.sess] = TRUE] \/ login' = login
        \/ /\ tries' = [tries EXCEPT ![r.sess] = IF @ > 0 THEN @ - 1 ELSE 0]
           /\ login' = login
    BY DEF GivePin
  <2> QED
    BY <2>3, <2>4, <2>5
<1>5. CASE Goto(h, "answered")
  BY <1>1, <1>2, <1>4, <1>5, SilentStep
<1>6. CASE req' = [req EXCEPT ![h].at = "answered", ![h].code = c,
                              ![h].spent[r.sess] = IF tries[r.sess] > 0 THEN @ + 1 ELSE @]
  <2>1. req' = [req EXCEPT ![h] = n]
    BY <1>1, <1>6 DEF Request
  <2>2. c \in Int
    BY <1>1, RowFacts DEF ErrorResponse, Rejected
  <2>3. one \in {0, 1} /\ one \in 0..MaxTries
    BY <1>1, <1>3
  <2> HIDE DEF one, c
  <2>4. n \in Request
    BY <1>1, <1>3, <2>2, <2>3 DEF Request, Points
  <2>5. /\ n.at = "answered" /\ n.cmd = r.cmd /\ n.env = r.env /\ n.uid = r.uid
        /\ n.pin = r.pin /\ n.from = NoKey /\ n.plain = "before"
        /\ n.spent = [r.spent EXCEPT ![r.sess] = one]
    BY <1>1 DEF Request
  <2>6. \A k \in Keys : n.spent[k] > 0 => n.spent[k] = 1 /\ k = r.sess
    BY <1>1, <2>3, <2>5
  <2> HIDE DEF n
  <2>7. InGoodOrder(n)
    BY <1>2, <2>5, <2>6 DEF InGoodOrder
  <2>8. OnItsWay(n)
    BY <1>1, <2>5, Over
  <2> QED
    BY <1>4, <2>1, <2>4, <2>7, <2>8, OneRequest DEF Good
<1> QED
  BY <1>4, <1>5, <1>6 DEF GivePin

\* What a key tells goes to a page that named it, or that names none.
LEMMA ObtainStep ==
    ASSUME Requests(req), NEW h \in Handlers, Obtain(h)
    PROVE  Requests(req')
<1> DEFINE r == req[h]
           from == IF Rows[r.cmd].gives THEN r.sess ELSE NoKey
           n == [r EXCEPT !.at = "answered", !.from = from]
<1>1. /\ r \in Request /\ req \in [Handlers -> Request]
      /\ r.cmd \in DOMAIN Rows /\ r.sess \in Keys /\ r.spent = [k \in Keys |-> 0]
      /\ r.plain = "before" /\ Single(r.env) /\ (Rows[r.cmd].names => r.uid = r.sess)
  BY AtTheCall DEF Obtain
<1>2. Rows[r.cmd].call \in {"sign", "read"}
  BY DEF Obtain
<1>3. r.cmd \notin Verifying /\ r.cmd \notin Decrypting
  BY <1>1, <1>2, RowFacts, AtTheCall DEF Obtain
<1>4. req' = [req EXCEPT ![h] = n]
  BY <1>1 DEF Obtain
<1>5. /\ from \in AnyKey
      /\ from # NoKey /\ r.cmd \notin {"GetPinRetryCount", "GetUserList"} => from = r.uid
  BY <1>1, RowFacts DEF AnyKey
<1> HIDE DEF from
<1>6. n \in Request
  BY <1>1, <1>5 DEF Request, Points
<1>7. /\ n.at = "answered" /\ n.cmd = r.cmd /\ n.env = r.env /\ n.uid = r.uid
      /\ n.from = from /\ n.plain = "before" /\ n.spent = [k \in Keys |-> 0]
  BY <1>1 DEF Request
<1>8. \A k \in Keys : ~(n.spent[k] > 0)
  BY <1>7
<1> HIDE DEF n
<1>9. InGoodOrder(n) /\ OnItsWay(n)
  BY <1>1, <1>3, <1>5, <1>7, <1>8, Over DEF InGoodOrder
<1> QED
  BY <1>4, <1>6, <1>9, OneRequest DEF Good

LEMMA VerifyStep ==
    ASSUME Requests(req), NEW h \in Handlers, Verify(h)
    PROVE  Requests(req')
BY AtTheCall, AnswerStep DEF Verify

\* The certificate goes with the cipher, and may be of another key.
LEMMA EncryptStep ==
    ASSUME Requests(req), FileOK, NEW h \in Handlers, Encrypt(h)
    PROVE  Requests(req') /\ FileOK'
<1> DEFINE r == req[h]
<1>1. /\ r \in Request /\ ~Idle(h) /\ r.cmd \notin Verifying /\ Single(r.env)
      /\ Goto(h, "answered")
  BY AtTheCall DEF Encrypt
<1>2. Requests(req')
  BY <1>1, SilentStep
<1>3. PICK good \in BOOLEAN, whole \in BOOLEAN :
          file' = IF r.cmd = "KeyEncryptFile"
                  THEN {[e EXCEPT !.good = good, !.tag = IF whole THEN @ ELSE NoKey] :
                           e \in r.env}
                  ELSE file
  BY DEF Encrypt
<1>4. CASE file' = {[e EXCEPT !.good = good, !.tag = IF whole THEN @ ELSE NoKey] : e \in r.env}
  <2>1. r.env \subseteq Envelopes
    BY <1>1 DEF Request
  <2>2. \A e \in r.env :
            [e EXCEPT !.good = good, !.tag = IF whole THEN @ ELSE NoKey] \in Envelopes
    BY <2>1 DEF Envelopes
  <2>3. \A e, f \in file' : e = f
    BY <1>1, <1>4 DEF Single
  <2> QED
    BY <1>2, <1>4, <2>2, <2>3 DEF FileOK, Single
<1> QED
  BY <1>2, <1>3, <1>4 DEF FileOK, Single

\* The text was for the key of the session, which is the named one: it is
\* answered, or goes to the plaintext file first.
LEMMA DecryptStep ==
    ASSUME Requests(req), NEW h \in Handlers, Decrypt(h)
    PROVE  Requests(req')
<1> DEFINE r == req[h]
           n == [r EXCEPT !.at = "answered", !.from = r.sess]
<1>1. /\ r \in Request /\ req \in [Handlers -> Request] /\ OnItsWay(r) /\ r.at = "call"
      /\ r.cmd \in DOMAIN Rows /\ r.sess \in Keys /\ r.spent = [k \in Keys |-> 0]
      /\ r.plain = "before" /\ ~Idle(h)
      /\ Single(r.env) /\ (Rows[r.cmd].names => r.uid = r.sess)
  BY AtTheCall DEF Decrypt, Good
<1>2. r.cmd \in Decrypting /\ r.cmd \notin Verifying /\ r.uid = r.sess /\ r.sess = plugged
  BY <1>1, RowFacts, AtTheCall DEF Decrypt, Works
<1>3. PICK e \in r.env : e.good /\ e.to = plugged
  BY DEF Decrypt
<1>4. \A f \in r.env : f = e
  BY <1>1, <1>3 DEF Single
<1>5. Tagged(r.env) => e.tag = r.uid
  BY <1>1, <1>2, <1>3 DEF OnItsWay
<1>6. CASE r.cmd = "KeyDecryptFile" /\ Tagged(r.env) /\ Goto(h, "write")
  <2>1. Decrypted(r)
    BY <1>2, <1>3, <1>5, <1>6 DEF Decrypted
  <2>2. "write" \in Points \ {"answered", "dropped", "run"} /\ r.at \in OnKey
    BY <1>1 DEF Points, OnKey
  <2> QED
    BY <1>1, <1>6, <2>1, <2>2, GotoStep
<1>7. CASE req' = [req EXCEPT ![h].at = "answered", ![h].from = r.sess]
  <2>1. req' = [req EXCEPT ![h] = n]
    BY <1>1, <1>7
  <2>2. n \in Request
    BY <1>1 DEF Request, Points, AnyKey
  <2>3. /\ n.at = "answered" /\ n.cmd = r.cmd /\ n.env = r.env /\ n.uid = r.uid
        /\ n.from = r.sess /\ n.plain = "before" /\ n.spent = [k \in Keys |-> 0]
    BY <1>1 DEF Request
  <2>4. \A k \in Keys : ~(n.spent[k] > 0)
    BY <2>3
  <2>5. \A f \in r.env : f.to = r.uid /\ f.tag \in {r.uid, NoKey}
    BY <1>2, <1>3, <1>4, <1>5 DEF Tagged
  <2> HIDE DEF n
  <2>6. InGoodOrder(n) /\ OnItsWay(n)
    BY <1>1, <1>2, <2>3, <2>4, <2>5, Over DEF InGoodOrder
  <2> QED
    BY <2>1, <2>2, <2>6, OneRequest DEF Good
<1> QED
  BY <1>6, <1>7 DEF Decrypt

\* The file is written after the text was decrypted, however much of it.
LEMMA WritePlainStep ==
    ASSUME Requests(req), NEW h \in Handlers, WritePlain(h)
    PROVE  Requests(req')
<1> DEFINE r == req[h]
<1>1. /\ r \in Request /\ req \in [Handlers -> Request] /\ OnItsWay(r) /\ r.at = "write"
      /\ ~Idle(h)
  BY DEF WritePlain, Requests, Good, Idle
<1>2. /\ r.cmd = "KeyDecryptFile" /\ Decrypted(r) /\ r.sess \in Keys /\ Single(r.env)
      /\ r.code = RAR_OK /\ r.spent = [k \in Keys |-> 0]
  BY <1>1 DEF OnItsWay, OnKey
<1>3. CASE Throw(h)
  BY <1>1, <1>3, ThrowStep
<1>4. ASSUME NEW plain \in Plains, NEW threw \in BOOLEAN, NEW from \in {NoKey, r.sess},
             req' = [req EXCEPT ![h].at = "answered", ![h].plain = plain,
                                ![h].threw = threw, ![h].from = from]
      PROVE  Requests(req')
  <2> DEFINE n == [r EXCEPT !.at = "answered", !.plain = plain, !.threw = threw, !.from = from]
  <2>1. req' = [req EXCEPT ![h] = n]
    BY <1>1, <1>4
  <2>2. n \in Request
    BY <1>1, <1>2 DEF Request, Points, AnyKey
  <2>3. /\ n.at = "answered" /\ n.cmd = r.cmd /\ n.env = r.env /\ n.uid = r.uid
        /\ n.sess = r.sess /\ n.code = RAR_OK
        /\ n.from = from /\ n.plain = plain /\ n.spent = [k \in Keys |-> 0]
    BY <1>1, <1>2 DEF Request
  <2>4. \A k \in Keys : ~(n.spent[k] > 0)
    BY <2>3
  <2>5. \A e \in r.env : e.to = r.uid /\ e.tag \in {r.uid, NoKey}
    BY <1>2 DEF Decrypted, Single
  <2>6. r.cmd \in DOMAIN Rows /\ r.cmd \notin Verifying /\ r.sess = r.uid
    BY <1>2, RowNames DEF Verifying, Remote, Decrypted
  <2> HIDE DEF n
  <2>7. Decrypted(n)
    BY <1>2, <2>3 DEF Decrypted
  <2>8. InGoodOrder(n) /\ OnItsWay(n)
    BY <1>2, <2>3, <2>4, <2>5, <2>6, <2>7, Over DEF InGoodOrder
  <2> QED
    BY <2>1, <2>2, <2>8, OneRequest DEF Good
<1> QED
  BY <1>3, <1>4 DEF WritePlain

\* The two commands that have no session.
LEMMA RemoteStep ==
    ASSUME Requests(req), NEW h \in Handlers, VerifySignByP7(h) \/ VerifySignByP7Ext(h)
    PROVE  Requests(req')
<1> DEFINE r == req[h]
           n == [r EXCEPT !.at = "dropped"]
<1>1. /\ r \in Request /\ req \in [Handlers -> Request] /\ OnItsWay(r)
      /\ r.at \in {"local", "remote"} /\ ~Idle(h) /\ r.cmd \in Remote
  BY DEF Requests, Good, VerifySignByP7, VerifySignByP7Ext, OnItsWay, Idle
<1>2. CASE Throw(h) \/ Refuse(h, RAR_ERRNOENCRYPT) \/ Refuse(h, RAR_UNKNOWNERR)
  BY <1>1, <1>2, ThrowStep, RefuseStep, CodesAreNotOK DEF Codes
<1>3. CASE req' = [req EXCEPT ![h].at = "answered", ![h].accepted = TRUE]
  BY <1>1, <1>3, AnswerStep
<1>4. CASE Goto(h, "remote")
  <2>1. "remote" \in Points \ {"answered", "dropped", "run"} /\ "remote" \notin OnKey
    BY DEF Points, OnKey
  <2> QED
    BY <1>1, <1>4, <2>1, GotoStep
<1>5. CASE Goto(h, "dropped")
  <2>1. req' = [req EXCEPT ![h] = n] /\ n \in Request
    BY <1>1, <1>5 DEF Goto, Request, Points
  <2>2. /\ n.at = "dropped" /\ n.env = r.env
        /\ n.from = NoKey /\ n.plain = "before" /\ n.spent = [k \in Keys |-> 0]
        /\ Single(n.env)
    BY <1>1 DEF Request, OnItsWay
  <2>3. \A k \in Keys : ~(n.spent[k] > 0)
    BY <2>2
  <2> HIDE DEF n
  <2>4. InGoodOrder(n) /\ OnItsWay(n)
    BY <2>2, <2>3, Over DEF InGoodOrder
  <2> QED
    BY <2>1, <2>4, OneRequest DEF Good
<1> QED
  BY <1>2, <1>3, <1>4, <1>5 DEF VerifySignByP7, VerifySignByP7Ext

-----------------------------------------------------------------------------
(***************************************************************************)
(* Requests that come in.                                                  *)
(***************************************************************************)

\* A thread has served nothing, or begins anew.
LEMMA NothingIsGood == Good(Nothing)
<1>1. Nothing \in Request
  BY KeyOperationsAssumption, RowNames
  DEF Nothing, Request, AnyKey, Points, Plains, Pins, Commands, RAR_OK
<1>2. \A k \in Keys : ~(Nothing.spent[k] > 0)
  BY DEF Nothing
<1>3. InGoodOrder(Nothing) /\ OnItsWay(Nothing)
  BY <1>2 DEF InGoodOrder, OnItsWay, Nothing, Single, OnKey, Verifying, Remote
<1> QED
  BY <1>1, <1>3 DEF Good

\* Of the texts of its form, a page brings one.
LEMMA FormsAreTyped ==
    ASSUME NEW c, NEW uid \in NamesIn(c), NEW pin \in PinsIn(c), NEW env \in TextsIn(c)
    PROVE  uid \in AnyKey /\ pin \in Pins /\ env \in SUBSET Envelopes /\ Single(env)
<1>1. uid \in AnyKey /\ pin \in Pins
  BY DEF NamesIn, PinsIn, AnyKey, Pins
<1>2. \A k \in Keys : ForCertificate(k) \in Envelopes
  BY DEF ForCertificate, Envelopes
<1>3. PICK S \in SUBSET Envelopes : env \in {{}} \cup {{e} : e \in S}
  <2>1. {ForCertificate(k) : k \in Keys} \in SUBSET Envelopes /\ Texts \in SUBSET Envelopes
    BY <1>2, TextsAssumption
  <2>2. \/ env \in {{}} \cup {{e} : e \in {ForCertificate(k) : k \in Keys}}
        \/ env \in {{}} \cup {{e} : e \in Texts}
    BY DEF TextsIn
  <2> QED
    BY <2>1, <2>2
<1> QED
  BY <1>1, <1>3 DEF Single

LEMMA ReceiveStep ==
    ASSUME Requests(req), NEW h \in Handlers, NEW c, Receive(h, c)
    PROVE  Requests(req')
<1>1. PICK uid \in NamesIn(c), pin \in PinsIn(c), env \in TextsIn(c) :
          req' = [req EXCEPT ![h] = [Nothing EXCEPT !.cmd = c, !.uid = uid, !.pin = pin,
                                        !.env = env, !.at = FirstStep(c)]]
  BY DEF Receive
<1> DEFINE n == [Nothing EXCEPT !.cmd = c, !.uid = uid, !.pin = pin,
                                !.env = env, !.at = FirstStep(c)]
<1>2. \/ /\ c \in DOMAIN Rows /\ FirstStep(c) = "run"
      \/ /\ c \in Remote /\ c \notin DOMAIN Rows /\ FirstStep(c) \in {"local", "remote"}
  <2>1. c \in DOMAIN Rows \/ (c \in Remote /\ c \notin DOMAIN Rows)
    BY RowsAreApart DEF Receive, Sessionless
  <2>2. CASE c \in DOMAIN Rows
    <3>1. c # "VerifySignByP7" /\ c # "VerifySignByP7Ext"
      BY <2>2, RowsAreApart DEF Sessionless, Remote
    <3> QED
      BY <2>2, <3>1 DEF FirstStep
  <2>3. CASE c = "VerifySignByP7" /\ c \notin DOMAIN Rows
    BY <2>3 DEF FirstStep, Remote
  <2>4. CASE c = "VerifySignByP7Ext" /\ c \notin DOMAIN Rows
    BY <2>4 DEF FirstStep, Remote
  <2> QED
    BY <2>1, <2>2, <2>3, <2>4 DEF Remote
<1>3. uid \in AnyKey /\ pin \in Pins /\ env \in SUBSET Envelopes /\ Single(env)
  BY FormsAreTyped
<1>4. n \in Request
  <2>1. Nothing \in Request
    BY NothingIsGood DEF Good
  <2>2. c \in Commands /\ FirstStep(c) \in Points
    BY <1>2 DEF Commands, Sessionless, Points
  <2> QED
    BY <1>3, <2>1, <2>2 DEF Request
<1>5. /\ n.cmd = c /\ n.at = FirstStep(c) /\ n.env = env /\ n.code = RAR_OK
      /\ n.from = NoKey /\ n.plain = "before" /\ n.spent = [k \in Keys |-> 0]
  BY DEF Nothing
<1> HIDE DEF n
<1>6. OnItsWay(n) /\ n.at \notin {"answered", "dropped"}
  BY <1>2, <1>3, <1>5 DEF OnItsWay, OnKey
<1> QED
  BY <1>1, <1>4, <1>6, UnderWay, OneRequest DEF n

\* The commands that never come to a session are answered at once, with
\* nothing in the answer, and verify nothing.
LEMMA ServedStep ==
    ASSUME Requests(req), NEW h \in Handlers, NEW c \in Sessionless \ Remote,
           NEW at \in {"answered", "dropped"}, NEW code \in Int, NEW threw \in BOOLEAN,
           Served(h, c, at, code, threw)
    PROVE  Requests(req')
<1> DEFINE n == [Nothing EXCEPT !.cmd = c, !.at = at, !.code = code, !.threw = threw]
<1>1. Nothing \in Request
  BY NothingIsGood DEF Good
<1>2. n \in Request
  BY <1>1 DEF Request, Commands, Points
<1>3. /\ n.cmd = c /\ n.at = at /\ n.env = {}
      /\ n.from = NoKey /\ n.plain = "before" /\ n.spent = [k \in Keys |-> 0]
  BY DEF Nothing
<1>4. \A k \in Keys : ~(n.spent[k] > 0)
  BY <1>3
<1>5. req' = [req EXCEPT ![h] = n]
  BY DEF Served
<1> HIDE DEF n
<1>6. c \notin Verifying
  BY RowsAreApart DEF Verifying
<1>7. InGoodOrder(n) /\ OnItsWay(n)
  BY <1>3, <1>4, <1>6, Over DEF InGoodOrder, Single
<1> QED
  BY <1>2, <1>5, <1>7, OneRequest DEF Good

-----------------------------------------------------------------------------
(***************************************************************************)
(* The invariant.                                                          *)
(***************************************************************************)

LEMMA KeyInit == Init => KeyInv
<1> SUFFICES ASSUME Init
             PROVE  KeyInv
  OBVIOUS
<1>1. DeviceOK
  <2>1. MaxTries \in 0..MaxTries
    BY KeyOperationsAssumption
  <2> QED
    BY <2>1 DEF Init, DeviceOK, AnyKey
<1>2. FileOK
  BY TextsAssumption DEF Init, FileOK, Single
<1>3. Requests(req)
  BY NothingIsGood DEF Init, Requests, Good
<1> QED
  BY <1>1, <1>2, <1>3 DEF KeyInv

\* A step of a request, one action after the other.
LEMMA ServeStep ==
    ASSUME KeyInv, NEW h \in Handlers, Serve(h)
    PROVE  KeyInv'
<1>0. DeviceOK /\ FileOK /\ Requests(req) /\ session \in AnyKey
  BY DEF KeyInv, DeviceOK
<1>1. UNCHANGED device => DeviceOK'
  BY <1>0 DEF device, DeviceOK
<1>2. UNCHANGED file => FileOK'
  BY <1>0 DEF FileOK
<1>3. ASSUME Requests(req'), UNCHANGED <<device, file>>
      PROVE  KeyInv'
  BY <1>1, <1>2, <1>3 DEF KeyInv, Requests
<1>4. CASE RunFails(h) \/ VerifySoftly(h)
  BY <1>0, <1>3, <1>4, RunFailsStep DEF RunFails, VerifySoftly
<1>5. CASE GetSession(h)
  BY <1>0, <1>3, <1>5, GetSessionStep DEF GetSession
<1>6. CASE Named(h) \/ Retries(h) \/ CompareCert(h)
  BY <1>0, <1>3, <1>6, CompareStep DEF Named, Retries, CompareCert
<1>7. CASE CallFails(h)
  BY <1>0, <1>3, <1>7, CallFailsStep DEF CallFails
<1>8. CASE GivePin(h)
  BY <1>0, <1>2, <1>8, GivePinStep DEF GivePin, KeyInv, Requests
<1>9. CASE Obtain(h)
  BY <1>0, <1>3, <1>9, ObtainStep DEF Obtain
<1>10. CASE Verify(h)
  BY <1>0, <1>3, <1>10, VerifyStep DEF Verify
<1>11. CASE Encrypt(h)
  BY <1>0, <1>1, <1>11, EncryptStep DEF Encrypt, KeyInv, Requests
<1>12. CASE Decrypt(h)
  BY <1>0, <1>3, <1>12, DecryptStep DEF Decrypt
<1>13. CASE WritePlain(h)
  BY <1>0, <1>3, <1>13, WritePlainStep DEF WritePlain
<1>14. CASE VerifySignByP7(h) \/ VerifySignByP7Ext(h)
  BY <1>0, <1>3, <1>14, RemoteStep DEF VerifySignByP7, VerifySignByP7Ext
<1> QED
  BY <1>4, <1>5, <1>6, <1>7, <1>8, <1>9, <1>10, <1>11, <1>12, <1>13, <1>14 DEF Serve

LEMMA KeyStep == KeyInv /\ [Next]_vars => KeyInv'
<1> SUFFICES ASSUME KeyInv, [Next]_vars
             PROVE  KeyInv'
  OBVIOUS
<1>0. DeviceOK /\ FileOK /\ Requests(req)
  BY DEF KeyInv
<1>1. CASE \E k \in Keys \cup {NoKey} : Exchange(k)
  BY <1>0, <1>1 DEF Exchange, KeyInv, DeviceOK, FileOK, Requests, AnyKey
<1>2. CASE Publish
  BY <1>0, <1>2 DEF Publish, KeyInv, DeviceOK, FileOK, Requests, AnyKey
<1>3. CASE \E h \in Handlers : Serve(h)
  BY <1>3, ServeStep
<1>4. ASSUME Requests(req'), UNCHANGED <<device, file>>
      PROVE  KeyInv'
  BY <1>0, <1>4 DEF KeyInv, Requests, device, DeviceOK, FileOK
<1>5. ASSUME NEW h \in Handlers, NEW c, Receive(h, c)
      PROVE  KeyInv'
  BY <1>0, <1>4, <1>5, ReceiveStep DEF Receive
<1>6. ASSUME NEW h \in Handlers,
             \/ VerifyIdentity(h) \/ VerifyDigitalSignByP1(h) \/ KeyDigitalSignByP1(h)
             \/ VerifySignByP1Ext(h) \/ KeyEncryptByDigitalEnvelope(h)
             \/ KeyDecryptByDigitalEnvelope(h)
      PROVE  KeyInv'
  <2>1. {"VerifyIdentity", "VerifyDigitalSignByP1", "KeyDigitalSignByP1", "VerifySignByP1Ext",
         "KeyEncryptByDigitalEnvelope", "KeyDecryptByDigitalEnvelope"}
            \subseteq Sessionless \ Remote
    BY DEF Sessionless, Remote
  <2>2. {RAR_OK, RAR_ERRDECRYPTFILEFORMAT} \subseteq Int
    BY DEF RAR_OK, RAR_ERRDECRYPTFILEFORMAT
  <2>3. PICK c \in Sessionless \ Remote, at \in {"answered", "dropped"},
             code \in Int, threw \in BOOLEAN : Served(h, c, at, code, threw)
    <3>1. CASE VerifyIdentity(h) \/ VerifyDigitalSignByP1(h) \/ KeyDigitalSignByP1(h)
      BY <2>1, <2>2, <3>1 DEF VerifyIdentity, VerifyDigitalSignByP1, KeyDigitalSignByP1
    <3>2. CASE VerifySignByP1Ext(h)
      BY <2>1, <2>2, <3>2 DEF VerifySignByP1Ext
    <3>3. CASE KeyEncryptByDigitalEnvelope(h)
      BY <2>1, <2>2, <3>3 DEF KeyEncryptByDigitalEnvelope
    <3>4. CASE KeyDecryptByDigitalEnvelope(h)
      BY <2>1, <2>2, <3>4 DEF KeyDecryptByDigitalEnvelope
    <3> QED
      BY <1>6, <3>1, <3>2, <3>3, <3>4
  <2>4. Requests(req')
    BY <1>0, <2>3, ServedStep
  <2> QED
    BY <1>4, <2>3, <2>4 DEF Served
<1>7. CASE UNCHANGED vars
  BY <1>0, <1>7 DEF vars, KeyInv, DeviceOK, FileOK, Requests
<1> QED
  BY <1>1, <1>2, <1>3, <1>5, <1>6, <1>7 DEF Next

LEMMA KeyHolds == Spec => []KeyInv
BY KeyInit, KeyStep, PTL DEF Spec

-----------------------------------------------------------------------------
(***************************************************************************)
(* What the pages may rely on.                                             *)
(***************************************************************************)

\* Every variable has its type: the requests of all threads, the tries that
\* each key has left, and a file that is an envelope or none.
THEOREM TypeCorrect == Spec => []TypeOK
<1>1. KeyInv => TypeOK
  BY DEF KeyInv, DeviceOK, FileOK, Requests, Request, AnyKey, TypeOK
<1> QED
  BY <1>1, KeyHolds, PTL

\* A page gets no signature, number, certificate or text of a key it did not
\* name, whenever the keys are exchanged and however late the watcher is.
THEOREM NamedKeyAnswers == Spec => []AnswersOfNamedKey
<1>1. KeyInv => AnswersOfNamedKey
  BY DEF KeyInv, Requests, Good, InGoodOrder, AnswersOfNamedKey
<1> QED
  BY <1>1, KeyHolds, PTL

\* A request takes one try at most, of the key it names, however many pages
\* try at once.
THEOREM NamedKeyIsTried == Spec => []OneTryOfNamedKey
<1>1. KeyInv => OneTryOfNamedKey
  BY DEF KeyInv, Requests, Good, InGoodOrder, OneTryOfNamedKey
<1> QED
  BY <1>1, KeyHolds, PTL

\* A text is decrypted only if it is for the named key, and the certificate
\* behind @@@ is that key's.
THEOREM NamedKeyDecrypts == Spec => []EnvelopeOfNamedKey
<1>1. ASSUME KeyInv, NEW h \in Handlers, req[h].from # NoKey,
             Rows[req[h].cmd].call = "decrypt"
      PROVE  \A e \in req[h].env : e.to = req[h].uid /\ e.tag \in {req[h].uid, NoKey}
  <2>1. InGoodOrder(req[h])
    BY <1>1 DEF KeyInv, Requests, Good
  <2>2. req[h].cmd \in Decrypting
    BY <1>1, <2>1, RowFacts DEF InGoodOrder
  <2> QED
    BY <1>1, <2>1, <2>2 DEF InGoodOrder
<1>2. KeyInv => EnvelopeOfNamedKey
  BY <1>1 DEF EnvelopeOfNamedKey
<1> QED
  BY <1>2, KeyHolds, PTL

\* Until the text of the named key is decrypted the plaintext file is as it
\* was: no refusal, and no failure of the key, leaves it changed.
THEOREM PlaintextIsKept == Spec => []RefusalKeepsPlaintext
<1>1. KeyInv => RefusalKeepsPlaintext
  BY DEF KeyInv, Requests, Good, InGoodOrder, Decrypted, RefusalKeepsPlaintext
<1> QED
  BY <1>1, KeyHolds, PTL

\* No signature passes that nobody found genuine, unless a call threw.
THEOREM VerdictIsGiven == Spec => []VerdictComesFromAVerifier
<1>1. KeyInv => VerdictComesFromAVerifier
  BY DEF KeyInv, Requests, Good, InGoodOrder, Verifying, VerdictComesFromAVerifier
<1> QED
  BY <1>1, KeyHolds, PTL
=============================================================================
