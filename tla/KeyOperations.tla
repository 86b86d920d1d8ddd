-------------------------- MODULE KeyOperations --------------------------
(***************************************************************************)
(* The commands that work on the inserted key, and those that verify a     *)
(* signature, with a key or without.                                       *)
(*                                                                         *)
(* Each command that needs the key takes the session that the watcher has  *)
(* published last (DeviceMonitor has how) and keeps it while it makes its  *)
(* calls; the user may exchange the key between two of them.  The commands *)
(* run alike and differ in the rows below.  The key and its driver, the    *)
(* container of files and the verifying service are external: a call may   *)
(* fail at any time, and one on a key that is gone always does.            *)
(***************************************************************************)
EXTENDS CommandResponse

CONSTANTS Keys,        \* the keys of the user, each with one certificate
          NoKey,       \* no key; also the empty containerId, certificate or tag
          Handlers,    \* threads of the HTTP server
          CommandsOf,  \* the commands each thread serves (a bound)
          Texts,       \* the envelopes that pages bring, or that are on disk
          MaxTries     \* wrong PINs in a row that lock a key

ASSUME KeyOperationsAssumption == NoKey \notin Keys /\ MaxTries \in Nat \ {0}

RAR_NOUNIQUEID       == 36867   \* 0x9003
RAR_UNIQUEIDUNCORRECT == 36868  \* 0x9004
RAR_9010             == 36880
RAR_9011             == 36881
RAR_ERRNOENCRYPT     == 36899   \* 0x9023
RAR_ERRNODECRYPT     == 36902   \* 0x9026
RAR_ERRDECRYPTFILEFORMAT == 36903
RAR_9028             == 36904
RAR_ERRDECRYPTCERT   == 36905   \* 0x9029
RAR_DECRYPTFAILED    == 36913   \* 0x9031

\* A command: does it compare its containerId with the session's, its call on
\* the session, the code when that returns nothing (RAR_OK: not tested), and
\* whether the answer carries what the call returned.
Row(names, call, refusal, gives) ==
    [names |-> names, call |-> call, refusal |-> refusal, gives |-> gives]

\* Mutant: the container is not compared.
CertLogin_AnyKey    == Row(FALSE, "login",    RAR_9011,          FALSE)
CertLogin           == Row(TRUE,  "login",    RAR_9011,          FALSE)
ChangePassWd        == Row(TRUE,  "changePW", RAR_UNKNOWNERR,    FALSE)
KeyStatus           == Row(TRUE,  "sign",     RAR_9028,          FALSE)
\* Mutant: the container is not compared.
KeySignByP1_AnyKey  == Row(FALSE, "sign",     RAR_UNKNOWNERR,    TRUE)
KeySignByP1         == Row(TRUE,  "sign",     RAR_UNKNOWNERR,    TRUE)
KeySignByP7         == Row(TRUE,  "sign",     RAR_UNKNOWNERR,    TRUE)
KeyGetDeviceInfo    == Row(TRUE,  "read",     RAR_OK,            TRUE)
KeyGetKeySn         == Row(TRUE,  "read",     RAR_OK,            TRUE)
GetCertBase64String == Row(TRUE,  "read",     RAR_OK,            TRUE)
GetPinRetryCount    == Row(FALSE, "read",     RAR_OK,            TRUE)
GetUserList         == Row(FALSE, "read",     RAR_NOUNIQUEID,    TRUE)
KeyEncryptData      == Row(FALSE, "encrypt",  RAR_OK,            FALSE)
KeyEncryptFile      == Row(FALSE, "encrypt",  RAR_OK,            FALSE)
KeyDecryptData      == Row(TRUE,  "decrypt",  RAR_DECRYPTFAILED, TRUE)
KeyDecryptFile      == Row(TRUE,  "decrypt",  RAR_DECRYPTFAILED, TRUE)
VerifySignByP1      == Row(FALSE, "verify",   RAR_UNKNOWNERR,    FALSE)

Rows ==
    [CertLogin           |-> CertLogin,
     ChangePassWd        |-> ChangePassWd,
     KeyStatus           |-> KeyStatus,
     KeySignByP1         |-> KeySignByP1,
     KeySignByP7         |-> KeySignByP7,
     KeyGetDeviceInfo    |-> KeyGetDeviceInfo,
     KeyGetKeySn         |-> KeyGetKeySn,
     GetCertBase64String |-> GetCertBase64String,
     GetPinRetryCount    |-> GetPinRetryCount,
     GetUserList         |-> GetUserList,
     KeyEncryptData      |-> KeyEncryptData,
     KeyEncryptFile      |-> KeyEncryptFile,
     KeyDecryptData      |-> KeyDecryptData,
     KeyDecryptFile      |-> KeyDecryptFile,
     VerifySignByP1      |-> VerifySignByP1]

\* What the form of each may hold that tells answers apart: the containerId,
\* a PIN, a text for a certificate, an envelope.
CertLoginRequestHandler           == {"containerId", "PIN"}
ChangePassWdRequestHandler        == {"containerId", "PIN"}
KeyStatusRequestHandler           == {"containerId"}
KeySignByP1RequestHandler         == {"containerId"}
KeySignByP7RequestHandler         == {"containerId"}
KeyGetDeviceInfoRequestHandler    == {"containerId"}
KeyGetKeySnRequestHandler         == {"containerId"}
GetCertBase64StringRequestHandler == {"containerId"}
\* It has a containerId, which is not used.
GetPinRetryCountRequestHandler    == {}
GetUserListRequestHandler         == {}
KeyEncryptDataRequestHandler      == {"text"}
KeyEncryptFileRequestHandler      == {"text"}
KeyDecryptDataRequestHandler      == {"containerId", "envelope"}
KeyDecryptFileRequestHandler      == {"containerId"}
VerifySignByP1RequestHandler      == {}

Forms ==
    [CertLogin           |-> CertLoginRequestHandler,
     ChangePassWd        |-> ChangePassWdRequestHandler,
     KeyStatus           |-> KeyStatusRequestHandler,
     KeySignByP1         |-> KeySignByP1RequestHandler,
     KeySignByP7         |-> KeySignByP7RequestHandler,
     KeyGetDeviceInfo    |-> KeyGetDeviceInfoRequestHandler,
     KeyGetKeySn         |-> KeyGetKeySnRequestHandler,
     GetCertBase64String |-> GetCertBase64StringRequestHandler,
     GetPinRetryCount    |-> GetPinRetryCountRequestHandler,
     GetUserList         |-> GetUserListRequestHandler,
     KeyEncryptData      |-> KeyEncryptDataRequestHandler,
     KeyEncryptFile      |-> KeyEncryptFileRequestHandler,
     KeyDecryptData      |-> KeyDecryptDataRequestHandler,
     KeyDecryptFile      |-> KeyDecryptFileRequestHandler,
     VerifySignByP1      |-> VerifySignByP1RequestHandler]

\* Commands that never come to a session.
Remote      == {"VerifySignByP7", "VerifySignByP7Ext"}
Sessionless == Remote \cup
               {"VerifyIdentity", "VerifyDigitalSignByP1", "KeyDigitalSignByP1",
                "VerifySignByP1Ext", "KeyEncryptByDigitalEnvelope",
                "KeyDecryptByDigitalEnvelope"}
Commands    == DOMAIN Rows \cup Sessionless

Pins == {"right", "wrong", ""}

\* What a certificate encrypts: to whose key, and the certificate appended to
\* it after @@@, or NoKey.  good: the cipher is one, and not the empty text.
Envelopes == [to : Keys, tag : Keys \cup {NoKey}, good : BOOLEAN]
ForCertificate(k) == [to |-> k, tag |-> k, good |-> TRUE]

ASSUME TextsAssumption == Texts \subseteq Envelopes

VARIABLES
    plugged,  \* the key in the socket, or NoKey
    moded,    \* engine.mode was set
    session,  \* the key whose session is published, or NoKey
    tries,    \* wrong PINs that are left, by key
    login,    \* is the key open for signing, until it is pulled
    file,     \* the envelope on disk: none, or one
    req       \* the request each thread serves, or has served last

vars   == <<plugged, moded, session, tries, login, file, req>>
device == <<plugged, moded, session, tries, login>>

\* sess: the session it holds; from: the key whose data the answer carries;
\* plain: what became of the plaintext file; spent: tries it has taken, by
\* key; accepted: who found the signature genuine; threw: run() threw what
\* was not one of the agent's own refusals.
Nothing == [cmd |-> "GetUserList", uid |-> NoKey, pin |-> "", env |-> {}, at |-> "answered",
            sess |-> NoKey, code |-> RAR_OK, from |-> NoKey, plain |-> "before",
            spent |-> [k \in Keys |-> 0], accepted |-> FALSE, threw |-> FALSE]
Points  == {"run", "named", "retries", "cert", "call", "write", "local", "remote",
            "answered", "dropped"}
\* Of the plaintext file: as it was, the text whole, a part of it, nothing.
Plains  == {"before", "text", "cut", "empty"}

Idle(h) == req[h].at \in {"answered", "dropped"}

Init ==
    /\ plugged \in Keys \cup {NoKey}
    /\ moded   = FALSE
    /\ session = NoKey
    /\ tries   = [k \in Keys |-> MaxTries]
    /\ login   = [k \in Keys |-> FALSE]
    /\ file \in {{}} \cup {{e} : e \in Texts}
    /\ req     = [h \in Handlers |-> Nothing]

-----------------------------------------------------------------------------
(***************************************************************************)
(* The user and the watcher.                                               *)
(***************************************************************************)

Exchange(k) ==
    /\ k # plugged
    /\ plugged' = k
    /\ login' = [x \in Keys |-> FALSE]
    /\ UNCHANGED <<moded, session, tries, file, req>>

\* Mutant: the rows that were read are published, and not the key.
Publish_Rows ==
    /\ session # plugged
    /\ session' = {plugged}
    /\ moded' = (moded \/ plugged # NoKey)
    /\ UNCHANGED <<plugged, tries, login, file, req>>

\* CheckDeviceDBEnv; engine.mode is never unset.
Publish ==
    /\ session # plugged
    /\ session' = plugged
    /\ moded' = (moded \/ plugged # NoKey)
    /\ UNCHANGED <<plugged, tries, login, file, req>>

-----------------------------------------------------------------------------
(***************************************************************************)
(* Steps of a request.                                                     *)
(***************************************************************************)

Goto(h, at)  == req' = [req EXCEPT ![h].at = at]
Refuse(h, c) == req' = [req EXCEPT ![h].at = "answered", ![h].code = ErrorResponse(Rejected(c))]
\* A Poco exception without a code of its own.
Throw(h)     == req' = [req EXCEPT ![h].at = "answered", ![h].threw = TRUE,
                                   ![h].code = ErrorResponse(InvalidAccess)]

FirstStep(c) == CASE c \in DOMAIN Rows -> "run"
                  [] c = "VerifySignByP7" -> "local"
                  [] c = "VerifySignByP7Ext" -> "remote"
                  [] OTHER -> "answered"

FormOf(c)  == IF c \in DOMAIN Forms THEN Forms[c] ELSE {}
NamesIn(c) == IF "containerId" \in FormOf(c) THEN Keys \cup {NoKey} ELSE {NoKey}
PinsIn(c)  == IF "PIN" \in FormOf(c) THEN Pins ELSE {""}
TextsIn(c) ==
    CASE "text" \in FormOf(c)     -> {{}} \cup {{ForCertificate(k)} : k \in Keys}
      [] "envelope" \in FormOf(c) -> {{e} : e \in Texts}
      [] OTHER                    -> {{}}

\* handleRequest reads the form and constructs the command.
Receive(h, c) ==
    /\ Idle(h)
    /\ c \in DOMAIN Rows \cup Remote
    /\ \E uid \in NamesIn(c), pin \in PinsIn(c), env \in TextsIn(c) :
          req' = [req EXCEPT ![h] = [Nothing EXCEPT !.cmd = c, !.uid = uid, !.pin = pin,
                                        !.env = env, !.at = FirstStep(c)]]
    /\ UNCHANGED <<device, file>>

Served(h, c, at, code, threw) ==
    /\ Idle(h)
    /\ req' = [req EXCEPT ![h] = [Nothing EXCEPT !.cmd = c, !.at = at, !.code = code,
                                     !.threw = threw]]
    /\ UNCHANGED <<device, file>>

\* Answered with code 0000 and a text that says it is not implemented.
VerifyIdentity(h)        == Served(h, "VerifyIdentity", "answered", RAR_OK, FALSE)
VerifyDigitalSignByP1(h) == Served(h, "VerifyDigitalSignByP1", "answered", RAR_OK, FALSE)
KeyDigitalSignByP1(h)    == Served(h, "KeyDigitalSignByP1", "answered", RAR_OK, FALSE)

\* The constructor decides on the algorithm of the certificate, and asserts
\* the opposite of what it means: no request gets past it.
VerifySignByP1Ext(h) == Served(h, "VerifySignByP1Ext", "dropped", RAR_OK, FALSE)

\* The constructors refuse, outside of execute, a source that is missing (and
\* an empty certificate); run throws in the first of Utility's functions that
\* were left unwritten.
KeyEncryptByDigitalEnvelope(h) ==
    \/ Served(h, "KeyEncryptByDigitalEnvelope", "dropped", RAR_OK, FALSE)
    \/ Served(h, "KeyEncryptByDigitalEnvelope", "answered", RAR_OK, TRUE)

KeyDecryptByDigitalEnvelope(h) ==
    \/ Served(h, "KeyDecryptByDigitalEnvelope", "dropped", RAR_OK, FALSE)
    \/ Served(h, "KeyDecryptByDigitalEnvelope", "answered", RAR_ERRDECRYPTFILEFORMAT, FALSE)
    \/ Served(h, "KeyDecryptByDigitalEnvelope", "answered", RAR_OK, TRUE)

\* What a command does before it asks for the session: a wrong type of
\* information, a file that does not open.
RunFails(h) ==
    /\ req[h].at = "run"
    /\ \/ req[h].cmd = "KeyGetDeviceInfo" /\ Refuse(h, RAR_UNKNOWNERR)
       \/ req[h].cmd \in {"KeyEncryptFile", "KeyDecryptFile"} /\ Throw(h)
    /\ UNCHANGED <<device, file>>

\* VerifySignByP1 without a key: in software.
VerifySoftly(h) ==
    /\ req[h].at = "run" /\ req[h].cmd = "VerifySignByP1" /\ ~moded
    /\ \/ req' = [req EXCEPT ![h].at = "answered", ![h].accepted = TRUE]
       \/ Refuse(h, RAR_UNKNOWNERR)
    /\ UNCHANGED <<device, file>>

\* getSession, and the tests of the form that follow it.  KeyDecryptFile has
\* read its file before.
GetSession(h) ==
    LET r == req[h] IN
    /\ r.at = "run"
    /\ r.cmd = "VerifySignByP1" => moded
    /\ r.cmd = "KeyDecryptFile" => file # {}
    /\ \/ /\ session = NoKey
          /\ Throw(h)
       \/ /\ session # NoKey /\ r.cmd = "CertLogin" /\ (r.uid = NoKey \/ r.pin = "")
          /\ Refuse(h, RAR_9010)
       \/ /\ session # NoKey /\ r.cmd \in {"KeyEncryptData", "KeyEncryptFile"} /\ r.env = {}
          /\ Refuse(h, RAR_ERRNODECRYPT)
       \/ /\ session # NoKey
          /\ r.cmd = "CertLogin" => r.uid # NoKey /\ r.pin # ""
          /\ r.cmd \in {"KeyEncryptData", "KeyEncryptFile"} => r.env # {}
          /\ req' = [req EXCEPT ![h].at = "named", ![h].sess = session,
                                ![h].env = IF r.cmd = "KeyDecryptFile" THEN file ELSE r.env]
    /\ UNCHANGED <<device, file>>

Tagged(env) == \E e \in env : e.tag # NoKey /\ e.good

\* _uid != session.contianer()
Named(h) ==
    LET r == req[h] IN
    /\ r.at = "named"
    /\ IF Rows[r.cmd].names /\ r.uid # r.sess
       THEN Refuse(h, RAR_UNIQUEIDUNCORRECT)
       ELSE Goto(h, IF r.cmd = "CertLogin" THEN "retries"
                    ELSE IF r.cmd \in {"KeyDecryptData", "KeyDecryptFile"} /\ Tagged(r.env)
                    THEN "cert"
                    ELSE "call")
    /\ UNCHANGED <<device, file>>

Works(h) == req[h].sess = plugged

\* CertLogin refuses a key that is locked, another page's tries counted.
Retries(h) ==
    /\ req[h].at = "retries"
    /\ \/ Throw(h)
       \/ Works(h) /\ tries[plugged] = 0 /\ Refuse(h, RAR_UNKNOWNERR)
       \/ Works(h) /\ tries[plugged] > 0 /\ Goto(h, "call")
    /\ UNCHANGED <<device, file>>

\* Mutant: the certificate behind @@@ is not compared.
CompareCert_Forgotten(h) ==
    /\ req[h].at = "cert"
    /\ \/ Throw(h)
       \/ Goto(h, "call")
    /\ UNCHANGED <<device, file>>

\* The certificate behind @@@ must be the key's (which may not be read).
CompareCert(h) ==
    /\ req[h].at = "cert"
    /\ \/ Throw(h)
       \/ Refuse(h, RAR_ERRDECRYPTCERT)
       \/ Works(h) /\ (\E e \in req[h].env : e.tag = plugged) /\ Goto(h, "call")
    /\ UNCHANGED <<device, file>>

\* The last call returns nothing, or throws.
CallFails(h) ==
    LET r == req[h] IN
    /\ r.at = "call"
    /\ \/ Throw(h)
       \/ Rows[r.cmd].refusal # RAR_OK /\ Refuse(h, Rows[r.cmd].refusal)
       \/ /\ Rows[r.cmd].refusal = RAR_OK /\ Rows[r.cmd].call # "encrypt"
          /\ Goto(h, "answered")
    /\ UNCHANGED <<device, file>>

\* login and changePW: the key counts the wrong PINs in a row, and takes none
\* when none is left.
GivePin(h) ==
    LET r == req[h] IN
    /\ r.at = "call" /\ Works(h)
    /\ Rows[r.cmd].call \in {"login", "changePW"}
    /\ IF r.pin = "right" /\ tries[r.sess] > 0
       THEN /\ tries' = [tries EXCEPT ![r.sess] = MaxTries]
            /\ login' = IF r.cmd = "CertLogin" THEN [login EXCEPT ![r.sess] = TRUE] ELSE login
            /\ Goto(h, "answered")
       ELSE /\ tries' = [tries EXCEPT ![r.sess] = IF @ > 0 THEN @ - 1 ELSE 0]
            /\ login' = login
            /\ req' = [req EXCEPT ![h].at = "answered",
                                  ![h].code = ErrorResponse(Rejected(Rows[r.cmd].refusal)),
                                  ![h].spent[r.sess] = IF tries[r.sess] > 0 THEN @ + 1 ELSE @]
    /\ UNCHANGED <<plugged, moded, session, file>>

\* A signature, or what the key has to tell.
Obtain(h) ==
    LET r == req[h] IN
    /\ r.at = "call" /\ Works(h)
    /\ \/ Rows[r.cmd].call = "sign" /\ login[r.sess]
       \/ Rows[r.cmd].call = "read"
    /\ req' = [req EXCEPT ![h].at = "answered",
                          ![h].from = IF Rows[r.cmd].gives THEN r.sess ELSE NoKey]
    /\ UNCHANGED <<device, file>>

\* verifySignByP1 of the session accepts the signature.
Verify(h) ==
    /\ req[h].at = "call" /\ Works(h)
    /\ Rows[req[h].cmd].call = "verify"
    /\ req' = [req EXCEPT ![h].at = "answered", ![h].accepted = TRUE]
    /\ UNCHANGED <<device, file>>

\* encryptData, with the certificate of the form appended.  Its result is not
\* tested: KeyEncryptFile writes a file without a cipher.  Nor is the stream: a
\* write that fails leaves a file that ends before the certificate.
Encrypt(h) ==
    LET r == req[h] IN
    /\ r.at = "call"
    /\ Rows[r.cmd].call = "encrypt"
    /\ \E good \in BOOLEAN, whole \in BOOLEAN :
          /\ good => Works(h) /\ whole
          /\ file' = IF r.cmd = "KeyEncryptFile"
                     THEN {[e EXCEPT !.good = good, !.tag = IF whole THEN @ ELSE NoKey] :
                              e \in r.env}
                     ELSE file
    /\ Goto(h, "answered")
    /\ UNCHANGED device

\* Mutant: the plaintext file is opened before the text is decrypted.
Decrypt_OpensFirst(h) ==
    LET r == req[h] IN
    /\ r.at = "call"
    /\ Rows[r.cmd].call = "decrypt"
    /\ IF Works(h) /\ login[plugged] /\ \E e \in r.env : e.good /\ e.to = plugged
       THEN req' = [req EXCEPT ![h].at = "answered", ![h].from = r.sess,
                      ![h].plain = IF r.cmd = "KeyDecryptFile" /\ Tagged(r.env)
                                   THEN "text" ELSE "before"]
       ELSE req' = [req EXCEPT ![h].at = "answered", ![h].code = RAR_DECRYPTFAILED,
                      ![h].plain = IF r.cmd = "KeyDecryptFile" /\ Tagged(r.env)
                                   THEN "empty" ELSE "before"]
    /\ UNCHANGED <<device, file>>

\* decryptData.  KeyDecryptFile goes on to the plaintext file with the text of
\* a tagged envelope.
Decrypt(h) ==
    LET r == req[h] IN
    /\ r.at = "call" /\ Works(h)
    /\ Rows[r.cmd].call = "decrypt"
    /\ login[plugged]
    /\ \E e \in r.env : e.good /\ e.to = plugged
    /\ IF r.cmd = "KeyDecryptFile" /\ Tagged(r.env)
       THEN Goto(h, "write")
       ELSE req' = [req EXCEPT ![h].at = "answered", ![h].from = r.sess]
    /\ UNCHANGED <<device, file>>

\* The plaintext file is opened, which may fail, and truncated; how much of the
\* text is written is not tested, and the answer carries the text all the same
\* unless the stream throws.
WritePlain(h) ==
    LET r == req[h] IN
    /\ r.at = "write"
    /\ \/ Throw(h)
       \/ \E plain \in Plains \ {"before"}, threw \in BOOLEAN :
             req' = [req EXCEPT ![h].at = "answered", ![h].plain = plain, ![h].threw = threw,
                                ![h].from = IF threw THEN NoKey ELSE r.sess]
    /\ UNCHANGED <<device, file>>

-----------------------------------------------------------------------------
(***************************************************************************)
(* VerifySignByP7, which asks the service for what it does not verify      *)
(* itself.                                                                 *)
(***************************************************************************)

\* An empty message is refused; a flag that is no number throws outside of
\* execute.  resultFormLocal tests the code of the first command's answer,
\* which is 0000 too when it threw.
VerifySignByP7(h) ==
    /\ req[h].at = "local"
    /\ \/ Refuse(h, RAR_ERRNOENCRYPT)
       \/ Goto(h, "dropped")
       \/ req' = [req EXCEPT ![h].at = "answered", ![h].accepted = TRUE]
       \/ Throw(h)
       \/ Goto(h, "remote")
    /\ UNCHANGED <<device, file>>

\* Mutant: the verdict of the service is not tested.
VerifySignByP7Ext_Untested(h) ==
    /\ req[h].at = "remote"
    /\ \/ Throw(h)
       \/ \E verdict \in BOOLEAN :
             req' = [req EXCEPT ![h].at = "answered", ![h].accepted = verdict]
    /\ UNCHANGED <<device, file>>

\* One round trip; RESULTCODE other than 0000 is a refusal, and no answer or
\* one without it throws.
VerifySignByP7Ext(h) ==
    /\ req[h].at = "remote"
    /\ \/ Throw(h)
       \/ Refuse(h, RAR_UNKNOWNERR)
       \/ req' = [req EXCEPT ![h].at = "answered", ![h].accepted = TRUE]
    /\ UNCHANGED <<device, file>>

Serve(h) ==
    \/ RunFails(h) \/ VerifySoftly(h) \/ GetSession(h) \/ Named(h) \/ Retries(h)
    \/ CompareCert(h) \/ CallFails(h) \/ GivePin(h) \/ Obtain(h) \/ Verify(h)
    \/ Encrypt(h) \/ Decrypt(h) \/ WritePlain(h) \/ VerifySignByP7(h) \/ VerifySignByP7Ext(h)

Next ==
    \/ \E k \in Keys \cup {NoKey} : Exchange(k)
    \/ Publish
    \/ \E h \in Handlers : Serve(h)
    \/ \E h \in Handlers : \E c \in CommandsOf[h] :
          \/ Receive(h, c)
          \/ c = "VerifyIdentity"              /\ VerifyIdentity(h)
          \/ c = "VerifyDigitalSignByP1"       /\ VerifyDigitalSignByP1(h)
          \/ c = "KeyDigitalSignByP1"          /\ KeyDigitalSignByP1(h)
          \/ c = "VerifySignByP1Ext"           /\ VerifySignByP1Ext(h)
          \/ c = "KeyEncryptByDigitalEnvelope" /\ KeyEncryptByDigitalEnvelope(h)
          \/ c = "KeyDecryptByDigitalEnvelope" /\ KeyDecryptByDigitalEnvelope(h)

Spec == Init /\ [][Next]_vars

-----------------------------------------------------------------------------
(***************************************************************************)
(* Properties.                                                             *)
(***************************************************************************)

\* Every variable has its type.
TypeOK ==
    /\ plugged \in Keys \cup {NoKey}
    /\ session \in Keys \cup {NoKey}
    /\ moded \in BOOLEAN
    /\ tries \in [Keys -> 0..MaxTries]
    /\ login \in [Keys -> BOOLEAN]
    /\ \A e \in file : e \in Envelopes
    /\ req \in [Handlers ->
                 [cmd : Commands, uid : Keys \cup {NoKey}, pin : Pins,
                  env : SUBSET Envelopes, at : Points, sess : Keys \cup {NoKey},
                  code : Int, from : Keys \cup {NoKey}, plain : Plains,
                  spent : [Keys -> 0..MaxTries], accepted : BOOLEAN, threw : BOOLEAN]]

\* A page that names a key never gets a signature, a number, a certificate or
\* a decrypted text of another one, whenever the keys are exchanged and
\* however far the watcher lags behind.  (RS_GetPinRetryCount and
\* RS_GetUserList name none that is compared.)
AnswersOfNamedKey ==
    \A h \in Handlers :
        LET r == req[h] IN
        r.from # NoKey /\ r.cmd \notin {"GetPinRetryCount", "GetUserList"}
        => r.from = r.uid

\* A request takes one try at most, from the key it names and only if it gave
\* a PIN: another page's requests and an exchange do not make it take more,
\* nor one of a key that came in between.
OneTryOfNamedKey ==
    \A h \in Handlers, k \in Keys :
        LET r == req[h] IN
        r.spent[k] > 0 => r.spent[k] = 1 /\ k = r.uid /\ (r.cmd = "CertLogin" => r.pin # "")

\* A text is decrypted only if the certificate behind @@@, when there is one,
\* is that of the named key.
EnvelopeOfNamedKey ==
    \A h \in Handlers :
        LET r == req[h] IN
        r.from # NoKey /\ Rows[r.cmd].call = "decrypt"
        => \A e \in r.env : e.to = r.uid /\ e.tag \in {r.uid, NoKey}

\* KeyDecryptFile touches the plaintext file only when it has the text: no
\* refusal, no failure of the key, no certificate or key that is not the named
\* one leaves it changed.  (When the file itself cannot be written it is left
\* empty or cut, and the answer may be 0000.)
RefusalKeepsPlaintext ==
    \A h \in Handlers :
        LET r == req[h] IN
        r.plain # "before" =>
            /\ r.code = RAR_OK
            /\ r.sess = r.uid
            /\ \E e \in r.env : e.good /\ e.to = r.uid /\ e.tag = r.uid

\* A verification answers 0000 only if somebody found the signature genuine,
\* the software, the key or the service, whichever were asked, unless a call
\* threw (FailureIsNotOK of DeviceMonitor has what is answered then).
VerdictComesFromAVerifier ==
    \A h \in Handlers :
        LET r == req[h] IN
        r.cmd \in Remote \cup {"VerifySignByP1"} /\ r.at = "answered" /\ r.code = RAR_OK
        => r.accepted \/ r.threw
=============================================================================
