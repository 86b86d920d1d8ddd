--------------------------- MODULE ConfigStore ---------------------------
(***************************************************************************)
(* The authorisation code and its three copies.                            *)
(*                                                                         *)
(* Every command to the cloud carries config().authCode.  A page sets it   *)
(* through ConfigParameters, directly (command authCode) or by a business  *)
(* name that the cloud maps to a code (command bussName).  The code is     *)
(* kept in the process (config), in the registry, from which               *)
(* restoreProperties reads it at the next start, and, for authCode only,   *)
(* in %TEMP%\KCODE.ini for other programs.  The copies are written one     *)
(* after the other by whichever HTTP threads handle such requests, without *)
(* a lock; a write can fail and the process can end between any two.       *)
(***************************************************************************)
EXTENDS Integers

CONSTANTS Codes,        \* authorisation codes
          NoCode,       \* the empty authCode of rsyncAgent.properties; no value
          Names,        \* business names
          CodeOf,       \* the code the cloud has for each name
          Length,       \* how long each code is
          Pages         \* HTTP threads that handle ConfigParameters

ASSUME ConfigStoreAssumption ==
    /\ NoCode \notin Codes
    /\ CodeOf \in [Names -> Codes]
    /\ Length \in [Codes -> Nat \ {0}]

VARIABLES
    run,       \* "starting" until restoreProperties returned, then "up"
    config,    \* config().authCode
    registry,  \* HKEY_CURRENT_USER\Software\Reach, value authCode
    kcode,     \* KCODE.ini: the code its line begins with, and the length of
               \* what the line has in the code's place
    at,        \* the next step of each HTTP thread's request
    code,      \* the code that request is about
    clean,     \* history: the request met no other one and no failure so far
    acked,     \* history: the last code whose setting was answered with RAR_OK
    lost       \* history: since then a request met another one or a failure

stores  == <<config, registry, kcode>>
history == <<clean, acked, lost>>
vars    == <<run, config, registry, kcode, at, code, clean, acked, lost>>

\* Requests that changed config and are not answered.
UnderWay == {p \in Pages : at[p] \in {"kcode", "registry", "answer"}}

-----------------------------------------------------------------------------
(***************************************************************************)
(* The process.                                                            *)
(***************************************************************************)

\* The process ends, at any time.  Of a registry write whose answer is still
\* due nobody knows.
Crash ==
    /\ run' = "starting"
    /\ config' = NoCode
    /\ at' = [p \in Pages |-> "idle"]
    /\ lost' = (lost \/ \E p \in Pages : at[p] = "answer")
    /\ UNCHANGED <<registry, kcode, code, clean, acked>>

\* Mutant: the HTTP server is started before the properties are restored.
Restore_Late ==
    /\ run = "starting" \/ (run = "up" /\ UnderWay # {})
    /\ run' = "up"
    /\ config' = IF registry = NoCode THEN config ELSE registry
    /\ UNCHANGED <<registry, kcode, at, code, history>>

\* rsyncAgent::restoreProperties; only then does main start the HTTP server.
Restore ==
    /\ run = "starting"
    /\ run' = "up"
    /\ config' = IF registry = NoCode THEN config ELSE registry
    /\ UNCHANGED <<registry, kcode, at, code, history>>

-----------------------------------------------------------------------------
(***************************************************************************)
(* ConfigParameters::run and, for bussName, ConfigParamsByBussSys::run.    *)
(***************************************************************************)

\* Mutant: the business name is taken for the code.
Arrive_NameForCode(p) ==
    /\ run = "up"
    /\ at[p] = "idle"
    /\ \E n \in Names : /\ at' = [at EXCEPT ![p] = "cloud"]
                       /\ code' = [code EXCEPT ![p] = n]
    /\ UNCHANGED <<run, stores, history>>

\* A page sends the command authCode, or bussName.  (The property bussName
\* itself is set too, and read by nobody.)
Arrive(p) ==
    /\ run = "up"
    /\ at[p] = "idle"
    /\ \/ \E c \in Codes : /\ at' = [at EXCEPT ![p] = "set"]
                           /\ code' = [code EXCEPT ![p] = c]
       \/ \E n \in Names : /\ at' = [at EXCEPT ![p] = "cloud"]
                           /\ code' = [code EXCEPT ![p] = CodeOf[n]]
    /\ UNCHANGED <<run, stores, history>>

\* The cloud answers with the code of the name ...
CloudAnswers(p) ==
    /\ at[p] = "cloud"
    /\ at' = [at EXCEPT ![p] = "setcloud"]
    /\ UNCHANGED <<run, stores, code, history>>

\* ... or refuses, or cannot be reached: CloudCommandException or one of the
\* network's.  Nothing was changed.
CloudRefuses(p) ==
    /\ at[p] = "cloud"
    /\ at' = [at EXCEPT ![p] = "idle"]
    /\ UNCHANGED <<run, stores, code, history>>

\* config().setString("authCode", ...): by ConfigParameters, which goes on with
\* KCODE.ini, or by ConfigParamsByBussSys, which goes on with the registry.
SetConfig(p) ==
    /\ at[p] \in {"set", "setcloud"}
    /\ config' = code[p]
    /\ at' = [at EXCEPT ![p] = IF @ = "set" THEN "kcode" ELSE "registry"]
    /\ clean' = IF UnderWay = {} THEN [clean EXCEPT ![p] = TRUE]
                                 ELSE [q \in Pages |-> FALSE]
    /\ UNCHANGED <<run, registry, kcode, code, acked, lost>>

Longer(m, n) == IF m > n THEN m ELSE n

\* writeKCode: FileStream opens the file for reading and writing, which does
\* not truncate it; what was longer than the new line stays behind it.
WriteKCode(p) ==
    /\ at[p] = "kcode"
    /\ kcode' = [code |-> code[p], size |-> Longer(Length[code[p]], kcode.size)]
    /\ at' = [at EXCEPT ![p] = "registry"]
    /\ UNCHANGED <<run, config, registry, code, history>>

\* TEMP is not set, or the file cannot be opened: the exception is answered
\* with an error, and config keeps the code.
WriteKCodeFails(p) ==
    /\ at[p] = "kcode"
    /\ at' = [at EXCEPT ![p] = "idle"]
    /\ lost' = TRUE
    /\ UNCHANGED <<run, stores, code, clean, acked>>

\* Mutant: the code is not written to the registry.
WriteRegistry_Skipped(p) ==
    /\ at[p] = "registry"
    /\ at' = [at EXCEPT ![p] = "answer"]
    /\ UNCHANGED <<run, stores, code, history>>

\* Utility::writeRegistry.
WriteRegistry(p) ==
    /\ at[p] = "registry"
    /\ registry' = code[p]
    /\ at' = [at EXCEPT ![p] = "answer"]
    /\ UNCHANGED <<run, config, kcode, code, history>>

\* writeRegistry catches and logs what the registry throws.
WriteRegistryFails(p) ==
    /\ at[p] = "registry"
    /\ at' = [at EXCEPT ![p] = "answer"]
    /\ clean' = [clean EXCEPT ![p] = FALSE]
    /\ UNCHANGED <<run, stores, code, acked, lost>>

\* run returns: the page is answered RAR_OK.
AnswerOK(p) ==
    /\ at[p] = "answer"
    /\ at' = [at EXCEPT ![p] = "idle"]
    /\ acked' = code[p]
    /\ lost' = ~clean[p]
    /\ UNCHANGED <<run, stores, code, clean>>

-----------------------------------------------------------------------------
\* An earlier run of the agent may have left a code in the registry and in
\* KCODE.ini.
Init ==
    /\ run = "starting"
    /\ config = NoCode
    /\ registry \in Codes \union {NoCode}
    /\ \/ kcode = [code |-> NoCode, size |-> 0]
       \/ \E c \in Codes : kcode = [code |-> c, size |-> Length[c]]
    /\ at = [p \in Pages |-> "idle"]
    /\ code = [p \in Pages |-> NoCode]
    /\ clean = [p \in Pages |-> FALSE]
    /\ acked = registry
    /\ lost = FALSE

Next ==
    \/ Crash \/ Restore
    \/ \E p \in Pages :
          \/ Arrive(p)
          \/ CloudAnswers(p) \/ CloudRefuses(p)
          \/ SetConfig(p)
          \/ WriteKCode(p) \/ WriteKCodeFails(p)
          \/ WriteRegistry(p) \/ WriteRegistryFails(p)
          \/ AnswerOK(p)

Spec == Init /\ [][Next]_vars

-----------------------------------------------------------------------------
(***************************************************************************)
(* Properties.                                                             *)
(***************************************************************************)

\* The variables keep their types.
TypeOK ==
    /\ run \in {"starting", "up"}
    /\ config \in Codes \union {NoCode}
    /\ registry \in Codes \union {NoCode}
    /\ kcode \in [code : Codes \union {NoCode}, size : Nat]
    /\ at \in [Pages -> {"idle", "cloud", "set", "setcloud", "kcode",
                         "registry", "answer"}]
    /\ code \in [Pages -> Codes \union {NoCode}]
    /\ clean \in [Pages -> BOOLEAN]
    /\ acked \in Codes \union {NoCode}
    /\ lost \in BOOLEAN

\* The code that was last answered with RAR_OK is the one in use and the one
\* in the registry, whatever requests failed early, and across crashes and
\* restarts: a setting that was cut short by a crash is undone as a whole.
\* Excepted are a request that met another one (the one may be in config and
\* the other in the registry, for good), one whose registry write failed
\* silently, one that failed at KCODE.ini, and one written but not answered.
AckedCodeKept ==
    (run = "up" /\ UnderWay = {} /\ ~lost) => config = acked /\ registry = acked

\* KCODE.ini holds the line AUTHORIZECODE=<code> and nothing else, as the
\* comment at routes/ConfigParametersRequestHandler.cpp:54 shows it.
KCodeIsTheCode == kcode.code # NoCode => kcode.size = Length[kcode.code]
=============================================================================
