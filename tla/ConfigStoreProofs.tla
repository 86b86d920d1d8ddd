------------------------ MODULE ConfigStoreProofs ------------------------
(***************************************************************************)
(* Proofs about ConfigStore, for every set of codes, names and HTTP        *)
(* threads: its types, and that the code last answered with RAR_OK is      *)
(* kept, across requests that fail or are cut short by a crash.            *)
(***************************************************************************)
EXTENDS ConfigStore, TLAPS

(***************************************************************************)
(* Types.  A request that is not over is about a code; without this,       *)
(* KCODE.ini would have no length after WriteKCode.                        *)
(***************************************************************************)

RequestsHaveCodes == \A p \in Pages : at[p] # "idle" => code[p] \in Codes

TypeInv == TypeOK /\ RequestsHaveCodes

LEMMA TypeInit == Init => TypeInv
<1> SUFFICES ASSUME Init PROVE TypeInv
  OBVIOUS
<1>1. kcode \in [code : Codes \union {NoCode}, size : Nat]
  BY ConfigStoreAssumption DEF ConfigStoreAssumption, Init
<1>2. QED
  BY <1>1 DEF Init, TypeInv, TypeOK, RequestsHaveCodes

LEMMA TypeStep == TypeInv /\ [Next]_vars => TypeInv'
<1> SUFFICES ASSUME TypeInv, [Next]_vars PROVE TypeInv'
  OBVIOUS
<1> USE DEF TypeInv, TypeOK, RequestsHaveCodes, stores, history
<1>1. CASE Crash \/ Restore
  BY <1>1 DEF Crash, Restore
<1>2. ASSUME NEW p \in Pages, Arrive(p) PROVE TypeInv'
  BY <1>2, ConfigStoreAssumption DEF ConfigStoreAssumption, Arrive
<1>3. ASSUME NEW p \in Pages, CloudAnswers(p) \/ CloudRefuses(p) \/ WriteKCodeFails(p)
                                \/ WriteRegistryFails(p)
      PROVE  TypeInv'
  BY <1>3 DEF CloudAnswers, CloudRefuses, WriteKCodeFails, WriteRegistryFails
<1>4. ASSUME NEW p \in Pages, SetConfig(p) PROVE TypeInv'
  BY <1>4 DEF SetConfig
<1>5. ASSUME NEW p \in Pages, WriteKCode(p) PROVE TypeInv'
  <2>1. Length[code[p]] \in Nat /\ kcode.size \in Nat
    BY <1>5, ConfigStoreAssumption DEF ConfigStoreAssumption, WriteKCode
  <2>2. QED
    BY <1>5, <2>1 DEF WriteKCode, Longer
<1>6. ASSUME NEW p \in Pages, WriteRegistry(p) \/ AnswerOK(p) PROVE TypeInv'
  BY <1>6 DEF WriteRegistry, AnswerOK
<1>7. CASE UNCHANGED vars
  BY <1>7 DEF vars
<1>8. QED
  BY <1>1, <1>2, <1>3, <1>4, <1>5, <1>6, <1>7 DEF Next

\* The variables keep their types in every behaviour.
THEOREM TypeCorrect == Spec => []TypeOK
<1>1. TypeInv => TypeOK
  BY DEF TypeInv
<1>2. QED
  BY <1>1, TypeInit, TypeStep, PTL DEF Spec

(***************************************************************************)
(* The inductive invariant.  A clean request is alone under way, so what   *)
(* it wrote to config, and then to the registry, is still there when it is *)
(* answered.  While nothing was lost the registry holds the acked code,    *)
(* except between a write and its answer; config does, when nothing is     *)
(* under way.  A request that dies before its registry write leaves the    *)
(* acked code there, for Restore to find.                                  *)
(***************************************************************************)

AtStart == run = "starting" => config = NoCode /\ \A p \in Pages : at[p] = "idle"

CleanIsAlone ==
    \A p \in UnderWay : clean[p] =>
        /\ UnderWay = {p}
        /\ config = code[p]
        /\ at[p] = "answer" => registry = code[p]

RegistryIsAcked ==
    ~lost /\ (\A p \in Pages : at[p] # "answer") => registry = acked

ConfigIsAcked == run = "up" /\ UnderWay = {} /\ ~lost => config = acked

AckedInv == TypeInv /\ AtStart /\ CleanIsAlone /\ RegistryIsAcked /\ ConfigIsAcked

LEMMA AckedInit == Init => AckedInv
  BY TypeInit DEF Init, AckedInv, AtStart, CleanIsAlone, RegistryIsAcked, ConfigIsAcked,
                  UnderWay

LEMMA AckedStep == AckedInv /\ [Next]_vars => AckedInv'
<1> SUFFICES ASSUME AckedInv, [Next]_vars
             PROVE  AtStart' /\ CleanIsAlone' /\ RegistryIsAcked' /\ ConfigIsAcked'
  BY TypeStep DEF AckedInv
<1> USE DEF AckedInv, TypeInv, TypeOK, AtStart, CleanIsAlone, RegistryIsAcked, ConfigIsAcked,
            UnderWay, stores, history
<1>1. CASE Crash
  BY <1>1 DEF Crash
<1>2. CASE Restore
  BY <1>2 DEF Restore
<1>3. ASSUME NEW p \in Pages, Arrive(p) \/ CloudAnswers(p) \/ CloudRefuses(p)
      PROVE  AckedInv'
  BY <1>3, TypeStep DEF Arrive, CloudAnswers, CloudRefuses
<1>4. ASSUME NEW p \in Pages, SetConfig(p) PROVE AckedInv'
  BY <1>4, TypeStep DEF SetConfig
<1>5. ASSUME NEW p \in Pages, WriteKCode(p) \/ WriteKCodeFails(p) PROVE AckedInv'
  BY <1>5, TypeStep DEF WriteKCode, WriteKCodeFails
<1>6. ASSUME NEW p \in Pages, WriteRegistry(p) \/ WriteRegistryFails(p) PROVE AckedInv'
  BY <1>6, TypeStep DEF WriteRegistry, WriteRegistryFails
<1>7. ASSUME NEW p \in Pages, AnswerOK(p) PROVE AckedInv'
  BY <1>7, TypeStep DEF AnswerOK
<1>8. CASE UNCHANGED vars
  BY <1>8 DEF vars
<1>9. QED
  BY <1>1, <1>2, <1>3, <1>4, <1>5, <1>6, <1>7, <1>8 DEF Next

\* In every behaviour the code last answered with RAR_OK is in config and in
\* the registry, unless it was lost in one of the ways AckedCodeKept names.
THEOREM AckedCodeIsKept == Spec => []AckedCodeKept
<1>1. AckedInv => AckedCodeKept
  BY DEF AckedInv, AckedCodeKept, RegistryIsAcked, ConfigIsAcked, UnderWay
<1>2. QED
  BY <1>1, AckedInit, AckedStep, PTL DEF Spec
=============================================================================
