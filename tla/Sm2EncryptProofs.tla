------------------------- MODULE Sm2EncryptProofs -------------------------
(***************************************************************************)
(* Proofs about Sm2Encrypt, for every order of the curve, every length of  *)
(* a message and every key derivation: its types, that what is answered    *)
(* can be decrypted, and that whatever fails sm2_encrypt gives back what   *)
(* it allocated, so that only the caller's buffer c2 stays.                *)
(***************************************************************************)
EXTENDS Sm2Encrypt, TLAPS

(***************************************************************************)
(* Bits.                                                                   *)
(***************************************************************************)

\* The key stream for a message has its length.
LEMMA StreamBits ==
    ASSUME NEW n \in 0..MaxLen, NEW kk \in NonZero
    PROVE  Stream(n, kk) \in Bits(n)
<1>1. MaxLen \in Nat /\ Kdf[kk] \in [1..MaxLen -> BOOLEAN]
  BY Sm2Assumption DEF Sm2Assumption, Bits
<1>2. \A i \in 1..n : i \in 1..MaxLen
  BY <1>1
<1> QED
  BY <1>1, <1>2 DEF Stream, Bits

\* What is added twice is taken back.
LEMMA XorTwice ==
    ASSUME NEW n \in Nat, NEW a \in Bits(n), NEW b \in Bits(n)
    PROVE  Xor(Xor(a, b), b) = a
<1>1. a = [i \in 1..n |-> a[i]] /\ DOMAIN a = 1..n
  BY DEF Bits
<1>2. Xor(a, b) = [i \in 1..n |-> a[i] # b[i]] /\ DOMAIN Xor(a, b) = 1..n
  BY <1>1 DEF Xor
<1>3. Xor(Xor(a, b), b) = [i \in 1..n |-> Xor(a, b)[i] # b[i]]
  BY <1>2 DEF Xor
<1>4. ASSUME NEW i \in 1..n PROVE (Xor(a, b)[i] # b[i]) = a[i]
  <2>1. a[i] \in BOOLEAN /\ b[i] \in BOOLEAN
    BY DEF Bits
  <2>2. Xor(a, b)[i] = (a[i] # b[i])
    BY <1>2
  <2>3. QED
    BY <2>1, <2>2
<1>5. [i \in 1..n |-> Xor(a, b)[i] # b[i]] = [i \in 1..n |-> a[i]]
  BY <1>4
<1> QED
  BY <1>1, <1>3, <1>5

(***************************************************************************)
(* The invariant.                                                          *)
(***************************************************************************)

\* What the allocations made so far have given.
Allocated(n) == {Resources[i] : i \in 1..n}

\* Until the clean-up all that was allocated is held, and after it only what
\* the caller has.
HeldByStep ==
    /\ pc = "idle" => next = 0 /\ held = {}
    /\ pc = "allocate" => next \in 0..8
    /\ pc # "idle" /\ ~Returned => held = Allocated(next) \cup {"c2"}
    /\ Returned => held \subseteq {"c2"}

\* The point, the stream and k belong together as soon as flag says that the
\* stream will do; a flag that was never set goes with a point that was not.
OneDraw ==
    /\ flag = "unset" => c1pt = 0
    /\ pc \in {"idle", "allocate", "load", "draw"} => flag \in {"set", "unset"}
    /\ pc = "output" => flag \in {"clear", "unset"}
    /\ flag = "clear" => /\ k \in NonZero /\ c1pt = k
                         /\ t = Stream(len, k) /\ ~Zero(Stream(len, k))

\* Without an error code the clean-up follows the output of all three parts.
Complete ==
    /\ pc \in {"idle", "allocate", "load", "draw", "test", "output", "done"} => err = "none"
    /\ pc = "failed" => err # "none"
    /\ pc \in {"clean_up", "done"} /\ err = "none" =>
          flag = "clear" /\ c1 = k /\ c3 = <<k, msg>> /\ c2 = Xor(msg, t)

EncryptInv == TypeOK /\ HeldByStep /\ OneDraw /\ Complete

-----------------------------------------------------------------------------
LEMMA EncryptInit == Init => EncryptInv
<1> SUFFICES ASSUME Init PROVE EncryptInv
  OBVIOUS
<1>1. TypeOK
  BY Sm2Assumption DEF Sm2Assumption, Init, TypeOK
<1>2. HeldByStep
  BY DEF Init, HeldByStep, Returned, Allocated
<1>3. OneDraw /\ Complete
  BY DEF Init, OneDraw, Complete
<1> QED
  BY <1>1, <1>2, <1>3 DEF EncryptInv

LEMMA TypeStep == EncryptInv /\ [Next]_vars => TypeOK'
<1> SUFFICES ASSUME EncryptInv, [Next]_vars PROVE TypeOK'
  OBVIOUS
<1>0. TypeOK /\ HeldByStep
  BY DEF EncryptInv
<1> USE <1>0 DEF TypeOK, call, parts
<1>1. CASE Call
  BY <1>1 DEF Call
<1>2. CASE Allocate
  <2>1. next \in 0..8 /\ pc = "allocate"
    BY <1>2 DEF Allocate, HeldByStep
  <2>2. Resources[next + 1] \in Owned
    BY <2>1 DEF Owned
  <2>3. held' \subseteq Owned \cup {"c2"} /\ next' \in 0..9
    BY <1>2, <2>1, <2>2 DEF Allocate
  <2> QED
    BY <1>2, <2>1, <2>3 DEF Allocate, CleanUpWith
<1>3. CASE LoadKey
  BY <1>3 DEF LoadKey, CleanUpWith
<1>4. CASE DrawFails
  BY <1>4 DEF DrawFails, CleanUpWith
<1>5. CASE Test
  BY <1>5 DEF Test
<1>6. CASE Output
  BY <1>6 DEF Output, CleanUpWith
<1>7. CASE CleanUp
  BY <1>7 DEF CleanUp
<1>8. ASSUME NEW kk \in 0..Order - 1, Draw(kk) PROVE TypeOK'
  BY <1>8 DEF Draw
<1>9. CASE Return \/ UNCHANGED vars
  BY <1>9 DEF Return, vars
<1> QED
  BY <1>1, <1>2, <1>3, <1>4, <1>5, <1>6, <1>7, <1>8, <1>9 DEF Next

(***************************************************************************)
(* Allocation and clean-up.                                                *)
(***************************************************************************)

\* The clean-up covers what any number of allocations has given: bn_y2 is the
\* only one that is not freed itself, and ctx was there before it.
LEMMA AllIsFreed ==
    ASSUME NEW n \in 0..9
    PROVE  LET held1 == Allocated(n) \cup {"c2"}
           IN held1 \ UNION {Frees[p] : p \in CleanedUp \cap held1} \subseteq {"c2"}
<1> SUFFICES ASSUME NEW i \in 1..9, i <= n
             PROVE  \E p \in CleanedUp \cap Allocated(n) : Resources[i] \in Frees[p]
  BY DEF Allocated
<1>1. \A j \in 1..9 : j <= n => Resources[j] \in Allocated(n)
  BY DEF Allocated
<1>2. \A j \in 1..9 : Resources[j] \in Owned
  BY DEF Owned
<1>3. CASE i = 3
  <2>1. Resources[2] = "ctx" /\ Resources[3] = "bn_y2"
    BY DEF Resources
  <2>2. "ctx" \in Owned /\ "ctx" \in Allocated(n) /\ "ctx" \in CleanedUp
    BY <1>1, <1>2, <1>3, <2>1 DEF CleanedUp
  <2>3. "bn_y2" \in Frees["ctx"]
    BY <2>2 DEF Frees
  <2> QED
    BY <1>3, <2>1, <2>2, <2>3
<1>4. CASE i # 3
  <2>1. Resources[i] \in CleanedUp
    BY <1>4 DEF Resources, CleanedUp
  <2>2. Resources[i] \in Frees[Resources[i]]
    BY <1>2 DEF Frees
  <2> QED
    BY <1>1, <2>1, <2>2
<1> QED
  BY <1>3, <1>4

LEMMA HeldStep == EncryptInv /\ [Next]_vars => HeldByStep'
<1> SUFFICES ASSUME EncryptInv, [Next]_vars PROVE HeldByStep'
  OBVIOUS
<1>0. TypeOK /\ HeldByStep
  BY DEF EncryptInv
<1> USE <1>0 DEF HeldByStep, Returned, call, parts
<1>1. CASE Call
  <2>1. Allocated(0) = {}
    BY DEF Allocated
  <2> QED
    BY <1>1, <2>1 DEF Call
<1>2. CASE Allocate
  <2>1. next \in 0..8 /\ held = Allocated(next) \cup {"c2"}
    BY <1>2 DEF Allocate
  <2>2. Allocated(next + 1) = Allocated(next) \cup {Resources[next + 1]}
    <3>1. 1..next + 1 = 1..next \cup {next + 1}
      BY <2>1
    <3> QED
      BY <3>1 DEF Allocated
  <2>3. CASE next' = next
    BY <1>2, <2>1, <2>3 DEF Allocate, CleanUpWith
  <2>4. CASE next' # next
    <3>1. /\ next' = next + 1 /\ held' = Allocated(next') \cup {"c2"}
          /\ pc' = IF next + 1 = 9 THEN "load" ELSE "allocate"
      BY <1>2, <2>1, <2>2, <2>4 DEF Allocate
    <3> QED
      BY <2>1, <3>1
  <2> QED
    BY <2>3, <2>4
<1>3. CASE CleanUp
  BY <1>3, AllIsFreed DEF CleanUp, TypeOK
<1>4. CASE LoadKey \/ DrawFails \/ Test \/ Output
  BY <1>4 DEF LoadKey, DrawFails, Test, Output, CleanUpWith
<1>5. ASSUME NEW kk \in 0..Order - 1, Draw(kk) PROVE HeldByStep'
  BY <1>5 DEF Draw
<1>6. CASE Return \/ UNCHANGED vars
  BY <1>6 DEF Return, vars
<1> QED
  BY <1>1, <1>2, <1>3, <1>4, <1>5, <1>6 DEF Next

(***************************************************************************)
(* The loop and the output.                                                *)
(***************************************************************************)

LEMMA DrawStep == EncryptInv /\ [Next]_vars => OneDraw' /\ Complete'
<1> SUFFICES ASSUME EncryptInv, [Next]_vars PROVE OneDraw' /\ Complete'
  OBVIOUS
<1>0. TypeOK /\ OneDraw /\ Complete
  BY DEF EncryptInv
<1> USE <1>0 DEF OneDraw, Complete, call, parts
<1>1. CASE Call \/ Allocate \/ LoadKey \/ DrawFails
  <2>1. /\ UNCHANGED <<k, flag, t, c1pt, len, msg, parts>>
        /\ pc \in {"idle", "allocate", "load", "draw"}
        /\ \/ pc' \in {"allocate", "load"} /\ err' = err
           \/ pc' = "draw" /\ pc = "load" /\ err' = err
           \/ pc' = "failed" /\ err' # "none"
           \/ pc' = "clean_up" /\ err' # "none"
    BY <1>1 DEF Call, Allocate, LoadKey, DrawFails, CleanUpWith
  <2> QED
    BY <2>1
<1>2. CASE Test
  BY <1>2 DEF Test
\* A point at infinity is what an unset flag comes with.
<1>3. CASE Output
  <2>1. CASE c1pt = 0
    BY <1>3, <2>1 DEF Output, CleanUpWith
  <2>2. CASE c1pt # 0
    BY <1>3, <2>2 DEF Output, CleanUpWith
  <2> QED
    BY <2>1, <2>2
<1>4. CASE CleanUp
  BY <1>4 DEF CleanUp
<1>5. ASSUME NEW kk \in 0..Order - 1, Draw(kk) PROVE OneDraw' /\ Complete'
  <2>1. CASE kk = 0
    BY <1>5, <2>1 DEF Draw
  <2>2. CASE kk # 0
    <3>1. kk \in NonZero
      BY <2>2, Sm2Assumption DEF Sm2Assumption, NonZero
    <3>2. /\ k' = kk /\ c1pt' = kk /\ t' = Stream(len, kk) /\ len' = len /\ pc' = "test"
          /\ flag' = IF Zero(Stream(len, kk)) THEN "set" ELSE "clear"
          /\ err' = err /\ pc = "draw"
      BY <1>5, <2>2 DEF Draw
    <3>3. Stream(len', kk) = Stream(len, kk)
      BY <3>2
    <3> QED
      BY <3>1, <3>2, <3>3
  <2> QED
    BY <2>1, <2>2
<1>6. CASE Return \/ UNCHANGED vars
  BY <1>6 DEF Return, vars
<1> QED
  BY <1>1, <1>2, <1>3, <1>4, <1>5, <1>6 DEF Next

-----------------------------------------------------------------------------
LEMMA EncryptHolds == Spec => []EncryptInv
<1>1. EncryptInv /\ [Next]_vars => EncryptInv'
  BY TypeStep, HeldStep, DrawStep DEF EncryptInv
<1> QED
  BY <1>1, EncryptInit, PTL DEF Spec

\* The variables keep their types in every behaviour.
THEOREM TypeCorrect == Spec => []TypeOK
<1>1. EncryptInv => TypeOK
  BY DEF EncryptInv
<1> QED
  BY <1>1, EncryptHolds, PTL

\* Whatever is answered decrypts to the message, although the loop can be left
\* through a flag that was never set: such a round has no point to output.
THEOREM AnswersDecrypt == Spec => []CipherDecrypts
<1>1. EncryptInv => CipherDecrypts
  <2> SUFFICES ASSUME EncryptInv, pc = "done"
               PROVE  /\ c1 \in NonZero
                      /\ Xor(c2, Stream(len, c1)) = msg
                      /\ c3 = <<c1, msg>>
                      /\ ~Zero(Stream(len, c1))
    BY DEF CipherDecrypts
  <2>1. flag = "clear" /\ c1 = k /\ c3 = <<k, msg>> /\ c2 = Xor(msg, t)
    BY DEF EncryptInv, Complete
  <2>2. c1 \in NonZero /\ t = Stream(len, c1) /\ ~Zero(Stream(len, c1))
    BY <2>1 DEF EncryptInv, OneDraw
  <2>3. len \in 0..MaxLen /\ len \in Nat /\ msg \in Bits(len)
    BY Sm2Assumption DEF Sm2Assumption, EncryptInv, TypeOK
  <2>4. Xor(c2, Stream(len, c1)) = msg
    BY <2>1, <2>2, <2>3, StreamBits, XorTwice
  <2> QED
    BY <2>1, <2>2, <2>4
<1> QED
  BY <1>1, EncryptHolds, PTL

\* Whichever call fails, nothing but the caller's c2 outlives the encryption.
THEOREM AllButC2IsGivenBack == Spec => []OnlyC2Leaks
<1>1. EncryptInv => OnlyC2Leaks
  BY DEF EncryptInv, HeldByStep, OnlyC2Leaks
<1> QED
  BY <1>1, EncryptHolds, PTL
=============================================================================
