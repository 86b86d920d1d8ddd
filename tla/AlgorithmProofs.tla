-------------------------- MODULE AlgorithmProofs --------------------------
(***************************************************************************)
(* Proofs about the algorithms, for every value of their parameters.       *)
(*                                                                         *)
(* SM4: sm4_setkey_dec takes back what sm4_setkey_enc did, for every width *)
(* of a word, every even number of rounds and every table: the array of    *)
(* the decryption is the array of the encryption in reverse, because a     *)
(* word is added twice.  The library's induction rules ask for an          *)
(* operator; the proofs by induction below take the least counterexample   *)
(* instead.  From it, that the commands that work chunk by chunk give back *)
(* what pages had encrypted, for every size of a chunk.                    *)
(*                                                                         *)
(* The QR code: saveBmp stays inside a bitmap that is not too wide.        *)
(***************************************************************************)
EXTENDS Sm4Commands, QrBitmap, NaturalsInduction, WellFoundedInduction, TLAPS

-----------------------------------------------------------------------------
(***************************************************************************)
(* Words.                                                                  *)
(***************************************************************************)

\* Exclusive or.
LEMMA XorWord ==
    ASSUME NEW a \in Word, NEW b \in Word
    PROVE  a (+) b \in Word /\ a (+) b = (a \ b) \cup (b \ a)
<1>1. Xor[a][b] = (a \ b) \cup (b \ a)  BY DEF Xor
<1>2. a (+) b = (a \ b) \cup (b \ a)  BY <1>1 DEF (+)
<1>3. (a \ b) \cup (b \ a) \in Word  BY DEF Word
<1> QED  BY <1>2, <1>3

LEMMA XorTwice ==
    ASSUME NEW a \in Word, NEW b \in Word
    PROVE  (a (+) b) (+) b = a
<1>1. a (+) b \in Word /\ a (+) b = (a \ b) \cup (b \ a)  BY XorWord
<1>2. (a (+) b) (+) b = ((a (+) b) \ b) \cup (b \ (a (+) b))  BY <1>1, XorWord
<1> QED  BY <1>1, <1>2

\* The order of the three words of a round does not matter.
LEMMA XorReversed ==
    ASSUME NEW a \in Word, NEW b \in Word, NEW c \in Word, NEW d \in Word
    PROVE  /\ a (+) b (+) c (+) d \in Word
           /\ a (+) b (+) c (+) d = c (+) b (+) a (+) d
<1>1. a (+) b \in Word /\ a (+) b = (a \ b) \cup (b \ a)  BY XorWord
<1>2. c (+) b \in Word /\ c (+) b = (c \ b) \cup (b \ c)  BY XorWord
<1>3. a (+) b (+) c \in Word /\ a (+) b (+) c = ((a (+) b) \ c) \cup (c \ (a (+) b))
  BY <1>1, XorWord
<1>4. c (+) b (+) a \in Word /\ c (+) b (+) a = ((c (+) b) \ a) \cup (a \ (c (+) b))
  BY <1>2, XorWord
<1>5. a (+) b (+) c = c (+) b (+) a  BY <1>1, <1>2, <1>3, <1>4
<1> QED  BY <1>3, <1>5, XorWord

LEMMA RotlWord ==
    ASSUME NEW x \in Word, NEW n \in Nat
    PROVE  Rotl(x, n) \in Word
BY Sm4Assumption DEF Sm4Assumption, Rotl, Word

LEMMA LtWord == ASSUME NEW x \in Word PROVE sm4Lt[x] \in Word
<1> DEFINE bb == Sbox[x]
<1>1. bb \in Word  BY Sm4Assumption DEF Sm4Assumption
<1>2. /\ Rotl(bb, 2) \in Word /\ Rotl(bb, 10) \in Word
      /\ Rotl(bb, 18) \in Word /\ Rotl(bb, 24) \in Word
  BY <1>1, RotlWord
<1>3. sm4Lt[x] = bb (+) Rotl(bb, 2) (+) Rotl(bb, 10) (+) Rotl(bb, 18) (+) Rotl(bb, 24)
  BY DEF sm4Lt
<1> HIDE DEF bb
<1>4. bb (+) Rotl(bb, 2) \in Word  BY <1>1, <1>2, XorWord
<1>5. bb (+) Rotl(bb, 2) (+) Rotl(bb, 10) \in Word  BY <1>4, <1>2, XorWord
<1>6. bb (+) Rotl(bb, 2) (+) Rotl(bb, 10) (+) Rotl(bb, 18) \in Word  BY <1>5, <1>2, XorWord
<1> QED  BY <1>2, <1>3, <1>6, XorWord

LEMMA CalciRKWord == ASSUME NEW x \in Word PROVE sm4CalciRK[x] \in Word
<1> DEFINE bb == Sbox[x]
<1>1. bb \in Word  BY Sm4Assumption DEF Sm4Assumption
<1>2. Rotl(bb, 13) \in Word /\ Rotl(bb, 23) \in Word  BY <1>1, RotlWord
<1>3. sm4CalciRK[x] = bb (+) Rotl(bb, 13) (+) Rotl(bb, 23)  BY DEF sm4CalciRK
<1> HIDE DEF bb
<1>4. bb (+) Rotl(bb, 13) \in Word  BY <1>1, <1>2, XorWord
<1> QED  BY <1>2, <1>3, <1>4, XorWord

\* A round, and the round that takes it back.
LEMMA FWord ==
    ASSUME NEW a \in Word, NEW b \in Word, NEW c \in Word, NEW d \in Word, NEW rk \in Word
    PROVE  /\ sm4F(a, b, c, d, rk) \in Word
           /\ sm4F(sm4F(a, b, c, d, rk), d, c, b, rk) = a
<1>1. /\ b (+) c (+) d (+) rk \in Word
      /\ b (+) c (+) d (+) rk = d (+) c (+) b (+) rk
  BY XorReversed
<1> DEFINE L == sm4Lt[b (+) c (+) d (+) rk]
           X == sm4F(a, b, c, d, rk)
<1>2. L \in Word  BY <1>1, LtWord
<1>3. X = a (+) L  BY DEF sm4F
<1>4. sm4F(X, d, c, b, rk) = X (+) L  BY <1>1 DEF sm4F
<1> HIDE DEF L, X
<1>5. X \in Word  BY <1>2, <1>3, XorWord
<1>6. sm4F(X, d, c, b, rk) = a  BY <1>2, <1>3, <1>4, XorTwice
<1> QED  BY <1>5, <1>6 DEF X

-----------------------------------------------------------------------------
(***************************************************************************)
(* Induction on the index of an array.                                     *)
(***************************************************************************)

\* A set that holds n as soon as it holds all smaller numbers has them all.
LEMMA AllOfNat ==
    ASSUME NEW S,
           \A n \in Nat : (\A m \in Nat : m < n => m \in S) => n \in S
    PROVE  Nat \subseteq S
<1> SUFFICES ASSUME Nat \ S # {} PROVE FALSE  OBVIOUS
<1> DEFINE R == OpToRel(<, Nat)
<1>1. IsWellFoundedOn(R, Nat)  BY NatLessThanWellFounded
<1>2. PICK n \in Nat \ S : \A m \in Nat \ S : ~(<<m, n>> \in R)
  <2> HIDE DEF R
  <2> QED  BY <1>1, WFMin
<1>3. \A m \in Nat : m < n => m \in S  BY <1>2 DEF OpToRel
<1> QED  BY <1>2, <1>3

\* A function H that fills in an array, each element from the ones before it,
\* has an array that it leaves alone.
LEMMA ArrayExists ==
    ASSUME NEW T, NEW n \in Nat, T # {},
           NEW H \in [[1..n -> T] -> [1..n -> T]],
           \A f, g \in [1..n -> T], i \in 1..n :
               (\A j \in 1..n : j < i => f[j] = g[j]) => H[f][i] = H[g][i]
    PROVE  \E f \in [1..n -> T] : f = H[f]
<1> DEFINE S == {m \in Nat : \E f \in [1..n -> T] : \A i \in 1..n : i <= m => f[i] = H[f][i]}
<1>1. ASSUME NEW m \in Nat, \A k \in Nat : k < m => k \in S
      PROVE  m \in S
  <2>1. CASE m = 0
    <3>1. PICK t : t \in T  OBVIOUS
    <3>2. [i \in 1..n |-> t] \in [1..n -> T]  BY <3>1
    <3>3. \A i \in 1..n : ~(i <= m)  BY <2>1
    <3> QED  BY <3>2, <3>3
  <2>2. CASE m > 0
    <3>0. m - 1 \in S
      <4> HIDE DEF S
      <4> QED  BY <1>1, <2>2
    <3>1. PICK f \in [1..n -> T] : \A i \in 1..n : i <= m - 1 => f[i] = H[f][i]
      BY <3>0
    <3> DEFINE g == [f EXCEPT ![m] = H[f][m]]
    <3>2. g \in [1..n -> T]  OBVIOUS
    <3>3. \A j \in 1..n : j < m => g[j] = f[j]  OBVIOUS
    <3>4. ASSUME NEW i \in 1..n, i <= m PROVE g[i] = H[g][i]
      <4>1. g[i] = H[f][i]
        <5>1. CASE i = m  BY <5>1
        <5>2. CASE i # m  BY <5>2, <3>1, <3>3, <3>4
        <5> QED  BY <5>1, <5>2
      <4>2. \A j \in 1..n : j < i => g[j] = f[j]  BY <3>3, <3>4
      <4> HIDE DEF g
      <4>3. H[g][i] = H[f][i]  BY <3>2, <4>2
      <4> QED  BY <4>1, <4>3
    <3> HIDE DEF g
    <3> QED  BY <3>2, <3>4
  <2> QED  BY <2>1, <2>2
<1>2. n \in S
  <2> HIDE DEF S
  <2> QED  BY <1>1, AllOfNat
<1>3. PICK f \in [1..n -> T] : \A i \in 1..n : f[i] = H[f][i]  BY <1>2
<1>4. H[f] \in [1..n -> T]  OBVIOUS
<1> QED  BY <1>3, <1>4

-----------------------------------------------------------------------------
(***************************************************************************)
(* The two arrays.                                                         *)
(***************************************************************************)

\* What the loop of sm4_one_round leaves in ulbuf.
LEMMA UlbufFilled ==
    ASSUME NEW sk \in Keys, NEW x \in Block
    PROVE  LET u == ulbuf(sk, x) IN
           /\ u \in [1..N + 4 -> Word]
           /\ \A i \in 1..4 : u[i] = x[i]
           /\ \A i \in 1..N : u[i + 4] = sm4F(u[i], u[i + 1], u[i + 2], u[i + 3], sk[i])
<1> DEFINE B(f) == [i \in 1..N + 4 |->
                       IF i <= 4 THEN x[i]
                       ELSE sm4F(f[i - 4], f[i - 3], f[i - 2], f[i - 1], sk[i - 4])]
           A == [1..N + 4 -> Word]
           u == ulbuf(sk, x)
           H == [f \in A |-> B(f)]
<1>0. N \in Nat  BY Sm4Assumption DEF Sm4Assumption
<1>1. u = CHOOSE f : f = B(f)  BY DEF ulbuf
<1>2. ASSUME NEW f \in A PROVE B(f) \in A
  <2> SUFFICES ASSUME NEW i \in 1..N + 4 PROVE B(f)[i] \in Word  OBVIOUS
  <2>1. CASE i <= 4  BY <1>0, <2>1 DEF Block
  <2>2. CASE ~(i <= 4)
    <3>1. i - 4 \in 1..N /\ {i - 4, i - 3, i - 2, i - 1} \subseteq 1..N + 4  BY <1>0, <2>2
    <3> QED  BY <2>2, <3>1, FWord DEF Keys
  <2> QED  BY <2>1, <2>2
<1>3. \E f \in A : f = B(f)
  <2>1. H \in [A -> A]  BY <1>2
  <2>2. ASSUME NEW f \in A, NEW g \in A, NEW i \in 1..N + 4,
               \A j \in 1..N + 4 : j < i => f[j] = g[j]
        PROVE  H[f][i] = H[g][i]
    <3>1. CASE i <= 4  BY <3>1
    <3>2. CASE ~(i <= 4)
      <4>1. \A d \in 1..4 : i - d \in 1..N + 4 /\ i - d < i  BY <1>0, <3>2
      <4>2. f[i - 4] = g[i - 4] /\ f[i - 3] = g[i - 3] /\ f[i - 2] = g[i - 2]
            /\ f[i - 1] = g[i - 1]
        BY <2>2, <4>1
      <4> QED  BY <3>2, <4>2
    <3> QED  BY <3>1, <3>2
  <2>3. Word # {}
    <3>1. {} \in Word  BY DEF Word
    <3> QED  BY <3>1
  <2>4. PICK f \in A : f = H[f]
    <3>1. N + 4 \in Nat  BY <1>0
    <3> HIDE DEF H
    <3> QED  BY <2>1, <2>2, <2>3, <3>1, ArrayExists
  <2> QED  BY <2>4
<1>4. u = B(u)  BY <1>1, <1>3
<1>5. \A i \in 1..4 : u[i] = x[i]
  <2> HIDE DEF u
  <2> QED  BY <1>0, <1>4
<1>6. \A i \in 1..N : u[i + 4] = sm4F(u[i], u[i + 1], u[i + 2], u[i + 3], sk[i])
  <2> HIDE DEF u
  <2> SUFFICES ASSUME NEW i \in 1..N
               PROVE  u[i + 4] = sm4F(u[i], u[i + 1], u[i + 2], u[i + 3], sk[i])
    OBVIOUS
  <2>1. i + 4 \in 1..N + 4 /\ ~(i + 4 <= 4)  BY <1>0
  <2>2. /\ i + 4 - 4 = i /\ i + 4 - 3 = i + 1 /\ i + 4 - 2 = i + 2 /\ i + 4 - 1 = i + 3
    BY <1>0
  <2>3. u[i + 4] = B(u)[i + 4]  BY <1>4
  <2> QED  BY <2>1, <2>2, <2>3
<1>7. \A i \in 1..N + 4 : u[i] \in Word
  <2> HIDE DEF u
  <2> DEFINE S == {m \in Nat : m \in 1..N + 4 => u[m] \in Word}
  <2>1. ASSUME NEW m \in Nat, \A k \in Nat : k < m => k \in S
        PROVE  m \in S
    <3> SUFFICES ASSUME m \in 1..N + 4 PROVE u[m] \in Word  OBVIOUS
    <3>1. CASE m <= 4  BY <1>5, <3>1 DEF Block
    <3>2. CASE ~(m <= 4)
      <4> DEFINE i == m - 4
      <4>1. i \in 1..N /\ m = i + 4  BY <1>0, <3>2
      <4>2. u[i] \in Word /\ u[i + 1] \in Word /\ u[i + 2] \in Word /\ u[i + 3] \in Word
        BY <1>0, <2>1, <4>1
      <4>3. sk[i] \in Word  BY <4>1 DEF Keys
      <4> HIDE DEF i
      <4>4. sm4F(u[i], u[i + 1], u[i + 2], u[i + 3], sk[i]) \in Word  BY <4>2, <4>3, FWord
      <4> QED  BY <1>6, <4>1, <4>4
    <3> QED  BY <3>1, <3>2
  <2>2. Nat \subseteq S
    <3> HIDE DEF S
    <3> QED  BY <2>1, AllOfNat
  <2> QED  BY <1>0, <2>2
<1>8. u \in A
  <2> HIDE DEF u
  <2>1. u = [i \in 1..N + 4 |-> u[i]]  BY <1>4
  <2> QED  BY <1>7, <2>1
<1> QED  BY <1>5, <1>6, <1>8

\* The round keys, of which sm4_setkey_dec takes the last first.
LEMMA SetkeyKeys ==
    ASSUME NEW key \in Block
    PROVE  /\ sm4_setkey_enc(key) \in Keys
           /\ sm4_setkey_dec(key) \in Keys
           /\ \A i \in 1..N : sm4_setkey_dec(key)[i] = sm4_setkey_enc(key)[N + 1 - i]
<1> DEFINE Rule(f, i) == f[i - 4] (+) sm4CalciRK[f[i - 3] (+) f[i - 2] (+) f[i - 1] (+) CK[i - 4]]
           B(f) == [i \in 1..N + 4 |-> IF i <= 4 THEN key[i] (+) FK[i] ELSE Rule(f, i)]
           A == [1..N + 4 -> Word]
           k == CHOOSE f : f = B(f)
           H == [f \in A |-> B(f)]
<1>0. N \in Nat /\ FK \in Block /\ CK \in Keys  BY Sm4Assumption DEF Sm4Assumption
<1>1. sm4_setkey(key) = [i \in 1..N |-> k[i + 4]]  BY DEF sm4_setkey
<1>2. ASSUME NEW f, NEW i \in 1..N + 4, ~(i <= 4), \A d \in 1..4 : f[i - d] \in Word
      PROVE  Rule(f, i) \in Word
  <2>1. i - 4 \in 1..N  BY <1>0, <1>2
  <2>2. CK[i - 4] \in Word  BY <1>0, <2>1 DEF Keys
  <2>3. f[i - 4] \in Word /\ f[i - 3] \in Word /\ f[i - 2] \in Word /\ f[i - 1] \in Word
    BY <1>2
  <2>4. f[i - 3] (+) f[i - 2] (+) f[i - 1] (+) CK[i - 4] \in Word  BY <2>2, <2>3, XorReversed
  <2> QED  BY <2>3, <2>4, CalciRKWord, XorWord
<1>3. ASSUME NEW i \in 1..4 PROVE key[i] (+) FK[i] \in Word
  BY <1>0, XorWord DEF Block
<1>4. \E f \in A : f = B(f)
  <2>1. ASSUME NEW f \in A PROVE B(f) \in A
    <3> SUFFICES ASSUME NEW i \in 1..N + 4 PROVE B(f)[i] \in Word  OBVIOUS
    <3>1. CASE i <= 4  BY <1>0, <1>3, <3>1
    <3>2. CASE ~(i <= 4)
      <4>1. \A d \in 1..4 : i - d \in 1..N + 4  BY <1>0, <3>2
      <4>2. \A d \in 1..4 : f[i - d] \in Word  BY <4>1
      <4>3. Rule(f, i) \in Word  BY <1>2, <3>2, <4>2
      <4> HIDE DEF Rule
      <4> QED  BY <3>2, <4>3
    <3> QED  BY <3>1, <3>2
  <2>2. H \in [A -> A]
    <3> HIDE DEF B
    <3> QED  BY <2>1
  <2>3. ASSUME NEW f \in A, NEW g \in A, NEW i \in 1..N + 4,
               \A j \in 1..N + 4 : j < i => f[j] = g[j]
        PROVE  H[f][i] = H[g][i]
    <3>1. CASE i <= 4  BY <3>1
    <3>2. CASE ~(i <= 4)
      <4>1. \A d \in 1..4 : i - d \in 1..N + 4 /\ i - d < i  BY <1>0, <3>2
      <4>2. f[i - 4] = g[i - 4] /\ f[i - 3] = g[i - 3] /\ f[i - 2] = g[i - 2]
            /\ f[i - 1] = g[i - 1]
        BY <2>3, <4>1
      <4> QED  BY <3>2, <4>2
    <3> QED  BY <3>1, <3>2
  <2>4. Word # {}
    <3>1. {} \in Word  BY DEF Word
    <3> QED  BY <3>1
  <2>5. PICK f \in A : f = H[f]
    <3>1. N + 4 \in Nat  BY <1>0
    <3> HIDE DEF H
    <3> QED  BY <2>2, <2>3, <2>4, <3>1, ArrayExists
  <2> QED  BY <2>5
<1>5. k = B(k)  BY <1>4
<1> HIDE DEF k
<1>6. \A i \in 1..N + 4 : k[i] \in Word
  <2> DEFINE S == {m \in Nat : m \in 1..N + 4 => k[m] \in Word}
  <2>1. ASSUME NEW m \in Nat, \A j \in Nat : j < m => j \in S
        PROVE  m \in S
    <3> SUFFICES ASSUME m \in 1..N + 4 PROVE k[m] \in Word  OBVIOUS
    <3>1. CASE m <= 4
      <4>1. k[m] = key[m] (+) FK[m]  BY <1>5, <3>1
      <4> QED  BY <1>3, <3>1, <4>1
    <3>2. CASE ~(m <= 4)
      <4>1. k[m] = Rule(k, m)
        <5> HIDE DEF Rule
        <5> QED  BY <1>5, <3>2
      <4>2. \A d \in 1..4 : m - d \in 1..N + 4 /\ m - d \in Nat /\ m - d < m  BY <1>0, <3>2
      <4>3. \A d \in 1..4 : k[m - d] \in Word  BY <2>1, <4>2
      <4> HIDE DEF Rule
      <4> QED  BY <1>2, <3>2, <4>1, <4>3
    <3> QED  BY <3>1, <3>2
  <2>2. Nat \subseteq S
    <3> HIDE DEF S
    <3> QED  BY <2>1, AllOfNat
  <2> QED  BY <1>0, <2>2
<1>7. sm4_setkey(key) \in Keys
  <2>1. \A i \in 1..N : i + 4 \in 1..N + 4  BY <1>0
  <2> QED  BY <1>1, <1>6, <2>1 DEF Keys
<1>8. \A i \in 1..N : N + 1 - i \in 1..N  BY <1>0
<1> QED  BY <1>7, <1>8 DEF sm4_setkey_enc, sm4_setkey_dec, Keys

-----------------------------------------------------------------------------
(***************************************************************************)
(* Decryption.                                                             *)
(***************************************************************************)

\* sm4_setkey_dec with sm4_one_round takes back what sm4_setkey_enc with it
\* did, for every key and block.
THEOREM DecryptionInverts ==
    \A key \in Block, x \in Block : BlockComesBack(key, x)
<1> SUFFICES ASSUME NEW key \in Block, NEW x \in Block
             PROVE  BlockComesBack(key, x)
  OBVIOUS
<1> DEFINE sk == sm4_setkey_enc(key)
           dk == sm4_setkey_dec(key)
           u  == ulbuf(sk, x)
           y  == <<u[N + 4], u[N + 3], u[N + 2], u[N + 1]>>
           v  == ulbuf(dk, y)
<1>0. N \in Nat  BY Sm4Assumption DEF Sm4Assumption
<1>1. sk \in Keys /\ dk \in Keys /\ \A i \in 1..N : dk[i] = sk[N + 1 - i]  BY SetkeyKeys
<1>2. sm4_one_round(sk, x) = y  BY DEF sm4_one_round
<1>3. sm4_one_round(dk, y) = <<v[N + 4], v[N + 3], v[N + 2], v[N + 1]>>
  BY DEF sm4_one_round
<1> HIDE DEF sk, dk
<1>4. /\ u \in [1..N + 4 -> Word]
      /\ \A i \in 1..4 : u[i] = x[i]
      /\ \A i \in 1..N : u[i + 4] = sm4F(u[i], u[i + 1], u[i + 2], u[i + 3], sk[i])
  BY <1>1, UlbufFilled
<1> HIDE DEF u
<1>5. y \in Block
  <2>1. u[N + 4] \in Word /\ u[N + 3] \in Word /\ u[N + 2] \in Word /\ u[N + 1] \in Word
    BY <1>0, <1>4
  <2> QED  BY <2>1 DEF Block
<1>6. /\ \A i \in 1..4 : v[i] = y[i]
      /\ \A i \in 1..N : v[i + 4] = sm4F(v[i], v[i + 1], v[i + 2], v[i + 3], dk[i])
  <2> HIDE DEF y
  <2> QED  BY <1>1, <1>5, UlbufFilled
<1> HIDE DEF v
<1>7. \A m \in 1..N + 4 : v[m] = u[N + 5 - m]
  <2> DEFINE S == {m \in Nat : m \in 1..N + 4 => v[m] = u[N + 5 - m]}
  <2>1. ASSUME NEW m \in Nat, \A j \in Nat : j < m => j \in S
        PROVE  m \in S
    <3> SUFFICES ASSUME m \in 1..N + 4 PROVE v[m] = u[N + 5 - m]  OBVIOUS
    <3>1. CASE m \in 1..4
      <4>1. /\ y[1] = u[N + 4] /\ y[2] = u[N + 3] /\ y[3] = u[N + 2] /\ y[4] = u[N + 1]
            /\ N + 5 - 1 = N + 4 /\ N + 5 - 2 = N + 3 /\ N + 5 - 3 = N + 2
            /\ N + 5 - 4 = N + 1
        BY <1>0
      <4>2. m = 1 \/ m = 2 \/ m = 3 \/ m = 4  BY <3>1
      <4> HIDE DEF y
      <4> QED  BY <1>6, <4>1, <4>2
    <3>2. CASE m \notin 1..4
      <4> DEFINE i == m - 4
                 j == N + 1 - i
      <4>1. /\ i \in 1..N /\ m = i + 4 /\ j \in 1..N
            /\ N + 5 - i = j + 4 /\ N + 5 - (i + 1) = j + 3 /\ N + 5 - (i + 2) = j + 2
            /\ N + 5 - (i + 3) = j + 1 /\ N + 5 - m = j
        BY <1>0, <3>2
      <4>2. /\ v[i] = u[j + 4] /\ v[i + 1] = u[j + 3] /\ v[i + 2] = u[j + 2]
            /\ v[i + 3] = u[j + 1]
        <5>1. \A d \in 0..3 : i + d \in Nat /\ i + d < m /\ i + d \in 1..N + 4
          BY <1>0, <4>1
        <5>2. \A d \in 0..3 : v[i + d] = u[N + 5 - (i + d)]  BY <2>1, <5>1
        <5>3. i + 0 = i  BY <4>1
        <5> HIDE DEF i, j
        <5> QED  BY <4>1, <5>2, <5>3
      <4>3. dk[i] = sk[j] /\ sk[j] \in Word  BY <1>1, <4>1 DEF Keys
      <4>4. /\ u[j] \in Word /\ u[j + 1] \in Word /\ u[j + 2] \in Word /\ u[j + 3] \in Word
        <5> HIDE DEF i, j
        <5> QED  BY <1>0, <1>4, <4>1
      <4> HIDE DEF i, j
      <4>5. u[j + 4] = sm4F(u[j], u[j + 1], u[j + 2], u[j + 3], sk[j])  BY <1>4, <4>1
      <4>6. v[i + 4] = sm4F(v[i], v[i + 1], v[i + 2], v[i + 3], dk[i])  BY <1>6, <4>1
      <4>7. v[i + 4] = sm4F(u[j + 4], u[j + 3], u[j + 2], u[j + 1], sk[j])
        BY <4>2, <4>3, <4>6
      <4>8. sm4F(sm4F(u[j], u[j + 1], u[j + 2], u[j + 3], sk[j]),
                 u[j + 3], u[j + 2], u[j + 1], sk[j]) = u[j]
        <5>1. \A a, b, c, d, rk \in Word : sm4F(sm4F(a, b, c, d, rk), d, c, b, rk) = a
          BY FWord
        <5>2. u[j] \in Word  BY <4>4
        <5>3. u[j + 1] \in Word  BY <4>4
        <5>4. u[j + 2] \in Word  BY <4>4
        <5>5. u[j + 3] \in Word  BY <4>4
        <5>6. sk[j] \in Word  BY <4>3
        <5> QED  BY <5>1, <5>2, <5>3, <5>4, <5>5, <5>6
      <4> QED  BY <4>1, <4>5, <4>7, <4>8
    <3> QED  BY <3>1, <3>2
  <2>2. Nat \subseteq S
    <3> HIDE DEF S
    <3> QED  BY <2>1, AllOfNat
  <2> QED  BY <1>0, <2>2
<1>8. v[N + 4] = x[1] /\ v[N + 3] = x[2] /\ v[N + 2] = x[3] /\ v[N + 1] = x[4]
  <2>1. /\ N + 4 \in 1..N + 4 /\ N + 3 \in 1..N + 4 /\ N + 2 \in 1..N + 4 /\ N + 1 \in 1..N + 4
        /\ N + 5 - (N + 4) = 1 /\ N + 5 - (N + 3) = 2 /\ N + 5 - (N + 2) = 3
        /\ N + 5 - (N + 1) = 4
    BY <1>0
  <2> QED  BY <1>4, <1>7, <2>1
<1>9. x = <<x[1], x[2], x[3], x[4]>>  BY DEF Block
<1>10. sm4_one_round(dk, sm4_one_round(sk, x)) = x
  <2> HIDE DEF y
  <2> QED  BY <1>2, <1>3, <1>8, <1>9
<1> QED  BY <1>10 DEF BlockComesBack, sk, dk

-----------------------------------------------------------------------------
(***************************************************************************)
(* Chunks.                                                                 *)
(***************************************************************************)

\* Products of naturals are monotone.
LEMMA ProductMonotone ==
    ASSUME NEW a \in Nat, NEW b \in Nat, NEW c \in Nat, a <= b
    PROVE  a * c \in Nat /\ b * c \in Nat /\ a * c <= b * c
<1>1. PICK d \in Nat : b = a + d
    <2>1. b - a \in Nat /\ b = a + (b - a)
        OBVIOUS
    <2> QED BY <2>1
<1>2. a * c \in Nat /\ d * c \in Nat
    OBVIOUS
<1>3. b * c = a * c + d * c
    BY <1>1
<1> QED BY <1>2, <1>3

\* Block b of a text, and the key that sm4_setkey reads of a string that is
\* long enough.
Blk(s, b)  == [j \in 1..4 |-> s[4 * b + j]]
KeyOf(key) == [i \in 1..4 |-> key[i]]

LEMMA RoundIsBlock ==
    ASSUME NEW sk \in Keys, NEW x \in Block
    PROVE  sm4_one_round(sk, x) \in Block
<1> DEFINE u == ulbuf(sk, x)
<1>0. N \in Nat  BY Sm4Assumption DEF Sm4Assumption
<1>1. u \in [1..N + 4 -> Word]  BY UlbufFilled
<1>2. sm4_one_round(sk, x) = <<u[N + 4], u[N + 3], u[N + 2], u[N + 1]>>  BY DEF sm4_one_round
<1> HIDE DEF u
<1>3. u[N + 4] \in Word /\ u[N + 3] \in Word /\ u[N + 2] \in Word /\ u[N + 1] \in Word
  BY <1>0, <1>1
<1> QED  BY <1>2, <1>3 DEF Block

\* A chunk is a whole number of blocks, its length a multiple of four.
LEMMA ChunkIsBlocks == Chunk \in Nat \ {0} /\ Chunk % 4 = 0 /\ Chunk \div 4 \in Nat
                       /\ Chunk = 4 * (Chunk \div 4)
BY CommandsAssumption DEF CommandsAssumption

\* What sm4_crypt_ecb makes of a chunk of which cb words were read.
LEMMA CryptedChunk ==
    ASSUME NEW sk \in Keys, NEW cb \in 0..Chunk,
           NEW rbuf \in [1..Chunk -> Word], NEW buf \in [1..Chunk -> Word]
    PROVE  LET wbuf == sm4_crypt_ecb(sk, cb, rbuf, buf) IN
           /\ wbuf \in [1..Chunk -> Word] /\ wbuf \in Seq(Word) /\ Len(wbuf) = Chunk
           /\ \A d \in Nat : 4 * d < cb =>
                 Blk(rbuf, d) \in Block /\ Blk(wbuf, d) = sm4_one_round(sk, Blk(rbuf, d))
           /\ \A i \in 1..Chunk : 4 * ((i - 1) \div 4) >= cb => wbuf[i] = buf[i]
<1> DEFINE wbuf == sm4_crypt_ecb(sk, cb, rbuf, buf)
           crypted == [b \in 0..(Len(rbuf) \div 4) - 1 |->
                          sm4_one_round(sk, [j \in 1..4 |-> rbuf[4 * b + j]])]
<1>0. /\ Chunk \in Nat \ {0} /\ Chunk % 4 = 0
      /\ Len(rbuf) = Chunk /\ Len(buf) = Chunk
  BY ChunkIsBlocks
<1>1. wbuf = [i \in 1..Chunk |->
                 IF 4 * ((i - 1) \div 4) < cb THEN crypted[(i - 1) \div 4][((i - 1) % 4) + 1]
                 ELSE buf[i]]
  BY <1>0 DEF sm4_crypt_ecb
<1>2. ASSUME NEW d \in Nat, 4 * d < Chunk
      PROVE  /\ Blk(rbuf, d) \in Block /\ crypted[d] = sm4_one_round(sk, Blk(rbuf, d))
             /\ crypted[d] \in Block
  <2>1. d \in 0..(Len(rbuf) \div 4) - 1 /\ \A j \in 1..4 : 4 * d + j \in 1..Chunk
    BY <1>0, <1>2
  <2>2. Blk(rbuf, d) \in Block
    BY <2>1 DEF Blk, Block
  <2>3. crypted[d] = sm4_one_round(sk, Blk(rbuf, d))
    BY <2>1 DEF Blk
  <2> QED  BY <2>2, <2>3, RoundIsBlock
<1> HIDE DEF wbuf, crypted
<1>3. ASSUME NEW i \in 1..Chunk PROVE wbuf[i] \in Word
  <2>1. /\ (i - 1) \div 4 \in Nat /\ ((i - 1) % 4) + 1 \in 1..4
        /\ 4 * ((i - 1) \div 4) < Chunk
    BY <1>0
  <2>2. crypted[(i - 1) \div 4][((i - 1) % 4) + 1] \in Word
    BY <1>2, <2>1 DEF Block
  <2> QED  BY <1>1, <2>2
<1>4. wbuf \in [1..Chunk -> Word]  BY <1>1, <1>3
<1>5. wbuf \in Seq(Word) /\ Len(wbuf) = Chunk  BY <1>0, <1>4
<1>6. ASSUME NEW d \in Nat, 4 * d < cb
      PROVE  Blk(wbuf, d) = sm4_one_round(sk, Blk(rbuf, d))
  <2>1. 4 * d < Chunk  BY <1>0, <1>6
  <2>2. ASSUME NEW j \in 1..4 PROVE wbuf[4 * d + j] = crypted[d][j]
    <3>1. /\ 4 * d + j \in 1..Chunk /\ (4 * d + j - 1) \div 4 = d
          /\ ((4 * d + j - 1) % 4) + 1 = j
      BY <1>0, <2>1
    <3>2. wbuf[4 * d + j] =
            IF 4 * ((4 * d + j - 1) \div 4) < cb
            THEN crypted[(4 * d + j - 1) \div 4][((4 * d + j - 1) % 4) + 1]
            ELSE buf[4 * d + j]
      BY <1>1, <3>1
    <3> QED  BY <1>6, <3>1, <3>2
  <2>3. Blk(wbuf, d) = crypted[d]
    BY <1>2, <2>1, <2>2 DEF Blk, Block
  <2> QED  BY <1>2, <2>1, <2>3
<1>7. \A i \in 1..Chunk : 4 * ((i - 1) \div 4) >= cb => wbuf[i] = buf[i]
  BY <1>0, <1>1
<1>8. \A d \in Nat : 4 * d < cb => Blk(rbuf, d) \in Block
  BY <1>0, <1>2
<1> QED  BY <1>4, <1>5, <1>6, <1>7, <1>8 DEF wbuf

\* The blocks of a text that goes on.
LEMMA LengthOfBoth ==
    ASSUME NEW s \in Seq(Word), NEW w \in Seq(Word)
    PROVE  s \o w \in Seq(Word) /\ Len(s \o w) = Len(s) + Len(w)
OBVIOUS

LEMMA BlockFits ==
    ASSUME NEW b \in Nat, NEW k \in Nat, NEW n \in Nat, n % 4 = 0, b >= k, 4 * b < 4 * k + n
    PROVE  b - k \in Nat /\ 4 * (b - k) = 4 * b - 4 * k /\ 4 * (b - k) + 4 <= n
OBVIOUS

LEMMA BlocksOfBoth ==
    ASSUME NEW s \in Seq(Word), NEW w \in Seq(Word), NEW k \in Nat, Len(s) = 4 * k,
           NEW b \in Nat
    PROVE  /\ 4 * b + 4 <= Len(s) => Blk(s \o w, b) = Blk(s, b)
           /\ b >= k /\ 4 * (b - k) + 4 <= Len(w) => Blk(s \o w, b) = Blk(w, b - k)
<1>1. ASSUME 4 * b + 4 <= Len(s) PROVE Blk(s \o w, b) = Blk(s, b)
  <2>1. \A j \in 1..4 : (s \o w)[4 * b + j] = s[4 * b + j]
    BY <1>1
  <2> QED  BY <2>1 DEF Blk
<1>2. ASSUME b >= k, 4 * (b - k) + 4 <= Len(w) PROVE Blk(s \o w, b) = Blk(w, b - k)
  <2>1. \A j \in 1..4 : (s \o w)[4 * b + j] = w[4 * (b - k) + j]
    BY <1>2
  <2> QED  BY <2>1 DEF Blk
<1> QED  BY <1>1, <1>2

-----------------------------------------------------------------------------
(***************************************************************************)
(* The types of the commands.                                              *)
(***************************************************************************)

Names    == {"none", "EncryptFile", "DecryptFile", "EncryptData", "DevryptData"}
Cmds     == [name : Names, to : Paths, sk : Keys \cup {<<>>}, in : Seq(Word), out : Seq(Word),
             failed : BOOLEAN, at : {"loop", "spinning", "done", "dropped"}]
Sealings == [kind : {"none", "file", "data"}, text : Seq(Word), key : Seq(KeyChars),
             bytes : Seq(Word), good : BOOLEAN]
IsDisk(d) == "source" \in DOMAIN d /\ DOMAIN d \subseteq Paths /\ d \in [DOMAIN d -> Seq(Word)]

Types ==
    /\ keysize \in Keysizes /\ IsDisk(disk) /\ sealed \in Sealings /\ cmd \in Cmds
    /\ cmd.at = "loop" => cmd.sk \in Keys
    /\ cmd.at = "loop" /\ cmd.name \in {"EncryptFile", "DecryptFile"} => cmd.to \in DOMAIN disk
    /\ sealed.kind = "file" => "sealed" \in DOMAIN disk

\* The 16 bytes of a key: those of the string, if it has as many.
LEMMA KeyBytesFacts ==
    ASSUME NEW n \in Nat, NEW key \in RandomString(n), NEW bytes \in KeyBytes(key)
    PROVE  /\ key \in Seq(KeyChars) /\ Len(key) = n
           /\ bytes \in Block
           /\ n >= 4 => bytes = KeyOf(key) /\ KeyOf(key) \in Block
<1>1. key \in Seq(KeyChars) /\ Len(key) = n
  BY DEF RandomString
<1>2. KeyChars \subseteq Word /\ Behind \subseteq Word /\ Zero \in Word
  BY CommandsAssumption DEF CommandsAssumption, Zero, Word
<1>3. bytes \in [1..4 -> KeyChars \cup Behind \cup {Zero}]
  BY DEF KeyBytes
<1>4. bytes \in Block
  BY <1>2, <1>3 DEF Block
<1>5. ASSUME n >= 4 PROVE bytes = KeyOf(key)
  <2>1. \A i \in 1..4 : bytes[i] = key[i]
    BY <1>1, <1>5 DEF KeyBytes
  <2> QED  BY <1>3, <2>1 DEF KeyOf
<1> QED  BY <1>1, <1>4, <1>5

\* What a read takes, and what it leaves.
LEMMA ReadFacts ==
    ASSUME cmd.in \in Seq(Word)
    PROVE  /\ Cb \in 0..Chunk /\ Cb <= Len(cmd.in) /\ (Cb < Chunk => Cb = Len(cmd.in))
           /\ Drop(cmd.in, Cb) \in Seq(Word) /\ Len(Drop(cmd.in, Cb)) = Len(cmd.in) - Cb
           /\ \A i \in 1..Len(cmd.in) - Cb : Drop(cmd.in, Cb)[i] = cmd.in[Cb + i]
<1>1. Cb \in 0..Chunk /\ Cb <= Len(cmd.in) /\ (Cb < Chunk => Cb = Len(cmd.in))
  BY ChunkIsBlocks DEF Cb, Least
<1> DEFINE n == Cb
<1>2. n \in 0..Len(cmd.in)
  BY <1>1
<1> HIDE DEF n
<1>3. /\ Drop(cmd.in, n) \in Seq(Word) /\ Len(Drop(cmd.in, n)) = Len(cmd.in) - n
      /\ \A i \in 1..Len(cmd.in) - n : Drop(cmd.in, n)[i] = cmd.in[n + i]
  BY <1>2 DEF Drop
<1> QED  BY <1>1, <1>3 DEF n

\* The two contents of a buffer before the read.
LEMMA BuffersAreWords ==
    /\ Zero \in Word
    /\ Zeros \in [1..Chunk -> Word] /\ (\A i \in 1..Chunk : Zeros[i] = Zero)
    /\ Comment \in [1..Chunk -> Word]
<1>1. Zero \in Word /\ Four \in Word
  BY CommandsAssumption DEF CommandsAssumption, Zero, Word
<1>2. Zeros \in [1..Chunk -> Word]
  BY <1>1 DEF Zeros
<1> QED  BY <1>1, <1>2 DEF Comment, Zeros

\* The chunk of a read, and what comes of it.
LEMMA ChunkFacts ==
    ASSUME Types, cmd.at = "loop", NEW buf \in [1..Chunk -> Word], NEW wbuf \in Crypted(buf, Cb)
    PROVE  LET rbuf == Filled(buf, Cb) IN
           /\ rbuf \in [1..Chunk -> Word] /\ rbuf \in Seq(Word) /\ Len(rbuf) = Chunk
           /\ \A i \in 1..Chunk : rbuf[i] = IF i <= Cb THEN cmd.in[i] ELSE buf[i]
           /\ wbuf = sm4_crypt_ecb(cmd.sk, Cb, rbuf, buf)
           /\ wbuf \in [1..Chunk -> Word] /\ wbuf \in Seq(Word) /\ Len(wbuf) = Chunk
           /\ \A d \in Nat : 4 * d < Cb =>
                 Blk(rbuf, d) \in Block /\ Blk(wbuf, d) = sm4_one_round(cmd.sk, Blk(rbuf, d))
           /\ \A i \in 1..Chunk : 4 * ((i - 1) \div 4) >= Cb => wbuf[i] = buf[i]
<1> DEFINE rbuf == Filled(buf, Cb)
<1>1. cmd.in \in Seq(Word) /\ cmd.sk \in Keys
  BY DEF Types, Cmds
<1>2. Cb \in 0..Chunk /\ Cb <= Len(cmd.in) /\ Chunk \in Nat
  BY <1>1, ReadFacts, ChunkIsBlocks
<1>3. \A i \in 1..Chunk : rbuf[i] = IF i <= Cb THEN cmd.in[i] ELSE buf[i]
  BY DEF Filled
<1>4. rbuf \in [1..Chunk -> Word]
  BY <1>1, <1>2 DEF Filled
<1>5. rbuf \in Seq(Word) /\ Len(rbuf) = Chunk
  BY <1>2, <1>4
<1>6. wbuf = sm4_crypt_ecb(cmd.sk, Cb, rbuf, buf)
  BY DEF Crypted
<1> HIDE DEF rbuf
<1> QED
  BY <1>1, <1>2, <1>3, <1>4, <1>5, <1>6, CryptedChunk DEF rbuf

\* What << writes is a text.
LEMMA CStringIsText ==
    ASSUME NEW buf \in [1..Chunk -> Word], NEW s \in CString(buf)
    PROVE  s \in Seq(Word)
<1>1. Chunk \in Nat /\ buf \in Seq(Word) /\ Len(buf) = Chunk /\ Behind \subseteq Word
  BY ChunkIsBlocks, CommandsAssumption DEF CommandsAssumption
<1>2. CASE \E i \in 1..Chunk : buf[i] = Zero
  <2>1. PICK n \in 0..Chunk - 1 : s = SubSeq(buf, 1, n)
    BY <1>2 DEF CString
  <2> QED  BY <1>1, <2>1
<1>3. CASE ~(\E i \in 1..Chunk : buf[i] = Zero)
  <2>1. s = buf \/ \E x \in Behind : s = Append(buf, x)
    BY <1>3 DEF CString
  <2> QED  BY <1>1, <2>1
<1> QED  BY <1>2, <1>3

\* A file that is opened to be written, and a chunk that is written.
LEMMA DiskFacts ==
    ASSUME IsDisk(disk), NEW to \in Paths
    PROVE  /\ IsDisk(Truncated(to)) /\ to \in DOMAIN Truncated(to) /\ Truncated(to)[to] = <<>>
           /\ \A path \in DOMAIN disk :
                 path \in DOMAIN Truncated(to) /\ (path # to => Truncated(to)[path] = disk[path])
           /\ \A w \in Seq(Word) : to \in DOMAIN disk =>
                 LET written == [disk EXCEPT ![to] = @ \o w] IN
                 /\ IsDisk(written) /\ DOMAIN written = DOMAIN disk
                 /\ written[to] = disk[to] \o w
                 /\ \A path \in DOMAIN disk : path # to => written[path] = disk[path]
<1>1. disk \in [DOMAIN disk -> Seq(Word)] /\ DOMAIN disk \subseteq Paths /\ "source" \in DOMAIN disk
  BY DEF IsDisk
<1>2. /\ Truncated(to) \in [DOMAIN disk \cup {to} -> Seq(Word)]
      /\ to \in DOMAIN Truncated(to) /\ Truncated(to)[to] = <<>>
      /\ \A path \in DOMAIN disk :
            path \in DOMAIN Truncated(to) /\ (path # to => Truncated(to)[path] = disk[path])
  BY <1>1 DEF Truncated
<1>3. IsDisk(Truncated(to))
  BY <1>1, <1>2 DEF IsDisk
<1>4. ASSUME NEW w \in Seq(Word), to \in DOMAIN disk
      PROVE  LET written == [disk EXCEPT ![to] = @ \o w] IN
             /\ IsDisk(written) /\ DOMAIN written = DOMAIN disk
             /\ written[to] = disk[to] \o w
             /\ \A path \in DOMAIN disk : path # to => written[path] = disk[path]
  <2>1. disk[to] \o w \in Seq(Word)
    BY <1>1, <1>4
  <2>2. [disk EXCEPT ![to] = @ \o w] \in [DOMAIN disk -> Seq(Word)]
    BY <1>1, <2>1
  <2> QED  BY <1>1, <1>4, <2>1, <2>2 DEF IsDisk
<1> QED  BY <1>2, <1>3, <1>4

\* A command that begins, and one that reads on.
LEMMA NoCommandIsTyped ==
    NoCommand \in Cmds /\ NotSealed \in Sealings /\ NoCommand.at = "done"
BY DEF NoCommand, NotSealed, Cmds, Sealings, Names, Paths

LEMMA BeginIsTyped ==
    ASSUME NEW name \in Names, NEW to \in Paths, NEW sk \in Keys, NEW in \in Seq(Word)
    PROVE  [NoCommand EXCEPT !.name = name, !.to = to, !.at = "loop", !.sk = sk, !.in = in] \in Cmds
BY NoCommandIsTyped DEF Cmds

LEMMA FileOpens ==
    ASSUME Types, NEW to \in Paths,
           (EncryptFile(to) /\ to \in {"source", "sealed"}) \/ DecryptFile(to)
    PROVE  Types'
<1>1. /\ IsDisk(Truncated(to))
      /\ \A path \in DOMAIN Truncated(to) : Truncated(to)[path] \in Seq(Word)
  BY DiskFacts DEF Types, IsDisk
<1>2. keysize \in Nat /\ sealed \in Sealings /\ cmd \in Cmds
  BY CommandsAssumption DEF CommandsAssumption, Types
<1>3. CASE EncryptFile(to)
  <2>1. "source" \in DOMAIN Truncated(to)
    BY <1>1 DEF IsDisk
  <2>2. keysize' = keysize /\ disk' = Truncated(to)
    BY <1>3 DEF EncryptFile
  <2>3. CASE /\ cmd' = [NoCommand EXCEPT !.name = "EncryptFile", !.at = "dropped"]
             /\ sealed' = IF to = "sealed" THEN NotSealed ELSE sealed
    <3>1. cmd' \in Cmds /\ cmd'.at = "dropped" /\ sealed' \in Sealings
      BY <1>2, <2>3, NoCommandIsTyped DEF Cmds, Names
    <3>2. sealed'.kind = "file" => "sealed" \in DOMAIN disk'
      BY <2>2, <2>3, DiskFacts DEF Types, NotSealed
    <3> QED  BY <1>1, <2>2, <3>1, <3>2 DEF Types
  <2>4. CASE \E key \in RandomString(keysize) : \E bytes \in KeyBytes(key) :
             /\ cmd' = [NoCommand EXCEPT !.name = "EncryptFile", !.to = to, !.at = "loop",
                           !.sk = sm4_setkey_enc(bytes), !.in = Truncated(to)["source"]]
             /\ sealed' = [NotSealed EXCEPT !.key = key, !.text = Truncated(to)["source"]]
    <3>0. PICK key \in RandomString(keysize) : \E bytes \in KeyBytes(key) :
             /\ cmd' = [NoCommand EXCEPT !.name = "EncryptFile", !.to = to, !.at = "loop",
                           !.sk = sm4_setkey_enc(bytes), !.in = Truncated(to)["source"]]
             /\ sealed' = [NotSealed EXCEPT !.key = key, !.text = Truncated(to)["source"]]
      BY <2>4
    <3>1. PICK bytes \in KeyBytes(key) :
             /\ cmd' = [NoCommand EXCEPT !.name = "EncryptFile", !.to = to, !.at = "loop",
                           !.sk = sm4_setkey_enc(bytes), !.in = Truncated(to)["source"]]
             /\ sealed' = [NotSealed EXCEPT !.key = key, !.text = Truncated(to)["source"]]
      BY <3>0
    <3>2. key \in Seq(KeyChars) /\ sm4_setkey_enc(bytes) \in Keys
      BY <1>2, KeyBytesFacts, SetkeyKeys
    <3>3. cmd' \in Cmds /\ cmd'.at = "loop" /\ cmd'.sk \in Keys
      BY <1>1, <2>1, <3>1, <3>2, BeginIsTyped DEF Names, NoCommand
    <3>4. sealed' \in Sealings /\ sealed'.kind = "none"
      BY <1>1, <2>1, <3>1, <3>2, NoCommandIsTyped DEF Sealings, NotSealed
    <3>5. to \in DOMAIN disk' /\ cmd'.to = to
      BY <2>2, <3>1, DiskFacts DEF Types, NoCommand
    <3> QED  BY <1>1, <2>2, <3>3, <3>4, <3>5 DEF Types
  <2> QED  BY <1>3, <2>3, <2>4 DEF EncryptFile
<1>4. CASE DecryptFile(to)
  <2>1. PICK bytes \in KeyBytes(sealed.key) :
             /\ disk' = Truncated(to)
             /\ cmd' = [NoCommand EXCEPT !.name = "DecryptFile", !.to = to, !.at = "loop",
                           !.sk = sm4_setkey_dec(bytes), !.in = Truncated(to)["sealed"]]
    BY <1>4 DEF DecryptFile
  <2>2. sealed.key \in RandomString(Len(sealed.key)) /\ Len(sealed.key) \in Nat
    BY <1>2 DEF Sealings, RandomString
  <2>3. sm4_setkey_dec(bytes) \in Keys
    BY <2>2, KeyBytesFacts, SetkeyKeys
  <2>4. sealed' \in Sealings /\ keysize' = keysize
    BY <1>2, <1>4, NoCommandIsTyped DEF DecryptFile
  <2>5. "sealed" \in DOMAIN Truncated(to) /\ Truncated(to)["sealed"] \in Seq(Word)
    BY <1>1, <1>4, DiskFacts DEF DecryptFile, Types
  <2>6. cmd' \in Cmds /\ cmd'.at = "loop" /\ cmd'.sk \in Keys
    BY <2>1, <2>3, <2>5, BeginIsTyped DEF Names, NoCommand
  <2>7. to \in DOMAIN disk' /\ cmd'.to = to
    BY <2>1, DiskFacts DEF Types, NoCommand
  <2> QED  BY <1>1, <2>1, <2>4, <2>5, <2>6, <2>7 DEF Types
<1> QED  BY <1>3, <1>4

LEMMA FileGoesOn ==
    ASSUME Types, EncryptFileChunk \/ DecryptFileChunk
    PROVE  Types'
<1>0. /\ IsDisk(disk) /\ sealed \in Sealings /\ cmd \in Cmds /\ cmd.in \in Seq(Word)
      /\ cmd.at = "loop" /\ cmd.to \in DOMAIN disk /\ cmd.to \in Paths
      /\ NextAt(Cb) \in {"loop", "done"} /\ keysize' = keysize /\ keysize \in Keysizes
  BY DEF Types, EncryptFileChunk, DecryptFileChunk, Reading, Cmds, NextAt
<1>1. Drop(cmd.in, Cb) \in Seq(Word)
  BY <1>0, ReadFacts
<1>2. ASSUME NEW w \in Seq(Word), NEW failed \in BOOLEAN,
             disk' = (IF failed THEN disk ELSE [disk EXCEPT ![cmd.to] = @ \o w])
      PROVE  IsDisk(disk') /\ DOMAIN disk' = DOMAIN disk
  BY <1>0, <1>2, DiskFacts
<1>3. CASE EncryptFileChunk
  <2>1. PICK wbuf \in Crypted(Comment, Cb), failed \in {cmd.failed, TRUE} :
          /\ disk' = IF failed THEN disk ELSE [disk EXCEPT ![cmd.to] = @ \o wbuf]
          /\ cmd' = [cmd EXCEPT !.in = Drop(@, Cb), !.failed = failed, !.at = NextAt(Cb)]
          /\ sealed' = IF Eof(Cb) /\ cmd.to = "sealed"
                       THEN [sealed EXCEPT !.kind = "file", !.good = ~failed]
                       ELSE sealed
    BY <1>3 DEF EncryptFileChunk
  <2>2. wbuf \in Seq(Word) /\ failed \in BOOLEAN
    BY <1>0, ChunkFacts, BuffersAreWords DEF Cmds
  <2>3. IsDisk(disk') /\ DOMAIN disk' = DOMAIN disk
    BY <1>2, <2>1, <2>2
  <2>4. /\ cmd' \in Cmds /\ cmd'.to = cmd.to /\ cmd'.sk = cmd.sk
    BY <1>0, <1>1, <2>1, <2>2 DEF Cmds
  <2>5. sealed' \in Sealings /\ (sealed'.kind = "file" => "sealed" \in DOMAIN disk')
    BY <1>0, <2>1, <2>2, <2>3 DEF Sealings, Types
  <2> QED  BY <1>0, <2>3, <2>4, <2>5 DEF Types
<1>4. CASE DecryptFileChunk
  <2>1. PICK wbuf \in Crypted(Zeros, Cb), failed \in {cmd.failed, Cb > 0} :
          /\ disk' = IF failed THEN disk
                     ELSE [disk EXCEPT ![cmd.to] = @ \o SubSeq(wbuf, 1, Cb)]
          /\ cmd' = [cmd EXCEPT !.in = Drop(@, Cb), !.failed = @ \/ failed, !.at = NextAt(Cb)]
    BY <1>4 DEF DecryptFileChunk
  <2>2. wbuf \in Seq(Word) /\ Len(wbuf) = Chunk /\ failed \in BOOLEAN
    <3>1. Zeros \in [1..Chunk -> Word]
      BY BuffersAreWords
    <3>2. wbuf \in Seq(Word) /\ Len(wbuf) = Chunk
      BY <1>0, <3>1, ChunkFacts
    <3>3. failed \in BOOLEAN
      <4>1. cmd.failed \in BOOLEAN
        BY <1>0 DEF Cmds
      <4>2. (Cb > 0) \in BOOLEAN
        BY <1>0, ReadFacts
      <4> QED  BY <4>1, <4>2
    <3> QED  BY <3>2, <3>3
  <2>3. SubSeq(wbuf, 1, Cb) \in Seq(Word)
    BY <1>0, <2>2, ReadFacts
  <2>4. IsDisk(disk') /\ DOMAIN disk' = DOMAIN disk
    BY <1>2, <2>1, <2>2, <2>3
  <2>5. cmd.failed \/ failed \in BOOLEAN
    BY <1>0, <2>2 DEF Cmds
  <2>6. /\ cmd' \in Cmds /\ cmd'.to = cmd.to /\ cmd'.sk = cmd.sk
    BY <1>0, <1>1, <2>1, <2>2, <2>5 DEF Cmds
  <2>7. sealed' = sealed
    BY <1>4 DEF DecryptFileChunk
  <2> QED  BY <1>0, <2>4, <2>6, <2>7 DEF Types
<1> QED  BY <1>3, <1>4

LEMMA DataIsTyped ==
    ASSUME Types,
           EncryptDataRequestHandler \/ EncryptDataChunk \/ DevryptData \/ DevryptDataChunk
    PROVE  Types'
<1>0. /\ IsDisk(disk) /\ sealed \in Sealings /\ cmd \in Cmds /\ cmd.in \in Seq(Word)
      /\ keysize \in Nat /\ keysize \in Keysizes
      /\ \A path \in DOMAIN disk : disk[path] \in Seq(Word)
  BY CommandsAssumption DEF CommandsAssumption, Types, Cmds, IsDisk
<1>1. UNCHANGED <<keysize, disk>>
  BY DEF EncryptDataRequestHandler, EncryptData, EncryptDataChunk, DevryptData, DevryptDataChunk
<1>2. ASSUME cmd' \in Cmds, sealed' \in Sealings, cmd'.at = "loop" => cmd'.sk \in Keys,
             cmd'.name \notin {"EncryptFile", "DecryptFile"}, sealed'.kind = "file" => sealed.kind = "file"
      PROVE  Types'
  BY <1>0, <1>1, <1>2 DEF Types
<1>3. CASE EncryptDataRequestHandler
  <2> DEFINE text == disk["source"]
  <2>1. EncryptData(text) /\ text \in Seq(Word)
    BY <1>0, <1>3 DEF EncryptDataRequestHandler, Types, IsDisk
  <2> HIDE DEF text
  <2>2. CASE cmd' = [NoCommand EXCEPT !.name = "EncryptData", !.at = "dropped"] /\ sealed' = sealed
    <3>1. cmd' \in Cmds /\ cmd'.at = "dropped" /\ cmd'.name = "EncryptData"
      BY <2>2, NoCommandIsTyped DEF Cmds, Names
    <3> QED  BY <1>0, <1>2, <2>2, <3>1
  <2>3. CASE \E key \in RandomString(keysize) : \E bytes \in KeyBytes(key) :
             /\ cmd' = [NoCommand EXCEPT !.name = "EncryptData", !.at = "loop",
                           !.sk = sm4_setkey_enc(bytes), !.in = text]
             /\ sealed' = [NotSealed EXCEPT !.key = key, !.text = text]
    <3>1. PICK key \in RandomString(keysize) : \E bytes \in KeyBytes(key) :
             /\ cmd' = [NoCommand EXCEPT !.name = "EncryptData", !.at = "loop",
                           !.sk = sm4_setkey_enc(bytes), !.in = text]
             /\ sealed' = [NotSealed EXCEPT !.key = key, !.text = text]
      BY <2>3
    <3>2. PICK bytes \in KeyBytes(key) :
             /\ cmd' = [NoCommand EXCEPT !.name = "EncryptData", !.at = "loop",
                           !.sk = sm4_setkey_enc(bytes), !.in = text]
             /\ sealed' = [NotSealed EXCEPT !.key = key, !.text = text]
      BY <3>1
    <3>3. key \in Seq(KeyChars) /\ sm4_setkey_enc(bytes) \in Keys
      BY <1>0, KeyBytesFacts, SetkeyKeys
    <3>4. cmd' \in Cmds /\ cmd'.sk \in Keys /\ cmd'.name = "EncryptData"
      BY <2>1, <3>2, <3>3, NoCommandIsTyped DEF Cmds, Names
    <3>5. sealed' \in Sealings /\ sealed'.kind = "none"
      BY <2>1, <3>2, <3>3, NoCommandIsTyped DEF Sealings, NotSealed
    <3> QED  BY <1>2, <3>4, <3>5
  <2> QED  BY <2>1, <2>2, <2>3 DEF EncryptData
<1>4. CASE EncryptDataChunk
  <2>1. PICK wbuf \in Crypted(Zeros, Cb) : \E s \in CString(wbuf) :
          LET out == cmd.out \o s IN
          /\ cmd' = [cmd EXCEPT !.in = Drop(@, Cb), !.out = out, !.at = NextAt(Cb)]
          /\ sealed' = IF Eof(Cb)
                       THEN [sealed EXCEPT !.kind = "data", !.bytes = out, !.good = TRUE]
                       ELSE sealed
    BY <1>4 DEF EncryptDataChunk
  <2>2. PICK s \in CString(wbuf) :
          /\ cmd' = [cmd EXCEPT !.in = Drop(@, Cb), !.out = cmd.out \o s, !.at = NextAt(Cb)]
          /\ sealed' = IF Eof(Cb)
                       THEN [sealed EXCEPT !.kind = "data", !.bytes = cmd.out \o s, !.good = TRUE]
                       ELSE sealed
    BY <2>1
  <2>3. cmd.at = "loop" /\ cmd.name = "EncryptData"
    BY <1>4 DEF EncryptDataChunk, Reading
  <2>4. cmd.out \o s \in Seq(Word)
    <3>1. Zeros \in [1..Chunk -> Word]
      BY BuffersAreWords
    <3>2. wbuf \in [1..Chunk -> Word]
      BY <2>3, <3>1, ChunkFacts
    <3>3. s \in Seq(Word)
      BY <3>2, CStringIsText
    <3> QED  BY <1>0, <3>3 DEF Cmds
  <2>5. cmd' \in Cmds /\ cmd'.name = cmd.name /\ cmd'.sk = cmd.sk
    BY <1>0, <2>2, <2>4, ReadFacts DEF Cmds, NextAt
  <2>6. sealed' \in Sealings /\ (sealed'.kind = "file" => sealed.kind = "file")
    BY <1>0, <2>2, <2>4 DEF Sealings
  <2> QED  BY <1>2, <2>3, <2>5, <2>6 DEF Types
<1>5. CASE DevryptData
  <2>1. sealed' = sealed
    BY <1>5 DEF DevryptData
  <2>2. CASE cmd' = [NoCommand EXCEPT !.name = "DevryptData", !.at = "dropped"]
    <3>1. cmd' \in Cmds /\ cmd'.at = "dropped" /\ cmd'.name = "DevryptData"
      BY <2>2, NoCommandIsTyped DEF Cmds, Names
    <3> QED  BY <1>0, <1>2, <2>1, <3>1
  <2>3. CASE \E bytes \in KeyBytes(sealed.key) :
             cmd' = [NoCommand EXCEPT !.name = "DevryptData", !.at = "loop",
                        !.sk = sm4_setkey_dec(bytes), !.in = sealed.bytes]
    <3>1. PICK bytes \in KeyBytes(sealed.key) :
             cmd' = [NoCommand EXCEPT !.name = "DevryptData", !.at = "loop",
                        !.sk = sm4_setkey_dec(bytes), !.in = sealed.bytes]
      BY <2>3
    <3>2. /\ sealed.key \in RandomString(Len(sealed.key)) /\ Len(sealed.key) \in Nat
          /\ sealed.bytes \in Seq(Word)
      BY <1>0 DEF Sealings, RandomString
    <3>3. sm4_setkey_dec(bytes) \in Keys
      BY <3>2, KeyBytesFacts, SetkeyKeys
    <3>4. cmd' \in Cmds /\ cmd'.sk \in Keys /\ cmd'.name = "DevryptData"
      BY <3>1, <3>2, <3>3, NoCommandIsTyped DEF Cmds, Names
    <3> QED  BY <1>0, <1>2, <2>1, <3>4
  <2> QED  BY <1>5, <2>2, <2>3 DEF DevryptData
<1>6. CASE DevryptDataChunk
  <2>1. PICK wbuf \in Crypted(Zeros, Cb) :
          \E s \in IF Cb = 0 THEN {<<>>} ELSE CString(wbuf) :
             cmd' = [cmd EXCEPT !.in = Drop(@, Cb), !.out = @ \o s, !.at = NextAt(Cb)]
    BY <1>6 DEF DevryptDataChunk
  <2>2. PICK s \in IF Cb = 0 THEN {<<>>} ELSE CString(wbuf) :
             cmd' = [cmd EXCEPT !.in = Drop(@, Cb), !.out = @ \o s, !.at = NextAt(Cb)]
    BY <2>1
  <2>3. cmd.at = "loop" /\ cmd.name = "DevryptData" /\ sealed' = sealed
    BY <1>6 DEF DevryptDataChunk, Reading
  <2>4. s \in Seq(Word)
    <3>1. Zeros \in [1..Chunk -> Word]
      BY BuffersAreWords
    <3>2. wbuf \in [1..Chunk -> Word]
      BY <2>3, <3>1, ChunkFacts
    <3>3. CASE Cb = 0
      BY <3>3
    <3>4. CASE s \in CString(wbuf)
      BY <3>2, <3>4, CStringIsText
    <3> QED  BY <3>3, <3>4
  <2>5. cmd.out \o s \in Seq(Word)
    BY <1>0, <2>4 DEF Cmds
  <2>6. cmd' \in Cmds /\ cmd'.name = cmd.name /\ cmd'.sk = cmd.sk
    BY <1>0, <2>2, <2>5, ReadFacts DEF Cmds, NextAt
  <2> QED  BY <1>0, <1>2, <2>3, <2>6 DEF Types
<1> QED  BY <1>3, <1>4, <1>5, <1>6

LEMMA TypesInit == Init => Types
<1> SUFFICES ASSUME Init
             PROVE  Types
  OBVIOUS
<1>1. PICK text \in Texts : disk = OneFile(text)
  BY DEF Init
<1>2. disk \in [{"source"} -> Seq(Word)]
  BY <1>1, CommandsAssumption DEF CommandsAssumption, OneFile
<1>3. IsDisk(disk)
  BY <1>2 DEF IsDisk, Paths
<1> QED  BY <1>3, NoCommandIsTyped DEF Init, Types, NotSealed

LEMMA TypesStep == Types /\ [Next]_vars => Types'
<1> SUFFICES ASSUME Types, [Next]_vars
             PROVE  Types'
  OBVIOUS
<1>1. CASE EncryptFileRequestHandler \/ DecryptFileRequestHandler
  <2>1. {"source", "sealed", "opened"} \subseteq Paths
    BY DEF Paths
  <2> QED
    BY <1>1, <2>1, FileOpens DEF EncryptFileRequestHandler, DecryptFileRequestHandler
<1>2. CASE EncryptFileChunk \/ DecryptFileChunk
  BY <1>2, FileGoesOn
<1>3. CASE EncryptDataRequestHandler \/ EncryptDataChunk \/ DevryptData \/ DevryptDataChunk
  BY <1>3, DataIsTyped
<1>4. CASE ReadFails
  <2>1. cmd' \in Cmds /\ cmd'.at = "spinning"
    BY <1>4 DEF ReadFails, Types, Cmds
  <2> QED
    BY <1>4, <2>1 DEF ReadFails, Types
<1>5. CASE NextText
  <2>1. PICK text \in Texts : disk' = OneFile(text)
    BY <1>5 DEF NextText
  <2>2. disk' \in [{"source"} -> Seq(Word)]
    BY <2>1, CommandsAssumption DEF CommandsAssumption, OneFile
  <2>3. IsDisk(disk')
    BY <2>2 DEF IsDisk, Paths
  <2> QED  BY <1>5, <2>3, NoCommandIsTyped DEF NextText, Types, NotSealed
<1>6. CASE UNCHANGED vars
  BY <1>6 DEF vars, Types
<1> QED
  BY <1>1, <1>2, <1>3, <1>4, <1>5, <1>6 DEF Next, Run, DevryptDataRequestHandler

\* Every variable has its type, whatever the pages ask and whatever fails; of
\* the key that a page is answered with, each character is one of the table.
THEOREM TypeCorrect == Spec => []Types
<1>1. Init => Types  BY TypesInit
<1>2. Types /\ [Next]_vars => Types'  BY TypesStep
<1> QED  BY <1>1, <1>2, PTL DEF Spec

-----------------------------------------------------------------------------
(***************************************************************************)
(* Files.                                                                  *)
(***************************************************************************)

\* in is what is left of text when n words were read.
Rest(in, text, n) ==
    /\ n <= Len(text) /\ Len(in) = Len(text) - n
    /\ \A i \in 1..Len(in) : in[i] = text[n + i]

WholeChunks(n) == \E c \in 0..n : n = c * Chunk

\* Each block of s was made of a block that has the text's words.  What fills
\* it up behind the text is of no concern.
Ciphered(key, text, s) ==
    \A b \in 0..Len(s) : 4 * b < Len(s) /\ 4 * b < Len(text) =>
        \E x \in Block :
            /\ Blk(s, b) = sm4_one_round(sm4_setkey_enc(KeyOf(key)), x)
            /\ \A j \in 1..4 : 4 * b + j <= Len(text) => x[j] = text[4 * b + j]

Deciphered(key, in, s) ==
    \A b \in 0..Len(s) : 4 * b < Len(s) =>
        Blk(s, b) = sm4_one_round(sm4_setkey_dec(KeyOf(key)), Blk(in, b))

\* A page that has its text encrypted.
Encrypting ==
    cmd.name \in {"EncryptFile", "EncryptData"} /\ cmd.at = "loop" =>
        /\ sealed.kind = "none" /\ Len(sealed.key) = keysize
        /\ keysize >= 4 => cmd.sk = sm4_setkey_enc(KeyOf(sealed.key))

EncryptingFile ==
    cmd.name = "EncryptFile" /\ cmd.at = "loop" /\ ~cmd.failed =>
        LET s == disk[cmd.to] IN
        /\ WholeChunks(Len(s))
        /\ Rest(cmd.in, sealed.text, Len(s))
        /\ keysize >= 4 => Ciphered(sealed.key, sealed.text, s)

\* The sealed file, until it is opened to be written again.
SealedFile ==
    sealed.kind = "file" =>
        /\ Len(sealed.key) = keysize
        /\ sealed.good =>
              /\ Len(disk["sealed"]) = (Len(sealed.text) \div Chunk + 1) * Chunk
              /\ keysize >= 4 => Ciphered(sealed.key, sealed.text, disk["sealed"])

DecryptingFile ==
    cmd.name = "DecryptFile" /\ cmd.at \in {"loop", "done"} =>
        /\ cmd.to \in DOMAIN disk
        /\ \/ cmd.to = "sealed" /\ sealed.kind = "none"
           \/ cmd.to = "opened" /\ sealed.kind = "file"
        /\ cmd.to = "opened" /\ ~cmd.failed /\ sealed.good =>
              /\ WholeChunks(Len(disk["opened"]))
              /\ Rest(cmd.in, disk["sealed"], Len(disk["opened"]))
              /\ cmd.at = "done" => Len(cmd.in) = 0
              /\ keysize >= 4 =>
                    /\ cmd.sk = sm4_setkey_dec(KeyOf(sealed.key))
                    /\ Deciphered(sealed.key, disk["sealed"], disk["opened"])

FileInv == Types /\ Encrypting /\ EncryptingFile /\ SealedFile /\ DecryptingFile

\* Counting in chunks.
LEMMA ChunkSum ==
    ASSUME NEW n \in Nat, WholeChunks(n)
    PROVE  WholeChunks(n + Chunk) /\ \E k \in Nat : n = 4 * k
<1>1. PICK c \in 0..n : n = c * Chunk
  BY DEF WholeChunks
<1>2. Chunk \in Nat \ {0}
  BY ChunkIsBlocks
<1>3. n + Chunk = (c + 1) * Chunk /\ c + 1 \in 0..n + Chunk
  BY <1>1, <1>2
<1>4. n = 4 * (c * (Chunk \div 4)) /\ c * (Chunk \div 4) \in Nat
  <2> DEFINE q == Chunk \div 4
  <2>1. q \in Nat /\ Chunk = 4 * q
    BY ChunkIsBlocks
  <2> HIDE DEF q
  <2>2. c * (4 * q) = 4 * (c * q) /\ c * q \in Nat
    BY <2>1
  <2> QED  BY <1>1, <2>1, <2>2 DEF q
<1> QED  BY <1>3, <1>4 DEF WholeChunks

LEMMA ChunkCount ==
    ASSUME NEW n \in Nat, NEW m \in Nat, WholeChunks(n), n <= m, m < n + Chunk
    PROVE  n + Chunk = (m \div Chunk + 1) * Chunk
<1>1. PICK c \in 0..n : n = c * Chunk
  BY DEF WholeChunks
<1>2. Chunk \in Nat \ {0}
  BY ChunkIsBlocks
<1>3. m \div Chunk = c
  BY <1>1, <1>2
<1>4. (c + 1) * Chunk = c * Chunk + Chunk
  BY <1>2
<1> QED  BY <1>1, <1>3, <1>4

\* What is left, in whole chunks, is nothing or as much as a read takes.
LEMMA ChunkLeft ==
    ASSUME NEW n \in Nat, NEW m \in Nat, WholeChunks(n), WholeChunks(m), n <= m
    PROVE  n = m \/ n + Chunk <= m
<1>1. PICK c \in 0..n : n = c * Chunk
  BY DEF WholeChunks
<1>2. PICK d \in 0..m : m = d * Chunk
  BY DEF WholeChunks
<1>3. Chunk \in Nat \ {0}
  BY ChunkIsBlocks
<1>4. c <= d
  <2> SUFFICES ASSUME d + 1 <= c PROVE FALSE
    OBVIOUS
  <2>1. (d + 1) * Chunk <= c * Chunk
    BY <1>3, ProductMonotone
  <2>2. (d + 1) * Chunk = d * Chunk + Chunk
    BY <1>3
  <2> QED  BY <1>1, <1>2, <1>3, <2>1, <2>2
<1>5. CASE c = d
  BY <1>1, <1>2, <1>5
<1>6. CASE c + 1 <= d
  <2>1. (c + 1) * Chunk <= d * Chunk
    BY <1>3, <1>6, ProductMonotone
  <2>2. (c + 1) * Chunk = c * Chunk + Chunk
    BY <1>3
  <2> QED  BY <1>1, <1>2, <2>1, <2>2
<1> QED  BY <1>4, <1>5, <1>6

\* A chunk more.  rbuf holds the cb words that were read of in.
Buffered(rbuf, in, cb) ==
    /\ cb \in 0..Chunk /\ cb <= Len(in) /\ (cb < Chunk => cb = Len(in))
    /\ \A i \in 1..cb : rbuf[i] = in[i]

Made(sk, rbuf, cb, wbuf) ==
    \A d \in Nat : 4 * d < cb =>
        Blk(rbuf, d) \in Block /\ Blk(wbuf, d) = sm4_one_round(sk, Blk(rbuf, d))

LEMMA RestGoesOn ==
    ASSUME NEW text \in Seq(Word), NEW in \in Seq(Word), NEW left \in Seq(Word),
           NEW n \in Nat, NEW cb \in Nat, Rest(in, text, n),
           Len(left) = Len(in) - cb, \A i \in 1..Len(in) - cb : left[i] = in[cb + i],
           cb <= Len(in)
    PROVE  Rest(left, text, n + cb)
<1>1. n + cb <= Len(text) /\ Len(left) = Len(text) - (n + cb)
  BY DEF Rest
<1>2. ASSUME NEW i \in 1..Len(left) PROVE left[i] = text[n + cb + i]
  <2>1. left[i] = in[cb + i] /\ cb + i \in 1..Len(in)
    BY <1>1
  <2>2. in[cb + i] = text[n + (cb + i)]
    BY <2>1 DEF Rest
  <2> QED  BY <2>1, <2>2
<1> QED  BY <1>1, <1>2 DEF Rest

LEMMA CipheredGoesOn ==
    ASSUME NEW key, NEW text \in Seq(Word), NEW in \in Seq(Word), NEW s \in Seq(Word),
           NEW rbuf, NEW wbuf \in Seq(Word), NEW cb, Len(wbuf) = Chunk,
           WholeChunks(Len(s)), Rest(in, text, Len(s)), Buffered(rbuf, in, cb),
           Made(sm4_setkey_enc(KeyOf(key)), rbuf, cb, wbuf),
           Ciphered(key, text, s)
    PROVE  Ciphered(key, text, s \o wbuf)
<1> DEFINE t == s \o wbuf
           Sealed(b) == \E x \in Block :
               /\ Blk(t, b) = sm4_one_round(sm4_setkey_enc(KeyOf(key)), x)
               /\ \A j \in 1..4 : 4 * b + j <= Len(text) => x[j] = text[4 * b + j]
<1>1. PICK k \in Nat : Len(s) = 4 * k
  <2>1. Len(s) \in Nat
    OBVIOUS
  <2> QED  BY <2>1, ChunkSum
<1>2. Chunk \in Nat /\ Chunk % 4 = 0 /\ Len(t) = Len(s) + Chunk
  <2>1. Len(t) = Len(s) + Len(wbuf)
    BY LengthOfBoth
  <2> HIDE DEF t
  <2> QED  BY <2>1, ChunkIsBlocks
<1>3. ASSUME NEW b \in Nat, 4 * b < Len(t), 4 * b < Len(text)
      PROVE  Sealed(b)
  <2>1. CASE b < k
    <3>1. Blk(t, b) = Blk(s, b)
      BY <1>1, <2>1, BlocksOfBoth
    <3>2. b \in 0..Len(s) /\ 4 * b < Len(s)
      BY <1>1, <2>1
    <3> QED  BY <1>3, <3>1, <3>2 DEF Ciphered
  <2>2. CASE b >= k
    <3> DEFINE d == b - k
    <3>1. d \in Nat /\ 4 * d < Chunk /\ 4 * d + 4 <= Len(wbuf) /\ 4 * d < Len(in)
      <4>1. /\ Len(wbuf) = Chunk /\ Len(in) = Len(text) - Len(s) /\ Len(text) \in Nat
        BY DEF Rest
      <4> HIDE DEF t
      <4>2. 4 * b < 4 * k + Chunk
        BY <1>1, <1>2, <1>3
      <4>3. d \in Nat /\ 4 * d = 4 * b - 4 * k /\ 4 * d + 4 <= Chunk
        BY <1>2, <2>2, <4>2, BlockFits
      <4> HIDE DEF d
      <4> QED  BY <1>1, <1>2, <1>3, <4>1, <4>3
    <3>2. 4 * d < cb
      BY <3>1 DEF Buffered
    <3>3. Blk(t, b) = Blk(wbuf, d)
      BY <1>1, <2>2, <3>1, BlocksOfBoth
    <3>4. ASSUME NEW j \in 1..4, 4 * b + j <= Len(text)
          PROVE  Blk(rbuf, d)[j] = text[4 * b + j]
      <4>1. 4 * d + j \in 1..Len(in) /\ Len(s) + (4 * d + j) = 4 * b + j
        BY <1>1, <3>1, <3>4 DEF Rest
      <4>2. 4 * d + j \in 1..cb
        BY <1>2, <3>1, <4>1 DEF Buffered
      <4>3. Blk(rbuf, d)[j] = rbuf[4 * d + j]
        BY DEF Blk
      <4> HIDE DEF d
      <4>4. rbuf[4 * d + j] = in[4 * d + j]
        BY <4>2 DEF Buffered
      <4>5. in[4 * d + j] = text[Len(s) + (4 * d + j)]
        BY <4>1 DEF Rest
      <4> QED  BY <4>1, <4>3, <4>4, <4>5
    <3>5. /\ Blk(rbuf, d) \in Block
          /\ Blk(wbuf, d) = sm4_one_round(sm4_setkey_enc(KeyOf(key)), Blk(rbuf, d))
      BY <3>1, <3>2 DEF Made
    <3> HIDE DEF d
    <3> QED  BY <3>3, <3>4, <3>5
  <2> QED  BY <1>1, <2>1, <2>2
<1> HIDE DEF t
<1> QED  BY <1>3 DEF Ciphered, t

LEMMA DecipheredGoesOn ==
    ASSUME NEW key, NEW f \in Seq(Word), NEW in \in Seq(Word), NEW s \in Seq(Word),
           NEW rbuf, NEW wbuf \in Seq(Word), Len(wbuf) = Chunk,
           WholeChunks(Len(s)), Rest(in, f, Len(s)), Buffered(rbuf, in, Chunk),
           Made(sm4_setkey_dec(KeyOf(key)), rbuf, Chunk, wbuf),
           Deciphered(key, f, s)
    PROVE  Deciphered(key, f, s \o wbuf)
<1> DEFINE t == s \o wbuf
<1>1. PICK k \in Nat : Len(s) = 4 * k
  <2>1. Len(s) \in Nat
    OBVIOUS
  <2> QED  BY <2>1, ChunkSum
<1>2. Chunk \in Nat /\ Chunk % 4 = 0 /\ Len(t) = Len(s) + Chunk
  <2>1. Len(t) = Len(s) + Len(wbuf)
    BY LengthOfBoth
  <2> HIDE DEF t
  <2> QED  BY <2>1, ChunkIsBlocks
<1>3. ASSUME NEW b \in Nat, 4 * b < Len(t)
      PROVE  Blk(t, b) = sm4_one_round(sm4_setkey_dec(KeyOf(key)), Blk(f, b))
  <2>1. CASE b < k
    <3>1. Blk(t, b) = Blk(s, b)
      BY <1>1, <2>1, BlocksOfBoth
    <3>2. b \in 0..Len(s) /\ 4 * b < Len(s)
      BY <1>1, <2>1
    <3> QED  BY <1>3, <3>1, <3>2 DEF Deciphered
  <2>2. CASE b >= k
    <3> DEFINE d == b - k
    <3>1. d \in Nat /\ 4 * d + 4 <= Chunk
      <4> HIDE DEF t
      <4>1. 4 * b < 4 * k + Chunk
        BY <1>1, <1>2, <1>3
      <4> QED  BY <1>2, <2>2, <4>1, BlockFits
    <3>2. Blk(t, b) = Blk(wbuf, d)
      BY <1>1, <2>2, <3>1, BlocksOfBoth
    <3>3. ASSUME NEW j \in 1..4
          PROVE  rbuf[4 * d + j] = f[4 * b + j]
      <4>1. 4 * d + j \in 1..Chunk /\ Len(s) + (4 * d + j) = 4 * b + j
        BY <1>1, <1>2, <3>1
      <4>2. 4 * d + j \in 1..Len(in)
        BY <1>2, <4>1 DEF Buffered
      <4> HIDE DEF d
      <4>3. rbuf[4 * d + j] = in[4 * d + j]
        BY <4>1 DEF Buffered
      <4>4. in[4 * d + j] = f[Len(s) + (4 * d + j)]
        BY <4>2 DEF Rest
      <4> QED  BY <4>1, <4>3, <4>4
    <3>4. Blk(rbuf, d) = Blk(f, b)
      BY <3>3 DEF Blk
    <3>5. 4 * d < Chunk
      BY <1>2, <3>1
    <3> HIDE DEF d
    <3> QED  BY <3>1, <3>2, <3>4, <3>5 DEF Made
  <2> QED  BY <1>1, <2>1, <2>2
<1> HIDE DEF t
<1> QED  BY <1>3 DEF Deciphered, t

\* What was ciphered and deciphered is the text.
LEMMA CipheredComesBack ==
    ASSUME NEW key, KeyOf(key) \in Block, NEW text \in Seq(Word),
           NEW f \in Seq(Word), NEW s \in Seq(Word),
           Ciphered(key, text, f), Deciphered(key, f, s),
           Len(text) <= Len(f), Len(text) <= Len(s)
    PROVE  SubSeq(s, 1, Len(text)) = text
<1>1. ASSUME NEW i \in 1..Len(text) PROVE s[i] = text[i]
  <2> DEFINE b == (i - 1) \div 4
             j == ((i - 1) % 4) + 1
  <2>1. b \in Nat /\ j \in 1..4 /\ i = 4 * b + j /\ 4 * b < Len(text)
    OBVIOUS
  <2> HIDE DEF b, j
  <2>2. b \in 0..Len(f) /\ b \in 0..Len(s) /\ 4 * b < Len(f) /\ 4 * b < Len(s)
    BY <2>1
  <2>3. PICK x \in Block :
            /\ Blk(f, b) = sm4_one_round(sm4_setkey_enc(KeyOf(key)), x)
            /\ \A l \in 1..4 : 4 * b + l <= Len(text) => x[l] = text[4 * b + l]
    BY <2>1, <2>2 DEF Ciphered
  <2>4. Blk(s, b) = sm4_one_round(sm4_setkey_dec(KeyOf(key)), Blk(f, b))
    BY <2>2 DEF Deciphered
  <2>5. Blk(s, b) = x
    BY <2>3, <2>4, DecryptionInverts DEF BlockComesBack
  <2>6. Blk(s, b)[j] = s[4 * b + j]
    BY <2>1 DEF Blk
  <2>7. x[j] = text[4 * b + j]
    <3>1. 4 * b + j <= Len(text)
      BY <2>1
    <3> QED  BY <2>1, <2>3, <3>1
  <2> QED  BY <2>1, <2>5, <2>6, <2>7
<1> QED  BY <1>1

FileParts == Encrypting /\ EncryptingFile /\ SealedFile /\ DecryptingFile

LEMMA NothingYet ==
    ASSUME NEW in \in Seq(Word)
    PROVE  /\ WholeChunks(Len(<<>>)) /\ Rest(in, in, Len(<<>>))
           /\ \A key, text, f : Ciphered(key, text, <<>>) /\ Deciphered(key, f, <<>>)
<1>1. WholeChunks(0)
  BY ChunkIsBlocks DEF WholeChunks
<1>2. Rest(in, in, 0)
  BY DEF Rest
<1> QED  BY <1>1, <1>2 DEF Ciphered, Deciphered

LEMMA FileStarts ==
    ASSUME Types, FileParts, EncryptFileRequestHandler
    PROVE  FileParts'
<1>1. PICK to \in {"source", "sealed"} : EncryptFile(to)
  BY DEF EncryptFileRequestHandler
<1>2. sealed.kind = "none" /\ keysize \in Nat /\ to \in Paths
  BY CommandsAssumption DEF CommandsAssumption, EncryptFileRequestHandler, Unsealed, Types, Paths
<1>3. keysize' = keysize /\ disk' = Truncated(to)
  BY <1>1 DEF EncryptFile
<1>4. CASE /\ cmd' = [NoCommand EXCEPT !.name = "EncryptFile", !.at = "dropped"]
           /\ sealed' = IF to = "sealed" THEN NotSealed ELSE sealed
  <2>1. cmd'.at = "dropped" /\ sealed'.kind = "none"
    BY <1>2, <1>4 DEF NoCommand, NotSealed
  <2> QED
    BY <2>1 DEF FileParts, Encrypting, EncryptingFile, SealedFile, DecryptingFile
<1>5. CASE \E key \in RandomString(keysize) : \E bytes \in KeyBytes(key) :
           /\ cmd' = [NoCommand EXCEPT !.name = "EncryptFile", !.to = to, !.at = "loop",
                         !.sk = sm4_setkey_enc(bytes), !.in = Truncated(to)["source"]]
           /\ sealed' = [NotSealed EXCEPT !.key = key, !.text = Truncated(to)["source"]]
  <2> DEFINE text == Truncated(to)["source"]
  <2>1. PICK key \in RandomString(keysize) : \E bytes \in KeyBytes(key) :
           /\ cmd' = [NoCommand EXCEPT !.name = "EncryptFile", !.to = to, !.at = "loop",
                         !.sk = sm4_setkey_enc(bytes), !.in = text]
           /\ sealed' = [NotSealed EXCEPT !.key = key, !.text = text]
    BY <1>5
  <2>2. PICK bytes \in KeyBytes(key) :
           /\ cmd' = [NoCommand EXCEPT !.name = "EncryptFile", !.to = to, !.at = "loop",
                         !.sk = sm4_setkey_enc(bytes), !.in = text]
           /\ sealed' = [NotSealed EXCEPT !.key = key, !.text = text]
    BY <2>1
  <2>3. Len(key) = keysize /\ (keysize >= 4 => bytes = KeyOf(key))
    BY <1>2, KeyBytesFacts
  <2>4. text \in Seq(Word) /\ disk'[to] = <<>>
    BY <1>2, <1>3, DiskFacts DEF Types, IsDisk
  <2> HIDE DEF text
  <2>5. /\ cmd'.name = "EncryptFile" /\ cmd'.to = to /\ cmd'.in = text
        /\ cmd'.sk = sm4_setkey_enc(bytes)
        /\ sealed'.kind = "none" /\ sealed'.key = key /\ sealed'.text = text
    BY <2>2 DEF NoCommand, NotSealed
  <2>6. Encrypting'
    BY <1>3, <2>3, <2>5 DEF Encrypting
  <2>7. EncryptingFile'
    BY <2>4, <2>5, NothingYet DEF EncryptingFile
  <2> QED
    BY <2>5, <2>6, <2>7 DEF FileParts, SealedFile, DecryptingFile
<1> QED  BY <1>1, <1>4, <1>5 DEF EncryptFile

\* The buffer of a read, as a chunk more.
LEMMA ChunkIsMade ==
    ASSUME Types, cmd.at = "loop", NEW buf \in [1..Chunk -> Word], NEW wbuf \in Crypted(buf, Cb)
    PROVE  /\ Buffered(Filled(buf, Cb), cmd.in, Cb)
           /\ Made(cmd.sk, Filled(buf, Cb), Cb, wbuf)
           /\ wbuf \in Seq(Word) /\ Len(wbuf) = Chunk
<1>1. cmd.in \in Seq(Word)
  BY DEF Types, Cmds
<1>2. Cb \in 0..Chunk /\ Cb <= Len(cmd.in) /\ (Cb < Chunk => Cb = Len(cmd.in))
  BY <1>1, ReadFacts
<1>3. \A i \in 1..Cb : Filled(buf, Cb)[i] = cmd.in[i]
  BY <1>2, ChunkIsBlocks DEF Filled
<1>4. Made(cmd.sk, Filled(buf, Cb), Cb, wbuf) /\ wbuf \in Seq(Word) /\ Len(wbuf) = Chunk
  BY ChunkFacts DEF Made
<1> QED  BY <1>2, <1>3, <1>4 DEF Buffered

LEMMA FileIsCiphered ==
    ASSUME Types, FileParts, EncryptFileChunk
    PROVE  FileParts'
<1>1. PICK wbuf \in Crypted(Comment, Cb), failed \in {cmd.failed, TRUE} :
          /\ disk' = IF failed THEN disk ELSE [disk EXCEPT ![cmd.to] = @ \o wbuf]
          /\ cmd' = [cmd EXCEPT !.in = Drop(@, Cb), !.failed = failed, !.at = NextAt(Cb)]
          /\ sealed' = IF Eof(Cb) /\ cmd.to = "sealed"
                       THEN [sealed EXCEPT !.kind = "file", !.good = ~failed]
                       ELSE sealed
  BY DEF EncryptFileChunk
<1>2. /\ cmd.at = "loop" /\ cmd.name = "EncryptFile" /\ cmd \in Cmds /\ sealed \in Sealings
      /\ cmd.to \in DOMAIN disk /\ cmd.to \in Paths /\ disk[cmd.to] \in Seq(Word)
      /\ cmd.in \in Seq(Word) /\ sealed.text \in Seq(Word) /\ cmd.failed \in BOOLEAN
  BY DEF Types, IsDisk, EncryptFileChunk, Reading, Cmds, Sealings
<1>3. /\ sealed.kind = "none" /\ Len(sealed.key) = keysize
      /\ keysize >= 4 => cmd.sk = sm4_setkey_enc(KeyOf(sealed.key))
  BY <1>2 DEF FileParts, Encrypting
<1>4. /\ Buffered(Filled(Comment, Cb), cmd.in, Cb)
      /\ Made(cmd.sk, Filled(Comment, Cb), Cb, wbuf) /\ wbuf \in Seq(Word) /\ Len(wbuf) = Chunk
  BY <1>2, ChunkIsMade, BuffersAreWords
<1>5. /\ cmd'.name = cmd.name /\ cmd'.to = cmd.to /\ cmd'.sk = cmd.sk
      /\ cmd'.in = Drop(cmd.in, Cb) /\ cmd'.failed = failed /\ cmd'.at = NextAt(Cb)
      /\ sealed'.text = sealed.text /\ sealed'.key = sealed.key /\ keysize' = keysize
  BY <1>1, <1>2 DEF Cmds, Sealings, EncryptFileChunk
<1>6. /\ Cb \in 0..Chunk /\ Cb <= Len(cmd.in) /\ (Cb < Chunk => Cb = Len(cmd.in))
      /\ Drop(cmd.in, Cb) \in Seq(Word) /\ Len(Drop(cmd.in, Cb)) = Len(cmd.in) - Cb
      /\ \A i \in 1..Len(cmd.in) - Cb : Drop(cmd.in, Cb)[i] = cmd.in[Cb + i]
  BY <1>2, ReadFacts
<1> DEFINE s == disk[cmd.to]
           t == s \o wbuf
<1>7. ASSUME ~failed
      PROVE  /\ ~cmd.failed /\ disk'[cmd.to] = t
             /\ WholeChunks(Len(s)) /\ Rest(cmd.in, sealed.text, Len(s))
             /\ keysize >= 4 => Ciphered(sealed.key, sealed.text, t)
             /\ t \in Seq(Word) /\ Len(t) = Len(s) + Chunk /\ Len(s) \in Nat
  <2>1. ~cmd.failed
    BY <1>2, <1>7
  <2>2. disk'[cmd.to] = t
    BY <1>1, <1>2, <1>4, <1>7, DiskFacts DEF Types
  <2>3. /\ WholeChunks(Len(s)) /\ Rest(cmd.in, sealed.text, Len(s))
        /\ keysize >= 4 => Ciphered(sealed.key, sealed.text, s)
    BY <1>2, <2>1 DEF FileParts, EncryptingFile
  <2>4. keysize >= 4 => Ciphered(sealed.key, sealed.text, t)
    BY <1>2, <1>3, <1>4, <2>3, CipheredGoesOn
  <2>5. t \in Seq(Word) /\ Len(t) = Len(s) + Chunk /\ Len(s) \in Nat
    <3>1. s \in Seq(Word) /\ Len(s) \in Nat
      BY <1>2
    <3> HIDE DEF s
    <3> QED  BY <1>4, <3>1, LengthOfBoth
  <2> QED  BY <2>1, <2>2, <2>3, <2>4, <2>5
<1> HIDE DEF t, s
<1>8. CASE ~Eof(Cb)
  <2>1. Cb = Chunk /\ cmd'.at = "loop" /\ sealed' = sealed /\ Cb \in Nat
    BY <1>1, <1>5, <1>6, <1>8, ChunkIsBlocks DEF Eof, NextAt
  <2>2. ASSUME ~failed PROVE WholeChunks(Len(t)) /\ Rest(cmd'.in, sealed.text, Len(t))
    <3>1. Rest(cmd'.in, sealed.text, Len(s) + Cb)
      BY <1>2, <1>5, <1>6, <1>7, <2>1, <2>2, RestGoesOn
    <3> QED  BY <1>7, <2>1, <2>2, <3>1, ChunkSum
  <2>3. EncryptingFile'
    BY <1>5, <1>7, <2>1, <2>2 DEF EncryptingFile
  <2>4. Encrypting'
    BY <1>3, <1>5, <2>1 DEF Encrypting
  <2> QED
    BY <1>2, <1>3, <1>5, <2>1, <2>3, <2>4 DEF FileParts, SealedFile, DecryptingFile
<1>9. CASE Eof(Cb)
  <2>1. cmd'.at = "done" /\ Cb < Chunk /\ Len(cmd.in) < Chunk
    BY <1>5, <1>6, <1>9 DEF Eof, NextAt
  <2>2. ASSUME sealed'.kind = "file"
        PROVE  /\ Len(sealed'.key) = keysize'
               /\ sealed'.good =>
                    /\ Len(disk'["sealed"]) = (Len(sealed'.text) \div Chunk + 1) * Chunk
                    /\ keysize' >= 4 => Ciphered(sealed'.key, sealed'.text, disk'["sealed"])
    <3>1. cmd.to = "sealed" /\ sealed'.good = ~failed
      BY <1>1, <1>2, <1>3, <2>2 DEF Sealings
    <3>2. ASSUME ~failed PROVE Len(t) = (Len(sealed.text) \div Chunk + 1) * Chunk
      <4>1. /\ Len(s) <= Len(sealed.text) /\ Len(cmd.in) = Len(sealed.text) - Len(s)
            /\ Len(sealed.text) \in Nat
        BY <1>2, <1>7, <3>2 DEF Rest
      <4>2. Len(sealed.text) < Len(s) + Chunk
        BY <1>7, <2>1, <3>2, <4>1, ChunkIsBlocks
      <4> QED  BY <1>7, <3>2, <4>1, <4>2, ChunkCount
    <3> QED  BY <1>3, <1>5, <1>7, <3>1, <3>2
  <2>3. SealedFile'
    BY <2>2 DEF SealedFile
  <2> QED
    BY <1>2, <1>5, <2>1, <2>3 DEF FileParts, Encrypting, EncryptingFile, DecryptingFile
<1> QED  BY <1>8, <1>9

LEMMA FileOpensAgain ==
    ASSUME Types, FileParts, DecryptFileRequestHandler
    PROVE  FileParts'
<1>1. PICK to \in {"sealed", "opened"} : DecryptFile(to)
  BY DEF DecryptFileRequestHandler
<1>2. /\ sealed.kind = "file" /\ "sealed" \in DOMAIN disk /\ to \in Paths /\ sealed \in Sealings
      /\ disk["sealed"] \in Seq(Word) /\ Len(sealed.key) = keysize /\ keysize \in Nat
  BY <1>1, CommandsAssumption
  DEF CommandsAssumption, DecryptFile, Types, IsDisk, Paths, FileParts, SealedFile
<1>3. PICK bytes \in KeyBytes(sealed.key) :
          /\ disk' = Truncated(to)
          /\ cmd' = [NoCommand EXCEPT !.name = "DecryptFile", !.to = to, !.at = "loop",
                        !.sk = sm4_setkey_dec(bytes), !.in = Truncated(to)["sealed"]]
  BY <1>1 DEF DecryptFile
<1>4. /\ cmd'.name = "DecryptFile" /\ cmd'.to = to /\ cmd'.at = "loop"
      /\ cmd'.sk = sm4_setkey_dec(bytes) /\ cmd'.in = Truncated(to)["sealed"]
      /\ keysize' = keysize /\ to \in DOMAIN disk' /\ disk'[to] = <<>>
  BY <1>1, <1>2, <1>3, DiskFacts DEF NoCommand, DecryptFile, Types
<1>5. Encrypting' /\ EncryptingFile'
  BY <1>4 DEF Encrypting, EncryptingFile
<1>6. CASE to = "sealed"
  <2>1. sealed'.kind = "none"
    BY <1>1, <1>6 DEF DecryptFile, NotSealed
  <2> QED
    BY <1>4, <1>5, <1>6, <2>1 DEF FileParts, SealedFile, DecryptingFile
<1>7. CASE to = "opened"
  <2>1. sealed' = sealed /\ disk'["sealed"] = disk["sealed"] /\ cmd'.in = disk["sealed"]
    BY <1>1, <1>2, <1>3, <1>4, <1>7, DiskFacts DEF DecryptFile, Types
  <2>2. SealedFile'
    BY <1>4, <2>1 DEF FileParts, SealedFile
  <2>3. keysize >= 4 => bytes = KeyOf(sealed.key)
    <3>1. sealed.key \in RandomString(keysize)
      BY <1>2 DEF Sealings, RandomString
    <3> QED  BY <1>2, <3>1, KeyBytesFacts
  <2>4. DecryptingFile'
    BY <1>2, <1>4, <1>7, <2>1, <2>3, NothingYet DEF DecryptingFile
  <2> QED  BY <1>5, <2>2, <2>4 DEF FileParts
<1> QED  BY <1>6, <1>7

LEMMA FileIsDeciphered ==
    ASSUME Types, FileParts, DecryptFileChunk
    PROVE  FileParts'
<1>1. PICK wbuf \in Crypted(Zeros, Cb), failed \in {cmd.failed, Cb > 0} :
          /\ disk' = IF failed THEN disk
                     ELSE [disk EXCEPT ![cmd.to] = @ \o SubSeq(wbuf, 1, Cb)]
          /\ cmd' = [cmd EXCEPT !.in = Drop(@, Cb), !.failed = @ \/ failed, !.at = NextAt(Cb)]
  BY DEF DecryptFileChunk
<1>2. /\ cmd.at = "loop" /\ cmd.name = "DecryptFile" /\ cmd \in Cmds /\ sealed \in Sealings
      /\ cmd.to \in DOMAIN disk /\ cmd.to \in Paths /\ disk[cmd.to] \in Seq(Word)
      /\ cmd.in \in Seq(Word) /\ sealed' = sealed /\ keysize' = keysize
      /\ sealed.kind = "file" => "sealed" \in DOMAIN disk /\ disk["sealed"] \in Seq(Word)
  BY DEF Types, IsDisk, DecryptFileChunk, Reading, Cmds
<1>3. \/ cmd.to = "sealed" /\ sealed.kind = "none"
      \/ cmd.to = "opened" /\ sealed.kind = "file"
  BY <1>2 DEF FileParts, DecryptingFile
<1>4. /\ Buffered(Filled(Zeros, Cb), cmd.in, Cb)
      /\ Made(cmd.sk, Filled(Zeros, Cb), Cb, wbuf) /\ wbuf \in Seq(Word) /\ Len(wbuf) = Chunk
  BY <1>2, ChunkIsMade, BuffersAreWords
<1>5. /\ cmd'.name = cmd.name /\ cmd'.to = cmd.to /\ cmd'.sk = cmd.sk
      /\ cmd'.in = Drop(cmd.in, Cb) /\ cmd'.failed = (cmd.failed \/ failed)
      /\ cmd'.at = NextAt(Cb)
  BY <1>1, <1>2 DEF Cmds
<1>6. /\ Cb \in 0..Chunk /\ Cb <= Len(cmd.in) /\ (Cb < Chunk => Cb = Len(cmd.in))
      /\ Drop(cmd.in, Cb) \in Seq(Word) /\ Len(Drop(cmd.in, Cb)) = Len(cmd.in) - Cb
      /\ \A i \in 1..Len(cmd.in) - Cb : Drop(cmd.in, Cb)[i] = cmd.in[Cb + i]
  BY <1>2, ReadFacts
<1>7. Encrypting' /\ EncryptingFile'
  BY <1>2, <1>5 DEF Encrypting, EncryptingFile
<1> DEFINE piece == SubSeq(wbuf, 1, Cb)
<1>8. /\ piece \in Seq(Word) /\ Len(piece) = Cb /\ (Cb = 0 => piece = <<>>)
      /\ Cb = Chunk => piece = wbuf
  BY <1>4, <1>6
<1>9. /\ DOMAIN disk' = DOMAIN disk
      /\ \A path \in DOMAIN disk : path # cmd.to => disk'[path] = disk[path]
      /\ ~failed => disk'[cmd.to] = disk[cmd.to] \o piece
  <2> HIDE DEF piece
  <2>1. CASE failed
    BY <1>1, <2>1
  <2>2. CASE ~failed
    <3>1. disk' = [disk EXCEPT ![cmd.to] = @ \o piece]
      BY <1>1, <2>2 DEF piece
    <3> QED  BY <1>2, <1>8, <3>1, DiskFacts DEF Types
  <2> QED  BY <2>1, <2>2
<1> HIDE DEF piece
<1>10. CASE cmd.to = "sealed" /\ sealed.kind = "none"
  BY <1>2, <1>5, <1>7, <1>9, <1>10 DEF FileParts, SealedFile, DecryptingFile
<1>11. CASE cmd.to = "opened" /\ sealed.kind = "file"
  <2>1. disk'["sealed"] = disk["sealed"] /\ SealedFile'
    BY <1>2, <1>9, <1>11 DEF FileParts, SealedFile
  <2> DEFINE s == disk["opened"]
             f == disk["sealed"]
  <2>2. ASSUME ~cmd'.failed, sealed.good
        PROVE  /\ WholeChunks(Len(disk'["opened"]))
               /\ Rest(cmd'.in, f, Len(disk'["opened"]))
               /\ cmd'.at = "done" => Len(cmd'.in) = 0
               /\ keysize >= 4 => /\ cmd'.sk = sm4_setkey_dec(KeyOf(sealed.key))
                                  /\ Deciphered(sealed.key, f, disk'["opened"])
    <3>1. ~cmd.failed /\ ~failed
      BY <1>5, <2>2
    <3>2. disk'["opened"] = s \o piece /\ s \in Seq(Word) /\ f \in Seq(Word)
      BY <1>2, <1>9, <1>11, <3>1
    <3>3. /\ WholeChunks(Len(s)) /\ Rest(cmd.in, f, Len(s))
          /\ keysize >= 4 => /\ cmd.sk = sm4_setkey_dec(KeyOf(sealed.key))
                             /\ Deciphered(sealed.key, f, s)
      BY <1>2, <1>11, <2>2, <3>1 DEF FileParts, DecryptingFile
    <3>4. WholeChunks(Len(f))
      <4> DEFINE c == Len(sealed.text) \div Chunk + 1
      <4>1. Len(f) = c * Chunk
        BY <1>11, <2>2 DEF FileParts, SealedFile
      <4>2. c \in Nat /\ Chunk \in Nat \ {0}
        BY <1>2, ChunkIsBlocks DEF Sealings
      <4> HIDE DEF c
      <4>3. c * Chunk >= c
        <5>1. c * 1 <= c * Chunk
          BY <4>2, ProductMonotone
        <5> QED  BY <4>2, <5>1
      <4> QED  BY <4>1, <4>2, <4>3 DEF WholeChunks
    <3>5. Len(s) \in Nat /\ Len(f) \in Nat /\ Len(s) <= Len(f) /\ Len(cmd.in) = Len(f) - Len(s)
      BY <3>2, <3>3 DEF Rest
    <3> HIDE DEF s, f
    <3>6. Len(cmd.in) = 0 \/ Len(cmd.in) >= Chunk
      BY <3>3, <3>4, <3>5, ChunkLeft, ChunkIsBlocks
    <3>7. CASE Cb = 0
      <4>1. disk'["opened"] = s
        BY <1>8, <3>2, <3>7
      <4>2. Len(s) + Cb = Len(s) /\ Cb \in Nat
        BY <3>5, <3>7
      <4>3. Rest(cmd'.in, f, Len(s) + Cb)
        BY <1>2, <1>5, <1>6, <3>2, <3>3, <3>5, <4>2, RestGoesOn
      <4>4. Len(cmd.in) = 0 /\ Len(cmd'.in) = 0
        BY <1>5, <1>6, <3>5, <3>7, ChunkIsBlocks
      <4> QED  BY <1>5, <3>3, <4>1, <4>2, <4>3, <4>4
    <3>8. CASE Cb # 0
      <4>1. Cb = Chunk /\ piece = wbuf
        BY <1>6, <1>8, <3>6, <3>8, ChunkIsBlocks
      <4>2. Len(disk'["opened"]) = Len(s) + Chunk /\ disk'["opened"] = s \o wbuf
        BY <1>4, <3>2, <4>1, LengthOfBoth
      <4>3. WholeChunks(Len(s) + Chunk)
        BY <3>3, <3>5, ChunkSum
      <4>4. Rest(cmd'.in, f, Len(s) + Chunk)
        BY <1>2, <1>5, <1>6, <3>2, <3>3, <3>5, <4>1, ChunkIsBlocks, RestGoesOn
      <4>5. cmd'.at = "loop"
        BY <1>5, <4>1, ChunkIsBlocks DEF NextAt, Eof
      <4>6. keysize >= 4 => Deciphered(sealed.key, f, s \o wbuf)
        BY <1>2, <1>4, <3>2, <3>3, <4>1, DecipheredGoesOn
      <4> QED  BY <1>5, <3>3, <4>2, <4>3, <4>4, <4>5, <4>6
    <3> QED  BY <3>7, <3>8
  <2>3. DecryptingFile'
    BY <1>2, <1>5, <1>9, <1>11, <2>1, <2>2 DEF DecryptingFile
  <2> QED  BY <1>7, <2>1, <2>3 DEF FileParts
<1> QED  BY <1>3, <1>10, <1>11

\* What has nothing to do with files leaves the sealed one as it was.
LEMMA FileIsLeft ==
    ASSUME Types, FileParts,
           \/ ReadFails \/ EncryptDataRequestHandler \/ EncryptDataChunk
           \/ DevryptData \/ DevryptDataChunk \/ NextText \/ UNCHANGED vars
    PROVE  FileParts'
<1>0. cmd \in Cmds /\ sealed \in Sealings /\ keysize \in Nat
  BY CommandsAssumption DEF CommandsAssumption, Types
<1>1. CASE ReadFails
  <2>1. cmd'.at = "spinning"
    BY <1>0, <1>1 DEF ReadFails, Cmds
  <2> QED
    BY <1>1, <2>1
    DEF ReadFails, FileParts, Encrypting, EncryptingFile, SealedFile, DecryptingFile
<1>2. CASE EncryptDataRequestHandler
  <2> DEFINE text == disk["source"]
  <2>1. EncryptData(text) /\ sealed.kind = "none" /\ keysize' = keysize
    BY <1>2 DEF EncryptDataRequestHandler, EncryptData, Unsealed
  <2> HIDE DEF text
  <2>2. CASE cmd' = [NoCommand EXCEPT !.name = "EncryptData", !.at = "dropped"] /\ sealed' = sealed
    <3>1. cmd'.at = "dropped"
      BY <2>2 DEF NoCommand
    <3> QED
      BY <2>1, <2>2, <3>1 DEF FileParts, Encrypting, EncryptingFile, SealedFile, DecryptingFile
  <2>3. CASE \E key \in RandomString(keysize) : \E bytes \in KeyBytes(key) :
             /\ cmd' = [NoCommand EXCEPT !.name = "EncryptData", !.at = "loop",
                           !.sk = sm4_setkey_enc(bytes), !.in = text]
             /\ sealed' = [NotSealed EXCEPT !.key = key, !.text = text]
    <3>1. PICK key \in RandomString(keysize) : \E bytes \in KeyBytes(key) :
             /\ cmd' = [NoCommand EXCEPT !.name = "EncryptData", !.at = "loop",
                           !.sk = sm4_setkey_enc(bytes), !.in = text]
             /\ sealed' = [NotSealed EXCEPT !.key = key, !.text = text]
      BY <2>3
    <3>2. PICK bytes \in KeyBytes(key) :
             /\ cmd' = [NoCommand EXCEPT !.name = "EncryptData", !.at = "loop",
                           !.sk = sm4_setkey_enc(bytes), !.in = text]
             /\ sealed' = [NotSealed EXCEPT !.key = key, !.text = text]
      BY <3>1
    <3>3. Len(key) = keysize /\ (keysize >= 4 => bytes = KeyOf(key))
      BY <1>0, KeyBytesFacts
    <3>4. /\ cmd'.name = "EncryptData" /\ cmd'.sk = sm4_setkey_enc(bytes)
          /\ sealed'.kind = "none" /\ sealed'.key = key
      BY <3>2 DEF NoCommand, NotSealed
    <3>5. Encrypting'
      BY <2>1, <3>3, <3>4 DEF Encrypting
    <3> QED
      BY <3>4, <3>5 DEF FileParts, EncryptingFile, SealedFile, DecryptingFile
  <2> QED  BY <2>1, <2>2, <2>3 DEF EncryptData
<1>3. CASE EncryptDataChunk
  <2>1. PICK wbuf \in Crypted(Zeros, Cb) : \E s \in CString(wbuf) :
          /\ cmd' = [cmd EXCEPT !.in = Drop(@, Cb), !.out = cmd.out \o s, !.at = NextAt(Cb)]
          /\ sealed' = IF Eof(Cb)
                       THEN [sealed EXCEPT !.kind = "data", !.bytes = cmd.out \o s, !.good = TRUE]
                       ELSE sealed
    BY <1>3 DEF EncryptDataChunk
  <2>2. /\ cmd'.name = "EncryptData" /\ cmd'.sk = cmd.sk /\ cmd'.at = NextAt(Cb)
        /\ cmd.at = "loop" /\ cmd.name = "EncryptData" /\ keysize' = keysize
    BY <1>0, <1>3, <2>1 DEF EncryptDataChunk, Reading, Cmds
  <2>3. /\ sealed.kind = "none" /\ Len(sealed.key) = keysize
        /\ keysize >= 4 => cmd.sk = sm4_setkey_enc(KeyOf(sealed.key))
    BY <2>2 DEF FileParts, Encrypting
  <2>4. sealed'.kind # "file"
    BY <1>0, <2>1, <2>3 DEF Sealings
  <2>5. cmd'.at = "loop" => sealed' = sealed
    BY <2>1, <2>2 DEF NextAt
  <2> QED
    BY <2>2, <2>3, <2>4, <2>5 DEF FileParts, Encrypting, EncryptingFile, SealedFile, DecryptingFile
<1>4. CASE DevryptData
  <2>1. cmd'.name = "DevryptData"
    BY <1>4 DEF DevryptData, NoCommand
  <2> QED
    BY <1>4, <2>1
    DEF DevryptData, FileParts, Encrypting, EncryptingFile, SealedFile, DecryptingFile
<1>5. CASE DevryptDataChunk
  <2>1. cmd'.name = "DevryptData"
    BY <1>0, <1>5 DEF DevryptDataChunk, Reading, Cmds
  <2> QED
    BY <1>5, <2>1
    DEF DevryptDataChunk, FileParts, Encrypting, EncryptingFile, SealedFile, DecryptingFile
<1>6. CASE NextText
  <2>1. cmd'.name = "none" /\ sealed'.kind = "none"
    BY <1>6 DEF NextText, NoCommand, NotSealed
  <2> QED
    BY <2>1 DEF FileParts, Encrypting, EncryptingFile, SealedFile, DecryptingFile
<1>7. CASE UNCHANGED vars
  BY <1>7 DEF vars, FileParts, Encrypting, EncryptingFile, SealedFile, DecryptingFile
<1> QED  BY <1>1, <1>2, <1>3, <1>4, <1>5, <1>6, <1>7

LEMMA FileInit == Init => FileInv
<1> SUFFICES ASSUME Init
             PROVE  FileInv
  OBVIOUS
<1>1. cmd.name = "none" /\ sealed.kind = "none"
  BY DEF Init, NoCommand, NotSealed
<1> QED
  BY <1>1, TypesInit DEF FileInv, Encrypting, EncryptingFile, SealedFile, DecryptingFile

LEMMA FileStep == FileInv /\ [Next]_vars => FileInv'
<1> SUFFICES ASSUME FileInv, [Next]_vars
             PROVE  FileInv'
  OBVIOUS
<1>1. Types /\ FileParts /\ Types'
  BY TypesStep DEF FileInv, FileParts
<1>2. FileParts'
  BY <1>1, FileStarts, FileIsCiphered, FileOpensAgain, FileIsDeciphered, FileIsLeft
  DEF Next, Run, DevryptDataRequestHandler
<1> QED  BY <1>1, <1>2 DEF FileInv, FileParts

LEMMA FileHolds == Spec => []FileInv
<1>1. Init => FileInv  BY FileInit
<1>2. FileInv /\ [Next]_vars => FileInv'  BY FileStep
<1> QED  BY <1>1, <1>2, PTL DEF Spec

\* A key that is long enough is the key of a block.
LEMMA KeyIsBlock ==
    ASSUME Types, Len(sealed.key) = keysize, keysize >= 4
    PROVE  KeyOf(sealed.key) \in Block
<1>1. sealed.key \in Seq(KeyChars) /\ KeyChars \subseteq Word /\ keysize \in Nat
  BY CommandsAssumption DEF CommandsAssumption, Types, Sealings
<1>2. \A i \in 1..4 : sealed.key[i] \in Word
  BY <1>1
<1> QED  BY <1>2 DEF KeyOf, Block

\* RS_DecryptFile gives back what RS_EncryptFile was given, with what fills
\* its last chunk, for every text and every key of at least a block, if no
\* write failed.
THEOREM FilesComeBack == Spec => []FileComesBack
<1>1. FileInv => FileComesBack
  <2> SUFFICES ASSUME FileInv,
                      cmd.name = "DecryptFile", cmd.at = "done", cmd.to = "opened",
                      ~cmd.failed, sealed.good, keysize >= 4
               PROVE  /\ SubSeq(disk["opened"], 1, Len(sealed.text)) = sealed.text
                      /\ Len(disk["opened"]) = (Len(sealed.text) \div Chunk + 1) * Chunk
    BY DEF FileComesBack
  <2> DEFINE s == disk["opened"]
             f == disk["sealed"]
             text == sealed.text
  <2>1. sealed.kind = "file" /\ "opened" \in DOMAIN disk /\ "sealed" \in DOMAIN disk
    BY DEF FileInv, DecryptingFile, Types
  <2>2. s \in Seq(Word) /\ f \in Seq(Word) /\ text \in Seq(Word)
    BY <2>1 DEF FileInv, Types, IsDisk, Sealings
  <2>3. /\ Rest(cmd.in, f, Len(s)) /\ Len(cmd.in) = 0
        /\ Deciphered(sealed.key, f, s)
    BY DEF FileInv, DecryptingFile
  <2>4. /\ Len(sealed.key) = keysize
        /\ Len(f) = (Len(text) \div Chunk + 1) * Chunk
        /\ Ciphered(sealed.key, text, f)
    BY <2>1 DEF FileInv, SealedFile
  <2>5. KeyOf(sealed.key) \in Block
    BY <2>4, KeyIsBlock DEF FileInv
  <2> HIDE DEF s, f, text
  <2>6. Len(s) = Len(f)
    BY <2>2, <2>3 DEF Rest
  <2>7. Len(text) <= Len(f)
    <3>1. Len(text) \in Nat /\ Chunk \in Nat \ {0}
      BY <2>2, ChunkIsBlocks
    <3> DEFINE q == Len(text) \div Chunk
    <3>2. q \in Nat /\ Len(text) = q * Chunk + (Len(text) % Chunk) /\ Len(text) % Chunk < Chunk
      BY <3>1
    <3> HIDE DEF q
    <3>3. (q + 1) * Chunk = q * Chunk + Chunk
      BY <3>1, <3>2
    <3>4. q * Chunk \in Nat /\ Len(text) % Chunk \in Nat
      BY <3>1, <3>2
    <3> QED  BY <2>4, <3>1, <3>2, <3>3, <3>4 DEF q
  <2>8. SubSeq(s, 1, Len(text)) = text
    BY <2>2, <2>3, <2>4, <2>5, <2>6, <2>7, CipheredComesBack
  <2> QED  BY <2>4, <2>6, <2>8 DEF s, f, text
<1> QED  BY <1>1, FileHolds, PTL

-----------------------------------------------------------------------------
(***************************************************************************)
(* Data.                                                                   *)
(***************************************************************************)

\* A text that a chunk has room for, filled up with zeros.
Padded(s) == [i \in 1..Chunk |-> IF i <= Len(s) THEN s[i] ELSE Zero]

\* A text that is shorter than a chunk is read at once.
AtOnce(sk, s) == CString(sm4_crypt_ecb(sk, Len(s), Padded(s), Zeros))

EncryptingData ==
    cmd.name = "EncryptData" /\ cmd.at = "loop" /\ Len(sealed.text) < Chunk =>
        cmd.in = sealed.text /\ cmd.out = <<>>

SealedData ==
    sealed.kind = "data" =>
        /\ Len(sealed.key) = keysize
        /\ keysize >= 4 /\ Len(sealed.text) < Chunk =>
              sealed.bytes \in AtOnce(sm4_setkey_enc(KeyOf(sealed.key)), sealed.text)

DevryptingData ==
    cmd.name = "DevryptData" /\ cmd.at \in {"loop", "done"} =>
        /\ sealed.kind = "data" /\ sealed.bytes # <<>>
        /\ Len(sealed.bytes) < Chunk /\ keysize >= 4 =>
              LET sk == sm4_setkey_dec(KeyOf(sealed.key)) IN
              IF cmd.at = "loop"
              THEN cmd.sk = sk /\ cmd.in = sealed.bytes /\ cmd.out = <<>>
              ELSE cmd.out \in AtOnce(sk, sealed.bytes)

DataParts == EncryptingData /\ SealedData /\ DevryptingData
DataInv   == FileInv /\ DataParts

\* The only read of a text that is shorter than a chunk.
LEMMA ReadsAtOnce ==
    ASSUME Types, cmd.at = "loop", Len(cmd.in) < Chunk, NEW wbuf \in Crypted(Zeros, Cb)
    PROVE  Cb = Len(cmd.in) /\ CString(wbuf) = AtOnce(cmd.sk, cmd.in) /\ NextAt(Cb) = "done"
<1>1. Cb = Len(cmd.in)
  BY ChunkIsBlocks DEF Types, Cmds, Cb, Least
<1>2. Filled(Zeros, Cb) = Padded(cmd.in)
  BY <1>1 DEF Filled, Padded, Zeros
<1>3. wbuf = sm4_crypt_ecb(cmd.sk, Len(cmd.in), Padded(cmd.in), Zeros)
  BY <1>1, <1>2 DEF Crypted
<1> QED  BY <1>1, <1>3 DEF AtOnce, NextAt, Eof

LEMMA DataBegins ==
    ASSUME DataInv, EncryptDataRequestHandler
    PROVE  DataParts'
<1> DEFINE text == disk["source"]
<1>1. EncryptData(text) /\ sealed.kind = "none" /\ keysize' = keysize
  BY DEF EncryptDataRequestHandler, EncryptData, Unsealed
<1> HIDE DEF text
<1>2. CASE cmd' = [NoCommand EXCEPT !.name = "EncryptData", !.at = "dropped"] /\ sealed' = sealed
  <2>1. cmd'.at = "dropped"
    BY <1>2 DEF NoCommand
  <2> QED
    BY <1>1, <1>2, <2>1 DEF DataParts, EncryptingData, SealedData, DevryptingData
<1>3. CASE \E key \in RandomString(keysize) : \E bytes \in KeyBytes(key) :
           /\ cmd' = [NoCommand EXCEPT !.name = "EncryptData", !.at = "loop",
                         !.sk = sm4_setkey_enc(bytes), !.in = text]
           /\ sealed' = [NotSealed EXCEPT !.key = key, !.text = text]
  <2>1. /\ cmd'.name = "EncryptData" /\ cmd'.in = text /\ cmd'.out = <<>>
        /\ sealed'.kind = "none" /\ sealed'.text = text
    BY <1>3 DEF NoCommand, NotSealed
  <2> QED
    BY <2>1 DEF DataParts, EncryptingData, SealedData, DevryptingData
<1> QED  BY <1>1, <1>2, <1>3 DEF EncryptData

LEMMA DataIsCiphered ==
    ASSUME DataInv, EncryptDataChunk
    PROVE  DataParts'
<1>0. Types /\ cmd \in Cmds /\ sealed \in Sealings
  BY DEF DataInv, FileInv, Types
<1>1. PICK wbuf \in Crypted(Zeros, Cb) : \E s \in CString(wbuf) :
        /\ cmd' = [cmd EXCEPT !.in = Drop(@, Cb), !.out = cmd.out \o s, !.at = NextAt(Cb)]
        /\ sealed' = IF Eof(Cb)
                     THEN [sealed EXCEPT !.kind = "data", !.bytes = cmd.out \o s, !.good = TRUE]
                     ELSE sealed
  BY DEF EncryptDataChunk
<1>2. PICK s \in CString(wbuf) :
        /\ cmd' = [cmd EXCEPT !.in = Drop(@, Cb), !.out = cmd.out \o s, !.at = NextAt(Cb)]
        /\ sealed' = IF Eof(Cb)
                     THEN [sealed EXCEPT !.kind = "data", !.bytes = cmd.out \o s, !.good = TRUE]
                     ELSE sealed
  BY <1>1
<1>3. /\ cmd'.name = "EncryptData" /\ cmd'.at = NextAt(Cb)
      /\ cmd.at = "loop" /\ cmd.name = "EncryptData" /\ keysize' = keysize
  BY <1>0, <1>2 DEF EncryptDataChunk, Reading, Cmds
<1>4. /\ sealed.kind = "none" /\ Len(sealed.key) = keysize
      /\ keysize >= 4 => cmd.sk = sm4_setkey_enc(KeyOf(sealed.key))
  BY <1>3 DEF DataInv, FileInv, Encrypting
<1>5. ASSUME Len(sealed.text) < Chunk
      PROVE  Eof(Cb) /\ cmd.out \o s \in AtOnce(cmd.sk, sealed.text)
  <2>1. cmd.in = sealed.text /\ cmd.out = <<>>
    BY <1>3, <1>5 DEF DataInv, DataParts, EncryptingData
  <2>2. Cb = Len(cmd.in) /\ CString(wbuf) = AtOnce(cmd.sk, cmd.in)
    BY <1>0, <1>3, <1>5, <2>1, ReadsAtOnce
  <2>3. s \in Seq(Word)
    BY <1>0, <1>3, ChunkFacts, BuffersAreWords, CStringIsText
  <2>4. <<>> \o s = s
    BY <2>3
  <2> QED  BY <1>5, <2>1, <2>2, <2>4 DEF Eof
<1>6. sealed'.text = sealed.text /\ sealed'.key = sealed.key
  BY <1>0, <1>2 DEF Sealings
<1>7. CASE Eof(Cb)
  <2>1. cmd'.at = "done" /\ sealed'.bytes = cmd.out \o s
    BY <1>0, <1>2, <1>3, <1>7 DEF NextAt, Sealings
  <2> QED
    BY <1>3, <1>4, <1>5, <1>6, <2>1 DEF DataParts, EncryptingData, SealedData, DevryptingData
<1>8. CASE ~Eof(Cb)
  <2>1. sealed' = sealed
    BY <1>2, <1>8
  <2> QED
    BY <1>3, <1>4, <1>5, <1>8, <2>1 DEF DataParts, EncryptingData, SealedData, DevryptingData
<1> QED  BY <1>7, <1>8

LEMMA DataOpensAgain ==
    ASSUME DataInv, DevryptData
    PROVE  DataParts'
<1>0. sealed \in Sealings /\ keysize \in Nat
  BY CommandsAssumption DEF CommandsAssumption, DataInv, FileInv, Types
<1>1. sealed.kind = "data" /\ sealed' = sealed /\ keysize' = keysize
  BY DEF DevryptData
<1>2. Len(sealed.key) = keysize /\ SealedData'
  BY <1>1 DEF DataInv, DataParts, SealedData
<1>3. CASE cmd' = [NoCommand EXCEPT !.name = "DevryptData", !.at = "dropped"]
  <2>1. cmd'.at = "dropped"
    BY <1>3 DEF NoCommand
  <2> QED
    BY <1>2, <2>1 DEF DataParts, EncryptingData, DevryptingData
<1>4. CASE /\ sealed.bytes # <<>>
           /\ \E bytes \in KeyBytes(sealed.key) :
                 cmd' = [NoCommand EXCEPT !.name = "DevryptData", !.at = "loop",
                            !.sk = sm4_setkey_dec(bytes), !.in = sealed.bytes]
  <2>1. PICK bytes \in KeyBytes(sealed.key) :
             cmd' = [NoCommand EXCEPT !.name = "DevryptData", !.at = "loop",
                        !.sk = sm4_setkey_dec(bytes), !.in = sealed.bytes]
    BY <1>4
  <2>2. keysize >= 4 => bytes = KeyOf(sealed.key)
    <3>1. sealed.key \in RandomString(keysize)
      BY <1>0, <1>2 DEF Sealings, RandomString
    <3> QED  BY <1>0, <3>1, KeyBytesFacts
  <2>3. /\ cmd'.name = "DevryptData" /\ cmd'.at = "loop" /\ cmd'.sk = sm4_setkey_dec(bytes)
        /\ cmd'.in = sealed.bytes /\ cmd'.out = <<>>
    BY <2>1 DEF NoCommand
  <2> QED
    BY <1>1, <1>2, <1>4, <2>2, <2>3 DEF DataParts, EncryptingData, DevryptingData
<1> QED  BY <1>3, <1>4 DEF DevryptData

LEMMA DataIsDevrypted ==
    ASSUME DataInv, DevryptDataChunk
    PROVE  DataParts'
<1>0. Types /\ cmd \in Cmds /\ sealed \in Sealings
  BY DEF DataInv, FileInv, Types
<1>1. PICK wbuf \in Crypted(Zeros, Cb) :
        \E s \in IF Cb = 0 THEN {<<>>} ELSE CString(wbuf) :
           cmd' = [cmd EXCEPT !.in = Drop(@, Cb), !.out = @ \o s, !.at = NextAt(Cb)]
  BY DEF DevryptDataChunk
<1>2. PICK s \in IF Cb = 0 THEN {<<>>} ELSE CString(wbuf) :
           cmd' = [cmd EXCEPT !.in = Drop(@, Cb), !.out = @ \o s, !.at = NextAt(Cb)]
  BY <1>1
<1>3. /\ cmd'.name = "DevryptData" /\ cmd'.at = NextAt(Cb) /\ cmd'.out = cmd.out \o s
      /\ cmd.at = "loop" /\ cmd.name = "DevryptData" /\ keysize' = keysize /\ sealed' = sealed
  BY <1>0, <1>2 DEF DevryptDataChunk, Reading, Cmds
<1>4. sealed.kind = "data" /\ sealed.bytes # <<>>
  BY <1>3 DEF DataInv, DataParts, DevryptingData
<1>5. ASSUME Len(sealed.bytes) < Chunk, keysize >= 4
      PROVE  /\ cmd'.at = "done"
             /\ cmd'.out \in AtOnce(sm4_setkey_dec(KeyOf(sealed.key)), sealed.bytes)
  <2>1. /\ cmd.sk = sm4_setkey_dec(KeyOf(sealed.key))
        /\ cmd.in = sealed.bytes /\ cmd.out = <<>>
    BY <1>3, <1>5 DEF DataInv, DataParts, DevryptingData
  <2>2. Cb = Len(cmd.in) /\ CString(wbuf) = AtOnce(cmd.sk, cmd.in) /\ NextAt(Cb) = "done"
    BY <1>0, <1>3, <1>5, <2>1, ReadsAtOnce
  <2>3. Cb # 0
    BY <1>0, <1>4, <2>1, <2>2 DEF Sealings
  <2>4. s \in CString(wbuf) /\ s \in Seq(Word)
    BY <1>0, <1>2, <1>3, <2>3, ChunkFacts, BuffersAreWords, CStringIsText
  <2>5. <<>> \o s = s
    BY <2>4
  <2> QED  BY <1>3, <2>1, <2>2, <2>4, <2>5
<1>6. SealedData'
  BY <1>3 DEF DataInv, DataParts, SealedData
<1> QED
  BY <1>3, <1>4, <1>5, <1>6 DEF DataParts, EncryptingData, DevryptingData

\* What has nothing to do with data leaves it as it was.
LEMMA DataIsLeft ==
    ASSUME DataInv,
           \/ ReadFails \/ EncryptFileRequestHandler \/ EncryptFileChunk
           \/ DecryptFileRequestHandler \/ DecryptFileChunk \/ NextText \/ UNCHANGED vars
    PROVE  DataParts'
<1>0. cmd \in Cmds /\ sealed \in Sealings
  BY DEF DataInv, FileInv, Types
<1>1. CASE UNCHANGED vars
  BY <1>1 DEF vars, DataInv, DataParts, EncryptingData, SealedData, DevryptingData
<1>2. CASE ReadFails
  <2>1. cmd'.at = "spinning"
    BY <1>0, <1>2 DEF ReadFails, Cmds
  <2> QED
    BY <1>2, <2>1
    DEF ReadFails, DataInv, DataParts, EncryptingData, SealedData, DevryptingData
<1>3. CASE EncryptFileRequestHandler
  <2>1. PICK to \in {"source", "sealed"} : EncryptFile(to)
    BY <1>3 DEF EncryptFileRequestHandler
  <2>2. sealed'.kind = "none" /\ cmd'.name = "EncryptFile"
    <3>1. sealed.kind = "none"
      BY <1>3 DEF EncryptFileRequestHandler, Unsealed
    <3>2. CASE /\ cmd' = [NoCommand EXCEPT !.name = "EncryptFile", !.at = "dropped"]
               /\ sealed' = IF to = "sealed" THEN NotSealed ELSE sealed
      BY <3>1, <3>2 DEF NoCommand, NotSealed
    <3>3. CASE \E key \in RandomString(keysize) : \E bytes \in KeyBytes(key) :
               /\ cmd' = [NoCommand EXCEPT !.name = "EncryptFile", !.to = to, !.at = "loop",
                             !.sk = sm4_setkey_enc(bytes), !.in = Truncated(to)["source"]]
               /\ sealed' = [NotSealed EXCEPT !.key = key, !.text = Truncated(to)["source"]]
      BY <3>3 DEF NoCommand, NotSealed
    <3> QED  BY <2>1, <3>2, <3>3 DEF EncryptFile
  <2> QED  BY <2>2 DEF DataParts, EncryptingData, SealedData, DevryptingData
<1>4. CASE EncryptFileChunk
  <2>1. sealed.kind = "none"
    BY <1>4 DEF EncryptFileChunk, Reading, DataInv, FileInv, Encrypting
  <2>2. sealed'.kind # "data" /\ cmd'.name = "EncryptFile"
    BY <1>0, <1>4, <2>1 DEF EncryptFileChunk, Reading, Cmds, Sealings
  <2> QED  BY <2>2 DEF DataParts, EncryptingData, SealedData, DevryptingData
<1>5. CASE DecryptFileRequestHandler
  <2>1. PICK to \in {"sealed", "opened"} : DecryptFile(to)
    BY <1>5 DEF DecryptFileRequestHandler
  <2>2. sealed'.kind # "data" /\ cmd'.name = "DecryptFile"
    BY <2>1 DEF DecryptFile, NoCommand, NotSealed
  <2> QED  BY <2>2 DEF DataParts, EncryptingData, SealedData, DevryptingData
<1>6. CASE DecryptFileChunk
  <2>1. cmd'.name = "DecryptFile"
    BY <1>0, <1>6 DEF DecryptFileChunk, Reading, Cmds
  <2> QED
    BY <1>6, <2>1
    DEF DecryptFileChunk, DataInv, DataParts, EncryptingData, SealedData, DevryptingData
<1>7. CASE NextText
  <2>1. cmd'.name = "none" /\ sealed'.kind = "none"
    BY <1>7 DEF NextText, NoCommand, NotSealed
  <2> QED  BY <2>1 DEF DataParts, EncryptingData, SealedData, DevryptingData
<1> QED  BY <1>1, <1>2, <1>3, <1>4, <1>5, <1>6, <1>7

LEMMA DataHolds == Spec => []DataInv
<1>1. Init => DataInv
  <2> SUFFICES ASSUME Init
               PROVE  DataInv
    OBVIOUS
  <2>1. cmd.name = "none" /\ sealed.kind = "none"
    BY DEF Init, NoCommand, NotSealed
  <2> QED
    BY <2>1, FileInit DEF DataInv, DataParts, EncryptingData, SealedData, DevryptingData
<1>2. DataInv /\ [Next]_vars => DataInv'
  <2> SUFFICES ASSUME DataInv, [Next]_vars
               PROVE  DataInv'
    OBVIOUS
  <2>1. FileInv'
    BY FileStep DEF DataInv
  <2>2. DataParts'
    BY DataBegins, DataIsCiphered, DataOpensAgain, DataIsDevrypted, DataIsLeft
    DEF Next, Run, DevryptDataRequestHandler
  <2> QED  BY <2>1, <2>2 DEF DataInv
<1> QED  BY <1>1, <1>2, PTL DEF Spec

\* What << writes of an array that has its first zero behind n words.
LEMMA CStringStops ==
    ASSUME NEW buf \in [1..Chunk -> Word], NEW n \in 0..Chunk - 1, NEW s \in CString(buf),
           buf[n + 1] = Zero, \A i \in 1..n : buf[i] # Zero
    PROVE  s \in Seq(Word) /\ Len(s) = n /\ \A i \in 1..n : s[i] = buf[i]
<1>1. Chunk \in Nat \ {0} /\ n + 1 \in 1..Chunk /\ buf \in Seq(Word) /\ Len(buf) = Chunk
  BY ChunkIsBlocks
<1>2. PICK m \in 0..Chunk - 1 :
         s = SubSeq(buf, 1, m) /\ buf[m + 1] = Zero /\ \A i \in 1..m : buf[i] # Zero
  BY <1>1 DEF CString
<1>3. m = n
  BY <1>1, <1>2
<1> QED  BY <1>1, <1>2, <1>3

LEMMA WordsOfBlocks ==
    ASSUME NEW m \in Nat, NEW n, n = 4 * ((m + 3) \div 4), n < Chunk
    PROVE  n \in Nat /\ n % 4 = 0 /\ m <= n /\ n < m + 4 /\ m < Chunk
BY ChunkIsBlocks

\* The chunk of a text that is read at once.
LEMMA PaddedChunk ==
    ASSUME NEW sk \in Keys, NEW s \in Seq(Word), Len(s) <= Chunk
    PROVE  LET wbuf == sm4_crypt_ecb(sk, Len(s), Padded(s), Zeros) IN
           /\ wbuf \in [1..Chunk -> Word]
           /\ \A d \in Nat : 4 * d < Len(s) =>
                 /\ Blk(Padded(s), d) \in Block
                 /\ Blk(wbuf, d) = sm4_one_round(sk, Blk(Padded(s), d))
           /\ \A i \in 1..Chunk : 4 * ((i - 1) \div 4) >= Len(s) => wbuf[i] = Zero
<1>1. /\ Len(s) \in 0..Chunk /\ Zeros \in [1..Chunk -> Word]
      /\ \A i \in 1..Chunk : Zeros[i] = Zero
  BY ChunkIsBlocks, BuffersAreWords
<1>2. Padded(s) \in [1..Chunk -> Word]
  BY <1>1, BuffersAreWords DEF Padded
<1> DEFINE cb     == Len(s)
           padded == Padded(s)
<1>3. cb \in 0..Chunk /\ padded \in [1..Chunk -> Word]
  BY <1>1, <1>2
<1> HIDE DEF cb, padded
<1>4. /\ sm4_crypt_ecb(sk, cb, padded, Zeros) \in [1..Chunk -> Word]
      /\ \A d \in Nat : 4 * d < cb =>
            /\ Blk(padded, d) \in Block
            /\ Blk(sm4_crypt_ecb(sk, cb, padded, Zeros), d) = sm4_one_round(sk, Blk(padded, d))
      /\ \A i \in 1..Chunk : 4 * ((i - 1) \div 4) >= cb =>
            sm4_crypt_ecb(sk, cb, padded, Zeros)[i] = Zeros[i]
  BY <1>1, <1>3, CryptedChunk
<1> QED  BY <1>1, <1>4 DEF cb, padded

\* Blocks that fall short of a chunk, without a zero in the text or in them,
\* come back.
LEMMA DataRound ==
    ASSUME NEW key \in Block, NEW text \in Seq(Word), NEW n \in Nat, n < Chunk, n % 4 = 0,
           Len(text) <= n, n < Len(text) + 4, \A i \in 1..Len(text) : text[i] # Zero,
           NEW bytes \in AtOnce(sm4_setkey_enc(key), text), Len(bytes) = n,
           NEW out \in AtOnce(sm4_setkey_dec(key), bytes)
    PROVE  out = text
<1> DEFINE enc   == sm4_setkey_enc(key)
           dec   == sm4_setkey_dec(key)
           wbuf  == sm4_crypt_ecb(enc, Len(text), Padded(text), Zeros)
           back  == sm4_crypt_ecb(dec, n, Padded(bytes), Zeros)
<1>1. enc \in Keys /\ dec \in Keys
  BY SetkeyKeys
<1>2. Chunk \in Nat \ {0} /\ Chunk % 4 = 0 /\ Len(text) \in Nat
  BY ChunkIsBlocks
<1>3. Len(text) \in 0..Chunk /\ n \in 0..Chunk
  BY <1>2
<1> DEFINE padded == Padded(text)
<1>4. /\ wbuf \in [1..Chunk -> Word]
      /\ \A d \in Nat : 4 * d < Len(text) =>
            /\ Blk(padded, d) \in Block
            /\ Blk(wbuf, d) = sm4_one_round(enc, Blk(padded, d))
      /\ \A i \in 1..Chunk : 4 * ((i - 1) \div 4) >= Len(text) => wbuf[i] = Zero
  BY <1>1, <1>3, PaddedChunk
<1>5. bytes \in CString(wbuf) /\ out \in CString(back)
  BY DEF AtOnce
<1> HIDE DEF enc, dec, padded, wbuf
<1>6. bytes \in Seq(Word) /\ \A i \in 1..n : bytes[i] = wbuf[i]
  <2>1. n + 1 \in 1..Chunk /\ 4 * ((n + 1 - 1) \div 4) >= Len(text)
    BY <1>2
  <2>2. wbuf[n + 1] = Zero
    BY <1>4, <2>1
  <2>3. PICK m \in 0..Chunk - 1 : bytes = SubSeq(wbuf, 1, m)
    BY <1>5, <2>1, <2>2 DEF CString
  <2>4. wbuf \in [1..Chunk -> Word] /\ Chunk \in Nat
    BY <1>2, <1>4
  <2>5. wbuf \in Seq(Word) /\ Len(wbuf) = Chunk
    BY <2>4
  <2> QED  BY <2>3, <2>4, <2>5
<1>7. /\ back \in [1..Chunk -> Word]
      /\ \A d \in Nat : 4 * d < n => Blk(back, d) = sm4_one_round(dec, Blk(Padded(bytes), d))
      /\ \A i \in 1..Chunk : 4 * ((i - 1) \div 4) >= n => back[i] = Zero
  <2>1. Len(bytes) <= Chunk /\ back = sm4_crypt_ecb(dec, Len(bytes), Padded(bytes), Zeros)
    BY <1>2
  <2> HIDE DEF back
  <2>2. /\ back \in [1..Chunk -> Word]
        /\ \A d \in Nat : 4 * d < Len(bytes) =>
              Blk(back, d) = sm4_one_round(dec, Blk(Padded(bytes), d))
        /\ \A i \in 1..Chunk : 4 * ((i - 1) \div 4) >= Len(bytes) => back[i] = Zero
    BY <1>1, <1>6, <2>1, PaddedChunk
  <2> QED  BY <2>2
<1> HIDE DEF back
<1>8. ASSUME NEW d \in Nat, 4 * d < n
      PROVE  Blk(back, d) = Blk(padded, d)
  <2>1. 4 * d + 4 <= n /\ 4 * d < Len(text) /\ Len(text) \in Nat /\ Chunk \in Nat
    BY <1>2, <1>8
  <2>2. \A j \in 1..4 : Padded(bytes)[4 * d + j] = wbuf[4 * d + j]
    <3> SUFFICES ASSUME NEW j \in 1..4
                 PROVE  Padded(bytes)[4 * d + j] = wbuf[4 * d + j]
      OBVIOUS
    <3>1. 4 * d + j \in 1..n /\ 4 * d + j \in 1..Chunk
      BY <1>2, <2>1
    <3> QED  BY <1>6, <3>1 DEF Padded
  <2>3. Blk(Padded(bytes), d) = Blk(wbuf, d)
    BY <2>2 DEF Blk
  <2> QED
    <3>1. Blk(back, d) = sm4_one_round(dec, sm4_one_round(enc, Blk(padded, d)))
      BY <1>4, <1>7, <1>8, <2>1, <2>3
    <3>2. Blk(padded, d) \in Block
      BY <1>4, <2>1
    <3> QED  BY <3>1, <3>2, DecryptionInverts DEF BlockComesBack, enc, dec
<1>9. ASSUME NEW i \in 1..n PROVE back[i] = IF i <= Len(text) THEN text[i] ELSE Zero
  <2> DEFINE d == (i - 1) \div 4
             j == ((i - 1) % 4) + 1
  <2>1. d \in Nat /\ j \in 1..4 /\ i = 4 * d + j /\ 4 * d < n /\ i \in 1..Chunk
    BY <1>2
  <2> HIDE DEF d, j
  <2>2. Blk(back, d)[j] = back[i] /\ Blk(padded, d)[j] = padded[i]
    BY <2>1 DEF Blk
  <2>3. padded[i] = IF i <= Len(text) THEN text[i] ELSE Zero
    BY <2>1 DEF padded, Padded
  <2> QED  BY <1>8, <2>1, <2>2, <2>3
<1>10. back[n + 1] = Zero
  <2>1. n + 1 \in 1..Chunk /\ 4 * ((n + 1 - 1) \div 4) >= n
    BY <1>2
  <2> QED  BY <1>2, <1>7, <2>1
<1>11. back[Len(text) + 1] = Zero /\ \A i \in 1..Len(text) : back[i] = text[i]
  BY <1>2, <1>9, <1>10
<1>12. out \in Seq(Word) /\ Len(out) = Len(text) /\ \A i \in 1..Len(text) : out[i] = text[i]
  <2>1. Len(text) \in 0..Chunk - 1
    BY <1>2
  <2>2. \A i \in 1..Len(text) : back[i] # Zero
    BY <1>11
  <2> DEFINE m == Len(text)
  <2>3. /\ m \in 0..Chunk - 1 /\ back[m + 1] = Zero /\ \A i \in 1..m : back[i] # Zero
        /\ back \in [1..Chunk -> Word] /\ out \in CString(back)
    BY <1>5, <1>7, <1>11, <2>1, <2>2
  <2> HIDE DEF m
  <2>4. out \in Seq(Word) /\ Len(out) = m /\ \A i \in 1..m : out[i] = back[i]
    BY <2>3, CStringStops
  <2> QED  BY <1>11, <2>4 DEF m
<1> QED  BY <1>12

\* RS_DevryptData gives back what RS_EncryptData was given, for every key of
\* at least a block, if the blocks fall short of a chunk and no zero is in
\* the text or in its ciphertext.
THEOREM DataComeBack == Spec => []DataComesBack
<1>1. DataInv => DataComesBack
  <2> SUFFICES ASSUME DataInv, cmd.name = "DevryptData", cmd.at = "done", keysize >= 4,
                      NEW n, n = 4 * ((Len(sealed.text) + 3) \div 4),
                      n < Chunk, Len(sealed.bytes) = n,
                      \A i \in 1..Len(sealed.text) : sealed.text[i] # Zero
               PROVE  cmd.out = sealed.text
    BY DEF DataComesBack
  <2>1. Types /\ sealed.text \in Seq(Word) /\ sealed.kind = "data"
    BY DEF DataInv, FileInv, Types, Sealings, DataParts, DevryptingData
  <2>2. /\ n \in Nat /\ n % 4 = 0 /\ Len(sealed.text) <= n /\ n < Len(sealed.text) + 4
        /\ Len(sealed.text) < Chunk
    <3> DEFINE m == Len(sealed.text)
    <3>1. m \in Nat /\ n = 4 * ((m + 3) \div 4)
      BY <2>1
    <3> HIDE DEF m
    <3>2. n \in Nat /\ n % 4 = 0 /\ m <= n /\ n < m + 4 /\ m < Chunk
      BY <3>1, WordsOfBlocks
    <3> QED  BY <3>2 DEF m
  <2>3. /\ Len(sealed.key) = keysize
        /\ sealed.bytes \in AtOnce(sm4_setkey_enc(KeyOf(sealed.key)), sealed.text)
    BY <2>1, <2>2 DEF DataInv, DataParts, SealedData
  <2>4. cmd.out \in AtOnce(sm4_setkey_dec(KeyOf(sealed.key)), sealed.bytes)
    BY DEF DataInv, DataParts, DevryptingData
  <2>5. KeyOf(sealed.key) \in Block
    BY <2>1, <2>3, KeyIsBlock
  <2> QED  BY <2>1, <2>2, <2>3, <2>4, <2>5, DataRound
<1> QED  BY <1>1, DataHolds, PTL

-----------------------------------------------------------------------------
(***************************************************************************)
(* The bitmap of a QR code.                                                *)
(***************************************************************************)

\* An int counts the bits of a row of MaxWidth pixels and the bytes of as many
\* rows.
LEMMA HalfIsLarge ==
    Half \in Nat /\ MaxWidth \in Nat /\ MaxWidth * 24 < Half /\ MaxWidth * (MaxWidth * 3 + 3) < Half
BY DEF Half, MaxWidth

\* A number that an int holds is kept.
LEMMA IntIsKept ==
    ASSUME NEW n \in Nat, n < Half
    PROVE  Int32(n) = n
<1> DEFINE h == Half
<1>1. h \in Nat /\ n < h
    BY HalfIsLarge
<1>2. Int32(n) = ((n + h) % (2 * h)) - h
    BY DEF Int32
<1> HIDE DEF h
<1> QED BY <1>1, <1>2

\* A line has room for its pixels and less than a pixel more, and its length is
\* a multiple of four, as the format asks.
LEMMA LineHoldsPixels ==
    ASSUME NEW w \in 0..MaxWidth
    PROVE  /\ LineByteCnt(w) \in Nat /\ LineByteCnt(w) % 4 = 0
           /\ w * 3 <= LineByteCnt(w) /\ LineByteCnt(w) <= w * 3 + 3
<1>0. Int32(w * 24) = w * 24
    <2>1. w * 24 \in Nat /\ w * 24 < Half
        BY HalfIsLarge
    <2> HIDE DEF MaxWidth
    <2> QED BY <2>1, IntIsKept
<1>1. (w * 24) \div 8 = w * 3
    OBVIOUS
<1>2. PICK q \in Nat : q = (w * 3 + 3) \div 4
    OBVIOUS
<1>3. q * 4 + 4 > w * 3 + 3 /\ q * 4 <= w * 3 + 3
    BY <1>2
<1>4. LineByteCnt(w) = q * 4
    BY <1>0, <1>1, <1>2 DEF LineByteCnt
<1> QED BY <1>3, <1>4

\* The bytes of a bitmap that is not too wide are counted right.
LEMMA DataIsCounted ==
    ASSUME NEW w \in 0..MaxWidth
    PROVE  DataBytes(w) = w * LineByteCnt(w) /\ w * LineByteCnt(w) \in Nat
           /\ w * LineByteCnt(w) < Half
<1> DEFINE line == LineByteCnt(w)
           n    == w * line
           most == MaxWidth * 3 + 3
<1>1. /\ w \in Nat /\ w <= MaxWidth /\ MaxWidth \in Nat
      /\ line \in Nat /\ line <= w * 3 + 3
      /\ most \in Nat /\ MaxWidth * most < Half
    BY HalfIsLarge, LineHoldsPixels
<1>2. line <= most
    <2> HIDE DEF line
    <2> QED BY <1>1
<1> HIDE DEF line, most
<1>3. w * line <= MaxWidth * line /\ line * MaxWidth <= most * MaxWidth
    BY <1>1, <1>2, ProductMonotone
<1>4. n \in Nat /\ n < Half
    BY <1>1, <1>3, HalfIsLarge
<1> HIDE DEF n
<1>5. Int32(n) = n
    BY <1>4, IntIsKept
<1> QED BY <1>4, <1>5 DEF DataBytes, n, line

\* Coordinate i of module x is a pixel of the line.
LEMMA PixelInLine ==
    ASSUME NEW size \in Nat, NEW border \in Nat, NEW scale \in Nat,
           (size + border * 2) * scale <= MaxWidth,
           NEW x \in Drawn(size, border), NEW i \in 0..scale - 1
    PROVE  /\ (x + border) * scale + i \in Nat
           /\ Width(size, border, scale) \in 0..MaxWidth
           /\ (x + border) * scale + i <= Width(size, border, scale) - 1
<1> DEFINE a == x + border
           n == size + border * 2
<1>1. a \in Nat /\ n \in Nat /\ a + 1 <= n
    BY DEF Drawn
<1>2. (a + 1) * scale <= n * scale /\ n * scale \in Nat
    <2> HIDE DEF a, n
    <2> QED BY <1>1, ProductMonotone
<1>3. (a + 1) * scale = a * scale + scale /\ a * scale \in Nat
    <2> HIDE DEF a, n
    <2> QED BY <1>1
<1>4. i \in Nat /\ i + 1 <= scale
    OBVIOUS
<1>5. a * scale + i \in Nat /\ a * scale + i <= n * scale - 1
    <2> HIDE DEF a, n
    <2> QED BY <1>1, <1>2, <1>3, <1>4
<1>6. Width(size, border, scale) = n * scale /\ n * scale \in 0..MaxWidth
    <2> DEFINE p == n * scale
    <2>1. p \in Nat /\ p <= MaxWidth /\ Width(size, border, scale) = Int32(p)
        BY <1>2 DEF Width
    <2> HIDE DEF p
    <2>2. p \in 0..MaxWidth /\ p < Half
        BY <2>1, HalfIsLarge
    <2>3. Int32(p) = p
        BY <2>1, <2>2, IntIsKept
    <2> QED BY <2>1, <2>2, <2>3 DEF p
<1> QED BY <1>5, <1>6

\* A position is a row's bytes and a column's, and nothing of it is lost.
LEMMA PosInside ==
    ASSUME NEW w \in 0..MaxWidth, NEW line \in Nat, line = LineByteCnt(w),
           NEW row \in Nat, NEW col \in Nat, row <= w - 1, col <= w - 1
    PROVE  /\ Int32(ByteAt(line, row, col)) = row * line + col * 3
           /\ row * line + col * 3 \in Nat
           /\ row * line + col * 3 + 2 < DataBytes(w)
<1> DEFINE r == row * line
           d == w * line
           n == r + col * 3
<1>1. line >= w * 3 /\ DataBytes(w) = d /\ d \in Nat /\ d < Half
    BY LineHoldsPixels, DataIsCounted
<1>2. (row + 1) * line <= w * line
    BY ProductMonotone
<1>3. r \in Nat /\ r + line <= d
    BY <1>2
<1>4. col * 3 + 2 < line
    BY <1>1
<1> HIDE DEF r, d
<1>5. n \in Nat /\ n + 2 < d /\ n < Half
    BY <1>1, <1>3, <1>4, HalfIsLarge
<1> HIDE DEF n
<1>6. Int32(n) = n
    BY <1>5, IntIsKept
<1> QED BY <1>1, <1>5, <1>6 DEF r, n, ByteAt

\* Every byte that saveBmp sets is inside the data, for every code, border and
\* scale that make a bitmap of MaxWidth pixels at most: pos is a product of the
\* line's length with a row, and only the white border to the right and below
\* is never drawn.  Of a wider bitmap an int does not count the bytes, and
\* saveBmp does not test for that.
THEOREM WritesInside ==
    ASSUME NEW size \in Nat, NEW border \in Nat, NEW scale \in Nat,
           (size + border * 2) * scale <= MaxWidth,
           NEW x \in Drawn(size, border), NEW y \in Drawn(size, border),
           NEW i \in 0..scale - 1, NEW j \in 0..scale - 1,
           NEW w \in Int, w = Width(size, border, scale),
           NEW line \in Int, line = LineByteCnt(w)
    PROVE  LET pos == Pos(line, border, scale, x, y, i, j)
           IN  pos \in Nat /\ pos + 2 < DataBytes(w)
<1> DEFINE row == (y + border) * scale + i
           col == (x + border) * scale + j
<1>1. row \in Nat /\ row <= w - 1 /\ w \in 0..MaxWidth
    BY PixelInLine
<1>2. col \in Nat /\ col <= w - 1
    BY PixelInLine
<1>3. Pos(line, border, scale, x, y, i, j) = Int32(ByteAt(line, row, col))
    BY DEF Pos
<1> HIDE DEF row, col
<1>4. line \in Nat
    BY <1>1, LineHoldsPixels
<1>5. /\ Int32(ByteAt(line, row, col)) \in Nat
      /\ Int32(ByteAt(line, row, col)) + 2 < DataBytes(w)
    BY <1>1, <1>2, <1>4, PosInside
<1> QED BY <1>3, <1>5

\* No two modules of a row, or pixels of a module, share a byte, in a bitmap of
\* MaxWidth pixels at most: a pixel to the right of another starts after its
\* last byte.
THEOREM PixelsApart ==
    ASSUME NEW size \in Nat, NEW border \in Nat, NEW scale \in Nat,
           (size + border * 2) * scale <= MaxWidth,
           NEW x1 \in Drawn(size, border), NEW x2 \in Drawn(size, border),
           NEW y \in Drawn(size, border), NEW i \in 0..scale - 1,
           NEW j1 \in 0..scale - 1, NEW j2 \in 0..scale - 1,
           x1 < x2 \/ (x1 = x2 /\ j1 < j2),
           NEW line \in Int, line = LineByteCnt(Width(size, border, scale))
    PROVE  Pos(line, border, scale, x1, y, i, j1) + 2 < Pos(line, border, scale, x2, y, i, j2)
<1> DEFINE w == Width(size, border, scale)
           row == (y + border) * scale + i
           col1 == (x1 + border) * scale + j1
           col2 == (x2 + border) * scale + j2
<1>1. row \in Nat /\ row <= w - 1 /\ w \in 0..MaxWidth
    BY PixelInLine
<1>2. col1 \in Nat /\ col1 <= w - 1 /\ col2 \in Nat /\ col2 <= w - 1
    BY PixelInLine
<1>3. /\ Pos(line, border, scale, x1, y, i, j1) = Int32(ByteAt(line, row, col1))
      /\ Pos(line, border, scale, x2, y, i, j2) = Int32(ByteAt(line, row, col2))
    BY DEF Pos
<1>4. col1 + 1 <= col2
    <2> DEFINE a == x1 + border
               b == x2 + border
    <2>1. a \in Nat /\ b \in Nat /\ (a + 1 <= b \/ (a = b /\ j1 < j2))
        BY DEF Drawn
    <2> HIDE DEF a, b
    <2>2. a * scale \in Nat /\ b * scale \in Nat
        BY <2>1
    <2>3. CASE a + 1 <= b
        <3>1. (a + 1) * scale <= b * scale
            BY <2>1, <2>3, ProductMonotone
        <3>2. (a + 1) * scale = a * scale + scale
            BY <2>1
        <3>3. a * scale + j1 + 1 <= b * scale + j2
            BY <2>2, <3>1, <3>2
        <3> QED BY <3>3 DEF a, b
    <2>4. CASE a = b /\ j1 < j2
        <3>1. a * scale + j1 + 1 <= b * scale + j2
            BY <2>2, <2>4
        <3> QED BY <3>1 DEF a, b
    <2> QED BY <2>1, <2>3, <2>4
<1> HIDE DEF w, row, col1, col2
<1>5. line \in Nat /\ line = LineByteCnt(w)
    BY <1>1, LineHoldsPixels DEF w
<1>6. /\ Int32(ByteAt(line, row, col1)) = row * line + col1 * 3
      /\ Int32(ByteAt(line, row, col2)) = row * line + col2 * 3
    BY <1>1, <1>2, <1>5, PosInside
<1>7. row * line \in Nat
    BY <1>1, <1>5
<1> QED BY <1>2, <1>3, <1>4, <1>6, <1>7
=============================================================================
