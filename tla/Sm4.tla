-------------------------------- MODULE Sm4 --------------------------------
(***************************************************************************)
(* The block cipher of routes/sm4/_sm4.cpp, for every width of a word,     *)
(* number of rounds and table.  A word is the set of the positions of its  *)
(* one bits, so that exclusive or is the symmetric difference; a block is  *)
(* a sequence of four words.  One word takes the place of the four bytes   *)
(* that GET_ULONG_BE and PUT_ULONG_BE convert, and Sbox that of the four   *)
(* look-ups in SboxTable.                                                  *)
(***************************************************************************)
EXTENDS Integers, Sequences

CONSTANTS W,     \* bits of a word: 32 in the code
          N,     \* rounds: 32 in the code
          Sbox,  \* sm4Sbox on each byte of a word
          FK, CK \* the tables FK and CK

Word  == SUBSET (0..W - 1)
Block == [1..4 -> Word]
Keys  == [1..N -> Word]   \* sk of an sm4_context

ASSUME Sm4Assumption ==
    /\ W \in Nat \ {0}
    /\ N \in Nat
    /\ N % 2 = 0      \* sm4_setkey_dec swaps the keys in pairs
    /\ Sbox \in [Word -> Word]
    /\ FK \in Block
    /\ CK \in Keys

\* Functions, of which TLC makes tables.
Xor == [a \in Word |-> [b \in Word |-> (a \ b) \cup (b \ a)]]
a (+) b == Xor[a][b]

\* ROTL
Rotl(x, n) == {(b + n) % W : b \in x}

sm4Lt[ka \in Word] ==
    LET bb == Sbox[ka] IN
    bb (+) Rotl(bb, 2) (+) Rotl(bb, 10) (+) Rotl(bb, 18) (+) Rotl(bb, 24)

sm4F(x0, x1, x2, x3, rk) == x0 (+) sm4Lt[x1 (+) x2 (+) x3 (+) rk]

sm4CalciRK[ka \in Word] ==
    LET bb == Sbox[ka] IN bb (+) Rotl(bb, 13) (+) Rotl(bb, 23)

\* sm4_setkey: the array k, and the round keys SK.
sm4_setkey(key) ==
    LET k[i \in 1..N + 4] ==
            IF i <= 4 THEN key[i] (+) FK[i]
            ELSE k[i - 4] (+) sm4CalciRK[k[i - 3] (+) k[i - 2] (+) k[i - 1] (+) CK[i - 4]]
    IN [i \in 1..N |-> k[i + 4]]

sm4_setkey_enc(key) == sm4_setkey(key)
sm4_setkey_dec(key) == LET sk == sm4_setkey(key) IN [i \in 1..N |-> sk[N + 1 - i]]

\* The array ulbuf of sm4_one_round, and its last four words in reverse.
ulbuf(sk, input) ==
    LET u[i \in 1..N + 4] ==
            IF i <= 4 THEN input[i]
            ELSE sm4F(u[i - 4], u[i - 3], u[i - 2], u[i - 1], sk[i - 4])
    IN u

sm4_one_round(sk, input) ==
    LET u == ulbuf(sk, input) IN <<u[N + 4], u[N + 3], u[N + 2], u[N + 1]>>

\* sm4_crypt_ecb, on length words of input: it goes on in whole blocks, and
\* leaves the rest of output as it was.
sm4_crypt_ecb(sk, length, input, output) ==
    LET crypted == [b \in 0..(Len(input) \div 4) - 1 |->
                       sm4_one_round(sk, [j \in 1..4 |-> input[4 * b + j]])]
    IN [i \in 1..Len(output) |->
           LET b == (i - 1) \div 4 IN
           IF 4 * b < length THEN crypted[b][((i - 1) % 4) + 1] ELSE output[i]]

-----------------------------------------------------------------------------
\* Decryption with a key takes a block that it encrypted back.
BlockComesBack(key, x) ==
    sm4_one_round(sm4_setkey_dec(key), sm4_one_round(sm4_setkey_enc(key), x)) = x
=============================================================================
