--------------------------- MODULE Sm2Encrypt ---------------------------
(***************************************************************************)
(* Utility::v_encrypt_by_sm2 and Utility::sm2_encrypt (Utility.cpp): the   *)
(* cloud commands encrypt a key or a file with them under the public key   *)
(* that the cloud sent.  The curve and the hash are OpenSSL's; here are    *)
(* the control around them, what is allocated and freed, and the way the   *)
(* three parts of the ciphertext depend on one random number k.            *)
(*                                                                         *)
(* A point [k]G stands for its k, and 0 for the point at infinity, which a *)
(* new EC_POINT is.  Kdf[k] is the key stream derived from [k]Pubkey, of   *)
(* which ECDH_KDF_X9_62 writes as much as the message is long.             *)
(***************************************************************************)
EXTENDS Integers

CONSTANTS Order,   \* the order of the curve
          MaxLen,  \* bound: length of a message
          Kdf      \* the key stream of each k

Bits(n)  == [1..n -> BOOLEAN]
Messages == UNION {Bits(n) : n \in 0..MaxLen}
NonZero  == 1..Order - 1

ASSUME Sm2Assumption ==
    /\ Order \in Nat \ {0, 1}
    /\ MaxLen \in Nat
    /\ Kdf \in [NonZero -> Bits(MaxLen)]

VARIABLES
    pc,      \* where the call is
    msg,     \* the message, and its length
    len,
    key,     \* the bytes of the public key: "valid", "invalid" or "short"
    next,    \* how many allocations sm2_encrypt made
    held,    \* what is allocated and not freed
    err,     \* error_code, or "OutOfMemory" when sm2_encrypt was not called
    k,       \* bn_k
    flag,    \* flag: "unset" is the value of an uninitialised variable
    t,       \* the buffer t
    c1pt,    \* the point c1_pt
    c1, c3, c2   \* the parts of the ciphertext

call  == <<msg, len, key>>
parts == <<c1, c3, c2>>
vars  == <<pc, msg, len, key, next, held, err, k, flag, t, c1pt, c1, c3, c2>>

\* What sm2_encrypt allocates, in the order of the calls.  bn_y2 stands for
\* the seven BIGNUMs that the context gives, of which the last is tested;
\* freeing ctx frees them.
Resources == <<"t", "ctx", "bn_y2", "group", "pub_key_pt", "c1_pt", "s_pt",
               "ec_pt", "md_ctx">>
Owned     == {Resources[i] : i \in 1..9}

Xor(a, b)     == [i \in DOMAIN a |-> a[i] # b[i]]
Zero(f)       == \A i \in DOMAIN f : ~f[i]
Stream(n, kk) == [i \in 1..n |-> Kdf[kk][i]]

Nil == "nil"

\* Mutant: error_code is not initialised.
Init_NoErrorCode ==
    /\ pc = "idle"
    /\ msg \in Messages /\ len \in 0..MaxLen /\ msg \in Bits(len)
    /\ key \in {"valid", "invalid", "short"}
    /\ next = 0 /\ held = {} /\ err = "unset"
    /\ k = 0 /\ flag = "unset" /\ t = Nil /\ c1pt = 0
    /\ c1 = 0 /\ c3 = Nil /\ c2 = Nil

Init ==
    /\ pc = "idle"
    /\ msg \in Messages /\ len \in 0..MaxLen /\ msg \in Bits(len)
    /\ key \in {"valid", "invalid", "short"}
    /\ next = 0 /\ held = {} /\ err = "none"
    /\ k = 0 /\ flag = "unset" /\ t = Nil /\ c1pt = 0
    /\ c1 = 0 /\ c3 = Nil /\ c2 = Nil

\* goto clean_up with the error code then in force.
CleanUpWith(e) == pc' = "clean_up" /\ err' = e

\* v_encrypt_by_sm2 decodes the key and allocates c2, the buffer that the
\* ciphertext is written to, or throws; then it calls sm2_encrypt.
Call ==
    /\ pc = "idle"
    /\ \/ /\ held' = held \cup {"c2"}
          /\ pc' = "allocate"
          /\ UNCHANGED err
       \/ /\ pc' = "failed"
          /\ err' = "OutOfMemory"
          /\ UNCHANGED held
    /\ UNCHANGED <<call, next, k, flag, t, c1pt, parts>>

Allocate ==
    /\ pc = "allocate"
    /\ \/ /\ next' = next + 1
          /\ held' = held \cup {Resources[next + 1]}
          /\ pc' = IF next + 1 = 9 THEN "load" ELSE "allocate"
          /\ UNCHANGED err
       \/ /\ CleanUpWith("ALLOCATION_MEMORY_FAIL")
          /\ UNCHANGED <<next, held>>
    /\ UNCHANGED <<call, k, flag, t, c1pt, parts>>

\* The public key is loaded and [h]Pubkey computed.  A key of fewer than 65
\* bytes is completed with what memory holds behind it.
LoadKey ==
    /\ pc = "load"
    /\ \/ /\ key \in {"valid", "short"}
          /\ pc' = "draw"
          /\ UNCHANGED err
       \/ /\ key \in {"invalid", "short"}
          /\ \E e \in {"COMPUTE_SM2_CIPHERTEXT_FAIL", "EC_POINT_IS_AT_INFINITY"} :
                CleanUpWith(e)
    /\ UNCHANGED <<call, next, held, k, flag, t, c1pt, parts>>

\* Mutant: flag is set before the derivation and never cleared.
Draw_NeverCleared(kk) ==
    /\ pc = "draw"
    /\ k' = kk
    /\ pc' = "test"
    /\ flag' = "set"
    /\ IF kk = 0
       THEN UNCHANGED <<c1pt, t>>
       ELSE c1pt' = kk /\ t' = Stream(len, kk)
    /\ UNCHANGED <<call, next, held, err, parts>>

\* The body of do ... while (flag).  BN_rand_range draws k; for 0 it goes to
\* the test at once, with flag as it is.
Draw(kk) ==
    /\ pc = "draw"
    /\ k' = kk
    /\ pc' = "test"
    /\ IF kk = 0
       THEN UNCHANGED <<c1pt, t, flag>>
       ELSE /\ c1pt' = kk
            /\ t' = Stream(len, kk)
            /\ flag' = IF Zero(Stream(len, kk)) THEN "set" ELSE "clear"
    /\ UNCHANGED <<call, next, held, err, parts>>

\* A call of OpenSSL in the body fails, or the derivation does.
DrawFails ==
    /\ pc = "draw"
    /\ \E e \in {"COMPUTE_SM2_CIPHERTEXT_FAIL", "COMPUTE_SM2_KDF_FAIL"} : CleanUpWith(e)
    /\ UNCHANGED <<call, next, held, k, flag, t, c1pt, parts>>

\* Mutant: the loop is left after the first k.
Test_Once ==
    /\ pc = "test"
    /\ pc' = "output"
    /\ UNCHANGED <<call, next, held, err, k, flag, t, c1pt, parts>>

\* while (flag): an unset flag has either value.
Test ==
    /\ pc = "test"
    /\ \/ flag \in {"set", "unset"}   /\ pc' = "draw"
       \/ flag \in {"clear", "unset"} /\ pc' = "output"
    /\ UNCHANGED <<call, next, held, err, k, flag, t, c1pt, parts>>

\* C1 = [k]G, which has no coordinates at infinity; C3 is the hash of x2, the
\* message and y2; C2 is the message under the key stream.
Output ==
    /\ pc = "output"
    /\ IF c1pt = 0
       THEN /\ CleanUpWith("COMPUTE_SM2_CIPHERTEXT_FAIL")
            /\ UNCHANGED parts
       ELSE /\ c1' = c1pt
            /\ c3' = <<k, msg>>
            /\ c2' = Xor(msg, t)
            /\ CleanUpWith("none")
    /\ UNCHANGED <<call, next, held, k, flag, t, c1pt>>

\* What the call of each OpenSSL function, and of free, takes back.
Frees == [p \in Owned |-> IF p = "ctx" THEN {"ctx", "bn_y2"} ELSE {p}]

\* Mutant: one of the four points is forgotten.
CleanedUp_ThreePoints == {"t", "ctx", "group", "pub_key_pt", "c1_pt", "s_pt", "md_ctx"}

\* The pointers that clean_up tests and passes on when they are not NULL.
CleanedUp == {"t", "ctx", "group", "pub_key_pt", "c1_pt", "s_pt", "ec_pt", "md_ctx"}

CleanUp ==
    /\ pc = "clean_up"
    /\ held' = held \ UNION {Frees[p] : p \in CleanedUp \cap held}
    /\ pc' = IF err = "none" THEN "done" ELSE "failed"
    /\ UNCHANGED <<call, next, err, k, flag, t, c1pt, parts>>

\* sm2_encrypt returned; v_encrypt_by_sm2 answers C1 C3 C2 or throws, and
\* frees nothing.
Returned == pc \in {"done", "failed"}
Return   == Returned /\ UNCHANGED vars

Next == \/ Call \/ Allocate \/ LoadKey \/ DrawFails \/ Test \/ Output \/ CleanUp
        \/ \E kk \in 0..Order - 1 : Draw(kk)
        \/ Return

\* The thread runs on, and the random numbers do not avoid a value for ever.
Fairness == /\ WF_vars(Next)
            /\ \A kk \in 0..Order - 1 : SF_vars(Draw(kk))

Spec == Init /\ [][Next]_vars /\ Fairness

-----------------------------------------------------------------------------
(***************************************************************************)
(* Properties.                                                             *)
(***************************************************************************)

\* Every variable has its type.
TypeOK ==
    /\ pc \in {"idle", "allocate", "load", "draw", "test", "output", "clean_up",
               "done", "failed"}
    /\ len \in 0..MaxLen /\ msg \in Bits(len)
    /\ key \in {"valid", "invalid", "short"}
    /\ next \in 0..9 /\ held \subseteq Owned \cup {"c2"}
    /\ err \in {"none", "OutOfMemory", "ALLOCATION_MEMORY_FAIL",
                "EC_POINT_IS_AT_INFINITY", "COMPUTE_SM2_CIPHERTEXT_FAIL",
                "COMPUTE_SM2_KDF_FAIL"}
    /\ k \in 0..Order - 1 /\ c1pt \in 0..Order - 1 /\ c1 \in 0..Order - 1
    /\ flag \in {"unset", "set", "clear"}

\* A ciphertext can be decrypted: from C1 alone the receiver derives the key
\* stream that takes C2 back to the message, C3 is the hash for the same k,
\* and the stream is not zero, so that the message does not show.  It holds
\* although the loop can be left through an uninitialised flag.
CipherDecrypts ==
    pc = "done" =>
        /\ c1 \in NonZero
        /\ Xor(c2, Stream(len, c1)) = msg
        /\ c3 = <<c1, msg>>
        /\ ~Zero(Stream(len, c1))

\* Whatever call failed, what outlives the encryption is c2 at most: all that
\* sm2_encrypt allocated is freed, by a clean-up that is reached from every
\* step and does not know from which.  c2 itself is freed by no one: each
\* encryption that got as far as allocating it keeps it for ever.
OnlyC2Leaks == Returned => held \subseteq {"c2"}

\* The encryption of a message that is not empty ends.  (For an empty one
\* every stream is zero, and the loop has no end.)
EncryptionEnds == len > 0 ~> Returned
=============================================================================
