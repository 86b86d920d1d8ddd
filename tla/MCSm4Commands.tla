-------------------------- MODULE MCSm4Commands --------------------------
(***************************************************************************)
(* Words of three bits, four rounds and an S-box that is no permutation    *)
(* (the Feistel structure asks for none).  A chunk has two blocks; texts   *)
(* have up to one chunk and one word, and at most one zero.               *)
(***************************************************************************)
EXTENDS Sm4Commands

Table == [w \in Word |-> IF 0 \in w THEN w \ {1} ELSE w \cup {2}]
Tk    == <<{0}, {1, 2}, {}, {2}>>

OneZero(n) == {[i \in 1..n |-> IF i = z THEN Zero ELSE {1}] : z \in 0..n}
AllTexts   == UNION {OneZero(n) : n \in {0, 1, 4, 5, 8, 9}}
=============================================================================
