-------------------------- MODULE MCSm2Encrypt --------------------------
(***************************************************************************)
(* A curve of order 4 whose key streams are zero, zero at first, and not:  *)
(* every message of up to three bits.                                      *)
(***************************************************************************)
EXTENDS Sm2Encrypt

Streams == [kk \in 1..3 |-> [i \in 1..3 |-> <<kk, i>> \in {<<2, 2>>, <<3, 1>>}]]
=============================================================================
