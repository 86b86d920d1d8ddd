------------------------- MODULE MCKeyOperations -------------------------
(***************************************************************************)
(* Two keys, which two wrong PINs lock, and one thread that serves every   *)
(* command, one after the other.                                           *)
(***************************************************************************)
EXTENDS KeyOperations, TLC

CONSTANTS k1, k2, h1

AllCommands == (h1 :> Commands)
\* A page brings an envelope for either key, with either certificate or none.
MCTexts     == [to : Keys, tag : Keys \cup {NoKey}, good : {TRUE}]
MCSymmetry  == Permutations(Keys)
=============================================================================
