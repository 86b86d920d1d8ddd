-------------------------- MODULE MCConfigStore --------------------------
(***************************************************************************)
(* The instance of ConfigStore that TLC checks: two pages, a longer and a  *)
(* shorter code, and a business name for the longer one.                   *)
(***************************************************************************)
EXTENDS ConfigStore, TLC

CONSTANTS long, short, name

MCCodes  == {long, short}
MCNames  == {name}
MCCodeOf == name :> long
MCLength == long :> 2 @@ short :> 1
=============================================================================
