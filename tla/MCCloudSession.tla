------------------------- MODULE MCCloudSession -------------------------
(***************************************************************************)
(* One HTTP thread and one transaction; the other pages act through        *)
(* SetAuthType and through the requests the thread serves one after the    *)
(* other.  The threads share nothing else, and transactions nothing.       *)
(***************************************************************************)
EXTENDS CloudSession
=============================================================================
