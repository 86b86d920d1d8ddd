------------------------- MODULE CommandResponse -------------------------
(***************************************************************************)
(* What Command::execute (routes/Command.cpp) answers when run() throws.   *)
(* Every HTTP handler of the agent goes through it: run() either returns,  *)
(* and the answer carries RAR_OK, or throws, and the answer carries the    *)
(* code that the matching catch clause computes.                           *)
(*                                                                         *)
(* An exception is a record [class, code]; code is Poco::Exception::code() *)
(* and is 0 when the thrower passed none.  Codes are those of              *)
(* routes/ErrorCode.h, written in decimal.                                 *)
(***************************************************************************)
EXTENDS Integers

RAR_OK               == 0        \* 0x0000
RAR_NODEVICE         == 36865    \* 0x9001
RAR_MULTIPLEDEVICE   == 36866    \* 0x9002
RAR_OPENDEVICEFAILED == 36872    \* 0x9008
RAR_UNKNOWNERR       == 39321    \* 0x9999

\* The catch clauses of execute, in order: each hands over to
\* sendErrorResponse or sendErrorResponseEx with the code on the right.
\* ConnectionFailedException is the only one whose own code is not used.
ErrorResponse(exc) ==
    IF exc.class = "ConnectionFailedException"
    THEN RAR_OPENDEVICEFAILED
    ELSE exc.code

\* What the Poco library throws, and Reach::Data after it, when the code in
\* src/ passes no code of its own: code() is 0.
NotFound      == [class |-> "NotFoundException", code |-> 0]
InvalidAccess == [class |-> "InvalidAccessException", code |-> 0]

\* What a handler throws on its own account.
Rejected(code) == [class |-> "RequestHandleException", code |-> code]
=============================================================================
