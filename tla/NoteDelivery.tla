--------------------------- MODULE NoteDelivery ---------------------------
(***************************************************************************)
(* What the agent promises of the cloud's decisions, whatever transports,  *)
(* queues, threads and caches lie in between: it accepts them in the order *)
(* they were made, from then on it answers with the last one, and it tells *)
(* at most one page of each, every page in order.  It may forget an answer *)
(* and lose a note, but never takes either back.                           *)
(***************************************************************************)
EXTENDS Integers

CONSTANTS Trans,     \* transactions
          Sessions,  \* pages
          Push       \* decisions, each with its number (id) and transaction (trans)

VARIABLES
    pending,  \* decisions accepted of which no page was told
    answer,   \* the decision each transaction is answered with, 0 for none
    told      \* the decisions each page was told of

vars == <<pending, answer, told>>

Init ==
    /\ pending = {}
    /\ answer = [t \in Trans |-> 0]
    /\ told = [s \in Sessions |-> {}]

\* A decision is accepted, later than all before: its answer and its note
\* exist from the same moment.
Accept(p) ==
    /\ \A q \in pending \union UNION {told[s] : s \in Sessions} : q.id < p.id
    /\ answer[p.trans] < p.id
    /\ answer' = [answer EXCEPT ![p.trans] = p.id]
    /\ pending' = pending \union {p}
    /\ UNCHANGED told

\* One page is told of it, and of nothing older after that.
Tell(p, s) ==
    /\ p \in pending
    /\ \A q \in told[s] : q.id < p.id
    /\ told' = [told EXCEPT ![s] = @ \union {p}]
    /\ pending' = pending \ {p}
    /\ UNCHANGED answer

\* Notes are lost with a page, an answer expires, or both go with the process.
Lose(notes, ts) ==
    /\ pending' = pending \ notes
    /\ answer' = [t \in Trans |-> IF t \in ts THEN 0 ELSE answer[t]]
    /\ UNCHANGED told

Next ==
    \/ \E p \in Push : Accept(p)
    \/ \E p \in Push, s \in Sessions : Tell(p, s)
    \/ \E p \in Push : Lose({p}, {})
    \/ \E t \in Trans : Lose({}, {t})
    \/ Lose(pending, Trans)

Spec == Init /\ [][Next]_vars
=============================================================================
