------------------------ MODULE CloudEventsProofs ------------------------
(***************************************************************************)
(* Proofs about CloudEvents, for every set of transactions and pages and   *)
(* every number of pushes: its types, that a page that was notified finds  *)
(* the decision in the cache, that a note is delivered once and in order,  *)
(* that answers move forward, and that all of it implements NoteDelivery.  *)
(***************************************************************************)
EXTENDS CloudEvents, TLAPS

(***************************************************************************)
(* Sequences of pushes: the wire and the queue.                            *)
(***************************************************************************)

Increasing(q) == \A i, j \in DOMAIN q : i < j => q[i].id < q[j].id

\* Appending a push adds just that push.
LEMMA AppendRange ==
    ASSUME NEW q \in Seq(Push), NEW p \in Push
    PROVE  /\ Append(q, p) \in Seq(Push)
           /\ Range(Append(q, p)) = Range(q) \union {p}
<1>1. Append(q, p) \in Seq(Push) /\ DOMAIN Append(q, p) = 1..Len(q)+1 /\ Len(q) \in Nat
  OBVIOUS
<1>2. \A i \in 1..Len(q) : Append(q, p)[i] = q[i]
  OBVIOUS
<1>3. Append(q, p)[Len(q) + 1] = p
  OBVIOUS
<1>4. DOMAIN q = 1..Len(q)
  OBVIOUS
<1>5. QED
  BY <1>1, <1>2, <1>3, <1>4 DEF Range

\* A push later than all of an increasing sequence can be appended to it.
LEMMA AppendIncreasing ==
    ASSUME NEW q \in Seq(Push), NEW p \in Push, Increasing(q),
           \A e \in Range(q) : e.id < p.id
    PROVE  Increasing(Append(q, p))
<1>1. DOMAIN Append(q, p) = 1..Len(q)+1 /\ DOMAIN q = 1..Len(q) /\ Len(q) \in Nat
  OBVIOUS
<1>2. \A i \in 1..Len(q) : Append(q, p)[i] = q[i]
  OBVIOUS
<1>3. Append(q, p)[Len(q) + 1] = p
  OBVIOUS
<1>4. \A i \in 1..Len(q) : q[i].id < p.id
  BY <1>1 DEF Range
<1>5. QED
  BY <1>1, <1>2, <1>3, <1>4 DEF Increasing

\* Taking the first push of an increasing sequence leaves later ones.
LEMMA TailIncreasing ==
    ASSUME NEW q \in Seq(Push), q # <<>>
    PROVE  /\ Head(q) \in Push
           /\ Head(q) \in Range(q)
           /\ Tail(q) \in Seq(Push)
           /\ Range(Tail(q)) \subseteq Range(q)
           /\ Increasing(q) => /\ Increasing(Tail(q))
                               /\ \A e \in Range(Tail(q)) : Head(q).id < e.id
<1>1. Len(q) \in Nat \ {0} /\ DOMAIN q = 1..Len(q)
  OBVIOUS
<1>2. Head(q) = q[1] /\ 1 \in DOMAIN q
  BY <1>1
<1>3. Tail(q) \in Seq(Push) /\ DOMAIN Tail(q) = 1..(Len(q) - 1)
  BY <1>1
<1>4. \A i \in 1..(Len(q) - 1) : Tail(q)[i] = q[i+1] /\ i+1 \in DOMAIN q
  BY <1>1
<1>5. Head(q) \in Push /\ Head(q) \in Range(q)
  BY <1>1, <1>2 DEF Range
<1>6. Range(Tail(q)) \subseteq Range(q)
  BY <1>3, <1>4 DEF Range
<1>7. ASSUME Increasing(q) PROVE Increasing(Tail(q))
  BY <1>1, <1>3, <1>4, <1>7 DEF Increasing
<1>8. ASSUME Increasing(q), NEW e \in Range(Tail(q)) PROVE Head(q).id < e.id
  <2>1. PICK i \in 1..(Len(q) - 1) : e = q[i+1] /\ i+1 \in DOMAIN q
    BY <1>3, <1>4 DEF Range
  <2>2. QED
    BY <1>1, <1>2, <1>8, <2>1 DEF Increasing
<1>9. QED
  BY <1>3, <1>5, <1>6, <1>7, <1>8

\* An empty sequence has no push and is increasing.
LEMMA EmptyQueue == <<>> \in Seq(Push) /\ Range(<<>>) = {} /\ Increasing(<<>>)
  BY DEF Range, Increasing

(***************************************************************************)
(* Types.                                                                  *)
(***************************************************************************)

LEMMA TypeInit == Init => TypeOK
  BY CloudEventsAssumption, EmptyQueue DEF CloudEventsAssumption, Init, TypeOK

LEMMA TypeStep == TypeOK /\ [Next]_vars => TypeOK'
<1> SUFFICES ASSUME TypeOK, [Next]_vars PROVE TypeOK'
  OBVIOUS
<1> USE EmptyQueue DEF TypeOK, cloud, sessions
<1>1. ASSUME NEW t \in Trans, NEW good \in BOOLEAN, CloudPush(t, good) PROVE TypeOK'
  <2>1. [id |-> sent + 1, trans |-> t, good |-> good] \in Push
    BY <1>1, CloudEventsAssumption DEF CloudEventsAssumption, CloudPush, Push
  <2>2. sent' \in 0..MaxPushes
    BY <1>1, CloudEventsAssumption DEF CloudEventsAssumption, CloudPush
  <2>3. QED
    BY <1>1, <2>1, <2>2, AppendRange DEF CloudPush
<1>2. CASE Connect \/ LinkLost
  BY <1>2 DEF Connect, LinkLost
<1>3. CASE ReceiveGood
  <2>1. wire' \in Seq(Push) /\ Head(wire) \in Push
    BY <1>3, TailIncreasing DEF ReceiveGood
  <2>2. Head(wire).id \in 0..MaxPushes /\ Head(wire).trans \in Trans
    BY <2>1 DEF Push
  <2>3. QED
    BY <1>3, <2>1, <2>2 DEF ReceiveGood
<1>4. CASE ReceiveBadWebSocket
  BY <1>4 DEF ReceiveBadWebSocket
<1>5. CASE ReceiveBadMqtt
  BY <1>5, CloudEventsAssumption DEF CloudEventsAssumption, ReceiveBadMqtt
<1>6. CASE EnqueueNote
  BY <1>6, AppendRange DEF EnqueueNote
<1>7. ASSUME NEW t \in Trans, Expire(t) PROVE TypeOK'
  BY <1>7, CloudEventsAssumption DEF CloudEventsAssumption, Expire
<1>8. ASSUME NEW s \in Sessions,
             OpenPage(s) \/ LeavePage(s) \/ OnReadableGone(s) \/ OnReadableStops(s)
               \/ OnError(s) \/ OnShutdown(s)
      PROVE  TypeOK'
  BY <1>8 DEF OpenPage, LeavePage, OnReadableGone, OnReadableStops, OnError, OnShutdown
<1>9. ASSUME NEW s \in Sessions, OnWritable(s) PROVE TypeOK'
  BY <1>9, TailIncreasing DEF OnWritable
<1>10. ASSUME NEW s \in Sessions, SendNote(s) PROVE TypeOK'
  BY <1>10 DEF SendNote
<1>11. CASE UNCHANGED vars
  BY <1>11 DEF vars
<1>12. QED
  BY <1>1, <1>2, <1>3, <1>4, <1>5, <1>6, <1>7, <1>8, <1>9, <1>10, <1>11 DEF Next, Receiver

\* The variables keep their types in every behaviour.
THEOREM TypeCorrect == Spec => []TypeOK
<1>1. QED
  BY TypeInit, TypeStep, PTL DEF Spec

(***************************************************************************)
(* The way of a note.  Taken are the pushes that left the wire and whose   *)
(* note exists: it is about to be queued, queued, in a thread, or in a     *)
(* page.  Only the receiving thread adds to them, from the head of the     *)
(* wire; the other steps hand notes on or lose them.                       *)
(***************************************************************************)

Taken == Queued \union Held \union Delivered \union ({recv} \ {NoPush})

LEMMA TakenArePushes == TypeOK => Taken \subseteq Push
  BY DEF TypeOK, Taken, Queued, Held, Delivered, Range

\* A step other than a reception creates no note.
LEMMA TakenStep ==
    ASSUME TypeOK, [Next]_vars, ~ReceiveGood
    PROVE  Taken' \subseteq Taken
<1> USE DEF TypeOK, cloud, sessions
<1>1. ASSUME NEW t \in Trans, NEW good \in BOOLEAN, CloudPush(t, good)
      PROVE  Taken' \subseteq Taken
  BY <1>1 DEF CloudPush, Taken, Queued, Held, Delivered
<1>2. CASE Connect \/ LinkLost \/ ReceiveBadWebSocket
  BY <1>2 DEF Connect, LinkLost, ReceiveBadWebSocket, Taken, Queued, Held, Delivered
<1>3. CASE ReceiveBadMqtt
  <2>1. Queued' = {} /\ Held' = {}
    BY <1>3, EmptyQueue DEF ReceiveBadMqtt, Queued, Held
  <2>2. QED
    BY <1>3, <2>1 DEF ReceiveBadMqtt, Taken, Delivered
<1>4. CASE EnqueueNote
  <2>1. Queued' = Queued \union {recv}
    BY <1>4, AppendRange DEF EnqueueNote, Queued
  <2>2. QED
    BY <1>4, <2>1 DEF EnqueueNote, Taken, Held, Delivered
<1>5. ASSUME NEW t \in Trans, Expire(t) PROVE Taken' \subseteq Taken
  BY <1>5 DEF Expire, Taken, Queued, Held, Delivered
<1>6. ASSUME NEW s \in Sessions,
             OpenPage(s) \/ LeavePage(s) \/ OnReadableGone(s) \/ OnReadableStops(s)
               \/ OnError(s) \/ OnShutdown(s)
      PROVE  Taken' \subseteq Taken
  BY <1>6 DEF OpenPage, LeavePage, OnReadableGone, OnReadableStops, OnError,
              OnShutdown, Taken, Queued, Held, Delivered
<1>7. ASSUME NEW s \in Sessions, OnWritable(s) PROVE Taken' \subseteq Taken
  <2>1. Queued' \subseteq Queued /\ Head(queue) \in Queued
    BY <1>7, TailIncreasing DEF OnWritable, Queued
  <2>2. Held' \subseteq Held \union {Head(queue)}
    BY <1>7 DEF OnWritable, Held
  <2>3. QED
    BY <1>7, <2>1, <2>2 DEF OnWritable, Taken, Delivered
<1>8. ASSUME NEW s \in Sessions, SendNote(s) PROVE Taken' \subseteq Taken
  <2>1. Held' \subseteq Held /\ note[s] \in Held
    BY <1>8 DEF SendNote, Held
  <2>2. Delivered' \subseteq Delivered \union {note[s]}
    BY <1>8 DEF SendNote, Delivered
  <2>3. QED
    BY <1>8, <2>1, <2>2 DEF SendNote, Taken, Queued
<1>9. CASE UNCHANGED vars
  BY <1>9 DEF vars, Taken, Queued, Held, Delivered
<1>10. QED
  BY <1>1, <1>2, <1>3, <1>4, <1>5, <1>6, <1>7, <1>8, <1>9 DEF Next, Receiver

(***************************************************************************)
(* The cache is filled before the note exists, and pushes leave the wire   *)
(* in the order they were issued, so a later decision replaces an earlier  *)
(* one and never the other way round.                                      *)
(***************************************************************************)

WireIsAhead ==
    /\ Increasing(wire)
    /\ \A e \in Range(wire) : e.id <= sent
    /\ \A p \in Taken : p.id <= sent
    /\ \A p \in Taken, e \in Range(wire) : p.id < e.id

TakenAreCached ==
    \A p \in Taken : cache[p.trans] >= p.id \/ p.trans \in forgotten

NoteInv == TypeOK /\ WireIsAhead /\ TakenAreCached

LEMMA NoteInit == Init => NoteInv
<1>1. Init => Taken = {}
  BY EmptyQueue DEF Init, Taken, Queued, Held, Delivered
<1>2. QED
  BY <1>1, TypeInit, EmptyQueue DEF Init, NoteInv, WireIsAhead, TakenAreCached

\* Steps that leave the wire and the cache alone, or drop what is on the wire.
LEMMA NoteKept ==
    ASSUME NoteInv, TypeOK', Taken' \subseteq Taken, sent' = sent,
           wire' = wire \/ wire' = <<>>,
           cache' = cache, forgotten' = forgotten
    PROVE  NoteInv'
  BY EmptyQueue DEF NoteInv, WireIsAhead, TakenAreCached

LEMMA NoteStep == NoteInv /\ [Next]_vars => NoteInv'
<1> SUFFICES ASSUME NoteInv, [Next]_vars PROVE NoteInv'
  OBVIOUS
<1>0. TypeOK /\ TypeOK' /\ Taken \subseteq Push
  BY TypeStep, TakenArePushes DEF NoteInv
<1>1. ASSUME NEW t \in Trans, NEW good \in BOOLEAN, CloudPush(t, good) PROVE NoteInv'
  <2> DEFINE p == [id |-> sent + 1, trans |-> t, good |-> good]
  <2>1. Taken' = Taken /\ sent' = sent + 1 /\ cache' = cache /\ forgotten' = forgotten
    BY <1>1 DEF CloudPush, Taken, Queued, Held, Delivered, sessions
  <2>2. p \in Push /\ sent \in Nat /\ wire \in Seq(Push) /\ p.id = sent + 1
    BY <1>0, <1>1, CloudEventsAssumption DEF CloudEventsAssumption, CloudPush, Push, TypeOK
  <2>3. \A e \in Push : e.id \in Int
    BY DEF Push
  <2>4. \A e \in Range(wire) : e \in Push /\ e.id < p.id
    BY <2>2, <2>3 DEF NoteInv, WireIsAhead, Range
  <2>5. CASE wire' = wire
    BY <1>0, <2>1, <2>2, <2>3, <2>4, <2>5 DEF NoteInv, WireIsAhead, TakenAreCached
  <2>6. CASE wire' = Append(wire, p)
    <3>1. Increasing(wire') /\ Range(wire') = Range(wire) \union {p}
      BY <2>2, <2>4, <2>6, AppendRange, AppendIncreasing DEF NoteInv, WireIsAhead
    <3>2. WireIsAhead'
      BY <1>0, <2>1, <2>2, <2>3, <2>4, <3>1 DEF NoteInv, WireIsAhead
    <3>3. QED
      BY <1>0, <2>1, <3>2 DEF NoteInv, TakenAreCached
  <2>7. QED
    BY <1>1, <2>5, <2>6 DEF CloudPush
<1>2. CASE ReceiveGood
  <2> DEFINE p == Head(wire)
  <2>1. /\ p \in Push /\ p \in Range(wire)
        /\ Range(wire') \subseteq Range(wire) /\ Increasing(wire')
        /\ \A e \in Range(wire') : p.id < e.id
    BY <1>0, <1>2, TailIncreasing DEF ReceiveGood, NoteInv, WireIsAhead, TypeOK
  <2>2. Taken' = Taken \union {p} /\ sent' = sent
    BY <1>2, <2>1, CloudEventsAssumption
    DEF CloudEventsAssumption, ReceiveGood, Taken, Queued, Held, Delivered, sessions
  <2>3. \A q \in Taken : q.id < p.id
    BY <2>1 DEF NoteInv, WireIsAhead
  <2>4. WireIsAhead'
    BY <2>1, <2>2 DEF NoteInv, WireIsAhead
  <2>5. p.trans \in Trans /\ p.id \in Int /\ \A q \in Taken : q.trans \in Trans /\ q.id \in Int
    BY <1>0, <2>1 DEF Push
  <2>6. cache' = [cache EXCEPT ![p.trans] = p.id] /\ forgotten' = forgotten \ {p.trans}
    BY <1>2 DEF ReceiveGood
  <2>7. TakenAreCached'
    BY <1>0, <2>2, <2>3, <2>5, <2>6 DEF NoteInv, TakenAreCached, TypeOK
  <2>8. QED
    BY <1>0, <2>4, <2>7 DEF NoteInv
<1>3. CASE ReceiveBadMqtt
  <2>1. Taken' \subseteq Taken /\ wire' = <<>> /\ sent' = sent
    BY <1>0, <1>3, TakenStep DEF ReceiveBadMqtt, ReceiveGood
  <2>2. \A p \in Taken : p.trans \in Trans /\ p.id \in Int /\ p.id >= 1
    BY <1>0 DEF Push
  <2>3. ASSUME NEW p \in Taken PROVE p.trans \in forgotten'
    <3>1. cache[p.trans] \in Int /\ (cache[p.trans] >= p.id \/ p.trans \in forgotten)
      BY <1>0, <2>2, CloudEventsAssumption
      DEF CloudEventsAssumption, NoteInv, TakenAreCached, TypeOK
    <3>2. cache[p.trans] # 0 \/ p.trans \in forgotten
      BY <2>2, <3>1
    <3>3. QED
      BY <1>3, <2>2, <3>2 DEF ReceiveBadMqtt
  <2>4. QED
    BY <1>0, <2>1, <2>3, EmptyQueue DEF NoteInv, WireIsAhead, TakenAreCached
<1>4. ASSUME NEW t \in Trans, Expire(t) PROVE NoteInv'
  <2>1. Taken' = Taken /\ wire' = wire /\ sent' = sent
    BY <1>4 DEF Expire, cloud, sessions, Taken, Queued, Held, Delivered
  <2>2. \A p \in Taken : p.trans \in Trans
    BY <1>0 DEF Push
  <2>3. TakenAreCached'
    BY <1>0, <1>4, <2>1, <2>2 DEF Expire, NoteInv, TakenAreCached, TypeOK
  <2>4. QED
    BY <1>0, <2>1, <2>3 DEF NoteInv, WireIsAhead
<1>5. CASE /\ ~ReceiveGood
           /\ sent' = sent
           /\ wire' = wire \/ wire' = <<>>
           /\ UNCHANGED <<cache, forgotten>>
  BY <1>0, <1>5, TakenStep, NoteKept
<1>6. \/ \E t \in Trans, good \in BOOLEAN : CloudPush(t, good)
      \/ ReceiveGood \/ ReceiveBadMqtt
      \/ \E t \in Trans : Expire(t)
      \/ /\ sent' = sent
         /\ wire' = wire \/ wire' = <<>>
         /\ UNCHANGED <<cache, forgotten>>
  BY DEF Next, vars, cloud, Connect, LinkLost, Receiver, ReceiveBadWebSocket,
         EnqueueNote, OpenPage, LeavePage, OnReadableGone, OnReadableStops, OnWritable,
         SendNote, OnError, OnShutdown
<1>7. QED
  BY <1>1, <1>2, <1>3, <1>4, <1>5, <1>6

\* In every behaviour a page that was notified of a decision finds it, or a
\* later one of its transaction, in the cache, unless it was forgotten.
THEOREM NotifiedPageFindsDecision == Spec => []NoteAfterCache
<1>1. NoteInv => NoteAfterCache
  BY DEF NoteInv, TakenAreCached, NoteAfterCache, Taken, Answer
<1>2. QED
  BY <1>1, NoteInit, NoteStep, PTL DEF Spec

(***************************************************************************)
(* The order of the notes.  Notes are queued in the order of their pushes, *)
(* so a thread takes a note later than all that any thread took before:    *)
(* those held and delivered are older than those queued, and the one about *)
(* to be queued is younger than all.                                       *)
(***************************************************************************)

QueueIsAhead ==
    /\ Increasing(queue)
    /\ \A q \in Held \union Delivered, p \in Queued : q.id < p.id
    /\ recv # NoPush => \A q \in Queued \union Held \union Delivered : q.id < recv.id

NotesAreApart ==
    /\ \A r, s \in Sessions : r # s /\ note[r] # NoPush => note[r] # note[s]
    /\ \A s \in Sessions : note[s] \notin Delivered
    /\ \A r, s \in Sessions : r # s => delivered[r] \intersect delivered[s] = {}
    /\ \A s \in Sessions : note[s] # NoPush =>
          \A q \in delivered[s] : q.id < note[s].id

OrderInv == NoteInv /\ QueueIsAhead /\ NotesAreApart

LEMMA OrderInit == Init => OrderInv
<1> SUFFICES ASSUME Init PROVE OrderInv
  OBVIOUS
<1>1. Queued = {} /\ Held = {} /\ Delivered = {}
  BY EmptyQueue DEF Init, Queued, Held, Delivered
<1>2. QueueIsAhead
  BY <1>1, EmptyQueue DEF Init, QueueIsAhead
<1>3. NotesAreApart
  BY <1>1 DEF Init, NotesAreApart
<1>4. QED
  BY <1>2, <1>3, NoteInit DEF OrderInv

LEMMA OrderStep == OrderInv /\ [Next]_vars => OrderInv'
<1> SUFFICES ASSUME OrderInv, [Next]_vars PROVE QueueIsAhead' /\ NotesAreApart'
  BY NoteStep DEF OrderInv
<1>0. TypeOK /\ Taken \subseteq Push
  BY TakenArePushes DEF OrderInv, NoteInv
<1>1. CASE ReceiveGood
  <2>1. Head(wire) \in Push /\ Head(wire) \in Range(wire)
    BY <1>0, <1>1, TailIncreasing DEF ReceiveGood, TypeOK
  <2>2. \A q \in Queued \union Held \union Delivered : q.id < Head(wire).id
    BY <2>1 DEF OrderInv, NoteInv, WireIsAhead, Taken
  <2>3. Queued' = Queued /\ Held' = Held /\ Delivered' = Delivered /\ queue' = queue
    BY <1>1 DEF ReceiveGood, sessions, Queued, Held, Delivered
  <2>4. QueueIsAhead'
    BY <1>1, <2>2, <2>3 DEF ReceiveGood, OrderInv, QueueIsAhead
  <2>5. NotesAreApart'
    BY <1>1, <2>3 DEF ReceiveGood, sessions, OrderInv, NotesAreApart
  <2>6. QED
    BY <2>4, <2>5
<1>2. CASE ReceiveBadMqtt
  <2>1. Queued' = {} /\ Held' = {} /\ Increasing(queue') /\ recv' = NoPush
    BY <1>2, EmptyQueue DEF ReceiveBadMqtt, Queued, Held
  <2>2. QueueIsAhead'
    BY <2>1 DEF QueueIsAhead
  <2>3. NoPush \notin Delivered
    BY <1>0, CloudEventsAssumption DEF CloudEventsAssumption, Taken
  <2>4. NotesAreApart'
    BY <1>2, <2>3 DEF ReceiveBadMqtt, OrderInv, NotesAreApart, Delivered
  <2>5. QED
    BY <2>2, <2>4
<1>3. CASE EnqueueNote
  <2>1. recv \in Push /\ queue \in Seq(Push)
    BY <1>0, <1>3 DEF EnqueueNote, TypeOK
  <2>2. Queued' = Queued \union {recv} /\ Held' = Held /\ Delivered' = Delivered
    BY <1>3, <2>1, AppendRange DEF EnqueueNote, sessions, Queued, Held, Delivered
  <2>3. Increasing(queue')
    BY <1>3, <2>1, AppendIncreasing DEF EnqueueNote, OrderInv, QueueIsAhead, Queued
  <2>4. QueueIsAhead'
    BY <1>3, <2>2, <2>3 DEF EnqueueNote, OrderInv, QueueIsAhead
  <2>5. NotesAreApart'
    BY <1>3, <2>2 DEF EnqueueNote, sessions, OrderInv, NotesAreApart
  <2>6. QED
    BY <2>4, <2>5
<1>4. ASSUME NEW s \in Sessions, OnWritable(s) PROVE QueueIsAhead' /\ NotesAreApart'
  <2> DEFINE h == Head(queue)
  <2>1. /\ h \in Push /\ h \in Queued /\ Queued' \subseteq Queued
        /\ Increasing(queue') /\ \A p \in Queued' : h.id < p.id
    BY <1>0, <1>4, TailIncreasing
    DEF OnWritable, TypeOK, OrderInv, QueueIsAhead, Queued
  <2>2. note' = [note EXCEPT ![s] = h] /\ delivered' = delivered /\ recv' = recv
    BY <1>4 DEF OnWritable
  <2>3. Held' \subseteq Held \union {h} /\ Delivered' = Delivered
    BY <2>2 DEF Held, Delivered
  <2>4. QueueIsAhead'
    BY <2>1, <2>2, <2>3 DEF OrderInv, QueueIsAhead
  <2>5. h.id \in Int /\ \A q \in Held \union Delivered : q.id < h.id
    BY <2>1 DEF OrderInv, QueueIsAhead, Push
  <2>6. h \notin Delivered /\ \A r \in Sessions : note[r] # h
    <3>1. h # NoPush
      BY <2>1, CloudEventsAssumption DEF CloudEventsAssumption
    <3>2. h \notin Held \union Delivered
      BY <2>5
    <3>3. QED
      BY <3>1, <3>2 DEF Held
  <2>7. note \in [Sessions -> Push \union {NoPush}]
    BY <1>0 DEF TypeOK
  <2>8. \A q \in delivered[s] : q.id < h.id
    BY <2>5 DEF Delivered
  <2>9. NotesAreApart'
    BY <2>2, <2>3, <2>6, <2>7, <2>8 DEF OrderInv, NotesAreApart
  <2>10. QED
    BY <2>4, <2>9
<1>5. ASSUME NEW s \in Sessions, SendNote(s) PROVE QueueIsAhead' /\ NotesAreApart'
  <2> DEFINE n == note[s]
  <2>1. /\ n \in Held /\ n # NoPush
        /\ note' = [note EXCEPT ![s] = NoPush]
        /\ queue' = queue /\ recv' = recv
    BY <1>5 DEF SendNote, Held
  <2>2. /\ note \in [Sessions -> Push \union {NoPush}]
        /\ delivered \in [Sessions -> SUBSET Push]
    BY <1>0 DEF TypeOK
  <2>3. /\ \A r \in Sessions \ {s} : delivered'[r] = delivered[r]
        /\ delivered'[s] \subseteq delivered[s] \union {n}
        /\ delivered' \in [Sessions -> SUBSET Push]
    BY <1>5, <2>1, <2>2 DEF SendNote
  <2>4. Held' \subseteq Held /\ Queued' = Queued /\ Delivered' \subseteq Delivered \union {n}
    BY <2>1, <2>3 DEF Held, Queued, Delivered
  <2>5. QueueIsAhead'
    BY <2>1, <2>4 DEF OrderInv, QueueIsAhead
  <2>6. /\ n \notin Delivered
        /\ \A r \in Sessions \ {s} : note'[r] = note[r] /\ note[r] # n
        /\ note'[s] = NoPush
    BY <2>1, <2>2 DEF OrderInv, NotesAreApart
  <2>7. NoPush \notin Delivered \union {n}
    BY <1>0, <2>1, CloudEventsAssumption DEF CloudEventsAssumption, Taken
  <2>8. \A r \in Sessions : note'[r] \notin Delivered'
    BY <2>4, <2>6, <2>7 DEF OrderInv, NotesAreApart
  <2>9. \A q, r \in Sessions : q # r => delivered'[q] \intersect delivered'[r] = {}
    BY <2>3, <2>6 DEF OrderInv, NotesAreApart, Delivered
  <2>10. NotesAreApart'
    BY <2>3, <2>6, <2>8, <2>9 DEF OrderInv, NotesAreApart
  <2>11. QED
    BY <2>5, <2>10
<1>6. CASE queue' = queue /\ recv' = recv /\ note' = note /\ delivered' = delivered
  BY <1>6 DEF OrderInv, QueueIsAhead, NotesAreApart, Queued, Held, Delivered
<1>7. \/ ReceiveGood \/ ReceiveBadMqtt \/ EnqueueNote
      \/ \E s \in Sessions : OnWritable(s) \/ SendNote(s)
      \/ queue' = queue /\ recv' = recv /\ note' = note /\ delivered' = delivered
  BY DEF Next, vars, cloud, sessions, CloudPush, Connect, LinkLost, Receiver,
         ReceiveBadWebSocket, Expire, OpenPage, LeavePage, OnReadableGone,
         OnReadableStops, OnError, OnShutdown
<1>8. QED
  BY <1>1, <1>2, <1>3, <1>4, <1>5, <1>6, <1>7

\* In every behaviour a note is with at most one page, and sent at most once.
THEOREM NoNoteTwice == Spec => []DeliveredOnce
<1>1. OrderInv => DeliveredOnce
  <2> SUFFICES ASSUME OrderInv PROVE DeliveredOnce
    OBVIOUS
  <2>1. \A p \in Queued \union Held \union Delivered : p.id \in Int
    BY TakenArePushes DEF OrderInv, NoteInv, Taken, Push
  <2>2. Queued \intersect (Held \union Delivered) = {}
    BY <2>1 DEF OrderInv, QueueIsAhead
  <2>3. \A s \in Sessions : note[s] # NoPush => note[s] \in Held
    BY DEF Held
  <2>4. QED
    BY <2>2, <2>3 DEF OrderInv, NotesAreApart, DeliveredOnce
<1>2. QED
  BY <1>1, OrderInit, OrderStep, PTL DEF Spec

\* In every behaviour a page receives its notes in the order of the pushes.
THEOREM NotesInOrder == Spec => DeliveredInOrder
<1>1. OrderInv /\ [Next]_vars =>
        [\A s \in Sessions : \A p \in delivered'[s] \ delivered[s], q \in delivered[s] :
            q.id < p.id]_vars
  <2> SUFFICES ASSUME OrderInv, [Next]_vars, NEW s \in Sessions,
                      NEW p \in delivered'[s] \ delivered[s], NEW q \in delivered[s]
               PROVE  q.id < p.id
    OBVIOUS
  <2>1. delivered' # delivered
    OBVIOUS
  <2>2. PICK r \in Sessions : SendNote(r)
    BY <2>1 DEF Next, vars, sessions, CloudPush, Connect, LinkLost, Receiver, ReceiveGood,
                ReceiveBadWebSocket, ReceiveBadMqtt, EnqueueNote, Expire, OpenPage,
                LeavePage, OnReadableGone, OnReadableStops, OnWritable, OnError, OnShutdown
  <2>3. r = s /\ p = note[s] /\ note[s] # NoPush
    BY <2>2 DEF SendNote, OrderInv, NoteInv, TypeOK
  <2>4. QED
    BY <2>3 DEF OrderInv, NotesAreApart
<1>2. QED
  BY <1>1, OrderInit, OrderStep, PTL DEF Spec, DeliveredInOrder


Pending == Queued \union Held \union ({recv} \ {NoPush})

(***************************************************************************)
(* An answer that is kept is older than all that is on the wire.           *)
(***************************************************************************)

CacheIsBehind ==
    /\ \A t \in Trans : cache[t] <= sent
    /\ \A t \in Trans, e \in Range(wire) : cache[t] < e.id

BehindInv == OrderInv /\ CacheIsBehind

LEMMA BehindInit == Init => BehindInv
  BY OrderInit, EmptyQueue DEF Init, BehindInv, CacheIsBehind

LEMMA BehindStep == BehindInv /\ [Next]_vars => BehindInv'
<1> SUFFICES ASSUME BehindInv, [Next]_vars PROVE CacheIsBehind'
  BY OrderStep DEF BehindInv
<1>0. /\ TypeOK /\ WireIsAhead /\ CacheIsBehind /\ sent \in Nat
      /\ \A e \in Range(wire) : e \in Push
      /\ \A t \in Trans : cache[t] \in Int
  BY CloudEventsAssumption
  DEF CloudEventsAssumption, BehindInv, OrderInv, NoteInv, TypeOK, Range
<1>1. ASSUME NEW t \in Trans, NEW good \in BOOLEAN, CloudPush(t, good) PROVE CacheIsBehind'
  <2> DEFINE p == [id |-> sent + 1, trans |-> t, good |-> good]
  <2>1. p \in Push /\ p.id = sent + 1 /\ sent' = sent + 1 /\ cache' = cache
    BY <1>0, <1>1, CloudEventsAssumption DEF CloudEventsAssumption, CloudPush, Push
  <2>2. \A e \in Range(wire') : e \in Range(wire) \/ e.id = sent + 1
    BY <1>0, <1>1, <2>1, AppendRange DEF CloudPush, TypeOK
  <2>3. QED
    BY <1>0, <2>1, <2>2 DEF CacheIsBehind
<1>2. CASE ReceiveGood
  <2> DEFINE p == Head(wire)
  <2>1. /\ p \in Push /\ p \in Range(wire)
        /\ Range(wire') \subseteq Range(wire)
        /\ \A e \in Range(wire') : p.id < e.id
    BY <1>0, <1>2, TailIncreasing DEF ReceiveGood, WireIsAhead, TypeOK
  <2>2. cache' = [cache EXCEPT ![p.trans] = p.id] /\ sent' = sent /\ p.id <= sent
    BY <1>0, <1>2, <2>1 DEF ReceiveGood, WireIsAhead
  <2>3. \A t \in Trans : cache'[t] = cache[t] \/ cache'[t] = p.id
    BY <1>0, <2>2 DEF TypeOK
  <2>4. QED
    BY <1>0, <2>1, <2>2, <2>3 DEF CacheIsBehind
<1>3. CASE ReceiveBadMqtt
  BY <1>0, <1>3, EmptyQueue DEF ReceiveBadMqtt, CacheIsBehind
<1>4. ASSUME NEW t \in Trans, Expire(t) PROVE CacheIsBehind'
  <2>1. wire' = wire /\ sent' = sent /\ \A u \in Trans : cache'[u] = cache[u] \/ cache'[u] = 0
    BY <1>0, <1>4 DEF Expire, cloud, TypeOK
  <2>2. \A e \in Range(wire) : 0 < e.id
    BY <1>0 DEF Push
  <2>3. QED
    BY <1>0, <2>1, <2>2 DEF CacheIsBehind
<1>5. CASE cache' = cache /\ sent' = sent /\ (wire' = wire \/ wire' = <<>>)
  BY <1>0, <1>5, EmptyQueue DEF CacheIsBehind
<1>6. \/ \E t \in Trans, good \in BOOLEAN : CloudPush(t, good)
      \/ ReceiveGood \/ ReceiveBadMqtt
      \/ \E t \in Trans : Expire(t)
      \/ cache' = cache /\ sent' = sent /\ (wire' = wire \/ wire' = <<>>)
  BY DEF Next, vars, cloud, Connect, LinkLost, Receiver, ReceiveBadWebSocket,
         EnqueueNote, OpenPage, LeavePage, OnReadableGone, OnReadableStops, OnWritable,
         SendNote, OnError, OnShutdown
<1>7. QED
  BY <1>1, <1>2, <1>3, <1>4, <1>5, <1>6

\* What the page is told of a transaction only moves forward, in every behaviour.
THEOREM AnswersForward == Spec => AnswersMoveForward
<1>1. BehindInv /\ [Next]_vars =>
        [\A t \in Trans : Answer(t)' < Answer(t) => t \in forgotten']_vars
  <2> SUFFICES ASSUME BehindInv, [Next]_vars, NEW t \in Trans, cache'[t] < cache[t]
               PROVE  t \in forgotten'
    BY DEF Answer
  <2>0. TypeOK /\ CacheIsBehind /\ cache[t] \in Nat
    BY CloudEventsAssumption
    DEF CloudEventsAssumption, BehindInv, OrderInv, NoteInv, TypeOK
  <2>1. CASE ReceiveGood
    <3>1. Head(wire) \in Push /\ Head(wire) \in Range(wire)
      BY <2>0, <2>1, TailIncreasing DEF ReceiveGood, TypeOK
    <3>2. Head(wire).trans \in Trans /\ cache[Head(wire).trans] < Head(wire).id
      BY <2>0, <3>1 DEF CacheIsBehind, Push
    <3>3. t = Head(wire).trans => cache'[t] = Head(wire).id
      BY <2>0, <2>1 DEF ReceiveGood, TypeOK
    <3>4. t # Head(wire).trans => cache'[t] = cache[t]
      BY <2>0, <2>1 DEF ReceiveGood, TypeOK
    <3>5. Head(wire).id \in Int
      BY <3>1 DEF Push
    <3>6. QED
      BY <2>0, <3>2, <3>3, <3>4, <3>5
  <2>2. CASE ReceiveBadMqtt
    BY <2>0, <2>2 DEF ReceiveBadMqtt
  <2>3. ASSUME NEW u \in Trans, Expire(u) PROVE t \in forgotten'
    BY <2>0, <2>3 DEF Expire, TypeOK
  <2>4. CASE cache' = cache
    BY <2>0, <2>4
  <2>5. QED
    BY <2>1, <2>2, <2>3, <2>4
    DEF Next, vars, cloud, sessions, CloudPush, Connect, LinkLost, Receiver,
        ReceiveBadWebSocket, EnqueueNote, OpenPage, LeavePage, OnReadableGone,
        OnReadableStops, OnWritable, SendNote, OnError, OnShutdown
<1>2. QED
  BY <1>1, BehindInit, BehindStep, PTL DEF Spec, AnswersMoveForward

(***************************************************************************)
(* The refinement.                                                         *)
(***************************************************************************)

LEMMA PromiseInit == Init => Promise!Init
  BY EmptyQueue DEF Init, Promise!Init, Queued, Held, Answer

LEMMA PromiseStep == BehindInv /\ [Next]_vars => [Promise!Next]_(Promise!vars)
<1> SUFFICES ASSUME BehindInv, [Next]_vars
             PROVE  Promise!Next \/ UNCHANGED <<Pending, [t \in Trans |-> Answer(t)], delivered>>
  BY DEF Promise!vars, Pending
<1>0. /\ TypeOK /\ WireIsAhead /\ QueueIsAhead /\ NotesAreApart /\ CacheIsBehind
      /\ Taken \subseteq Push /\ NoPush \notin Push
  BY TakenArePushes, CloudEventsAssumption
  DEF CloudEventsAssumption, BehindInv, OrderInv, NoteInv
<1>1. CASE ReceiveGood
  <2> DEFINE p == Head(wire)
  <2>1. p \in Push /\ p \in Range(wire) /\ p.trans \in Trans
    BY <1>0, <1>1, TailIncreasing DEF ReceiveGood, TypeOK, Push
  <2>2. \A q \in Pending \union UNION {delivered[s] : s \in Sessions} : q.id < p.id
    BY <1>0, <2>1 DEF WireIsAhead, Taken, Pending, Delivered
  <2>3. [t \in Trans |-> Answer(t)][p.trans] < p.id
    BY <1>0, <2>1 DEF CacheIsBehind, Answer
  <2>4. [t \in Trans |-> Answer(t)]' = [[t \in Trans |-> Answer(t)] EXCEPT ![p.trans] = p.id]
    BY <1>0, <1>1, <2>1 DEF ReceiveGood, TypeOK, Answer
  <2>5. Pending' = Pending \union {p} /\ delivered' = delivered
    BY <1>0, <1>1, <2>1 DEF ReceiveGood, sessions, Pending, Queued, Held
  <2>6. Promise!Accept(p)
    BY <2>2, <2>3, <2>4, <2>5 DEF Promise!Accept, Pending
  <2>7. QED
    BY <2>1, <2>6 DEF Promise!Next
<1>2. CASE ReceiveBadMqtt
  <2>1. Pending' = {} /\ delivered' = delivered
    BY <1>2, EmptyQueue DEF ReceiveBadMqtt, Pending, Queued, Held
  <2>2. [t \in Trans |-> Answer(t)]' = [t \in Trans |-> 0]
    BY <1>2 DEF ReceiveBadMqtt, Answer
  <2>3. Promise!Lose(Pending, Trans)
    BY <2>1, <2>2 DEF Promise!Lose, Pending
  <2>4. QED
    BY <2>3 DEF Promise!Next, Pending
<1>3. ASSUME NEW t \in Trans, Expire(t) PROVE Promise!Next
  <2>1. Pending' = Pending \ {} /\ delivered' = delivered
    BY <1>3 DEF Expire, sessions, Pending, Queued, Held
  <2>2. [u \in Trans |-> Answer(u)]' =
            [u \in Trans |-> IF u \in {t} THEN 0 ELSE [v \in Trans |-> Answer(v)][u]]
    BY <1>0, <1>3 DEF Expire, TypeOK, Answer
  <2>3. Promise!Lose({}, {t})
    BY <2>1, <2>2 DEF Promise!Lose, Pending
  <2>4. QED
    BY <2>3 DEF Promise!Next
<1>4. ASSUME NEW s \in Sessions, SendNote(s) PROVE Promise!Next
  <2> DEFINE n == note[s]
  <2>1. /\ n \in Held /\ n \in Push /\ n # NoPush
        /\ note' = [note EXCEPT ![s] = NoPush]
        /\ queue' = queue /\ recv' = recv /\ cache' = cache
    BY <1>0, <1>4 DEF SendNote, Held, Taken
  <2>2. n \notin Queued /\ n # recv
    <3>1. \A q \in Push : ~(q.id < q.id)
      BY DEF Push
    <3>2. QED
      BY <1>0, <2>1, <3>1 DEF QueueIsAhead
  <2>3. Held' = Held \ {n}
    <3>1. note \in [Sessions -> Push \union {NoPush}]
      BY <1>0 DEF TypeOK
    <3>2. \A r \in Sessions \ {s} : note'[r] = note[r] /\ note[r] # n
      BY <1>0, <2>1, <3>1 DEF NotesAreApart
    <3>3. note'[s] = NoPush
      BY <2>1, <3>1
    <3>4. QED
      BY <2>1, <3>2, <3>3 DEF Held
  <2>4. Pending' = Pending \ {n} /\ n \in Pending
    BY <2>1, <2>2, <2>3 DEF Pending, Queued
  <2>5. [t \in Trans |-> Answer(t)]' = [t \in Trans |-> Answer(t)]
    BY <2>1 DEF Answer
  <2>6. CASE page[s]
    <3>1. delivered' = [delivered EXCEPT ![s] = @ \union {n}]
      BY <1>4, <2>6 DEF SendNote
    <3>2. \A q \in delivered[s] : q.id < n.id
      BY <1>0, <2>1 DEF NotesAreApart
    <3>3. Promise!Tell(n, s)
      BY <2>4, <2>5, <3>1, <3>2 DEF Promise!Tell, Pending
    <3>4. QED
      BY <2>1, <3>3 DEF Promise!Next
  <2>7. CASE ~page[s]
    <3>1. delivered' = delivered
      BY <1>4, <2>7 DEF SendNote
    <3>2. [t \in Trans |-> Answer(t)]' =
              [t \in Trans |-> IF t \in {} THEN 0 ELSE [u \in Trans |-> Answer(u)][t]]
      BY <2>5
    <3>3. Promise!Lose({n}, {})
      BY <2>4, <3>1, <3>2 DEF Promise!Lose, Pending
    <3>4. QED
      BY <2>1, <3>3 DEF Promise!Next
  <2>8. QED
    BY <2>6, <2>7
<1>5. ASSUME NEW s \in Sessions, OnWritable(s)
      PROVE  UNCHANGED <<Pending, [t \in Trans |-> Answer(t)], delivered>>
  <2> DEFINE h == Head(queue)
  <2>1. /\ note[s] = NoPush /\ note' = [note EXCEPT ![s] = h]
        /\ queue # <<>> /\ queue' = Tail(queue)
        /\ recv' = recv /\ cache' = cache /\ delivered' = delivered
    BY <1>5 DEF OnWritable
  <2>2. h \in Push /\ Queued = Queued' \union {h}
    <3>1. queue \in Seq(Push)
      BY <1>0 DEF TypeOK
    <3>2. h \in Push /\ h \in Range(queue) /\ Range(Tail(queue)) \subseteq Range(queue)
      BY <2>1, <3>1, TailIncreasing
    <3>3. ASSUME NEW i \in DOMAIN queue
          PROVE  queue[i] = h \/ queue[i] \in Range(Tail(queue))
      <4>1. Len(queue) \in Nat /\ i \in 1..Len(queue) /\ (i = 1 \/ i - 1 \in 1..Len(queue) - 1)
        BY <3>1, <3>3
      <4>2. DOMAIN Tail(queue) = 1..Len(queue) - 1
        BY <2>1, <3>1
      <4>3. CASE i = 1
        BY <2>1, <3>1, <4>3
      <4>4. CASE i - 1 \in 1..Len(queue) - 1
        <5>1. Tail(queue)[i - 1] = queue[i]
          BY <2>1, <3>1, <4>1, <4>4
        <5>2. QED
          BY <4>2, <4>4, <5>1 DEF Range
      <4>5. QED
        BY <4>1, <4>3, <4>4
    <3>4. QED
      BY <2>1, <3>2, <3>3 DEF Queued, Range
  <2>3. Held' = Held \union {h}
    BY <1>0, <2>1, <2>2 DEF TypeOK, Held
  <2>4. QED
    BY <2>1, <2>2, <2>3 DEF Pending, Answer
<1>6. CASE EnqueueNote
  <2>1. Queued' = Queued \union {recv} /\ recv # NoPush /\ recv' = NoPush
    BY <1>0, <1>6, AppendRange DEF EnqueueNote, TypeOK, Queued
  <2>2. QED
    BY <1>6, <2>1 DEF EnqueueNote, sessions, Pending, Held, Answer
<1>7. CASE UNCHANGED <<queue, recv, note, cache, delivered>>
  BY <1>7 DEF Pending, Queued, Held, Answer
<1>8. \/ ReceiveGood \/ ReceiveBadMqtt \/ EnqueueNote
      \/ \E t \in Trans : Expire(t)
      \/ \E s \in Sessions : OnWritable(s) \/ SendNote(s)
      \/ UNCHANGED <<queue, recv, note, cache, delivered>>
  BY DEF Next, vars, cloud, sessions, CloudPush, Connect, LinkLost, Receiver,
         ReceiveBadWebSocket, OpenPage, LeavePage, OnReadableGone, OnReadableStops,
         OnError, OnShutdown
<1>9. QED
  BY <1>1, <1>2, <1>3, <1>4, <1>5, <1>6, <1>7, <1>8

\* The agent keeps the promise of NoteDelivery in every behaviour.
THEOREM PromiseIsKept == Spec => KeepsPromise
<1>1. QED
  BY BehindInit, BehindStep, PromiseInit, PromiseStep, PTL
  DEF Spec, KeepsPromise, Promise!Spec
=============================================================================
