--------------------------- MODULE CloudEvents ---------------------------
(***************************************************************************)
(* From the cloud's push to the browser.                                   *)
(*                                                                         *)
(* A transaction (a login, a signature, ...) is decided on the user's      *)
(* phone; the cloud pushes the decision to the agent, over MQTT or over a  *)
(* WebSocket that the agent opened (config.etype).  The receiving thread   *)
(* stores the decision in TokenManager's cache under the transaction's     *)
(* identifier, and then queues a note.  Each browser page that holds a     *)
(* WebSocket on the agent has a thread that takes notes from the one queue *)
(* and writes them to its page; the page then asks for the decision        *)
(* (CloudGetAuth, CloudGetSignResult), which is read from the cache.       *)
(*                                                                         *)
(* Pushes are numbered in the order the cloud issues them.                 *)
(***************************************************************************)
EXTENDS Integers, Sequences, Functions

CONSTANTS Trans,      \* transaction identifiers
          Sessions,   \* WebSocketRequestHandler threads, one page each
          NoPush,     \* no push is at hand
          MaxPushes   \* bound: how many pushes the cloud issues

Push == [id : 1..MaxPushes, trans : Trans, good : BOOLEAN]

ASSUME CloudEventsAssumption ==
    /\ MaxPushes \in Nat
    /\ NoPush \notin Push

VARIABLES
    transport,  \* config.etype, read once at start: "mqtt" or "websocket"
    link,       \* the connection to the cloud: "down", "up", or "dead" for good
    sent,       \* how many pushes the cloud issued
    wire,       \* pushes on their way to the agent
    recv,       \* the push whose note the receiving thread has yet to queue
    cache,      \* TokenManager: the number of the push kept for each
                \* transaction, 0 when there is none
    forgotten,  \* transactions whose kept push expired or was lost in a crash
    queue,      \* NotificationQueue::defaultQueue
    at,         \* where the thread of each page is
    note,       \* the note that thread took from the queue and has not sent
    page,       \* is the page still there
    delivered   \* the notes each page received

cloud    == <<transport, link, sent, wire>>
sessions == <<at, note, page, delivered>>
vars     == <<transport, link, sent, wire, recv, cache, forgotten, queue,
              at, note, page, delivered>>

-----------------------------------------------------------------------------
(***************************************************************************)
(* The cloud and the connection to it.                                     *)
(***************************************************************************)

\* The cloud pushes a decision, or (not good) a message that carries an error
\* code or no data.  It is lost unless the agent is connected: the MQTT
\* session is clean and the WebSocket has no other.
CloudPush(t, good) ==
    /\ sent < MaxPushes
    /\ sent' = sent + 1
    /\ wire' = IF link = "up"
               THEN Append(wire, [id |-> sent + 1, trans |-> t, good |-> good])
               ELSE wire
    /\ UNCHANGED <<transport, link, recv, cache, forgotten, queue, sessions>>

\* MQTT connects at start, and again after a loss; SocketConnector connects once.
Connect ==
    /\ link = "down"
    /\ link' = "up"
    /\ UNCHANGED <<transport, sent, wire, recv, cache, forgotten, queue, sessions>>

\* The connection ends.  MQTT reconnects.  WSQTTHandler either deletes itself
\* (receiveFrame throws) or ignores the empty frame for ever (it returns 0).
LinkLost ==
    /\ link = "up"
    /\ link' = IF transport = "mqtt" THEN "down" ELSE "dead"
    /\ wire' = <<>>
    /\ UNCHANGED <<transport, sent, recv, cache, forgotten, queue, sessions>>

-----------------------------------------------------------------------------
(***************************************************************************)
(* The receiving thread: MQTTAsyncClient::messageArrived, or               *)
(* WSQTTHandler::onReadable, which does the same two things in the same    *)
(* order.                                                                  *)
(***************************************************************************)

\* Mutant: pushes are handled by several threads and overtake one another.
ReceiveGood_AnyOrder ==
    /\ recv = NoPush
    /\ \E i \in DOMAIN wire :
          /\ wire[i].good
          /\ cache' = [cache EXCEPT ![wire[i].trans] = wire[i].id]
          /\ forgotten' = forgotten \ {wire[i].trans}
          /\ recv' = wire[i]
          /\ wire' = SubSeq(wire, 1, i - 1) \o SubSeq(wire, i + 1, Len(wire))
    /\ UNCHANGED <<transport, link, sent, queue, sessions>>

\* Mutant: the decision is added to what the cache keeps, not put in its place.
ReceiveGood_Appends ==
    /\ recv = NoPush
    /\ wire # <<>>
    /\ Head(wire).good
    /\ LET p == Head(wire)
       IN /\ cache' = [cache EXCEPT ![p.trans] = @ + p.id]
          /\ forgotten' = forgotten \ {p.trans}
          /\ recv' = p
    /\ wire' = Tail(wire)
    /\ UNCHANGED <<transport, link, sent, queue, sessions>>

\* The message is parsed and its data is stored under its transaction.
ReceiveGood ==
    /\ recv = NoPush
    /\ wire # <<>>
    /\ Head(wire).good
    /\ LET p == Head(wire)
       IN /\ cache' = [cache EXCEPT ![p.trans] = p.id]
          /\ forgotten' = forgotten \ {p.trans}
          /\ recv' = p
    /\ wire' = Tail(wire)
    /\ UNCHANGED <<transport, link, sent, queue, sessions>>

\* poco_assert throws.  WSQTTHandler catches it and deletes itself.
ReceiveBadWebSocket ==
    /\ transport = "websocket"
    /\ recv = NoPush
    /\ wire # <<>>
    /\ ~Head(wire).good
    /\ link' = "dead"
    /\ wire' = <<>>
    /\ UNCHANGED <<transport, sent, recv, cache, forgotten, queue, sessions>>

\* poco_assert throws.  messageArrived is called from a thread of the C
\* library, which no handler protects: the process ends, and all it had in
\* memory is lost.  It is started again with the same configuration.
ReceiveBadMqtt ==
    /\ transport = "mqtt"
    /\ recv = NoPush
    /\ wire # <<>>
    /\ ~Head(wire).good
    /\ link' = "down"
    /\ wire' = <<>>
    /\ forgotten' = forgotten \union {t \in Trans : cache[t] # 0}
    /\ cache' = [t \in Trans |-> 0]
    /\ queue' = <<>>
    /\ at' = [s \in Sessions |-> "closed"]
    /\ note' = [s \in Sessions |-> NoPush]
    /\ page' = [s \in Sessions |-> FALSE]
    /\ UNCHANGED <<transport, sent, recv, delivered>>

\* Mutant: the note overtakes those that wait (enqueueUrgentNotification).
EnqueueNote_Urgent ==
    /\ recv # NoPush
    /\ queue' = <<recv>> \o queue
    /\ recv' = NoPush
    /\ UNCHANGED <<cloud, cache, forgotten, sessions>>

\* The note is queued, at the end.
EnqueueNote ==
    /\ recv # NoPush
    /\ queue' = Append(queue, recv)
    /\ recv' = NoPush
    /\ UNCHANGED <<cloud, cache, forgotten, sessions>>

\* Mutant: the note is queued first, and the decision stored afterwards.
Receiver_NoteFirst ==
    \/ /\ recv = NoPush
       /\ wire # <<>>
       /\ Head(wire).good
       /\ recv' = Head(wire)
       /\ wire' = Tail(wire)
       /\ queue' = Append(queue, Head(wire))
       /\ UNCHANGED <<transport, link, sent, cache, forgotten, sessions>>
    \/ /\ recv # NoPush
       /\ cache' = [cache EXCEPT ![recv.trans] = recv.id]
       /\ forgotten' = forgotten \ {recv.trans}
       /\ recv' = NoPush
       /\ UNCHANGED <<cloud, queue, sessions>>
    \/ ReceiveBadWebSocket
    \/ ReceiveBadMqtt

Receiver == ReceiveGood \/ ReceiveBadWebSocket \/ ReceiveBadMqtt \/ EnqueueNote

-----------------------------------------------------------------------------
(***************************************************************************)
(* TokenManager, an AccessExpireCache: a decision nobody asks for is       *)
(* forgotten after ten minutes, at a moment the model leaves open.         *)
(***************************************************************************)
Expire(t) ==
    /\ cache[t] # 0
    /\ cache' = [cache EXCEPT ![t] = 0]
    /\ forgotten' = forgotten \union {t}
    /\ UNCHANGED <<cloud, recv, queue, sessions>>

\* What CloudGetAuth and CloudGetSignResult answer for t: the decision of the
\* push with this number, or, for 0, that there is none ("authResult" is "0").
Answer(t) == cache[t]

-----------------------------------------------------------------------------
(***************************************************************************)
(* The thread of a page: WebSocketRequestHandler::handleRequest runs a     *)
(* SocketReactor with the one handler WSQTTServiceHandler.                 *)
(***************************************************************************)

\* A page opens its WebSocket.
OpenPage(s) ==
    /\ at[s] = "closed"
    /\ at' = [at EXCEPT ![s] = "running"]
    /\ page' = [page EXCEPT ![s] = TRUE]
    /\ UNCHANGED <<cloud, recv, cache, forgotten, queue, note, delivered>>

\* The page is closed or its connection breaks.
LeavePage(s) ==
    /\ page[s]
    /\ page' = [page EXCEPT ![s] = FALSE]
    /\ UNCHANGED <<cloud, recv, cache, forgotten, queue, at, note, delivered>>

\* Mutant: an empty frame is ignored, as in WSQTTHandler::onReadable.
OnReadableGone_Ignored(s) ==
    /\ at[s] = "running" /\ note[s] = NoPush
    /\ ~page[s]
    /\ UNCHANGED vars

\* onReadable finds the page gone (an empty frame or an exception) and stops
\* the reactor, which still finishes its round of events.
OnReadableGone(s) ==
    /\ at[s] = "running" /\ note[s] = NoPush
    /\ ~page[s]
    /\ at' = [at EXCEPT ![s] = "stopping"]
    /\ UNCHANGED <<cloud, recv, cache, forgotten, queue, note, page, delivered>>

\* So it does for an empty or an oversized frame of a page that is still there.
\* (Any other frame is echoed.)
OnReadableStops(s) ==
    /\ at[s] = "running" /\ note[s] = NoPush
    /\ page[s]
    /\ at' = [at EXCEPT ![s] = "stopping"]
    /\ UNCHANGED <<cloud, recv, cache, forgotten, queue, note, page, delivered>>

\* Mutant: the note is read and left in the queue for the other pages.
OnWritable_Peek(s) ==
    /\ at[s] \in {"running", "stopping"} /\ note[s] = NoPush
    /\ queue # <<>>
    /\ note' = [note EXCEPT ![s] = Head(queue)]
    /\ UNCHANGED <<cloud, recv, cache, forgotten, queue, at, page, delivered>>

\* Mutant: onWritable serves a page that left, and only then.
OnWritable_OnlyGone(s) ==
    /\ at[s] \in {"running", "stopping"} /\ note[s] = NoPush
    /\ ~page[s]
    /\ queue # <<>>
    /\ note' = [note EXCEPT ![s] = Head(queue)]
    /\ queue' = Tail(queue)
    /\ UNCHANGED <<cloud, recv, cache, forgotten, at, page, delivered>>

\* onWritable takes the oldest note.  (Without one it returns after 250 ms.)
OnWritable(s) ==
    /\ at[s] \in {"running", "stopping"} /\ note[s] = NoPush
    /\ queue # <<>>
    /\ note' = [note EXCEPT ![s] = Head(queue)]
    /\ queue' = Tail(queue)
    /\ UNCHANGED <<cloud, recv, cache, forgotten, at, page, delivered>>

\* Mutant: a note that was not sent is queued again.
SendNote_Again(s) ==
    /\ note[s] # NoPush
    /\ IF page[s]
       THEN delivered' = [delivered EXCEPT ![s] = @ \union {note[s]}] /\ queue' = queue
       ELSE delivered' = delivered /\ queue' = Append(queue, note[s])
    /\ note' = [note EXCEPT ![s] = NoPush]
    /\ at' = [at EXCEPT ![s] = IF @ = "stopping" THEN "stopped" ELSE @]
    /\ UNCHANGED <<cloud, recv, cache, forgotten, page>>

\* ... and sends it.  For a page that left, sendFrame throws or its bytes go
\* nowhere; the note is not put back.
SendNote(s) ==
    /\ note[s] # NoPush
    /\ delivered' = IF page[s]
                    THEN [delivered EXCEPT ![s] = @ \union {note[s]}]
                    ELSE delivered
    /\ note' = [note EXCEPT ![s] = NoPush]
    /\ at' = [at EXCEPT ![s] = IF @ = "stopping" THEN "stopped" ELSE @]
    /\ UNCHANGED <<cloud, recv, cache, forgotten, queue, page>>

\* onError deletes the handler and does not stop the reactor: unless it was
\* stopped before, the thread runs on with nothing to wait for.
OnError(s) ==
    /\ at[s] \in {"running", "stopping"} /\ note[s] = NoPush
    /\ ~page[s]
    /\ at' = [at EXCEPT ![s] = IF @ = "stopping" THEN "stopped" ELSE "leaked"]
    /\ UNCHANGED <<cloud, recv, cache, forgotten, queue, note, page, delivered>>

\* The stopped reactor dispatches onShutdown, which deletes the handler; the
\* thread returns to the pool and the socket is closed.
OnShutdown(s) ==
    /\ at[s] \in {"stopping", "stopped"} /\ note[s] = NoPush
    /\ at' = [at EXCEPT ![s] = "closed"]
    /\ page' = [page EXCEPT ![s] = FALSE]
    /\ UNCHANGED <<cloud, recv, cache, forgotten, queue, note, delivered>>

-----------------------------------------------------------------------------
Init ==
    /\ transport \in {"mqtt", "websocket"}
    /\ link = "down"
    /\ sent = 0
    /\ wire = <<>>
    /\ recv = NoPush
    /\ cache = [t \in Trans |-> 0]
    /\ forgotten = {}
    /\ queue = <<>>
    /\ at = [s \in Sessions |-> "closed"]
    /\ note = [s \in Sessions |-> NoPush]
    /\ page = [s \in Sessions |-> FALSE]
    /\ delivered = [s \in Sessions |-> {}]

Next ==
    \/ \E t \in Trans, good \in BOOLEAN : CloudPush(t, good)
    \/ Connect \/ LinkLost
    \/ Receiver
    \/ \E t \in Trans : Expire(t)
    \/ \E s \in Sessions :
          \/ OpenPage(s) \/ LeavePage(s)
          \/ OnReadableGone(s) \/ OnReadableStops(s)
          \/ OnWritable(s) \/ SendNote(s)
          \/ OnError(s) \/ OnShutdown(s)

\* The threads of the agent run, and a socket whose peer left becomes readable.
\* Nothing is assumed of the cloud, the network and the pages.
Fairness ==
    /\ WF_vars(Receiver)
    /\ \A s \in Sessions :
          /\ WF_vars(OnWritable(s))
          /\ WF_vars(SendNote(s))
          /\ WF_vars(OnReadableGone(s))
          /\ WF_vars(OnShutdown(s))

Spec == Init /\ [][Next]_vars /\ Fairness

-----------------------------------------------------------------------------
(***************************************************************************)
(* Properties.                                                             *)
(***************************************************************************)

\* The variables keep their types.
TypeOK ==
    /\ transport \in {"mqtt", "websocket"}
    /\ link \in {"down", "up", "dead"}
    /\ sent \in 0..MaxPushes
    /\ wire \in Seq(Push)
    /\ recv \in Push \union {NoPush}
    /\ cache \in [Trans -> 0..MaxPushes]
    /\ forgotten \subseteq Trans
    /\ queue \in Seq(Push)
    /\ at \in [Sessions -> {"closed", "running", "stopping", "stopped", "leaked"}]
    /\ note \in [Sessions -> Push \union {NoPush}]
    /\ page \in [Sessions -> BOOLEAN]
    /\ delivered \in [Sessions -> SUBSET Push]

Queued    == Range(queue)
Held      == {note[s] : s \in Sessions} \ {NoPush}
Delivered == UNION {delivered[s] : s \in Sessions}

\* A page that was notified of a decision can read it: whoever sees a note,
\* in the queue, in a thread or in a page, finds in the cache that decision or
\* a later one of the same transaction, unless it was forgotten since.
NoteAfterCache ==
    \A p \in Queued \union Held \union Delivered :
        Answer(p.trans) >= p.id \/ p.trans \in forgotten

\* A note reaches at most one page, once: the threads share one queue.
DeliveredOnce ==
    /\ \A s \in Sessions : note[s] # NoPush =>
          /\ note[s] \notin Queued \union Delivered
          /\ \A r \in Sessions \ {s} : note[r] # note[s]
    /\ Queued \intersect Delivered = {}
    /\ \A r, s \in Sessions : r # s => delivered[r] \intersect delivered[s] = {}

\* Each page receives its notes in the order in which the cloud pushed them.
DeliveredInOrder ==
    [][\A s \in Sessions : \A p \in delivered'[s] \ delivered[s], q \in delivered[s] :
          q.id < p.id]_vars

\* A later decision is never replaced by an earlier one: what a page is told
\* about a transaction only moves forward, or is forgotten.
AnswersMoveForward ==
    [][\A t \in Trans : Answer(t)' < Answer(t) => t \in forgotten']_vars

\* No note stays in the queue while a page is connected: as long as that
\* page's thread runs, it takes the note, if no other thread does.
NotesAreTaken ==
    \A s \in Sessions, n \in 1..MaxPushes :
        ((\E p \in Queued : p.id = n) /\ at[s] = "running")
          ~> ((\A p \in Queued : p.id # n) \/ at[s] # "running")

\* The thread of a page that left returns to the pool, or leaks through onError.
PageThreadEnds ==
    \A s \in Sessions :
        (at[s] = "running" /\ ~page[s]) ~> at[s] \in {"closed", "leaked"}

-----------------------------------------------------------------------------
(***************************************************************************)
(* The promise to the pages.                                               *)
(***************************************************************************)
Promise == INSTANCE NoteDelivery
           WITH pending <- Queued \union Held \union ({recv} \ {NoPush}),
                answer  <- [t \in Trans |-> Answer(t)],
                told    <- delivered

\* Over either transport, with any number of pages competing for the notes, the
\* agent keeps its promise: across the loss of notes and of answers and the end
\* of the process no decision is told twice, out of order, or before its answer.
KeepsPromise == Promise!Spec
=============================================================================
