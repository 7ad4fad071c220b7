---------------------------- MODULE PeerConnection ----------------------------
(***************************************************************************)
(* The connection to one remote: it is resolved and connected by the first *)
(* write, and sends one message after the other.                           *)
(*                                                                         *)
(* The handlers run on the torrent thread, one at a time.  The writer      *)
(* thread writes too, when it tells the remote of a complete torrent that  *)
(* nothing there is of interest (Torrent::last_piece_written).  Each looks *)
(* at m_msg and then acts on what it saw, while the other goes on.         *)
(*                                                                         *)
(* async_write has a view of m_msg, not a copy: what it takes is what is   *)
(* there by then.  The data race on m_msg and m_send_queue as such, which  *)
(* may end the program, is left out.                                       *)
(***************************************************************************)
EXTENDS Integers, SequencesExt

CONSTANTS
  Endpoints,  \* how many addresses the name of the remote has
  MaxWrites,  \* bound: messages written by the torrent thread
  MaxNotify   \* bound: messages written by the writer thread

ASSUME PeerConnectionAssumption ==
  Endpoints \in Nat \ {0} /\ MaxWrites \in Nat /\ MaxNotify \in Nat

Threads == {"torrent", "writer"}

\* An empty m_msg, and a mix of several messages.
Empty == 0
Torn == -1

VARIABLES
  m_msg,         \* the message being sent
  m_send_queue,  \* those behind it
  m_connected,   \* m_connected
  op,            \* what is done to connect: "none", "accepted" by PeerAcceptor
                 \* but not used yet, "resolve", "connect", or "failed"
  left,          \* the endpoints not tried yet
  writes,        \* the async_writes that have not completed, each with what it
                 \* may take and whether reading starts after it
  after_write,   \* where the handler of a completed write is
  reads,         \* how many async_reads have not completed
  m_stopped,     \* m_stopped
  sent,          \* history: what the completed async_writes took
  looked,        \* each thread in write(): what it saw of m_msg, and its message
  written,       \* how many messages were written, and by the writer thread
  stale          \* history: a message was put over one that was being sent

connection == <<m_connected, op, left>>
vars == <<m_msg, m_send_queue, connection, writes, after_write, reads, m_stopped,
          sent, looked, written, stale>>

NotWriting == [saw |-> "none", msg |-> Empty]

Init == /\ m_msg = Empty /\ m_send_queue = <<>>
        /\ m_connected = FALSE /\ op \in {"none", "accepted"} /\ left = Endpoints
        /\ writes = <<>> /\ after_write = "none" /\ reads = 0
        /\ m_stopped = FALSE
        /\ sent = <<>>
        /\ looked = [t \in Threads |-> NotWriting]
        /\ written = [all |-> 0, notify |-> 0]
        /\ stale = FALSE

-----------------------------------------------------------------------------
(* Writing *)

\* The async_writes under way when m becomes m_msg: each may take it, or parts.
Under(m) ==
  [i \in DOMAIN writes |->
    [writes[i] EXCEPT !.takes = @ \cup ({m, Torn} \ {Empty})]]

\* send(): nothing once the connection is stopped.
send(under, m, start_read) ==
  writes' = IF m_stopped THEN under
            ELSE Append(under, [takes |-> {m}, start_read |-> start_read])

\* write() while nothing is being sent: over the connection, or that is made
\* first.
write_now(m) ==
  /\ m_msg' = m
  /\ IF op = "accepted" /\ ~m_stopped
     THEN m_connected' = TRUE /\ op' = "none" /\ left' = left /\ send(Under(m), m, TRUE)
     ELSE IF m_connected
     THEN UNCHANGED connection /\ send(Under(m), m, FALSE)
     ELSE op' = "resolve" /\ UNCHANGED <<m_connected, left>> /\ writes' = Under(m)
  /\ stale' = (stale \/ m_msg # Empty)
  /\ UNCHANGED m_send_queue

\* Mutant: the message goes to the front.
write_later_first(m) ==
  /\ m_send_queue' = <<m>> \o m_send_queue
  /\ UNCHANGED <<m_msg, connection, writes, stale>>

\* write() while something is being sent.
write_later(m) ==
  /\ m_send_queue' = Append(m_send_queue, m)
  /\ UNCHANGED <<m_msg, connection, writes, stale>>

\* The torrent thread is between two handlers, or in the one that writes.
Idle == after_write = "none" /\ looked["torrent"].saw = "none"

\* Which thread may write: the torrent thread anything (handshake,
\* report_bitfield, REQUEST, PIECE, ...), to a peer that was stopped as well; the
\* writer thread over a connection by which the remote has shaken hands
\* (set_am_interested).
MayWrite(t) ==
  IF t = "torrent" THEN Idle /\ written.all < MaxWrites + written.notify
                   ELSE m_connected /\ written.notify < MaxNotify

\* A thread looks at m_msg ...
begin_write(t) ==
  /\ looked[t].saw = "none"
  /\ MayWrite(t)
  /\ looked' = [looked EXCEPT ![t] = [saw |-> IF m_msg = Empty THEN "empty" ELSE "message",
                                      msg |-> written.all + 1]]
  /\ written' = [all |-> written.all + 1,
                 notify |-> written.notify + (IF t = "writer" THEN 1 ELSE 0)]
  /\ UNCHANGED <<m_msg, m_send_queue, connection, writes, after_write, reads,
                 m_stopped, sent, stale>>

\* ... and acts on what it saw.
end_write(t) ==
  /\ looked[t].saw # "none"
  /\ IF looked[t].saw = "empty" THEN write_now(looked[t].msg)
                                ELSE write_later(looked[t].msg)
  /\ looked' = [looked EXCEPT ![t] = NotWriting]
  /\ UNCHANGED <<after_write, reads, m_stopped, sent, written>>

-----------------------------------------------------------------------------
(* Handlers of the network; Peer::stop has its io_service call no more *)

Ready == Idle /\ ~m_stopped

handle_resolve(ok) ==
  /\ Ready
  /\ op = "resolve"
  /\ op' = IF ok THEN "connect" ELSE "failed"
  /\ left' = IF ok THEN left - 1 ELSE left
  /\ UNCHANGED <<m_msg, m_send_queue, m_connected, writes, after_write, reads,
                 m_stopped, sent, looked, written, stale>>

\* The endpoint to try when one did not answer.
next_endpoint == IF left > 0 THEN [op |-> "connect", left |-> left - 1]
                             ELSE [op |-> "failed", left |-> left]

\* m_msg stays set when there is none.
handle_connect(ok) ==
  /\ Ready
  /\ op = "connect"
  /\ IF ok
     THEN op' = "none" /\ m_connected' = TRUE /\ send(writes, m_msg, TRUE) /\ left' = left
     ELSE /\ op' = next_endpoint.op /\ left' = next_endpoint.left
          /\ UNCHANGED <<m_connected, writes>>
  /\ UNCHANGED <<m_msg, m_send_queue, after_write, reads, m_stopped, sent, looked,
                 written, stale>>

\* Mutant: m_send_queue is not looked at.
write_completed_clears(i) ==
  /\ Ready
  /\ \E m \in writes[i].takes : sent' = Append(sent, m)
  /\ writes' = RemoveAt(writes, i)
  /\ reads' = IF writes[i].start_read THEN reads + 1 ELSE reads
  /\ after_write' = "clear"
  /\ UNCHANGED <<m_msg, m_send_queue, connection, m_stopped, looked, written, stale>>

\* The handler of an async_write: an error is only logged.  Reading starts after
\* the first message; then the handler looks at m_send_queue ...
write_completed(i) ==
  /\ Ready
  /\ \E m \in writes[i].takes : sent' = Append(sent, m)
  /\ writes' = RemoveAt(writes, i)
  /\ reads' = IF writes[i].start_read THEN reads + 1 ELSE reads
  /\ after_write' = IF m_send_queue = <<>> THEN "clear" ELSE "next"
  /\ UNCHANGED <<m_msg, m_send_queue, connection, m_stopped, looked, written, stale>>

\* Mutant: the message sent from the queue stays there.
send_next_kept ==
  /\ after_write = "next"
  /\ m_msg' = Head(m_send_queue)
  /\ send(Under(Head(m_send_queue)), Head(m_send_queue), FALSE)
  /\ after_write' = "none"
  /\ UNCHANGED <<m_send_queue, connection, reads, m_stopped, sent, looked, written, stale>>

\* ... to send the next message ...
send_next ==
  /\ after_write = "next"
  /\ m_msg' = Head(m_send_queue)
  /\ m_send_queue' = Tail(m_send_queue)
  /\ send(Under(Head(m_send_queue)), Head(m_send_queue), FALSE)
  /\ after_write' = "none"
  /\ UNCHANGED <<connection, reads, m_stopped, sent, looked, written, stale>>

\* ... or, as all sending is done, to clear m_msg.
clear ==
  /\ after_write = "clear"
  /\ m_msg' = Empty
  /\ writes' = Under(Empty)
  /\ after_write' = "none"
  /\ UNCHANGED <<m_send_queue, connection, reads, m_stopped, sent, looked, written,
                 stale>>

\* handle_response reads on after data (see PeerWire), tells the torrent of an
\* EOF, which stops the peer, and only logs any other error.
handle_response(result) ==
  /\ Ready
  /\ reads > 0
  /\ reads' = IF result = "data" THEN reads ELSE reads - 1
  /\ m_stopped' = (result = "eof")
  /\ UNCHANGED <<m_msg, m_send_queue, connection, writes, after_write, sent, looked,
                 written, stale>>

\* The torrent stops the peer.
stop ==
  /\ Ready
  /\ m_stopped' = TRUE
  /\ UNCHANGED <<m_msg, m_send_queue, connection, writes, after_write, reads, sent,
                 looked, written, stale>>

Resolving == \E ok \in BOOLEAN : handle_resolve(ok)
Connecting == \E ok \in BOOLEAN : handle_connect(ok)
Completing == \E i \in DOMAIN writes : write_completed(i)
Handler == send_next \/ clear

Next == \/ \E t \in Threads : begin_write(t) \/ end_write(t)
        \/ Resolving \/ Connecting \/ Completing \/ Handler
        \/ \E result \in {"data", "eof", "error"} : handle_response(result)
        \/ stop

Spec == Init /\ [][Next]_vars

\* Asynchronous operations complete, and handlers run to their end.
FairSpec == /\ Spec
            /\ WF_vars(Handler) /\ \A t \in Threads : WF_vars(end_write(t))
            /\ WF_vars(Resolving) /\ WF_vars(Connecting) /\ WF_vars(Completing)

-----------------------------------------------------------------------------
(* Properties *)

Messages == Nat \cup {Torn}

TypeOK ==
  /\ m_msg \in Nat /\ m_send_queue \in Seq(Nat) /\ sent \in Seq(Messages)
  /\ m_connected \in BOOLEAN /\ m_stopped \in BOOLEAN
  /\ op \in {"none", "accepted", "resolve", "connect", "failed"}
  /\ left \in 0 .. Endpoints
  /\ writes \in Seq([takes : SUBSET Messages, start_read : BOOLEAN])
  /\ after_write \in {"none", "clear", "next"}
  /\ reads \in Nat
  /\ looked \in [Threads -> [saw : {"none", "empty", "message"}, msg : Nat]]
  /\ written \in [all : Nat, notify : Nat]
  /\ stale \in BOOLEAN

\* As long as only the torrent thread writes, the remote gets the messages in
\* the order of the calls to write(), whether they had to wait for the
\* connection or for each other.
SentInOrder == written.notify = 0 => sent = [i \in DOMAIN sent |-> i]

\* There is one async_write on the socket at a time, as asio demands ...
OneWriter == Len(writes) <= 1

\* ... each takes a message whole, and none is sent twice.
SentOnce == (\A i \in DOMAIN sent : sent[i] # Torn) /\ IsInjective(sent)

\* A single chain of async_read and handle_response works on response_.
OneReader == reads <= 1

\* What holds of a connection to which both threads write (peer.cpp): all that
\* can go wrong with m_msg is that a thread acts on a look at it by which the
\* other has begun to send.  A completion, a clear, a message that waits in the
\* queue or a stop in between does no harm.
Inv == TypeOK /\ OneReader /\ (~stale => OneWriter /\ SentOnce)

\* What is written gets sent, unless the connection cannot be made or is
\* stopped: no message waits for a completion that does not come.  A message of
\* the writer thread may have come in between (see EmptyMeansDone).
AllSent ==
  \A i \in 1 .. MaxWrites :
    written.all >= i ~> \/ Len(sent) >= i \/ op = "failed" \/ m_stopped
                        \/ written.notify > 0

-----------------------------------------------------------------------------
(* What comments of the program say, and the model refutes *)

\* A message is queued when something is already being sent (peer.cpp), so
\* that there is an operation under way that will look at the queue.
QueuedBehindSend ==
  m_send_queue # <<>> => \/ op \in {"resolve", "connect"} \/ writes # <<>>
                         \/ after_write # "none" \/ m_stopped

\* ... and no other message is put over the one being sent.
SentOnceByBoth == OneWriter /\ SentOnce

\* An empty m_msg indicates that all sending is done (peer.cpp).
EmptyMeansDone == m_msg = Empty => m_send_queue = <<>>

=============================================================================
