------------------------------ MODULE Download ------------------------------
(***************************************************************************)
(* The download path of one zit torrent: the piece bookkeeping of Torrent  *)
(* and Piece, the request pipeline of its peers, and the FileWriter that   *)
(* verifies a finished piece and puts it on disk.                          *)
(*                                                                         *)
(* Two threads share the state.  The torrent thread runs every socket      *)
(* handler and timer (Torrent::run); it is modelled by `net', which is     *)
(* idle between handlers.  The writer thread runs FileWriter::run and is   *)
(* modelled by `writer'.  A step ends where a thread releases a mutex and  *)
(* the other one may be seen to run.                                       *)
(*                                                                         *)
(* Piece objects are shared_ptrs: the map of active pieces, the writer's   *)
(* queue and a running handler can hold different objects of one piece id, *)
(* so an object has an identity (Objs) of its own.                         *)
(***************************************************************************)
EXTENDS Sequences, FiniteSetsExt

CONSTANTS
  NumPieces,    \* m_pieces.size()
  BlockCount,   \* block_count() of each piece; the last one may be shorter
  Peers,        \* the remote peers this client connects to
  Objs,         \* identities for Piece objects
  None,         \* a null pointer
  MaxPending,   \* MAX_PENDING_REQUESTS
  SingleFile,   \* is_single_file()
  Bitfields,    \* the bitfields remotes may announce
  MaxLate,      \* bound: retries of blocks whose answer is still on its way
  MaxBad,       \* bound: blocks that arrive with wrong bytes
  MaxFails,     \* bound: pieces the writer fails to write
  MaxChokes,    \* bound: chokes by remotes
  MaxDrops,     \* bound: connections lost or replaced
  MaxUploads    \* bound: block requests by remotes

Pieces == 0 .. NumPieces - 1
Blocks(p) == 0 .. BlockCount[p] - 1
Requests == UNION {{p} \X Blocks(p) : p \in Pieces}

ASSUME SizesAssumption == /\ NumPieces \in Nat \ {0}
                          /\ BlockCount \in [Pieces -> Nat \ {0}]
                          /\ MaxPending \in Nat \ {0}
ASSUME NamesAssumption == /\ None \notin Objs \cup Peers
                          /\ SingleFile \in BOOLEAN
                          /\ Bitfields \subseteq SUBSET Pieces
ASSUME BoundsAssumption == /\ MaxLate \in Nat
                           /\ MaxBad \in Nat
                           /\ MaxFails \in Nat
                           /\ MaxChokes \in Nat
                           /\ MaxDrops \in Nat
                           /\ MaxUploads \in Nat

VARIABLES
  client,  \* m_client_pieces: the pieces marked as downloaded
  active,  \* m_active_pieces: piece id -> Piece object
  heap,    \* the Piece objects
  queue,   \* FileWriter::m_queue
  writer,  \* where the writer thread is in write_next_piece, and its piece
  disk,    \* the files of the torrent
  peer,    \* the Peer objects
  net,     \* the handler the torrent thread is running
  used     \* how much of each bound has been used

vars == <<client, active, heap, queue, writer, disk, peer, net, used>>

-----------------------------------------------------------------------------
(* Piece *)

\* A Piece of id p as constructed.  `good' are the blocks whose bytes in
\* m_data are the right ones: a zeroed or a cleared buffer holds none.
Fresh(p) == [id        |-> p,
             requested |-> {},
             done      |-> {},
             good      |-> {},
             written   |-> FALSE]

Complete(piece) == piece.done = Blocks(piece.id)

\* The Sha1 of m_data is the one the torrent lists for the piece.
HashMatches(piece) == piece.good = Blocks(piece.id)

\* The blocks next_offset() chooses from.
Unrequested(piece) == Blocks(piece.id) \ (piece.requested \cup piece.done)

\* Piece::set_block: a block that is already there is not copied again.
set_block(piece, b, ok) ==
  [piece EXCEPT !.done = @ \cup {b},
                !.good = IF ok /\ b \notin piece.done THEN @ \cup {b} ELSE @]

\* ... and its result, which does not ask whether b was new.
set_block_result(piece, b) == Complete(set_block(piece, b, TRUE))

set_piece_written(piece) ==
  [piece EXCEPT !.written = TRUE, !.done = Blocks(piece.id), !.good = {}]

reset(piece) ==
  [piece EXCEPT !.requested = {}, !.done = {}, !.good = {}, !.written = FALSE]

\* Mutant: the inactive piece keeps its marks.
retry_blocks_kept(piece) == piece

\* Piece::retry_blocks once its 30 seconds have passed.
retry_blocks(piece) == [piece EXCEPT !.requested = {}]

-----------------------------------------------------------------------------
(* Torrent *)

IsActive(p) == active[p] # None

\* Mutant: pieces received but not yet written count as done.
done_received == client = Pieces

\* Torrent::done
done == /\ client = Pieces
        /\ \A p \in Pieces : IsActive(p) => heap[active[p]].written

\* Mutant: a queue that takes one piece at a time.
add_if_empty(o) == IF queue = <<>> THEN <<o>> ELSE queue

\* FileWriter::add
add(o) == Append(queue, o)

\* Objects some shared_ptr still points to.
Held == Range(active) \cup Range(queue) \cup {writer.obj, net.obj}

Idle == [pc    |-> "idle", peer |-> None, obj |-> None, left |-> 0,
         retry |-> 0, start |-> 0, todo |-> {}]

Connected == {r \in Peers : peer[r].on}

\* m_peers_mutex is held by retry_pieces while it goes through the peers.
PeersLocked == net.retry > 0

\* The torrent thread is between handlers.
Ready == net.pc = "idle"

\* The loop of retry_pieces after a call that got to peer r, with `retry'
\* blocks still to hand out: on to the next peer, around again as long as a
\* round achieves something.  Outside retry_pieces the handler is over.
Advance(n, r, retry) ==
  LET todo == n.todo \ {r}
  IN IF retry = 0 \/ (todo = {} /\ retry = n.start)
     THEN Idle
     ELSE [Idle EXCEPT !.pc    = "next",
                       !.retry = retry,
                       !.start = IF todo = {} THEN retry ELSE n.start,
                       !.todo  = IF todo = {} THEN Connected ELSE todo]

\* The entry checks of Peer::request_next_block(max): the handler goes on to
\* select a piece, or the call makes no request.  q is the Peer object.
request_next_block(n, r, q, max) ==
  IF q.interested /\ ~q.choking /\ max > q.pending
  THEN [n EXCEPT !.pc = "select", !.peer = r, !.left = max - q.pending]
  ELSE Advance(n, r, n.retry)

\* A remote whose requests are all answered or gone.
NoFlight == [q \in Requests |-> 0]

NoPeer == [on |-> FALSE, interested |-> FALSE, choking |-> TRUE, pending |-> 0,
           remote |-> {}, flight |-> NoFlight]

\* A request to Peer object q: m_pending_requests counts it.
requested(q, req) ==
  [q EXCEPT !.pending = q.pending + 1,
            !.flight  = [q.flight EXCEPT ![req] = q.flight[req] + 1]]

\* Mutant: a late answer makes the count negative.
answered_below(q, req) ==
  [q EXCEPT !.pending = q.pending - 1,
            !.flight  = [q.flight EXCEPT ![req] = q.flight[req] - 1]]

\* Its answer arrives, after a choke uncounted (Peer::set_block).
answered(q, req) ==
  [q EXCEPT !.pending = IF q.pending > 0 THEN q.pending - 1 ELSE 0,
            !.flight  = [q.flight EXCEPT ![req] = q.flight[req] - 1]]

\* Mutant: a choke leaves the dropped requests counted.
choked_counting(q, flight) == [q EXCEPT !.choking = TRUE, !.flight = flight]

\* A choke; `flight' are the answers still under way.
choked(q, flight) ==
  [q EXCEPT !.choking = TRUE, !.pending = 0, !.flight = flight]

-----------------------------------------------------------------------------
Init == /\ client = {}
        /\ active = [p \in Pieces |-> None]
        /\ heap = [o \in Objs |-> Fresh(0)]
        /\ queue = <<>>
        /\ writer = [pc |-> "idle", obj |-> None]
        /\ disk = [tmp |-> FALSE, part |-> {}, full |-> {}, completed |-> FALSE]
        /\ peer = [r \in Peers |-> NoPeer]
        /\ net = Idle
        /\ used = [late |-> 0, bad |-> 0, fails |-> 0, chokes |-> 0,
                   drops |-> 0, uploads |-> 0]

-----------------------------------------------------------------------------
(* The torrent thread: handlers of messages from the remotes, and timers *)

\* A connection to r is made, or replaced (add_peer), and r answers the
\* handshake with its bitfield: report_bitfield, set_am_interested(true).
recv_handshake(r, bf) ==
  /\ Ready
  /\ peer[r].on => used.drops < MaxDrops
  /\ peer' = [peer EXCEPT ![r] = [NoPeer EXCEPT !.on = TRUE,
                                               !.interested = ~done,
                                               !.remote = bf]]
  /\ used' = [used EXCEPT !.drops = IF peer[r].on THEN @ + 1 ELSE @]
  /\ UNCHANGED <<client, active, heap, queue, writer, disk, net>>

\* BITFIELD on its own replaces what the handshake or HAVE messages said
\* (Peer::set_remote_pieces); nothing is requested for it.
set_remote_pieces(r, bf) ==
  /\ Ready
  /\ peer[r].on
  /\ peer' = [peer EXCEPT ![r].remote = bf]
  /\ UNCHANGED <<client, active, heap, queue, writer, disk, net, used>>

\* Torrent::disconnected: the Peer object goes, what it had requested stays
\* marked as requested in the pieces.
disconnected(r) ==
  /\ Ready
  /\ peer[r].on
  /\ used.drops < MaxDrops
  /\ peer' = [peer EXCEPT ![r] = NoPeer]
  /\ used' = [used EXCEPT !.drops = @ + 1]
  /\ UNCHANGED <<client, active, heap, queue, writer, disk, net>>

\* CHOKE: the remote drops the requests it has not answered, or it has
\* their answers already on the way.
set_choking(r) ==
  /\ Ready
  /\ peer[r].on /\ ~peer[r].choking
  /\ used.chokes < MaxChokes
  /\ \E flight \in {peer[r].flight, NoFlight} :
       peer' = [peer EXCEPT ![r] = choked(peer[r], flight)]
  /\ used' = [used EXCEPT !.chokes = @ + 1]
  /\ UNCHANGED <<client, active, heap, queue, writer, disk, net>>

\* UNCHOKE
set_unchoking(r) ==
  /\ Ready
  /\ peer[r].on /\ peer[r].choking
  /\ peer' = [peer EXCEPT ![r].choking = FALSE]
  /\ net' = request_next_block(Idle, r, peer'[r], MaxPending)
  /\ UNCHANGED <<client, active, heap, queue, writer, disk, used>>

\* HAVE: without a bitfield the remote is taken to have everything.
have(r, p) ==
  /\ Ready
  /\ peer[r].on
  /\ peer' = [peer EXCEPT ![r].remote = IF @ = {} THEN Pieces ELSE @ \cup {p}]
  /\ net' = request_next_block(Idle, r, peer'[r], MaxPending)
  /\ UNCHANGED <<client, active, heap, queue, writer, disk, used>>

\* PIECE: Peer::set_block, Torrent::set_block, piece_done and the callback
\* that gives the piece to the FileWriter; then request_next_block.
recv_piece(r, p, b, ok) ==
  /\ Ready
  /\ peer[r].on /\ peer[r].flight[<<p, b>>] > 0
  /\ ok \/ used.bad < MaxBad
  /\ peer' = [peer EXCEPT ![r] = answered(peer[r], <<p, b>>)]
  /\ used' = [used EXCEPT !.bad = IF ok THEN @ ELSE @ + 1]
  /\ IF IsActive(p)
     THEN LET o == active[p]
              finished == set_block_result(heap[o], b)
          IN /\ heap' = [heap EXCEPT ![o] = set_block(@, b, ok)]
             /\ client' = IF finished THEN client \cup {p} ELSE client
             /\ queue' = IF finished THEN add(o) ELSE queue
     ELSE UNCHANGED <<heap, client, queue>>
  /\ net' = request_next_block(Idle, r, peer'[r], MaxPending)
  /\ UNCHANGED <<active, writer, disk>>

\* Peer::next_piece(true): the first piece the remote has, this client has
\* not, and with a block nobody was asked for.  Its object is made when the
\* piece is not active yet (active_piece).
Candidates(r) ==
  {p \in peer[r].remote \ client :
     ~IsActive(p) \/ Unrequested(heap[active[p]]) # {}}

next_piece ==
  /\ net.pc = "select"
  /\ IF Candidates(net.peer) = {}
     THEN /\ net' = Advance(net, net.peer, net.retry)
          /\ UNCHANGED <<active, heap>>
     ELSE LET p == Min(Candidates(net.peer))
          IN IF IsActive(p)
             THEN /\ net' = [net EXCEPT !.pc = "mark", !.obj = active[p]]
                  /\ UNCHANGED <<active, heap>>
             ELSE \E o \in Objs \ Held :
                    /\ o = CHOOSE free \in Objs \ Held : TRUE
                    /\ active' = [active EXCEPT ![p] = o]
                    /\ heap' = [heap EXCEPT ![o] = Fresh(p)]
                    /\ net' = [net EXCEPT !.pc = "mark", !.obj = o]
  /\ UNCHANGED <<client, queue, writer, disk, peer, used>>

\* Piece::next_offset(true) on the object found, which the writer may have
\* reset and dropped meanwhile, and the REQUEST sent for it.
next_offset ==
  /\ net.pc = "mark"
  /\ IF Unrequested(heap[net.obj]) = {}
     THEN /\ net' = Advance(net, net.peer, net.retry)
          /\ UNCHANGED <<heap, peer>>
     ELSE LET p == heap[net.obj].id
              b == Min(Unrequested(heap[net.obj]))
              left == net.left - 1
              retry == IF PeersLocked THEN net.retry - 1 ELSE 0
          IN /\ heap' = [heap EXCEPT ![net.obj].requested = @ \cup {b}]
             /\ peer' = [peer EXCEPT ![net.peer] = requested(peer[net.peer], <<p, b>>)]
             /\ net' = IF left = 0
                       THEN Advance(net, net.peer, retry)
                       ELSE [net EXCEPT !.left = left, !.retry = retry,
                                        !.pc = "select", !.obj = None]
  /\ UNCHANGED <<client, active, queue, writer, disk, used>>

\* The timer of retry_pieces.  `stale' are the pieces without activity for
\* 30 seconds; a request whose answer is still under way may be among them.
InFlight(q) == \E r \in Peers : peer[r].flight[q] > 0

retry_pieces(stale) ==
  LET cleared == {q \in Requests : /\ q[1] \in stale
                                   /\ q[2] \in heap[active[q[1]]].requested
                                   /\ q[2] \notin heap[active[q[1]]].done}
      early == \E q \in cleared : InFlight(q)
      retry == Cardinality(cleared)
  IN /\ Ready
     /\ \A p \in stale : /\ IsActive(p)
                         /\ ~heap[active[p]].written
                         /\ heap[active[p]].requested # {}
     /\ early => used.late < MaxLate
     /\ used' = [used EXCEPT !.late = IF early THEN @ + 1 ELSE @]
     /\ heap' = [o \in Objs |-> IF \E p \in stale : active[p] = o
                                THEN retry_blocks(heap[o])
                                ELSE heap[o]]
     /\ net' = IF retry = 0 \/ Connected = {}
               THEN Idle
               ELSE [Idle EXCEPT !.pc = "next", !.retry = retry,
                                 !.start = retry, !.todo = Connected]
     /\ UNCHANGED <<client, active, queue, writer, disk, peer>>

\* One turn of its loop over the (shuffled) peers: up to MAX_PENDING_REQUESTS,
\* but always at least 1.
retry_next_peer(r) ==
  LET pending == peer[r].pending
      desired == IF pending < MaxPending THEN MaxPending - pending ELSE 1
      to_request == IF desired < net.retry THEN desired ELSE net.retry
  IN /\ net.pc = "next"
     /\ r \in net.todo
     /\ net' = request_next_block(net, r, peer[r], pending + to_request)
     /\ UNCHANGED <<client, active, heap, queue, writer, disk, peer, used>>

\* REQUEST by an interested, unchoked remote: Peer::request looks the piece up
\* (and makes it active), Piece::get_block takes the block from memory or
\* lets read_block open the file that tmpfile() names.  That file is gone once
\* a single torrent is renamed, and is the marker of a multi torrent: the
\* exception leaves Torrent::run and ends the thread.
ReadFails(p) == /\ heap[active[p]].written
                /\ ~(SingleFile /\ disk.tmp)

request(r, p) ==
  /\ Ready
  /\ peer[r].on
  /\ used.uploads < MaxUploads
  /\ used' = [used EXCEPT !.uploads = @ + 1]
  /\ IF IsActive(p)
     THEN /\ net' = IF ReadFails(p) THEN [Idle EXCEPT !.pc = "dead"] ELSE Idle
          /\ UNCHANGED <<active, heap>>
     ELSE \E o \in Objs \ Held :
            /\ o = CHOOSE free \in Objs \ Held : TRUE
            /\ active' = [active EXCEPT ![p] = o]
            /\ heap' = [heap EXCEPT ![o] = Fresh(p)]
            /\ net' = Idle
  /\ UNCHANGED <<client, queue, writer, disk, peer>>

-----------------------------------------------------------------------------
(* The writer thread: FileWriter::write_next_piece *)

\* Wait for the queue and take its front.
write_next_piece ==
  /\ writer.pc = "idle"
  /\ queue # <<>>
  /\ writer' = [pc |-> "hash", obj |-> Head(queue)]
  /\ queue' = Tail(queue)
  /\ UNCHANGED <<client, active, heap, disk, peer, net, used>>

\* Sha1::calculateData(piece->data())
check_sha ==
  /\ writer.pc = "hash"
  /\ writer' = [writer EXCEPT
                  !.pc = IF HashMatches(heap[writer.obj]) THEN "write" ELSE "reset"]
  /\ UNCHANGED <<client, active, heap, queue, disk, peer, net, used>>

\* Torrent::reset_piece: by id, whatever object is active by now.
reset_piece ==
  LET p == heap[writer.obj].id
  IN /\ writer.pc = "reset"
     /\ IF IsActive(p)
        THEN /\ heap' = [heap EXCEPT ![active[p]] = reset(@)]
             /\ client' = client \ {p}
             /\ active' = [active EXCEPT ![p] = None]
        ELSE UNCHANGED <<heap, client, active>>
     /\ writer' = [pc |-> "idle", obj |-> None]
     /\ UNCHANGED <<queue, disk, peer, net, used>>

\* Mutant: allocate makes new files each time.
allocate_again == [disk EXCEPT !.tmp = TRUE, !.part = {}]

\* TorrentDestination::allocate: a missing tmpfile means new, zeroed files.
allocate == IF disk.tmp THEN disk ELSE [disk EXCEPT !.tmp = TRUE, !.part = {}]

\* allocate, verifyFileSize, writePiece, verifyFileSize
writePiece ==
  LET piece == heap[writer.obj]
  IN /\ writer.pc = "write"
     /\ disk' = [allocate EXCEPT !.part = IF HashMatches(piece)
                                          THEN @ \cup {piece.id}
                                          ELSE @ \ {piece.id}]
     /\ writer' = [writer EXCEPT !.pc = "mark"]
     /\ UNCHANGED <<client, active, heap, queue, peer, net, used>>

\* An I/O error before or after allocate, or in the middle of the piece, is
\* logged; the piece is not put back into the queue.
write_failed ==
  /\ writer.pc = "write"
  /\ used.fails < MaxFails
  /\ \E d \in {disk, allocate,
               [allocate EXCEPT !.part = @ \ {heap[writer.obj].id}]} : disk' = d
  /\ writer' = [pc |-> "idle", obj |-> None]
  /\ used' = [used EXCEPT !.fails = @ + 1]
  /\ UNCHANGED <<client, active, heap, queue, peer, net>>

mark_written ==
  /\ writer.pc = "mark"
  /\ heap' = [heap EXCEPT ![writer.obj] = set_piece_written(@)]
  /\ writer' = [writer EXCEPT !.pc = "check"]
  /\ UNCHANGED <<client, active, queue, disk, peer, net, used>>

check_done ==
  /\ writer.pc = "check"
  /\ writer' = IF done THEN [writer EXCEPT !.pc = "complete"]
                       ELSE [pc |-> "idle", obj |-> None]
  /\ UNCHANGED <<client, active, heap, queue, disk, peer, net, used>>

\* torrentComplete: a single torrent is renamed onto its final name, of a
\* multi torrent only the marker is removed.
torrentComplete ==
  /\ writer.pc = "complete"
  /\ disk' = [tmp       |-> FALSE,
              part      |-> IF SingleFile THEN {} ELSE disk.part,
              full      |-> IF SingleFile THEN disk.part ELSE disk.full,
              completed |-> TRUE]
  /\ writer' = [writer EXCEPT !.pc = "notify"]
  /\ UNCHANGED <<client, active, heap, queue, peer, net, used>>

\* last_piece_written: set_am_interested(false) under m_peers_mutex.
last_piece_written ==
  /\ writer.pc = "notify"
  /\ ~PeersLocked
  /\ peer' = [r \in Peers |-> [peer[r] EXCEPT !.interested = FALSE]]
  /\ writer' = [pc |-> "idle", obj |-> None]
  /\ UNCHANGED <<client, active, heap, queue, disk, net, used>>

-----------------------------------------------------------------------------
Remote == \E r \in Peers :
            \/ \E bf \in Bitfields : recv_handshake(r, bf) \/ set_remote_pieces(r, bf)
            \/ disconnected(r)
            \/ set_choking(r)
            \/ set_unchoking(r)
            \/ \E p \in Pieces : have(r, p) \/ request(r, p)
            \/ \E q \in Requests, ok \in BOOLEAN : recv_piece(r, q[1], q[2], ok)

Timer == \E stale \in (SUBSET Pieces) \ {{}} : retry_pieces(stale)

Handler == next_piece \/ next_offset \/ \E r \in Peers : retry_next_peer(r)

Writer == \/ write_next_piece \/ check_sha \/ reset_piece \/ writePiece
          \/ write_failed \/ mark_written \/ check_done \/ torrentComplete
          \/ last_piece_written

Next == Remote \/ Timer \/ Handler \/ Writer

Spec == Init /\ [][Next]_vars

\* Torrent::run polls every peer's io_service and the timers once per turn, so
\* a message that has come in or a timer that is due is handled in the end
\* (SF: the thread may be busy with another handler in between); the writer
\* thread keeps running.  That remotes answer, unchoke and can be reached
\* again is an assumption on them.
FairSpec ==
  /\ Spec
  /\ WF_vars(Handler)
  /\ WF_vars(Writer)
  /\ SF_vars(Timer)
  /\ \A r \in Peers :
       /\ WF_vars(\E bf \in Bitfields : ~peer[r].on /\ recv_handshake(r, bf))
       /\ SF_vars(set_unchoking(r))
       /\ \A q \in Requests : SF_vars(recv_piece(r, q[1], q[2], TRUE))

-----------------------------------------------------------------------------
(* Properties *)

PieceType == {piece \in [id : Pieces, requested : SUBSET Nat, done : SUBSET Nat,
                        good : SUBSET Nat, written : BOOLEAN] :
                /\ piece.requested \subseteq Blocks(piece.id)
                /\ piece.done \subseteq Blocks(piece.id)
                /\ piece.good \subseteq piece.done}

WriterType == {w \in [pc  : {"idle", "hash", "reset", "write", "mark", "check",
                            "complete", "notify"},
                     obj : Objs \cup {None}] :
                 w.pc = "idle" <=> w.obj = None}

PeerType == [on : BOOLEAN, interested : BOOLEAN, choking : BOOLEAN, pending : Nat,
             remote : SUBSET Pieces, flight : [Requests -> Nat]]

NetType == {n \in [pc   : {"idle", "select", "mark", "next", "dead"},
                  peer : Peers \cup {None}, obj : Objs \cup {None}, left : Nat,
                  retry : Nat, start : Nat, todo : SUBSET Peers] :
              /\ n.pc \in {"select", "mark"} => n.peer \in Peers /\ n.left > 0
              /\ n.pc = "mark" => n.obj \in Objs}

UsedType == [late : Nat, bad : Nat, fails : Nat, chokes : Nat, drops : Nat,
             uploads : Nat]

TypeOK == /\ client \subseteq Pieces
          /\ active \in [Pieces -> Objs \cup {None}]
          /\ heap \in [Objs -> PieceType]
          /\ queue \in Seq(Objs)
          /\ writer \in WriterType
          /\ disk \in [tmp : BOOLEAN, part : SUBSET Pieces, full : SUBSET Pieces,
                       completed : BOOLEAN]
          /\ peer \in [Peers -> PeerType]
          /\ net \in NetType
          /\ used \in UsedType

\* A bit of m_client_pieces is set exactly while the active object of the
\* piece has all its blocks, whatever the retries, duplicates, corrupt blocks
\* and resets by the writer thread (Torrent::set_block, reset_piece).
ClientIffComplete ==
  \A p \in Pieces : p \in client <=> IsActive(p) /\ Complete(heap[active[p]])

\* As long as no write failed, a piece that is complete but not written is
\* queued for the writer or in its hands: none is forgotten between
\* piece_done and set_piece_written, although objects of one id are replaced.
NoPieceForgotten ==
  used.fails = 0 =>
    \A p \in Pieces :
      (p \in client /\ ~heap[active[p]].written)
        => active[p] \in Range(queue) \cup {writer.obj}

\* Until the torrent first completes, what piece_written() claims is on disk:
\* no failed write, reset or stale queue entry can damage a written piece.
WrittenIsOnDisk ==
  ~disk.completed =>
    \A p \in Pieces :
      (IsActive(p) /\ heap[active[p]].written) => disk.tmp /\ p \in disk.part

\* The content of the files under the torrent's name.
Published == IF SingleFile THEN disk.full ELSE disk.part

\* The first torrentComplete() publishes only verified data: all pieces were
\* written, and none was reset while the writer went on from done().
FirstCompletionIsGood ==
  [][disk'.completed /\ ~disk.completed => Published' = Pieces]_vars

\* As long as no retry asks again for a block that is still on its way,
\* nothing damages the published files: connections lost, blocks fetched
\* anew, resets and uploads do not bring a written piece back to the writer.
PublishedStays ==
  used.late = 0 /\ disk.completed => Published = Pieces

\* The answers that a remote still sends, of each request the first, the second ...
Outstanding(flight) == UNION {{q} \X (1 .. flight[q]) : q \in Requests}

\* m_pending_requests counts answers that can still arrive: a slot counted
\* for an answer that is gone would never be freed (request_next_block).
PendingIsOutstanding ==
  \A r \in Peers : peer[r].pending <= Cardinality(Outstanding(peer[r].flight))

\* The pieces that piece_written() names.
WrittenPieces == {p \in Pieces : IsActive(p) /\ heap[active[p]].written}

\* As long as no retry was early, the download is a Store, as its files are
\* (Storage): pieces are written one by one, none that was is reset or fetched
\* anew, and the torrent completes when it has them all.
Pipeline == INSTANCE Store WITH stored <- WrittenPieces, published <- disk.completed

PiecesAreKept ==
  /\ Pipeline!STInit
  /\ [][used'.late = 0 => [Pipeline!STNext]_(Pipeline!stvars)]_vars

\* A piece that is complete gets written, or thrown away and fetched anew; the
\* writer is not kept from it for ever, last_piece_written included.
CompleteIsSettled ==
  \A p \in Pieces : (p \in client /\ ~heap[active[p]].written)
                     ~> (p \in client => heap[active[p]].written)

\* With remotes that answer in time and correctly, the download completes in
\* spite of chokes and lost connections (retry_pieces, request_next_block).  After
\* a corrupt block it may not: nothing asks for a piece that was reset until a
\* remote unchokes this client or announces a piece.
DownloadCompletes == <>(disk.completed \/ used.bad > 0)

-----------------------------------------------------------------------------
(* The inductive invariant behind the safety properties *)

\* The map of active pieces is keyed by the id of the object.
ActiveById == \A p \in Pieces : IsActive(p) => heap[active[p]].id = p

\* Only the active object of a piece holds verified or verifiable bytes: an
\* object that left the map was reset, a written one has dropped its data.
DataIsActive ==
  \A o \in Objs :
    /\ heap[o].good # {} => active[heap[o].id] = o
    /\ heap[o].written => heap[o].good = {} /\ Complete(heap[o])

\* From the hash check to set_piece_written nothing takes the data away,
\* set_piece_written follows the write, and nothing undoes it.
WriterHasData ==
  /\ writer.pc \in {"write", "mark"} => HashMatches(heap[writer.obj])
  /\ writer.pc = "mark" => disk.tmp /\ heap[writer.obj].id \in disk.part
  /\ writer.pc \in {"check", "complete", "notify"} => heap[writer.obj].written

\* done() still holds when torrentComplete() acts on it.
StillDone == writer.pc = "complete" => done

Safe == /\ ActiveById
        /\ ClientIffComplete
        /\ DataIsActive
        /\ WriterHasData
        /\ WrittenIsOnDisk
        /\ StillDone
        /\ NoPieceForgotten

\* All of it: an invariant that every step preserves.
IndInv == TypeOK /\ Safe

-----------------------------------------------------------------------------
(* What comments of the program say, and the model refutes *)

\* Piece::set_block returns true only for the last remaining block, so a piece
\* goes to the FileWriter once for each time it becomes complete (piece.hpp).
DoneOnlyByLastBlock ==
  [][\A r \in Peers, q \in Requests, ok \in BOOLEAN :
       recv_piece(r, q[1], q[2], ok) /\ Len(queue') > Len(queue)
         => ~Complete(heap[active[q[1]]])]_vars

\* Torrent::done: all pieces have been written to disk (torrent.hpp).
DoneIsOnDisk == done => disk.part = Pieces \/ Published = Pieces

\* Torrent::client_pieces: the pieces that we have on disk (torrent.hpp).
ClientIsOnDisk == \A p \in client : p \in disk.part \/ p \in Published

\* After completion the torrent goes on seeding (main.cpp): serving a block
\* does not end the torrent thread.
KeepsSeeding == disk.completed => net.pc # "dead"

\* MAX_PENDING_REQUESTS bounds the requests pending at one peer
\* (global_config.hpp).
PendingWithinMax == \A r \in Peers : peer[r].pending <= MaxPending

=============================================================================
