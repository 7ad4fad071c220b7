-------------------------------- MODULE Swarm --------------------------------
(***************************************************************************)
(* Several instances of the program that download one torrent from each    *)
(* other: handshakes, bitfields, interest, unchoking, requests and pieces. *)
(*                                                                         *)
(* A client dials the remote that its tracker names; the remote accepts,   *)
(* so that each connection has a Peer on both sides, with a stream of      *)
(* messages in each direction.  The side that listens has its handshake    *)
(* read by the acceptor, not by Message::parse: it never gets interested.  *)
(* No client sends HAVE or CHOKE.  Pieces are of one block; Download has   *)
(* their blocks, and the ways in which a retry may come too early.         *)
(***************************************************************************)
EXTENDS Naturals, SequencesExt, FiniteSetsExt

CONSTANTS
  Clients,
  NumPieces,
  Dials,      \* clients -> the client whose address their tracker names
  Has,        \* clients -> the pieces they start with
  SingleFile, \* whether the torrent is of a single file
  MaxPending, \* MAX_PENDING_REQUESTS
  MaxSlots,   \* bound: the requests pending when retry_pieces makes another
  MaxTrouble  \* bound: blocks that arrive corrupt, connections that break, and
              \* calls of retry_peers while the connection is in use

Pieces == 0 .. NumPieces - 1
Dialers == DOMAIN Dials

ASSUME SwarmAssumption ==
  /\ NumPieces \in Nat \ {0} /\ MaxPending \in Nat \ {0}
  /\ Dialers \subseteq Clients
  /\ \A c \in Dialers : Dials[c] \in Clients \ {c}
  /\ Has \in [Clients -> SUBSET Pieces] /\ SingleFile \in BOOLEAN
  /\ {MaxSlots, MaxTrouble} \subseteq Nat

VARIABLES
  client,    \* the Torrent of each client
  dialing,   \* the Peer of each dialer
  listening, \* the Peer at the other end of its connection
  to, from,  \* the messages to and from the listening end, by dialer
  trouble,   \* how much of the bound has been used
  completed, \* the clients whose writer has called torrentComplete
  over       \* those whose torrent thread has ended, and so the program

ends == <<completed, over>>
vars == <<client, dialing, listening, to, from, trouble, ends>>

\* m_client_pieces; the blocks marked as requested; received pieces that the
\* writer has not checked, by what they hold; those on disk.  `deciding' is set
\* when the torrent thread is in set_am_interested(true) and has seen ~done().
Torrent(pieces) ==
  [bits |-> pieces, requested |-> {}, good |-> {}, corrupt |-> {}, written |-> pieces,
   deciding |-> FALSE]

\* Peer: its members as they are at first.  `up' and `there' say whether the
\* connection is made.
NewDialing ==
  [up |-> TRUE, am_interested |-> FALSE, choking |-> TRUE, remote |-> {}, pending |-> 0]
NewListening == [there |-> TRUE, am_choking |-> TRUE, interested |-> FALSE]

Init ==
  /\ client = [c \in Clients |-> Torrent(Has[c])]
  /\ dialing = [c \in Dialers |-> [NewDialing EXCEPT !.up = FALSE]]
  /\ listening = [c \in Dialers |-> [NewListening EXCEPT !.there = FALSE]]
  /\ to = [c \in Dialers |-> <<>>]
  /\ from = [c \in Dialers |-> <<>>]
  /\ trouble = 0
  /\ completed = {} /\ over = {}

Trouble == trouble < MaxTrouble /\ trouble' = trouble + 1

Message(kind) == [kind |-> kind]
Bitfield(pieces) == [kind |-> "bitfield", pieces |-> pieces]
Request(p) == [kind |-> "request", piece |-> p]
Block(p, good) == [kind |-> "piece", piece |-> p, good |-> good]

\* report_bitfield: nothing is sent for no pieces.
Report(c) == IF client[c].bits = {} THEN <<>> ELSE <<Bitfield(client[c].bits)>>

\* Torrent::done
done(c) == client[c].bits = Pieces /\ client[c].good \cup client[c].corrupt = {}

\* The torrent thread is between two handlers.
Free(c) == ~client[c].deciding /\ c \notin over

-----------------------------------------------------------------------------
(* Connecting *)

\* Nothing is under way on the connection that c made.
Quiet(c) == to[c] = <<>> /\ from[c] = <<>>

\* start, or retry_peers, which puts a new Peer in the place of the one that has
\* the address, and so closes its connection, in use or not.
handshake(c) ==
  /\ Free(c)
  /\ dialing' = [dialing EXCEPT ![c] = NewDialing]
  /\ listening' = [listening EXCEPT ![c].there = FALSE]
  /\ to' = [to EXCEPT ![c] = <<Message("handshake")>>]
  /\ from' = [from EXCEPT ![c] = <<>>]
  /\ UNCHANGED <<client, ends>>

\* Mutant: a Peer that has the address stays.
retry_peers_kept(c) ==
  /\ ~dialing[c].up
  /\ handshake(c)
  /\ UNCHANGED trouble

\* The interval is long enough for what is under way, or it is not.
retry_peers(c) ==
  /\ handshake(c)
  /\ IF Quiet(c) THEN UNCHANGED trouble
     ELSE Trouble

\* PeerAcceptor::listen and add_peer: the answer is sent at once.
accept(c) ==
  /\ Free(Dials[c])
  /\ to[c] # <<>> /\ Head(to[c]).kind = "handshake"
  /\ listening' = [listening EXCEPT ![c] = NewListening]
  /\ to' = [to EXCEPT ![c] = Tail(@)]
  /\ from' = [from EXCEPT ![c] = @ \o <<Message("handshake")>> \o Report(Dials[c])]
  /\ UNCHANGED <<client, dialing, trouble, ends>>

\* The connection breaks, or one of the two programs has ended:
\* Torrent::disconnected on the other side, or on both.
disconnected(c) ==
  /\ dialing[c].up /\ ~client[c].deciding
  /\ IF {c, Dials[c]} \cap over = {} THEN Trouble ELSE UNCHANGED trouble
  /\ dialing' = [dialing EXCEPT ![c].up = FALSE]
  /\ listening' = [listening EXCEPT ![c].there = FALSE]
  /\ to' = [to EXCEPT ![c] = <<>>]
  /\ from' = [from EXCEPT ![c] = <<>>]
  /\ UNCHANGED <<client, ends>>

-----------------------------------------------------------------------------
(* The dialing end *)

Answer(c, kind) ==
  /\ Free(c) /\ from[c] # <<>> /\ Head(from[c]).kind = kind
  /\ from' = [from EXCEPT ![c] = Tail(@)]

\* The handshake, which may come with the bitfield or before it.
parse_handshake(c) ==
  /\ Answer(c, "handshake")
  /\ to' = [to EXCEPT ![c] = @ \o Report(c)]
  /\ client' = [client EXCEPT ![c].deciding = ~done(c)]
  /\ UNCHANGED <<dialing, listening, trouble, ends>>

\* The rest of set_am_interested(true).
set_am_interested(c) ==
  /\ client[c].deciding
  /\ client' = [client EXCEPT ![c].deciding = FALSE]
  /\ to' = [to EXCEPT ![c] = Append(@, Message("interested"))]
  /\ dialing' = [dialing EXCEPT ![c].am_interested = TRUE]
  /\ UNCHANGED <<listening, from, trouble, ends>>

parse_bitfield(c) ==
  /\ Answer(c, "bitfield")
  /\ dialing' = [dialing EXCEPT ![c].remote = Head(from[c]).pieces]
  /\ UNCHANGED <<client, listening, to, trouble, ends>>

\* How many of a set of pieces come before p, and the first n of them.
Rank(p, set) == Cardinality({q \in set : q < p})
First(n, set) == {p \in set : Rank(p, set) < n}

\* One REQUEST for each, in their order.
Requests(set) ==
  [i \in 1 .. Cardinality(set) |-> Request(CHOOSE p \in set : Rank(p, set) = i - 1)]

\* request_next_block, for a Torrent and a Peer that a handler has changed.
request_next_block(c, torrent, peer, max_pending) ==
  LET n == Max({max_pending - peer.pending, 0})
      asked == IF ~peer.am_interested \/ peer.choking THEN {}
               ELSE First(n, (peer.remote \ torrent.bits) \ torrent.requested)
  IN /\ client' = [client EXCEPT ![c] = [torrent EXCEPT !.requested = @ \cup asked]]
     /\ dialing' = [dialing EXCEPT ![c] =
                      [peer EXCEPT !.pending = @ + Cardinality(asked)]]
     /\ to' = [to EXCEPT ![c] = @ \o Requests(asked)]

parse_unchoke(c) ==
  /\ Answer(c, "unchoke")
  /\ request_next_block(c, client[c], [dialing[c] EXCEPT !.choking = FALSE], MaxPending)
  /\ UNCHANGED <<listening, trouble, ends>>

\* set_block of Peer, Torrent and Piece: the bit is set, the writer gets it.
parse_piece(c) ==
  /\ Answer(c, "piece")
  /\ LET block == Head(from[c])
         peer == [dialing[c] EXCEPT !.pending = IF @ > 0 THEN @ - 1 ELSE 0]
         bits == client[c].bits \cup {block.piece}
         torrent == IF block.good
                    THEN [client[c] EXCEPT !.bits = bits, !.good = @ \cup {block.piece}]
                    ELSE [client[c] EXCEPT !.bits = bits, !.corrupt = @ \cup {block.piece}]
     IN request_next_block(c, torrent, peer, MaxPending)
  /\ UNCHANGED <<listening, trouble, ends>>

\* Requests on their way, or their answers.
Asked(c) == {m.piece : m \in {x \in ToSet(to[c]) : x.kind = "request"}}
Answered(c) == {m.piece : m \in {x \in ToSet(from[c]) : x.kind = "piece"}}

\* retry_pieces: requests that are lost, or were ignored, are forgotten; of those
\* at least one is made again, whatever is pending.
retry_pieces(c) ==
  LET lost == (client[c].requested \ client[c].bits) \ (Asked(c) \cup Answered(c))
      pending == dialing[c].pending
      desired == IF pending < MaxPending THEN MaxPending - pending ELSE 1
      torrent == [client[c] EXCEPT !.requested = @ \ lost]
  IN /\ Free(c) /\ lost # {}
     /\ pending < MaxSlots
     /\ IF dialing[c].up
        THEN request_next_block(c, torrent, dialing[c],
                                pending + Min({desired, Cardinality(lost)}))
        ELSE client' = [client EXCEPT ![c] = torrent] /\ UNCHANGED <<dialing, to>>
     /\ UNCHANGED <<listening, from, trouble, ends>>

-----------------------------------------------------------------------------
(* The listening end *)

Received(c, kind) ==
  /\ Free(Dials[c]) /\ listening[c].there
  /\ to[c] # <<>> /\ Head(to[c]).kind = kind
  /\ to' = [to EXCEPT ![c] = Tail(@)]

\* It knows what the remote has, but asks for nothing.
set_remote_pieces(c) ==
  /\ Received(c, "bitfield")
  /\ UNCHANGED <<client, dialing, listening, from, trouble, ends>>

\* Mutant: UNCHOKE is sent, but the member is not reset.
set_interested_choking(c) ==
  /\ Received(c, "interested")
  /\ listening' = [listening EXCEPT ![c].interested = TRUE]
  /\ from' = [from EXCEPT ![c] = IF listening[c].am_choking
                                 THEN Append(@, Message("unchoke")) ELSE @]
  /\ UNCHANGED <<client, dialing, trouble, ends>>

\* set_interested(true) and set_am_choking(false)
set_interested(c) ==
  /\ Received(c, "interested")
  /\ listening' = [listening EXCEPT ![c].interested = TRUE, ![c].am_choking = FALSE]
  /\ from' = [from EXCEPT ![c] = IF listening[c].am_choking
                                 THEN Append(@, Message("unchoke")) ELSE @]
  /\ UNCHANGED <<client, dialing, trouble, ends>>

set_not_interested(c) ==
  /\ Received(c, "not_interested")
  /\ listening' = [listening EXCEPT ![c].interested = FALSE]
  /\ UNCHANGED <<client, dialing, from, trouble, ends>>

\* Whether request() answers, given that the block is there.
Serves(peer) == ~peer.am_choking /\ peer.interested

\* read_block finds no file by the name tmpfile(), which is that of the files only
\* if they were there when the client started; or is the one of a single file
\* until torrentComplete renames it (see Download).
ReadFails(c) == IF SingleFile THEN c \in completed ELSE Has[c] = {}

\* A block is read from memory, checked or not, ...
request(c) ==
  /\ Received(c, "request")
  /\ LET p == Head(to[c]).piece
         owner == client[Dials[c]]
     IN IF Serves(listening[c]) /\ p \in owner.bits
        THEN /\ p \in owner.written => ~ReadFails(Dials[c])
             /\ \/ /\ from' = [from EXCEPT ![c] = Append(@, Block(p, p \notin owner.corrupt))]
                   /\ UNCHANGED trouble
                \/ /\ Trouble
                   /\ from' = [from EXCEPT ![c] = Append(@, Block(p, FALSE))]
        ELSE UNCHANGED <<from, trouble>>
  /\ UNCHANGED <<client, dialing, listening, ends>>

\* ... or from the file, and the exception of a read ends the thread.
request_throws(c) ==
  /\ Received(c, "request")
  /\ Serves(listening[c]) /\ Head(to[c]).piece \in client[Dials[c]].written
  /\ ReadFails(Dials[c])
  /\ over' = over \cup {Dials[c]}
  /\ UNCHANGED <<client, dialing, listening, from, trouble, completed>>

-----------------------------------------------------------------------------
(* The writer thread *)

\* Mutant: the remote is told, but the member is not reset.
not_interested_kept(c) ==
  IF c \in Dialers /\ dialing[c].up /\ dialing[c].am_interested
  THEN /\ to' = [to EXCEPT ![c] = Append(@, Message("not_interested"))]
       /\ UNCHANGED dialing
  ELSE UNCHANGED <<dialing, to>>

\* last_piece_written: set_am_interested(false) of the Peers that do not listen.
last_piece_written(c) ==
  IF c \in Dialers /\ dialing[c].up /\ dialing[c].am_interested
  THEN /\ to' = [to EXCEPT ![c] = Append(@, Message("not_interested"))]
       /\ dialing' = [dialing EXCEPT ![c].am_interested = FALSE]
  ELSE UNCHANGED <<dialing, to>>

\* write_next_piece: the hash is right ...
write_piece(c, p) ==
  /\ p \in client[c].good
  /\ client' = [client EXCEPT ![c].good = @ \ {p}, ![c].written = @ \cup {p}]
  /\ IF client[c].bits = Pieces /\ client[c].good = {p} /\ client[c].corrupt = {}
     THEN last_piece_written(c) /\ completed' = completed \cup {c}
     ELSE UNCHANGED <<dialing, to, completed>>
  /\ UNCHANGED <<listening, from, trouble, over>>

\* ... or it is not, and the piece is reset.
reset_piece(c, p) ==
  /\ p \in client[c].corrupt
  /\ client' = [client EXCEPT ![c].corrupt = @ \ {p}, ![c].bits = @ \ {p},
                              ![c].requested = @ \ {p}]
  /\ UNCHANGED <<dialing, listening, to, from, trouble, ends>>

-----------------------------------------------------------------------------

Parse(c) ==
  \/ parse_handshake(c) \/ parse_bitfield(c) \/ parse_unchoke(c) \/ parse_piece(c)
  \/ set_am_interested(c)

Serve(c) ==
  \/ accept(c) \/ set_remote_pieces(c) \/ set_interested(c) \/ set_not_interested(c)
  \/ request(c) \/ request_throws(c)

Write(c) == \E p \in Pieces : write_piece(c, p) \/ reset_piece(c, p)

Next == \/ \E c \in Dialers : \/ Parse(c) \/ Serve(c)
                              \/ retry_peers(c) \/ retry_pieces(c) \/ disconnected(c)
        \/ \E c \in Clients : Write(c)

Spec == Init /\ [][Next]_vars

\* The threads of the clients and the network go on until their program ends, and
\* the timers come; a tracker names the remote again each time (retry_peers).
FairSpec ==
  /\ Spec
  /\ \A c \in Dialers : /\ WF_vars(Parse(c)) /\ WF_vars(Serve(c))
                        /\ SF_vars(retry_peers(c)) /\ SF_vars(retry_pieces(c))
  /\ \A c \in Clients : WF_vars(c \notin over /\ Write(c))

-----------------------------------------------------------------------------
(* Properties *)

Kinds == {"handshake", "bitfield", "interested", "not_interested", "unchoke",
          "request", "piece"}

TypeOK ==
  /\ completed \cup over \subseteq Clients
  /\ \A c \in Clients :
       /\ client[c].bits \subseteq Pieces /\ client[c].requested \subseteq Pieces
       /\ client[c].written \cup client[c].good \cup client[c].corrupt = client[c].bits
       /\ client[c].deciding \in BOOLEAN
  /\ \A c \in Dialers :
       /\ {dialing[c].up, dialing[c].am_interested, dialing[c].choking} \subseteq BOOLEAN
       /\ dialing[c].remote \subseteq Pieces /\ dialing[c].pending \in Nat
       /\ {listening[c].there, listening[c].am_choking, listening[c].interested}
            \subseteq BOOLEAN
       /\ \A m \in ToSet(to[c]) \cup ToSet(from[c]) : m.kind \in Kinds

Has_kind(s, kind) == \E i \in DOMAIN s : s[i].kind = kind

\* Whether a remote is interested for one that has the first n messages of s from it,
\* and took it to be interested, or not, before them.
Interested(s, n, before) ==
  LET Kept(i) == \A k \in i + 1 .. n : s[k].kind # "not_interested"
  IN \/ before /\ Kept(0)
     \/ \E i \in 1 .. n : s[i].kind = "interested" /\ Kept(i)

\* The dialing end knows whether it is choked, but for an UNCHOKE that is still
\* on its way; the listening end knows whether it is interested, but for what is
\* on its way, of which the last counts; and each request under way holds a slot.
Agree(c) ==
  /\ ~listening[c].am_choking <=> ~dialing[c].choking \/ Has_kind(from[c], "unchoke")
  /\ dialing[c].am_interested <=> Interested(to[c], Len(to[c]), listening[c].interested)
  /\ dialing[c].pending >= Cardinality(Asked(c)) + Cardinality(Answered(c))

\* What the two ends of a connection hold of each other agrees, whatever the
\* threads of both clients do, up to the messages on their way.
EndsAgree == \A c \in Dialers : listening[c].there => Agree(c)

Inv == TypeOK /\ EndsAgree

\* A request of a client is never dropped because it is choked or was not taken
\* for interested.  It is only not answered for a piece that was reported before
\* it was checked, and was reset since (see ReportedIsThere); the thread that
\* serves it may end, but not of a client that had the torrent when it started.
RequestsAreServed ==
  [][\A c \in Dialers : LET server == Dials[c] IN
       /\ request(c) => \/ Len(from'[c]) > Len(from[c])
                        \/ Head(to[c]).piece \notin client[server].bits
       /\ server \in over' \ over => Has[server] # Pieces]_vars

\* All clients complete, if those they dial have, between them, what they need:
\* although no client says so when it gets a piece, blocks are corrupt,
\* connections break and retry_peers closes those in use.  But a client that has
\* downloaded what it serves may end at the first request after that.
Ended(c) == c \in over \/ (c \in Dialers /\ Dials[c] \in over)
AllComplete == <>[](\A c \in Clients : client[c].written = Pieces \/ Ended(c))

-----------------------------------------------------------------------------
(* What comments of the program say, and the model refutes *)

\* client_pieces, which BITFIELD sends, are those on disk (torrent.hpp).
ReportedIsThere ==
  \A c \in Dialers : \A i \in DOMAIN from[c] :
    from[c][i].kind = "bitfield" => from[c][i].pieces \subseteq client[Dials[c]].written

\* "Continuing to seed" (main.cpp): a client that has completed goes on.
KeepsSeeding == over = {}

\* "completed. Notifying peers": that it is not interested (torrent.cpp).
CompleteIsNotInterested ==
  \A c \in Dialers : done(c) /\ dialing[c].up => ~dialing[c].am_interested

=============================================================================
