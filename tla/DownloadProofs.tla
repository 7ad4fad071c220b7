--------------------------- MODULE DownloadProofs ---------------------------
(* Proofs about Download, for every number of pieces, blocks, peers and      *)
(* Piece objects, and every bound on retries, errors and failures.           *)
EXTENDS Download, TLAPS, FiniteSetTheorems, SequenceTheorems, FunctionTheorems,
        WellFoundedInduction

\* The smallest block of a nonempty choice is one of them (Bitfield::next as
\* next_offset and next_piece use it).
LEMMA MinIsMember ==
  ASSUME NEW S, S \subseteq Nat, S # {}
  PROVE  Min(S) \in S
<1> DEFINE R == {ss \in Nat \X Nat : ss[1] < ss[2]}
<1>1. IsWellFoundedOn(R, Nat)
  BY NatLessThanWellFounded, Zenon DEF OpToRel
<1>2. PICK x \in S : \A y \in S : ~(<<y, x>> \in R)
  <2> HIDE DEF R
  <2> QED BY <1>1, WFMin
<1>3. ASSUME NEW y \in S
      PROVE  x =< y
  <2>1. x \in Nat /\ y \in Nat
    OBVIOUS
  <2>2. <<y, x>> \in Nat \X Nat /\ <<y, x>>[1] = y /\ <<y, x>>[2] = x
    BY <2>1
  <2>3. ~(y < x)
    BY <1>2, <2>2
  <2>4. QED BY <2>1, <2>3
<1>4. QED BY <1>3 DEF Min

\* A torrent has finitely many blocks.
LEMMA RequestsFinite == IsFiniteSet(Requests)
<1> DEFINE f == [p \in Pieces |-> {p} \X Blocks(p)]
           T == {{p} \X Blocks(p) : p \in Pieces}
<1>1. IsFiniteSet(Pieces)
  BY FS_Interval, SizesAssumption DEF Pieces
<1>2. f \in Surjection(Pieces, T)
  BY DEF Surjection
<1>3. IsFiniteSet(T)
  BY <1>1, <1>2, FS_Surjection DEF ExistsSurjection
<1>4. \A p \in Pieces : IsFiniteSet({p} \X Blocks(p))
  <2> TAKE p \in Pieces
  <2>1. IsFiniteSet({p})
    BY FS_Singleton
  <2>2. BlockCount[p] - 1 \in Int /\ 0 \in Int
    BY SizesAssumption
  <2>3. IsFiniteSet(Blocks(p))
    BY <2>2, FS_Interval, Zenon DEF Blocks
  <2>4. QED BY <2>1, <2>3, FS_Product
<1>5. QED BY <1>3, <1>4, FS_UNION DEF Requests

-----------------------------------------------------------------------------
(* The operations on a Piece *)

\* Every operation of Piece keeps its sets of blocks within the piece, and the
\* verified bytes within the blocks that are done.
LEMMA PieceOps ==
  ASSUME NEW piece \in PieceType, NEW b \in Blocks(piece.id), NEW ok \in BOOLEAN
  PROVE  /\ set_block(piece, b, ok) \in PieceType
         /\ set_piece_written(piece) \in PieceType
         /\ reset(piece) \in PieceType
         /\ retry_blocks(piece) \in PieceType
         /\ [piece EXCEPT !.requested = @ \cup {b}] \in PieceType
<1>1. piece.id \in Pieces /\ Blocks(piece.id) \subseteq Nat
  BY SizesAssumption DEF PieceType, Blocks
<1>2. QED
  BY <1>1 DEF PieceType, set_block, set_piece_written, reset, retry_blocks

\* A new Piece has no block requested or done.
LEMMA FreshType ==
  ASSUME NEW p \in Pieces
  PROVE  Fresh(p) \in PieceType /\ ~Complete(Fresh(p))
BY SizesAssumption DEF Fresh, PieceType, Complete, Blocks

\* next_offset chooses a block of the piece that was not requested or done.
LEMMA UnrequestedBlock ==
  ASSUME NEW piece \in PieceType, Unrequested(piece) # {}
  PROVE  Min(Unrequested(piece)) \in Unrequested(piece) /\
         Min(Unrequested(piece)) \in Blocks(piece.id)
<1>1. Unrequested(piece) \subseteq Blocks(piece.id)
  BY DEF Unrequested
<1>2. Blocks(piece.id) \subseteq Nat
  BY SizesAssumption DEF PieceType, Blocks
<1>3. QED BY <1>1, <1>2, MinIsMember

\* The two ways a handler goes on after an object was dealt with.
LEMMA AdvanceType ==
  ASSUME NEW n \in NetType, NEW r \in Peers, NEW retry \in Nat
  PROVE  Advance(n, r, retry) \in NetType
BY DEF Advance, NetType, Idle, Connected

LEMMA RequestType ==
  ASSUME NEW n \in NetType, NEW r \in Peers, NEW q \in PeerType, NEW max \in Nat
  PROVE  request_next_block(n, r, q, max) \in NetType
<1>1. n.retry \in Nat
  BY DEF NetType
<1>2. CASE q.interested /\ ~q.choking /\ max > q.pending
  <2>1. max - q.pending \in Nat /\ max - q.pending > 0
    BY <1>2 DEF PeerType
  <2>2. QED BY <1>2, <2>1 DEF request_next_block, NetType
<1>3. CASE ~(q.interested /\ ~q.choking /\ max > q.pending)
  BY <1>1, <1>3, AdvanceType, Zenon DEF request_next_block
<1>4. QED BY <1>2, <1>3

\* next_offset goes back to next_piece for the blocks left of its request.
LEMMA SelectType ==
  ASSUME NEW n \in NetType, n.peer \in Peers, NEW left \in Nat \ {0}, NEW retry \in Nat
  PROVE  [n EXCEPT !.left = left, !.retry = retry, !.pc = "select", !.obj = None]
           \in NetType
<1> DEFINE m1 == [n EXCEPT !.left = left]
           m2 == [m1 EXCEPT !.retry = retry]
           m3 == [m2 EXCEPT !.pc = "select"]
           m4 == [m3 EXCEPT !.obj = None]
<1>1. m1 \in NetType /\ m1.peer \in Peers /\ m1.left > 0
  BY DEF NetType
<1> HIDE DEF m1
<1>2. m2 \in NetType /\ m2.peer \in Peers /\ m2.left > 0
  BY <1>1 DEF NetType
<1> HIDE DEF m2
<1>3. m3 \in NetType /\ m3.pc = "select"
  BY <1>2 DEF NetType
<1> HIDE DEF m3
<1>4. m4 \in NetType
  BY <1>3 DEF NetType
<1>5. m4 = [n EXCEPT !.left = left, !.retry = retry, !.pc = "select", !.obj = None]
  BY DEF m1, m2, m3
<1>6. QED BY <1>4, <1>5

LEMMA IdleType == Idle \in NetType
BY DEF Idle, NetType

-----------------------------------------------------------------------------
(* Type correctness *)

LEMMA NoFlightType == NoFlight \in [Requests -> Nat] /\ NoPeer \in PeerType
BY DEF NoFlight, NoPeer, PeerType

LEMMA RequestsType ==
  /\ \A q \in Requests : q[1] \in Pieces /\ q[2] \in Blocks(q[1]) /\ q = <<q[1], q[2]>>
  /\ \A p \in Pieces : \A b \in Blocks(p) : <<p, b>> \in Requests
BY DEF Requests

LEMMA InitTypes == Init => TypeOK
<1> SUFFICES ASSUME Init PROVE TypeOK
  OBVIOUS
<1>1. 0 \in Pieces
  BY SizesAssumption DEF Pieces
<1>2. heap \in [Objs -> PieceType]
  BY <1>1, FreshType DEF Init
<1>3. used \in UsedType
  BY DEF Init, UsedType
<1>4. disk \in [tmp : BOOLEAN, part : SUBSET Pieces, full : SUBSET Pieces,
               completed : BOOLEAN]
  BY DEF Init
<1>5. writer \in WriterType /\ net \in NetType /\ peer \in [Peers -> PeerType]
  BY IdleType, NoFlightType DEF Init, WriterType
<1>6. client \subseteq Pieces /\ active \in [Pieces -> Objs \cup {None}]
      /\ queue \in Seq(Objs)
  BY DEF Init
<1>7. QED
  BY <1>2, <1>3, <1>4, <1>5, <1>6 DEF TypeOK

LEMMA PeerUpdate ==
  ASSUME TypeOK, NEW r \in Peers, NEW q \in PeerType
  PROVE  [peer EXCEPT ![r] = q] \in [Peers -> PeerType]
BY DEF TypeOK

LEMMA AnswerTypes ==
  ASSUME NEW q \in PeerType, NEW req \in Requests
  PROVE  /\ requested(q, req) \in PeerType
         /\ q.flight[req] > 0 => answered(q, req) \in PeerType
<1> DEFINE f == q.flight
           n == IF q.pending > 0 THEN q.pending - 1 ELSE 0
           m == q.pending + 1
           more == [f EXCEPT ![req] = f[req] + 1]
           less == [f EXCEPT ![req] = f[req] - 1]
<1>1. f \in [Requests -> Nat] /\ m \in Nat /\ n \in Nat
  BY DEF PeerType
<1>2. more \in [Requests -> Nat]
  BY <1>1
<1>3. f[req] > 0 => less \in [Requests -> Nat]
  BY <1>1
<1> HIDE DEF n, m, more, less
<1>4. [q EXCEPT !.pending = m, !.flight = more] \in PeerType
  BY <1>1, <1>2 DEF PeerType
<1>5. f[req] > 0 => [q EXCEPT !.pending = n, !.flight = less] \in PeerType
  BY <1>1, <1>3 DEF PeerType
<1>6. QED BY <1>4, <1>5 DEF requested, answered, n, m, more, less

LEMMA UsedOps ==
  ASSUME TypeOK
  PROVE  /\ [used EXCEPT !.late = used.late + 1] \in UsedType
         /\ [used EXCEPT !.bad = used.bad + 1] \in UsedType
         /\ [used EXCEPT !.fails = used.fails + 1] \in UsedType
         /\ [used EXCEPT !.chokes = used.chokes + 1] \in UsedType
         /\ [used EXCEPT !.drops = used.drops + 1] \in UsedType
         /\ [used EXCEPT !.uploads = used.uploads + 1] \in UsedType
         /\ [used EXCEPT !.late = used.late] \in UsedType
         /\ [used EXCEPT !.bad = used.bad] \in UsedType
         /\ [used EXCEPT !.drops = used.drops] \in UsedType
<1> used \in UsedType
  BY DEF TypeOK
<1>1. [used EXCEPT !.late = used.late + 1] \in UsedType
  BY DEF UsedType
<1>2. [used EXCEPT !.bad = used.bad + 1] \in UsedType
  BY DEF UsedType
<1>3. [used EXCEPT !.fails = used.fails + 1] \in UsedType
  BY DEF UsedType
<1>4. [used EXCEPT !.chokes = used.chokes + 1] \in UsedType
  BY DEF UsedType
<1>5. [used EXCEPT !.drops = used.drops + 1] \in UsedType
  BY DEF UsedType
<1>6. [used EXCEPT !.uploads = used.uploads + 1] \in UsedType
  BY DEF UsedType
<1>7. /\ [used EXCEPT !.late = used.late] \in UsedType
      /\ [used EXCEPT !.bad = used.bad] \in UsedType
      /\ [used EXCEPT !.drops = used.drops] \in UsedType
  BY DEF UsedType
<1>8. QED BY <1>1, <1>2, <1>3, <1>4, <1>5, <1>6, <1>7

LEMMA RemoteTypes ==
  ASSUME TypeOK, NEW r \in Peers,
         \/ \E bf \in Bitfields : recv_handshake(r, bf) \/ set_remote_pieces(r, bf)
         \/ disconnected(r)
         \/ set_choking(r)
         \/ set_unchoking(r)
         \/ \E p \in Pieces : have(r, p)
  PROVE  TypeOK'
<1>0. MaxPending \in Nat /\ done \in BOOLEAN /\ peer[r] \in PeerType
  BY SizesAssumption DEF done, TypeOK
<1>1. ASSUME NEW bf \in Bitfields, recv_handshake(r, bf)
      PROVE  TypeOK'
  <2> DEFINE q == [NoPeer EXCEPT !.on = TRUE, !.interested = ~done, !.remote = bf]
  <2>1. q \in PeerType
    BY <1>0, NamesAssumption, NoFlightType DEF PeerType
  <2>2. peer' = [peer EXCEPT ![r] = q]
    BY <1>1 DEF recv_handshake
  <2>3. peer' \in [Peers -> PeerType]
    BY <2>1, <2>2, PeerUpdate
  <2>4. used' \in UsedType
    BY <1>1, UsedOps DEF recv_handshake
  <2>5. QED BY <1>1, <2>3, <2>4 DEF TypeOK, recv_handshake
<1>2. CASE disconnected(r)
  <2>1. used' \in UsedType
    BY <1>2, UsedOps DEF disconnected
  <2>2. QED BY <1>2, <2>1, NoFlightType DEF TypeOK, disconnected
<1>3. CASE set_choking(r)
  <2>1. PICK flight \in {peer[r].flight, NoFlight} :
          peer' = [peer EXCEPT ![r] = choked(peer[r], flight)]
    BY <1>3 DEF set_choking, TypeOK
  <2>2. flight \in [Requests -> Nat]
    BY <1>0, NoFlightType DEF PeerType
  <2>3. choked(peer[r], flight) \in PeerType
    BY <1>0, <2>2 DEF choked, PeerType
  <2>. peer' \in [Peers -> PeerType]
    BY <2>1, <2>3, PeerUpdate
  <2>4. used' \in UsedType
    BY <1>3, UsedOps DEF set_choking
  <2>5. QED BY <1>3, <2>4 DEF TypeOK, set_choking
<1>4. CASE set_unchoking(r)
  <2>1. peer' = [peer EXCEPT ![r] = [peer[r] EXCEPT !.choking = FALSE]]
    BY <1>4 DEF set_unchoking, TypeOK
  <2>. [peer[r] EXCEPT !.choking = FALSE] \in PeerType
    BY <1>0 DEF PeerType
  <2>2. peer' \in [Peers -> PeerType]
    BY <2>1, PeerUpdate
  <2>3. net' \in NetType
    BY <1>0, <1>4, <2>2, IdleType, RequestType DEF set_unchoking
  <2>4. QED BY <1>4, <2>2, <2>3 DEF TypeOK, set_unchoking
<1>5. ASSUME NEW p \in Pieces, have(r, p)
      PROVE  TypeOK'
  <2> DEFINE pieces == IF peer[r].remote = {} THEN Pieces ELSE peer[r].remote \cup {p}
  <2>1. peer' = [peer EXCEPT ![r] = [peer[r] EXCEPT !.remote = pieces]]
    BY <1>5 DEF have, TypeOK
  <2>2. pieces \in SUBSET Pieces
    BY <1>0 DEF PeerType
  <2> HIDE DEF pieces
  <2>. [peer[r] EXCEPT !.remote = pieces] \in PeerType
    BY <1>0, <2>2 DEF PeerType
  <2>3. peer' \in [Peers -> PeerType]
    BY <2>1, PeerUpdate
  <2>4. net' \in NetType
    BY <1>0, <1>5, <2>3, IdleType, RequestType DEF have
  <2>5. QED BY <1>5, <2>3, <2>4 DEF TypeOK, have
<1>6. ASSUME NEW bf \in Bitfields, set_remote_pieces(r, bf)
      PROVE  TypeOK'
  <2>1. peer' = [peer EXCEPT ![r] = [peer[r] EXCEPT !.remote = bf]]
    BY <1>6 DEF set_remote_pieces, TypeOK
  <2>2. [peer[r] EXCEPT !.remote = bf] \in PeerType
    BY <1>0, NamesAssumption DEF PeerType
  <2>3. peer' \in [Peers -> PeerType]
    BY <2>1, <2>2, PeerUpdate
  <2>4. QED BY <1>6, <2>3 DEF TypeOK, set_remote_pieces
<1>7. QED BY <1>1, <1>2, <1>3, <1>4, <1>5, <1>6

LEMMA PieceTypes ==
  ASSUME TypeOK, ActiveById, NEW r \in Peers, NEW q \in Requests,
         NEW ok \in BOOLEAN, recv_piece(r, q[1], q[2], ok)
  PROVE  TypeOK'
<1> DEFINE p == q[1]
           b == q[2]
           o == active[p]
<1>1. p \in Pieces /\ b \in Blocks(p) /\ <<p, b>> \in Requests
  BY RequestsType
<1>2. peer' \in [Peers -> PeerType]
  <2>1. peer[r] \in PeerType /\ peer[r].flight[<<p, b>>] > 0
    BY DEF TypeOK, recv_piece
  <2>2. answered(peer[r], <<p, b>>) \in PeerType
    BY <1>1, <2>1, AnswerTypes
  <2>3. peer' = [peer EXCEPT ![r] = answered(peer[r], <<p, b>>)]
    BY Zenon DEF recv_piece
  <2>4. QED BY <2>2, <2>3, PeerUpdate
<1>3. net' \in NetType
  BY <1>2, IdleType, RequestType, SizesAssumption DEF recv_piece
<1>4. used' \in UsedType
  <2>1. used' = [used EXCEPT !.bad = IF ok THEN used.bad ELSE used.bad + 1]
    BY DEF recv_piece
  <2>2. QED BY <2>1, UsedOps
<1>5. CASE IsActive(p)
  <2>1. o \in Objs /\ heap[o] \in PieceType /\ heap[o].id = p
    BY <1>1, <1>5 DEF TypeOK, IsActive, ActiveById
  <2>2. set_block(heap[o], b, ok) \in PieceType
    BY <1>1, <2>1, PieceOps
  <2>3. heap' = [heap EXCEPT ![o] = set_block(heap[o], b, ok)]
    BY <1>5, <2>1 DEF recv_piece, TypeOK
  <2>4. heap' \in [Objs -> PieceType]
    BY <2>1, <2>2, <2>3 DEF TypeOK
  <2>5. (client' = client \/ client' = client \cup {p})
        /\ (queue' = queue \/ queue' = Append(queue, o))
    BY <1>5, Zenon DEF recv_piece, add
  <2>6. client' \subseteq Pieces /\ queue' \in Seq(Objs)
    <3>1. client \cup {p} \subseteq Pieces
      BY <1>1 DEF TypeOK
    <3>2. Append(queue, o) \in Seq(Objs)
      BY <2>1, AppendProperties DEF TypeOK
    <3>3. client \subseteq Pieces /\ queue \in Seq(Objs)
      BY DEF TypeOK
    <3>4. QED BY <2>5, <3>1, <3>2, <3>3, Zenon
  <2>7. QED BY <1>2, <1>3, <1>4, <2>4, <2>6 DEF TypeOK, recv_piece
<1>6. CASE ~IsActive(p)
  BY <1>2, <1>3, <1>4, <1>6 DEF TypeOK, recv_piece
<1>7. QED BY <1>5, <1>6

\* Putting a Piece object into the map of active pieces, or updating one.
LEMMA HeapUpdate ==
  ASSUME TypeOK, NEW o \in Objs, NEW piece \in PieceType
  PROVE  [heap EXCEPT ![o] = piece] \in [Objs -> PieceType]
BY DEF TypeOK

LEMMA ActiveUpdate ==
  ASSUME TypeOK, NEW p \in Pieces, NEW o \in Objs \cup {None}
  PROVE  [active EXCEPT ![p] = o] \in [Pieces -> Objs \cup {None}]
BY DEF TypeOK

\* next_piece finds a piece of the torrent.
LEMMA CandidateType ==
  ASSUME TypeOK, NEW r \in Peers, Candidates(r) # {}
  PROVE  Min(Candidates(r)) \in Candidates(r) /\ Min(Candidates(r)) \in Pieces
<1>1. Candidates(r) \subseteq Pieces
  BY DEF Candidates, TypeOK, PeerType
<1>2. Pieces \subseteq Nat
  BY SizesAssumption DEF Pieces
<1>3. QED BY <1>1, <1>2, MinIsMember

LEMMA HandlerTypes ==
  ASSUME TypeOK, Handler
  PROVE  TypeOK'
<1>0. /\ net \in NetType /\ net.retry \in Nat
      /\ heap \in [Objs -> PieceType] /\ MaxPending \in Nat
      /\ active \in [Pieces -> Objs \cup {None}]
  BY SizesAssumption DEF TypeOK, NetType
<1>1. CASE next_piece
  <2>1. net.peer \in Peers /\ net.pc = "select" /\ net.left > 0
    BY <1>0, <1>1 DEF NetType, next_piece
  <2>2. CASE Candidates(net.peer) = {}
    BY <1>0, <1>1, <2>1, <2>2, AdvanceType DEF next_piece, TypeOK
  <2>3. CASE Candidates(net.peer) # {}
    <3> DEFINE p == Min(Candidates(net.peer))
    <3>1. p \in Pieces
      BY <2>1, <2>3, CandidateType
    <3> HIDE DEF p
    <3>2. \A o \in Objs : [net EXCEPT !.pc = "mark", !.obj = o] \in NetType
      BY <1>0, <2>1 DEF NetType
    <3>3. CASE IsActive(p)
      <4>1. active[p] \in Objs
        BY <1>0, <3>1, <3>3 DEF IsActive
      <4>2. net' = [net EXCEPT !.pc = "mark", !.obj = active[p]]
            /\ UNCHANGED <<active, heap>>
        BY <1>1, <2>3, <3>3 DEF next_piece, p
      <4>3. QED BY <1>1, <3>2, <4>1, <4>2 DEF next_piece, TypeOK
    <3>4. CASE ~IsActive(p)
      <4>1. PICK o \in Objs : /\ active' = [active EXCEPT ![p] = o]
                              /\ heap' = [heap EXCEPT ![o] = Fresh(p)]
                              /\ net' = [net EXCEPT !.pc = "mark", !.obj = o]
        BY <1>1, <2>3, <3>4 DEF next_piece, p
      <4>2. heap' \in [Objs -> PieceType] /\ active' \in [Pieces -> Objs \cup {None}]
        BY <3>1, <4>1, HeapUpdate, ActiveUpdate, FreshType
      <4>3. QED BY <1>1, <3>2, <4>1, <4>2 DEF next_piece, TypeOK
    <3>5. QED BY <3>3, <3>4
  <2>4. QED BY <2>2, <2>3
<1>2. CASE next_offset
  <2>1. net.peer \in Peers /\ net.pc = "mark" /\ net.left \in Nat \ {0} /\ net.obj \in Objs
    BY <1>0, <1>2 DEF NetType, next_offset
  <2>2. CASE Unrequested(heap[net.obj]) = {}
    BY <1>0, <1>2, <2>1, <2>2, AdvanceType DEF next_offset, TypeOK
  <2>3. CASE Unrequested(heap[net.obj]) # {}
    <3> DEFINE piece == heap[net.obj]
               b == Min(Unrequested(piece))
               left == net.left - 1
               retry == IF PeersLocked THEN net.retry - 1 ELSE 0
               q == requested(peer[net.peer], <<piece.id, b>>)
               marked == [piece EXCEPT !.requested = piece.requested \cup {b}]
    <3>1. piece \in PieceType /\ piece.id \in Pieces
      BY <1>0, <2>1 DEF PieceType
    <3>2. b \in Blocks(piece.id)
      BY <2>3, <3>1, UnrequestedBlock
    <3>3. left \in Nat /\ retry \in Nat
      BY <1>0, <2>1 DEF PeersLocked
    <3>4. q \in PeerType
      <4>1. <<piece.id, b>> \in Requests
        BY <3>1, <3>2, RequestsType
      <4>2. peer[net.peer] \in PeerType
        BY <2>1 DEF TypeOK
      <4>3. QED BY <4>1, <4>2, AnswerTypes
    <3>5. marked \in PieceType
      BY <3>1, <3>2, PieceOps
    <3>6. /\ heap' = [heap EXCEPT ![net.obj] = marked]
          /\ peer' = [peer EXCEPT ![net.peer] = q]
          /\ net' = IF left = 0
                    THEN Advance(net, net.peer, retry)
                    ELSE [net EXCEPT !.left = left, !.retry = retry,
                                     !.pc = "select", !.obj = None]
      BY <1>0, <1>2, <2>1, <2>3 DEF next_offset
    <3> HIDE DEF piece, b, left, retry, q, marked
    <3>7. heap' \in [Objs -> PieceType] /\ peer' \in [Peers -> PeerType]
      BY <2>1, <3>4, <3>5, <3>6, HeapUpdate, PeerUpdate
    <3>8. CASE left = 0
      <4>1. net' \in NetType
        BY <1>0, <2>1, <3>3, <3>6, <3>8, AdvanceType
      <4>2. QED BY <1>2, <3>7, <4>1 DEF next_offset, TypeOK
    <3>9. CASE left # 0
      <4>1. [net EXCEPT !.left = left, !.retry = retry, !.pc = "select", !.obj = None]
              \in NetType
        BY <1>0, <2>1, <3>3, <3>9, SelectType
      <4>2. net' \in NetType
        BY <3>6, <3>9, <4>1
      <4>3. QED BY <1>2, <3>7, <4>2 DEF next_offset, TypeOK
    <3>10. QED BY <3>8, <3>9
  <2>4. QED BY <2>2, <2>3
<1>3. ASSUME NEW r \in Peers, retry_next_peer(r)
      PROVE  TypeOK'
  <2> DEFINE pending == peer[r].pending
             desired == IF pending < MaxPending THEN MaxPending - pending ELSE 1
             to_request == IF desired < net.retry THEN desired ELSE net.retry
  <2>1. peer[r] \in PeerType /\ pending \in Nat
    BY DEF TypeOK, PeerType
  <2>2. pending + to_request \in Nat
    BY <1>0, <2>1
  <2>3. net' = request_next_block(net, r, peer[r], pending + to_request)
    BY <1>3 DEF retry_next_peer
  <2>4. net' \in NetType
    BY <1>0, <2>1, <2>2, <2>3, RequestType
  <2>5. QED BY <1>3, <2>4 DEF retry_next_peer, TypeOK
<1>4. QED BY <1>1, <1>2, <1>3 DEF Handler

LEMMA TimerTypes ==
  ASSUME TypeOK, NEW stale \in SUBSET Pieces, retry_pieces(stale)
  PROVE  TypeOK'
<1> DEFINE cleared == {q \in Requests : /\ q[1] \in stale
                                        /\ q[2] \in heap[active[q[1]]].requested
                                        /\ q[2] \notin heap[active[q[1]]].done}
           retry == Cardinality(cleared)
<1>1. retry \in Nat
  <2>1. cleared \subseteq Requests
    OBVIOUS
  <2>2. IsFiniteSet(cleared)
    BY <2>1, RequestsFinite, FS_Subset
  <2>3. QED BY <2>2, FS_CardinalityType
<1>2. net' = IF retry = 0 \/ Connected = {}
             THEN Idle
             ELSE [Idle EXCEPT !.pc = "next", !.retry = retry,
                               !.start = retry, !.todo = Connected]
  BY Zenon DEF retry_pieces
<1>3. net' \in NetType
  <2> HIDE DEF retry
  <2>1. [Idle EXCEPT !.pc = "next", !.retry = retry, !.start = retry,
                     !.todo = Connected] \in NetType
    BY <1>1 DEF Idle, NetType, Connected
  <2>2. QED BY <1>2, <2>1, IdleType, Zenon
<1>4. used' \in UsedType
  <2>1. used' = [used EXCEPT !.late = used.late + 1] \/ used' = [used EXCEPT !.late = used.late]
    BY DEF retry_pieces
  <2>2. QED BY <2>1, UsedOps
<1>5. heap' \in [Objs -> PieceType]
  <2>1. \A o \in Objs : heap[o] \in PieceType
    BY DEF TypeOK
  <2>2. \A o \in Objs : retry_blocks(heap[o]) \in PieceType
    BY <2>1 DEF retry_blocks, PieceType
  <2>3. heap' = [o \in Objs |-> IF \E p \in stale : active[p] = o
                                THEN retry_blocks(heap[o])
                                ELSE heap[o]]
    BY Zenon DEF retry_pieces
  <2>4. QED BY <2>1, <2>2, <2>3
<1>6. UNCHANGED <<client, active, queue, writer, disk, peer>>
  BY Zenon DEF retry_pieces
<1>7. QED BY <1>3, <1>4, <1>5, <1>6 DEF TypeOK

LEMMA UploadTypes ==
  ASSUME TypeOK, NEW r \in Peers, NEW p \in Pieces, request(r, p)
  PROVE  TypeOK'
<1>1. used' \in UsedType
  BY UsedOps DEF request
<1>2. net' \in NetType
  <2>1. [Idle EXCEPT !.pc = "dead"] \in NetType
    BY DEF Idle, NetType
  <2>2. QED BY <2>1, IdleType DEF request
<1>3. CASE IsActive(p)
  BY <1>1, <1>2, <1>3 DEF request, TypeOK
<1>4. CASE ~IsActive(p)
  <2>1. PICK o \in Objs : /\ active' = [active EXCEPT ![p] = o]
                          /\ heap' = [heap EXCEPT ![o] = Fresh(p)]
    BY <1>4 DEF request
  <2>2. heap' \in [Objs -> PieceType] /\ active' \in [Pieces -> Objs \cup {None}]
    BY <2>1, HeapUpdate, ActiveUpdate, FreshType
  <2>3. QED BY <1>1, <1>2, <2>2 DEF request, TypeOK
<1>5. QED BY <1>3, <1>4

LEMMA WriterTypes ==
  ASSUME TypeOK, Writer
  PROVE  TypeOK'
<1> DEFINE D == [tmp : BOOLEAN, part : SUBSET Pieces, full : SUBSET Pieces,
                 completed : BOOLEAN]
           o == writer.obj
<1>0. /\ heap \in [Objs -> PieceType] /\ writer \in WriterType /\ disk \in D
      /\ queue \in Seq(Objs) /\ active \in [Pieces -> Objs \cup {None}]
  BY DEF TypeOK
<1>1. /\ [pc |-> "idle", obj |-> None] \in WriterType
      /\ writer.pc # "idle" => o \in Objs /\ heap[o] \in PieceType /\ heap[o].id \in Pieces
  BY <1>0 DEF WriterType, PieceType
<1>2. \A pc \in {"hash", "reset", "write", "mark", "check", "complete", "notify"} :
        writer.pc # "idle" => [writer EXCEPT !.pc = pc] \in WriterType
  BY <1>0 DEF WriterType
<1>3. allocate \in D
  BY <1>0 DEF allocate
<1>4. CASE write_next_piece
  <2>1. Head(queue) \in Objs /\ Tail(queue) \in Seq(Objs)
    BY <1>0, <1>4, HeadTailProperties DEF write_next_piece
  <2>2. [pc |-> "hash", obj |-> Head(queue)] \in WriterType
    BY <2>1, NamesAssumption DEF WriterType
  <2>3. QED BY <1>4, <2>1, <2>2 DEF write_next_piece, TypeOK
<1>5. CASE check_sha
  BY <1>2, <1>5 DEF check_sha, TypeOK
<1>6. CASE reset_piece
  <2> DEFINE p == heap[o].id
  <2>1. o \in Objs /\ p \in Pieces
    BY <1>1, <1>6 DEF reset_piece
  <2>2. CASE IsActive(p)
    <3>1. active[p] \in Objs
      BY <1>0, <2>1, <2>2 DEF IsActive
    <3>2. heap[active[p]] \in PieceType
      BY <1>0, <3>1
    <3>3. reset(heap[active[p]]) \in PieceType
      BY <3>2 DEF reset, PieceType
    <3>4. heap' = [heap EXCEPT ![active[p]] = reset(heap[active[p]])]
          /\ active' = [active EXCEPT ![p] = None]
      BY <1>6, <2>2 DEF reset_piece
    <3>5. heap' \in [Objs -> PieceType] /\ active' \in [Pieces -> Objs \cup {None}]
      BY <2>1, <3>1, <3>3, <3>4, HeapUpdate, ActiveUpdate
    <3>6. QED BY <1>1, <1>6, <3>5 DEF reset_piece, TypeOK
  <2>3. CASE ~IsActive(p)
    BY <1>1, <1>6, <2>3 DEF reset_piece, TypeOK
  <2>4. QED BY <2>2, <2>3
<1>7. CASE writePiece
  <2>1. o \in Objs /\ heap[o].id \in Pieces /\ writer.pc # "idle"
    BY <1>1, <1>7 DEF writePiece
  <2>2. \A S \in SUBSET Pieces : [allocate EXCEPT !.part = S] \in D
    BY <1>3
  <2>3. disk' \in D
    BY <1>3, <1>7, <2>1, <2>2 DEF writePiece
  <2>4. writer' \in WriterType
    BY <1>2, <1>7, <2>1 DEF writePiece
  <2>5. QED BY <1>7, <2>3, <2>4 DEF writePiece, TypeOK
<1>8. CASE write_failed
  <2>1. \A S \in SUBSET Pieces : [allocate EXCEPT !.part = S] \in D
    BY <1>3
  <2>2. disk' \in D
    BY <1>0, <1>3, <1>8, <2>1 DEF write_failed
  <2>3. used' \in UsedType
    BY <1>8, UsedOps DEF write_failed
  <2>4. QED BY <1>1, <1>8, <2>2, <2>3 DEF write_failed, TypeOK
<1>9. CASE mark_written
  <2>1. o \in Objs /\ heap[o] \in PieceType /\ writer.pc # "idle"
    BY <1>1, <1>9 DEF mark_written
  <2>2. set_piece_written(heap[o]) \in PieceType
    <3>1. 0 \in Blocks(heap[o].id)
      BY <1>1, <2>1, SizesAssumption DEF Blocks
    <3>2. TRUE \in BOOLEAN
      OBVIOUS
    <3>3. QED BY <2>1, <3>1, <3>2, PieceOps
  <2>3. heap' = [heap EXCEPT ![o] = set_piece_written(heap[o])]
    BY <1>0, <1>9 DEF mark_written
  <2>4. heap' \in [Objs -> PieceType]
    BY <2>1, <2>2, <2>3, HeapUpdate
  <2>5. writer' \in WriterType
    BY <1>2, <1>9, <2>1 DEF mark_written
  <2>6. QED BY <1>9, <2>4, <2>5 DEF mark_written, TypeOK
<1>10. CASE check_done
  BY <1>1, <1>2, <1>10 DEF check_done, TypeOK
<1>11. CASE torrentComplete
  <2>1. disk' \in D
    BY <1>0, <1>11 DEF torrentComplete
  <2>2. QED BY <1>2, <1>11, <2>1 DEF torrentComplete, TypeOK
<1>12. CASE last_piece_written
  <2>1. \A r \in Peers : [peer[r] EXCEPT !.interested = FALSE] \in PeerType
    BY DEF TypeOK, PeerType
  <2>2. peer' \in [Peers -> PeerType]
    BY <1>12, <2>1 DEF last_piece_written
  <2>3. QED BY <1>1, <1>12, <2>2 DEF last_piece_written, TypeOK
<1>13. QED
  BY <1>4, <1>5, <1>6, <1>7, <1>8, <1>9, <1>10, <1>11, <1>12 DEF Writer

\* Every step keeps every variable in its type.
LEMMA StepTypes ==
  ASSUME TypeOK, ActiveById, [Next]_vars
  PROVE  TypeOK'
<1>1. CASE UNCHANGED vars
  BY <1>1 DEF vars, TypeOK
<1>2. ASSUME NEW r \in Peers,
             \/ \E bf \in Bitfields : recv_handshake(r, bf) \/ set_remote_pieces(r, bf)
             \/ disconnected(r)
             \/ set_choking(r)
             \/ set_unchoking(r)
             \/ \E p \in Pieces : have(r, p)
      PROVE  TypeOK'
  BY <1>2, RemoteTypes, Zenon
<1>3. ASSUME NEW r \in Peers, NEW p \in Pieces, request(r, p)
      PROVE  TypeOK'
  BY <1>3, UploadTypes
<1>4. ASSUME NEW r \in Peers, NEW q \in Requests, NEW ok \in BOOLEAN,
             recv_piece(r, q[1], q[2], ok)
      PROVE  TypeOK'
  BY <1>4, PieceTypes
<1>5. CASE Timer
  <2>1. PICK stale \in SUBSET Pieces : retry_pieces(stale)
    BY <1>5, Zenon DEF Timer
  <2>2. QED BY <2>1, TimerTypes
<1>6. CASE Handler \/ Writer
  BY <1>6, HandlerTypes, WriterTypes
<1>7. QED
  BY <1>1, <1>2, <1>3, <1>4, <1>5, <1>6, Zenon DEF Next, Remote

-----------------------------------------------------------------------------
(* The inductive invariant *)


LEMMA QueueRange ==
  ASSUME NEW S, NEW s \in Seq(S)
  PROVE  /\ Range(s) \subseteq S
         /\ \A e \in S : Range(Append(s, e)) = Range(s) \cup {e}
         /\ s # <<>> => Range(s) = {Head(s)} \cup Range(Tail(s))
<1>1. Range(s) \subseteq S
  BY DEF Range
<1>2. ASSUME NEW e \in S
      PROVE  Range(Append(s, e)) = Range(s) \cup {e}
  BY AppendProperties DEF Range
<1>3. ASSUME s # <<>>
      PROVE  Range(s) = {Head(s)} \cup Range(Tail(s))
  <2>1. DOMAIN s = 1 .. Len(s) /\ DOMAIN Tail(s) = 1 .. Len(Tail(s))
        /\ Len(Tail(s)) = Len(s) - 1 /\ Len(s) \in Nat \ {0} /\ Head(s) = s[1]
    BY <1>3, HeadTailProperties
  <2>2. \A i \in DOMAIN Tail(s) : Tail(s)[i] = s[i + 1] /\ i + 1 \in DOMAIN s
    BY <1>3, <2>1, HeadTailProperties
  <2>3. \A i \in DOMAIN s : i = 1 \/ (i - 1 \in DOMAIN Tail(s) /\ Tail(s)[i - 1] = s[i])
    BY <1>3, <2>1, HeadTailProperties
  <2>4. 1 \in DOMAIN s
    BY <2>1
  <2>5. Range(s) \subseteq {Head(s)} \cup Range(Tail(s))
    BY <2>1, <2>3 DEF Range
  <2>6. {Head(s)} \cup Range(Tail(s)) \subseteq Range(s)
    BY <2>1, <2>2, <2>4 DEF Range
  <2>7. QED BY <2>5, <2>6
<1>4. QED BY <1>1, <1>2, <1>3

\* No two pieces share an active object.
LEMMA ActiveIsInjective ==
  ASSUME ActiveById, NEW p1 \in Pieces, NEW p2 \in Pieces,
         IsActive(p1), active[p1] = active[p2]
  PROVE  p1 = p2
BY DEF ActiveById, IsActive

\* A handler or timer that changes no piece but for the blocks requested of it.
LEMMA RequestsOnly ==
  ASSUME TypeOK, Safe, UNCHANGED <<client, active, queue, writer, disk>>,
         used'.fails = used.fails,
         \A o \in Objs : /\ heap'[o].id = heap[o].id
                         /\ heap'[o].done = heap[o].done
                         /\ heap'[o].good = heap[o].good
                         /\ heap'[o].written = heap[o].written
  PROVE  Safe'
<1>1. \A p \in Pieces : IsActive(p) => active[p] \in Objs
  BY DEF TypeOK, IsActive
<1>2. \A p \in Pieces : IsActive(p)' = IsActive(p)
  BY DEF IsActive
<1>3. \A o \in Objs : /\ Complete(heap[o])' = Complete(heap[o])
                      /\ HashMatches(heap[o])' = HashMatches(heap[o])
  BY DEF Complete, HashMatches
<1>4. writer.pc # "idle" => writer.obj \in Objs
  BY DEF TypeOK, WriterType
<1>5. ActiveById'
  BY <1>1, <1>2 DEF Safe, ActiveById
<1>6. ClientIffComplete'
  BY <1>1, <1>2, <1>3 DEF Safe, ClientIffComplete
<1>7. DataIsActive'
  BY <1>3 DEF Safe, DataIsActive
<1>8. WriterHasData'
  BY <1>3, <1>4 DEF Safe, WriterHasData
<1>9. WrittenIsOnDisk'
  BY <1>1, <1>2 DEF Safe, WrittenIsOnDisk
<1>10. StillDone'
  BY <1>1, <1>2 DEF Safe, StillDone, done
<1>11. NoPieceForgotten'
  <2>1. \A p \in client : p \in Pieces /\ IsActive(p)
    BY DEF Safe, ClientIffComplete, TypeOK
  <2>2. QED BY <1>1, <2>1 DEF Safe, NoPieceForgotten
<1>12. QED
  BY <1>5, <1>6, <1>7, <1>8, <1>9, <1>10, <1>11 DEF Safe

\* A new object for a piece that was not active (Torrent::active_piece).
LEMMA NewObject ==
  ASSUME TypeOK, Safe, UNCHANGED <<client, queue, writer, disk>>,
         used'.fails = used.fails,
         NEW p \in Pieces, ~IsActive(p), NEW o \in Objs \ Held,
         active' = [active EXCEPT ![p] = o],
         heap' = [heap EXCEPT ![o] = Fresh(p)]
  PROVE  Safe'
<1>1. /\ \A x \in Objs \ {o} : heap'[x] = heap[x]
      /\ heap'[o] = Fresh(p)
      /\ active'[p] = o
      /\ \A x \in Pieces \ {p} : active'[x] = active[x]
  BY DEF TypeOK
<1>2. /\ \A x \in Pieces : active[x] # o
      /\ o \notin Range(queue)
      /\ writer.obj # o
  BY DEF Held, Range, TypeOK
<1>3. /\ Fresh(p).id = p /\ Fresh(p).good = {} /\ Fresh(p).written = FALSE
      /\ ~Complete(Fresh(p))
  BY FreshType DEF Fresh
<1>4. \A x \in Pieces : IsActive(x) => active[x] \in Objs \ {o}
  BY <1>2 DEF TypeOK, IsActive
<1>5. /\ \A x \in Pieces \ {p} : IsActive(x)' = IsActive(x)
      /\ IsActive(p)'
      /\ \A x \in Pieces \ {p} : IsActive(x)' => heap'[active'[x]] = heap[active[x]]
  BY <1>1, <1>4, NamesAssumption DEF IsActive
<1>6. p \notin client
  BY DEF Safe, ClientIffComplete
<1>7. writer.pc # "idle" => writer.obj \in Objs \ {o}
  BY <1>2 DEF TypeOK, WriterType
<1>8. ActiveById'
  BY <1>1, <1>3, <1>5 DEF Safe, ActiveById
<1>9. ClientIffComplete'
  BY <1>1, <1>3, <1>5, <1>6 DEF Safe, ClientIffComplete
<1>10. DataIsActive'
  <2>1. ASSUME NEW x \in Objs \ {o}, heap[x].good # {}
        PROVE  active'[heap[x].id] = x
    <3>1. active[heap[x].id] = x /\ heap[x].id \in Pieces
      BY <2>1 DEF Safe, DataIsActive, TypeOK, PieceType
    <3>2. x # None
      BY NamesAssumption
    <3>3. heap[x].id # p
      BY <3>1, <3>2 DEF IsActive
    <3>4. QED BY <1>1, <3>1, <3>3
  <2>2. QED BY <1>1, <1>3, <2>1 DEF Safe, DataIsActive
<1>11. WriterHasData'
  BY <1>1, <1>7 DEF Safe, WriterHasData
<1>12. WrittenIsOnDisk'
  BY <1>1, <1>3, <1>5 DEF Safe, WrittenIsOnDisk
<1>13. StillDone'
  BY <1>6 DEF Safe, StillDone, done
<1>14. NoPieceForgotten'
  <2>1. \A x \in client : x \in Pieces \ {p} /\ IsActive(x)
    BY <1>6 DEF Safe, ClientIffComplete, TypeOK
  <2>2. QED BY <1>1, <1>5, <2>1 DEF Safe, NoPieceForgotten
<1>15. QED
  BY <1>8, <1>9, <1>10, <1>11, <1>12, <1>13, <1>14 DEF Safe

\* What Piece::set_block leaves alone: a block that is there already changes
\* nothing, and no block is lost.
LEMMA SetBlock ==
  ASSUME NEW piece \in PieceType, NEW b \in Blocks(piece.id), NEW ok \in BOOLEAN
  PROVE  /\ set_block(piece, b, ok).id = piece.id
         /\ set_block(piece, b, ok).written = piece.written
         /\ set_block(piece, b, ok).done = piece.done \cup {b}
         /\ b \in piece.done => set_block(piece, b, ok).good = piece.good
         /\ piece.good \subseteq set_block(piece, b, ok).good
         /\ Complete(piece) => set_block(piece, b, ok).good = piece.good
         /\ Complete(set_block(piece, b, ok)) = set_block_result(piece, b)
BY DEF set_block, PieceType, Complete, set_block_result

LEMMA PieceStep ==
  ASSUME TypeOK, Safe, NEW r \in Peers, NEW q \in Requests, NEW ok \in BOOLEAN,
         recv_piece(r, q[1], q[2], ok)
  PROVE  Safe'
<1> DEFINE p == q[1]
           b == q[2]
           o == active[p]
           piece == heap[o]
           new == set_block(piece, b, ok)
<1>1. p \in Pieces /\ b \in Blocks(p)
  BY RequestsType
<1>2. UNCHANGED <<active, writer, disk>> /\ used'.fails = used.fails
  BY DEF recv_piece, TypeOK, UsedType
<1>3. CASE ~IsActive(p)
  <2>1. UNCHANGED <<heap, client, queue>>
    BY <1>3 DEF recv_piece
  <2>2. QED BY <1>2, <2>1, RequestsOnly
<1>4. CASE IsActive(p)
  <2>1. o \in Objs /\ piece \in PieceType /\ piece.id = p
    BY <1>1, <1>4 DEF TypeOK, IsActive, Safe, ActiveById
  <2>2. /\ heap' = [heap EXCEPT ![o] = new]
        /\ client' = IF Complete(new) THEN client \cup {p} ELSE client
        /\ queue' = IF Complete(new) THEN Append(queue, o) ELSE queue
    BY <1>1, <1>4, <2>1, SetBlock DEF recv_piece, add, TypeOK
  <2>3. /\ new.id = p /\ new.written = piece.written
        /\ new.done = piece.done \cup {b}
        /\ piece.good \subseteq new.good
        /\ Complete(piece) => new.good = piece.good /\ Complete(new)
    <3>1. new.id = p /\ new.written = piece.written /\ new.done = piece.done \cup {b}
          /\ piece.good \subseteq new.good
      BY <1>1, <2>1, SetBlock
    <3>2. Complete(piece) => new.good = piece.good
      BY <1>1, <2>1, SetBlock
    <3>3. Complete(piece) => Complete(new)
      BY <1>1, <2>1, <3>1 DEF Complete
    <3>4. QED BY <3>1, <3>2, <3>3
  <2> HIDE DEF new
  <2>4. heap'[o] = new /\ \A x \in Objs \ {o} : heap'[x] = heap[x]
    BY <2>1, <2>2 DEF TypeOK
  <2>5. \A x \in Pieces : /\ IsActive(x)' = IsActive(x)
                          /\ IsActive(x) => active[x] \in Objs
                          /\ x # p /\ IsActive(x) => active[x] # o
    BY <1>1, <1>2, <1>4, ActiveIsInjective DEF IsActive, TypeOK, Safe
  <2>6. writer.pc # "idle" => writer.obj \in Objs
    BY DEF TypeOK, WriterType
  <2>7. ActiveById'
    BY <1>2, <2>3, <2>4, <2>5 DEF Safe, ActiveById
  <2>8. ClientIffComplete'
    <3>1. p \in client => Complete(new)
      BY <1>1, <2>3 DEF Safe, ClientIffComplete
    <3>2. p \in client' <=> Complete(new)
      BY <2>2, <3>1
    <3>3. \A x \in Pieces \ {p} : x \in client' <=> x \in client
      BY <2>2
    <3>4. \A x \in Pieces \ {p} : IsActive(x) => heap'[active[x]] = heap[active[x]]
      BY <2>4, <2>5
    <3>5. \A x \in Pieces \ {p} : x \in client' <=> IsActive(x)' /\ Complete(heap[active[x]])'
      BY <1>2, <2>5, <3>3, <3>4 DEF Safe, ClientIffComplete, Complete
    <3>6. Complete(heap[active[p]])' <=> Complete(new)
      BY <1>2, <2>4 DEF Complete
    <3>7. QED BY <1>4, <2>5, <3>2, <3>5, <3>6 DEF ClientIffComplete
  <2>9. piece.written => piece.good = {} /\ Complete(piece)
    BY <2>1 DEF Safe, DataIsActive
  <2>10. DataIsActive'
    <3>1. new.written => new.good = {} /\ Complete(new)
      BY <2>3, <2>9
    <3>2. \A x \in Objs \ {o} : /\ heap'[x].good # {} => active'[heap'[x].id] = x
                                /\ heap'[x].written => heap'[x].good = {} /\ Complete(heap[x])'
      BY <1>2, <2>4 DEF Safe, DataIsActive, Complete
    <3>3. /\ active'[heap'[o].id] = o
          /\ heap'[o].written => heap'[o].good = {} /\ Complete(heap'[o])
      BY <1>2, <2>3, <2>4, <3>1
    <3>4. QED BY <2>1, <3>2, <3>3 DEF DataIsActive, Complete
  <2>11. WriterHasData'
    <3>1. HashMatches(piece) => HashMatches(new)
      <4>1. HashMatches(piece) => Complete(piece)
        BY <2>1 DEF HashMatches, Complete, PieceType
      <4>2. QED BY <2>1, <2>3, <4>1 DEF HashMatches
    <3>2. writer.obj = o \/ writer.pc = "idle" \/ heap'[writer.obj] = heap[writer.obj]
      BY <2>4, <2>6
    <3>3. CASE writer.obj = o
      BY <1>2, <2>1, <2>3, <2>4, <3>1, <3>3 DEF Safe, WriterHasData, HashMatches
    <3>4. CASE writer.pc = "idle"
      BY <1>2, <3>4 DEF WriterHasData
    <3>5. CASE heap'[writer.obj] = heap[writer.obj]
      BY <1>2, <3>5 DEF Safe, WriterHasData, HashMatches
    <3>6. QED BY <3>2, <3>3, <3>4, <3>5
  <2>12. \A x \in Pieces : IsActive(x) =>
                            heap'[active[x]].written = heap[active[x]].written
    BY <2>3, <2>4, <2>5
  <2>13. WrittenIsOnDisk'
    BY <1>2, <2>5, <2>12 DEF Safe, WrittenIsOnDisk
  <2>14. StillDone'
    <3>1. done => client' = Pieces
      BY <1>1, <2>2 DEF done
    <3>2. QED BY <1>2, <2>5, <2>12, <3>1 DEF Safe, StillDone, done
  <2>15. NoPieceForgotten'
    <3>1. Range(queue) \subseteq Range(queue')
          /\ (Complete(new) => o \in Range(queue'))
      BY <2>1, <2>2, QueueRange DEF TypeOK
    <3>2. ASSUME NEW x \in Pieces, x \in client', ~heap'[active'[x]].written,
                 used'.fails = 0
          PROVE  active'[x] \in Range(queue') \cup {writer'.obj}
      <4>1. CASE x \in client
        <5>1. IsActive(x)
          BY <4>1 DEF Safe, ClientIffComplete
        <5>2. ~heap[active[x]].written
          BY <1>2, <2>12, <3>2, <5>1
        <5>3. QED BY <1>2, <3>1, <3>2, <4>1, <5>2 DEF Safe, NoPieceForgotten
      <4>2. CASE x \notin client
        <5>1. x = p /\ Complete(new)
          BY <2>2, <3>2, <4>2
        <5>2. QED BY <1>2, <3>1, <5>1
      <4>3. QED BY <4>1, <4>2
    <3>3. QED BY <3>2, Zenon DEF NoPieceForgotten
  <2>16. QED
    BY <2>7, <2>8, <2>10, <2>11, <2>13, <2>14, <2>15 DEF Safe
<1>5. QED BY <1>3, <1>4

\* A step of the writer that changes no piece.
LEMMA SamePieces ==
  ASSUME TypeOK, Safe, UNCHANGED <<client, active, heap>>,
         WriterHasData', WrittenIsOnDisk', StillDone', NoPieceForgotten'
  PROVE  Safe'
BY DEF Safe, ActiveById, ClientIffComplete, DataIsActive, IsActive, Complete

\* The object whose hash was right is the active one of its piece, and not
\* written yet.
LEMMA VerifiedIsActive ==
  ASSUME TypeOK, Safe, NEW o \in Objs, HashMatches(heap[o])
  PROVE  /\ heap[o].id \in Pieces
         /\ active[heap[o].id] = o
         /\ ~heap[o].written
         /\ Complete(heap[o])
<1>1. heap[o] \in PieceType /\ heap[o].id \in Pieces
  BY DEF TypeOK, PieceType
<1>2. heap[o].good # {}
  <2>1. 0 \in Blocks(heap[o].id)
    BY <1>1, SizesAssumption DEF Blocks
  <2>2. QED BY <2>1 DEF HashMatches
<1>3. Complete(heap[o])
  BY <1>1 DEF HashMatches, Complete, PieceType
<1>4. QED BY <1>1, <1>2, <1>3 DEF Safe, DataIsActive

LEMMA WriterStep ==
  ASSUME TypeOK, Safe, Writer
  PROVE  Safe'
<1> DEFINE o == writer.obj
           id == heap[o].id
<1>1. writer.pc # "idle" => o \in Objs /\ heap[o] \in PieceType /\ id \in Pieces
  BY DEF TypeOK, WriterType, PieceType
<1>2. \A p \in Pieces : IsActive(p) => active[p] \in Objs
  BY DEF TypeOK, IsActive
<1>3. \A p \in client : p \in Pieces /\ IsActive(p) /\ active[p] \in Objs
  BY <1>2 DEF Safe, ClientIffComplete, TypeOK
<1>4. \A pc \in {"hash", "reset", "write", "mark", "check", "complete", "notify"} :
        [writer EXCEPT !.pc = pc].pc = pc /\ [writer EXCEPT !.pc = pc].obj = o
  BY DEF TypeOK, WriterType
<1>5. CASE write_next_piece
  <2>1. UNCHANGED <<client, active, heap, disk>> /\ used' = used
        /\ writer' = [pc |-> "hash", obj |-> Head(queue)] /\ queue' = Tail(queue)
        /\ Range(queue) = {Head(queue)} \cup Range(Tail(queue))
        /\ writer.obj = None
    BY <1>5, QueueRange DEF write_next_piece, TypeOK, WriterType
  <2>2. WriterHasData' /\ StillDone'
    BY <2>1 DEF WriterHasData, StillDone
  <2>3. WrittenIsOnDisk'
    BY <2>1 DEF Safe, WrittenIsOnDisk, IsActive
  <2>4. NoPieceForgotten'
    <3>1. \A p \in client : active[p] # None
      BY <1>3, NamesAssumption
    <3>2. QED BY <2>1, <3>1 DEF Safe, NoPieceForgotten
  <2>5. QED BY <2>1, <2>2, <2>3, <2>4, SamePieces
<1>6. CASE check_sha
  <2>1. UNCHANGED <<client, active, heap, disk, queue, used>> /\ writer'.obj = o
        /\ writer'.pc \in {"write", "reset"}
        /\ (writer'.pc = "write" => HashMatches(heap[o]))
    BY <1>4, <1>6 DEF check_sha
  <2>2. WriterHasData' /\ StillDone'
    BY <2>1 DEF WriterHasData, StillDone, HashMatches
  <2>3. WrittenIsOnDisk'
    BY <2>1 DEF Safe, WrittenIsOnDisk, IsActive
  <2>4. NoPieceForgotten'
    BY <2>1 DEF Safe, NoPieceForgotten
  <2>5. QED BY <2>1, <2>2, <2>3, <2>4, SamePieces
<1>7. CASE writePiece
  <2>1. UNCHANGED <<client, active, heap, queue, used>> /\ writer'.obj = o
        /\ writer'.pc = "mark" /\ HashMatches(heap[o])
    BY <1>4, <1>7 DEF writePiece, Safe, WriterHasData
  <2>2. disk' = [allocate EXCEPT !.part = allocate.part \cup {id}]
    BY <1>7, <2>1 DEF writePiece, TypeOK, allocate
  <2>3. disk'.tmp /\ disk'.completed = disk.completed /\ id \in disk'.part
        /\ (disk.tmp => disk.part \subseteq disk'.part)
    BY <2>2 DEF allocate, TypeOK
  <2>4. WriterHasData' /\ StillDone'
    BY <2>1, <2>3 DEF WriterHasData, StillDone, HashMatches
  <2>5. WrittenIsOnDisk'
    BY <2>1, <2>3 DEF Safe, WrittenIsOnDisk, IsActive
  <2>6. NoPieceForgotten'
    BY <2>1 DEF Safe, NoPieceForgotten
  <2>7. QED BY <2>1, <2>4, <2>5, <2>6, SamePieces
<1>8. CASE write_failed
  <2>1. UNCHANGED <<client, active, heap, queue>> /\ used'.fails # 0
        /\ writer' = [pc |-> "idle", obj |-> None]
        /\ o \in Objs /\ HashMatches(heap[o])
    BY <1>1, <1>8 DEF write_failed, Safe, WriterHasData, TypeOK, UsedType
  <2>2. disk'.completed = disk.completed
        /\ (disk.tmp => disk'.tmp /\ disk.part \ {id} \subseteq disk'.part)
    BY <1>8 DEF write_failed, TypeOK, allocate
  <2>3. ~heap[o].written /\ active[id] = o
    BY <2>1, VerifiedIsActive
  <2>4. WriterHasData' /\ StillDone' /\ NoPieceForgotten'
    BY <2>1 DEF WriterHasData, StillDone, NoPieceForgotten
  <2>5. WrittenIsOnDisk'
    <3>1. \A p \in Pieces : IsActive(p) /\ heap[active[p]].written => p # id
      BY <2>3
    <3>2. QED BY <2>1, <2>2, <3>1 DEF Safe, WrittenIsOnDisk, IsActive
  <2>6. QED BY <2>1, <2>4, <2>5, SamePieces
<1>9. CASE check_done
  <2>1. UNCHANGED <<client, active, heap, queue, used, disk>>
        /\ (\/ writer' = [pc |-> "idle", obj |-> None]
            \/ writer'.pc = "complete" /\ writer'.obj = o /\ done)
        /\ heap[o].written
    BY <1>4, <1>9 DEF check_done, Safe, WriterHasData
  <2>2. WriterHasData' /\ StillDone'
    BY <2>1 DEF WriterHasData, StillDone, done, IsActive
  <2>3. WrittenIsOnDisk'
    BY <2>1 DEF Safe, WrittenIsOnDisk, IsActive
  <2>4. NoPieceForgotten'
    BY <2>1 DEF Safe, NoPieceForgotten
  <2>5. QED BY <2>1, <2>2, <2>3, <2>4, SamePieces
<1>10. CASE torrentComplete
  <2>1. UNCHANGED <<client, active, heap, queue, used>> /\ disk'.completed
        /\ writer'.pc = "notify" /\ writer'.obj = o /\ heap[o].written
    BY <1>4, <1>10 DEF torrentComplete, Safe, WriterHasData
  <2>2. WriterHasData' /\ StillDone' /\ WrittenIsOnDisk'
    BY <2>1 DEF WriterHasData, StillDone, WrittenIsOnDisk
  <2>3. NoPieceForgotten'
    BY <2>1 DEF Safe, NoPieceForgotten
  <2>4. QED BY <2>1, <2>2, <2>3, SamePieces
<1>11. CASE last_piece_written
  <2>1. UNCHANGED <<client, active, heap, queue, used, disk>>
        /\ writer' = [pc |-> "idle", obj |-> None] /\ heap[o].written
    BY <1>11 DEF last_piece_written, Safe, WriterHasData
  <2>2. WriterHasData' /\ StillDone'
    BY <2>1 DEF WriterHasData, StillDone
  <2>3. WrittenIsOnDisk'
    BY <2>1 DEF Safe, WrittenIsOnDisk, IsActive
  <2>4. NoPieceForgotten'
    BY <2>1 DEF Safe, NoPieceForgotten
  <2>5. QED BY <2>1, <2>2, <2>3, <2>4, SamePieces
<1>12. CASE reset_piece
  <2>1. UNCHANGED <<queue, disk, used>> /\ writer' = [pc |-> "idle", obj |-> None]
        /\ id \in Pieces /\ o \in Objs
    BY <1>1, <1>12 DEF reset_piece
  <2>2. WriterHasData' /\ StillDone'
    BY <2>1 DEF WriterHasData, StillDone
  <2>3. CASE ~IsActive(id)
    <3>1. UNCHANGED <<heap, client, active>>
      BY <1>12, <2>3 DEF reset_piece
    <3>2. \A p \in client : active[p] # o
      BY <1>3, <2>3 DEF Safe, ActiveById
    <3>3. NoPieceForgotten'
      BY <1>3, <2>1, <3>1, <3>2 DEF Safe, NoPieceForgotten
    <3>4. WrittenIsOnDisk'
      BY <2>1, <3>1 DEF Safe, WrittenIsOnDisk, IsActive
    <3>5. QED BY <2>2, <3>1, <3>3, <3>4, SamePieces
  <2>4. CASE IsActive(id)
    <3> DEFINE a == active[id]
    <3>1. a \in Objs /\ heap[a].id = id
      BY <1>2, <2>1, <2>4 DEF Safe, ActiveById
    <3>2. /\ heap' = [heap EXCEPT ![a] = reset(heap[a])]
          /\ client' = client \ {id}
          /\ active' = [active EXCEPT ![id] = None]
      BY <1>12, <2>4 DEF reset_piece
    <3>3. /\ reset(heap[a]).id = id /\ reset(heap[a]).good = {}
          /\ ~reset(heap[a]).written
      <4>1. heap[a] \in PieceType
        BY <3>1 DEF TypeOK
      <4>2. QED BY <3>1, <4>1 DEF reset, PieceType
    <3>4. /\ heap'[a] = reset(heap[a])
          /\ \A x \in Objs \ {a} : heap'[x] = heap[x]
          /\ active'[id] = None
          /\ \A p \in Pieces \ {id} : active'[p] = active[p]
      BY <2>1, <3>1, <3>2 DEF TypeOK, IsActive
    <3>5. \A p \in Pieces \ {id} : IsActive(p) => active[p] \in Objs \ {a}
      BY <1>2, <2>1, <2>4, ActiveIsInjective DEF Safe
    <3>6. \A p \in Pieces : IsActive(p)' => /\ p # id /\ IsActive(p)
                                            /\ active'[p] = active[p]
                                            /\ active[p] \in Objs \ {a}
                                            /\ heap'[active'[p]] = heap[active[p]]
      BY <3>4, <3>5 DEF IsActive
    <3>7. ActiveById'
      BY <3>6 DEF Safe, ActiveById
    <3>8. ClientIffComplete'
      <4>1. \A p \in Pieces \ {id} : IsActive(p) => IsActive(p)'
        BY <3>4 DEF IsActive
      <4>2. QED BY <3>2, <3>4, <3>6, <4>1 DEF Safe, ClientIffComplete, Complete
    <3>9. DataIsActive'
      <4>1. ASSUME NEW x \in Objs \ {a}, heap[x].good # {}
            PROVE  active'[heap[x].id] = x
        <5>1. active[heap[x].id] = x /\ heap[x].id \in Pieces
          BY <4>1 DEF Safe, DataIsActive, TypeOK, PieceType
        <5>2. heap[x].id # id
          BY <4>1, <5>1
        <5>3. QED BY <3>4, <5>1, <5>2
      <4>2. QED BY <3>3, <3>4, <4>1 DEF Safe, DataIsActive, Complete
    <3>10. WrittenIsOnDisk'
      BY <2>1, <3>6 DEF Safe, WrittenIsOnDisk
    <3>11. NoPieceForgotten'
      <4>1. \A p \in client' : p \in client /\ p # id /\ p \in Pieces
        BY <1>3, <3>2
      <4>2. \A p \in client' : active'[p] = active[p] /\ heap'[active'[p]] = heap[active[p]]
        BY <1>3, <3>4, <3>5, <4>1
      <4>3. \A p \in client' : active[p] # o
        BY <1>3, <4>1 DEF Safe, ActiveById
      <4>4. QED BY <2>1, <4>1, <4>2, <4>3 DEF Safe, NoPieceForgotten
    <3>12. QED
      BY <2>2, <3>7, <3>8, <3>9, <3>10, <3>11 DEF Safe
  <2>5. QED BY <2>3, <2>4
<1>13. CASE mark_written
  <2>1. UNCHANGED <<client, active, queue, disk, used>>
        /\ writer'.pc = "check" /\ writer'.obj = o
        /\ o \in Objs /\ HashMatches(heap[o]) /\ disk.tmp /\ id \in disk.part
    BY <1>1, <1>4, <1>13 DEF mark_written, Safe, WriterHasData
  <2>2. active[id] = o /\ Complete(heap[o]) /\ heap[o] \in PieceType
    BY <2>1, VerifiedIsActive DEF TypeOK
  <2>3. /\ heap'[o] = set_piece_written(heap[o])
        /\ \A x \in Objs \ {o} : heap'[x] = heap[x]
    BY <1>13, <2>1 DEF mark_written, TypeOK
  <2>4. /\ heap'[o].id = id /\ heap'[o].written /\ heap'[o].good = {}
        /\ heap'[o].done = heap[o].done
    BY <2>2, <2>3 DEF set_piece_written, PieceType, Complete
  <2>5. \A x \in Objs : Complete(heap[x])' = Complete(heap[x])
                        /\ heap'[x].id = heap[x].id
    BY <2>3, <2>4 DEF Complete
  <2>6. \A p \in Pieces : IsActive(p)' = IsActive(p)
    BY <2>1 DEF IsActive
  <2>7. ActiveById'
    BY <1>2, <2>1, <2>5, <2>6 DEF Safe, ActiveById
  <2>8. ClientIffComplete'
    BY <1>2, <2>1, <2>5, <2>6 DEF Safe, ClientIffComplete
  <2>9. DataIsActive'
    <3>1. /\ heap'[o].good = {} /\ Complete(heap[o])'
      BY <2>1, <2>2, <2>4, <2>5
    <3>2. \A x \in Objs \ {o} : /\ heap'[x].good # {} => active'[heap'[x].id] = x
                                /\ heap'[x].written => heap'[x].good = {} /\ Complete(heap[x])'
      BY <2>1, <2>3, <2>5 DEF Safe, DataIsActive
    <3>3. QED BY <2>1, <3>1, <3>2 DEF DataIsActive, Complete
  <2>10. WriterHasData' /\ StillDone'
    BY <2>1, <2>4 DEF WriterHasData, StillDone
  <2>11. WrittenIsOnDisk'
    <3>1. \A p \in Pieces : IsActive(p) =>
            (heap'[active[p]].written => heap[active[p]].written \/ (active[p] = o /\ p = id))
      BY <1>2, <2>3 DEF Safe, ActiveById
    <3>2. QED BY <2>1, <2>6, <3>1 DEF Safe, WrittenIsOnDisk
  <2>12. NoPieceForgotten'
    <3>1. \A x \in Objs : heap[x].written => heap'[x].written
      BY <2>3, <2>4
    <3>2. QED BY <1>3, <2>1, <3>1 DEF Safe, NoPieceForgotten
  <2>13. QED
    BY <2>7, <2>8, <2>9, <2>10, <2>11, <2>12 DEF Safe
<1>14. QED
  BY <1>5, <1>6, <1>7, <1>8, <1>9, <1>10, <1>11, <1>12, <1>13 DEF Writer

\* Every step of either thread preserves the invariant.
LEMMA StepSafe ==
  ASSUME TypeOK, Safe, [Next]_vars
  PROVE  Safe'
<1>0. heap \in [Objs -> PieceType] /\ active \in [Pieces -> Objs \cup {None}]
      /\ net \in NetType
  BY DEF TypeOK
<1>1. CASE UNCHANGED vars
  BY <1>1, RequestsOnly DEF vars
<1>2. ASSUME NEW r \in Peers,
             \/ \E bf \in Bitfields : recv_handshake(r, bf) \/ set_remote_pieces(r, bf)
             \/ disconnected(r)
             \/ set_choking(r)
             \/ set_unchoking(r)
             \/ \E p \in Pieces : have(r, p)
             \/ retry_next_peer(r)
      PROVE  Safe'
  <2>1. UNCHANGED <<client, active, heap, queue, writer, disk>>
    BY <1>2 DEF recv_handshake, set_remote_pieces, disconnected, set_choking,
                set_unchoking, have, retry_next_peer
  <2>2. used'.fails = used.fails
    BY <1>2 DEF recv_handshake, set_remote_pieces, disconnected, set_choking,
                set_unchoking, have, retry_next_peer, TypeOK, UsedType
  <2>3. QED BY <2>1, <2>2, RequestsOnly
<1>3. ASSUME NEW r \in Peers, NEW p \in Pieces, request(r, p)
      PROVE  Safe'
  <2>1. UNCHANGED <<client, queue, writer, disk>> /\ used'.fails = used.fails
    BY <1>3 DEF request, TypeOK, UsedType
  <2>2. CASE IsActive(p)
    <3>1. UNCHANGED <<active, heap>>
      BY <1>3, <2>2 DEF request
    <3>2. QED BY <2>1, <3>1, RequestsOnly
  <2>3. CASE ~IsActive(p)
    <3>1. PICK o \in Objs \ Held : /\ active' = [active EXCEPT ![p] = o]
                                   /\ heap' = [heap EXCEPT ![o] = Fresh(p)]
      BY <1>3, <2>3 DEF request
    <3>2. QED BY <2>1, <2>3, <3>1, NewObject
  <2>4. QED BY <2>2, <2>3
<1>4. CASE next_piece
  <2> DEFINE p == Min(Candidates(net.peer))
  <2>1. UNCHANGED <<client, queue, writer, disk, used>>
    BY <1>4 DEF next_piece
  <2>2. CASE Candidates(net.peer) = {} \/ IsActive(p)
    <3>1. UNCHANGED <<active, heap>>
      BY <1>4, <2>2 DEF next_piece
    <3>2. QED BY <2>1, <3>1, RequestsOnly
  <2>3. CASE Candidates(net.peer) # {} /\ ~IsActive(p)
    <3>1. net.peer \in Peers
      BY <1>0, <1>4 DEF next_piece, NetType
    <3>2. p \in Pieces
      BY <2>3, <3>1, CandidateType
    <3>3. PICK o \in Objs \ Held : /\ active' = [active EXCEPT ![p] = o]
                                   /\ heap' = [heap EXCEPT ![o] = Fresh(p)]
      BY <1>4, <2>3 DEF next_piece
    <3> HIDE DEF p
    <3>4. QED BY <2>1, <2>3, <3>2, <3>3, NewObject
  <2>4. QED BY <2>2, <2>3
<1>5. CASE next_offset
  <2>1. UNCHANGED <<client, active, queue, writer, disk, used>>
    BY <1>5 DEF next_offset
  <2>2. net.obj \in Objs /\ heap[net.obj] \in PieceType
    BY <1>0, <1>5 DEF NetType, next_offset
  <2>3. \/ heap' = heap
        \/ \E S : heap' = [heap EXCEPT ![net.obj] = [heap[net.obj] EXCEPT !.requested = S]]
    BY <1>0, <1>5, <2>2 DEF next_offset
  <2>4. \A o \in Objs : heap[o] \in PieceType
    BY <1>0
  <2>5. \A o \in Objs : /\ heap'[o].id = heap[o].id
                        /\ heap'[o].done = heap[o].done
                        /\ heap'[o].good = heap[o].good
                        /\ heap'[o].written = heap[o].written
    <3>1. CASE heap' = heap
      BY <3>1
    <3>2. ASSUME NEW S, heap' = [heap EXCEPT ![net.obj] =
                                   [heap[net.obj] EXCEPT !.requested = S]]
          PROVE  \A o \in Objs : /\ heap'[o].id = heap[o].id
                                 /\ heap'[o].done = heap[o].done
                                 /\ heap'[o].good = heap[o].good
                                 /\ heap'[o].written = heap[o].written
      <4> DEFINE new == [heap[net.obj] EXCEPT !.requested = S]
      <4>1. /\ new.id = heap[net.obj].id /\ new.done = heap[net.obj].done
            /\ new.good = heap[net.obj].good /\ new.written = heap[net.obj].written
        BY <2>2 DEF PieceType
      <4> HIDE DEF new
      <4>2. \A o \in Objs : heap'[o] = IF o = net.obj THEN new ELSE heap[o]
        BY <1>0, <2>2, <3>2 DEF new
      <4>3. QED BY <4>1, <4>2
    <3>3. QED BY <2>3, <3>1, <3>2
  <2>6. QED BY <2>1, <2>5, RequestsOnly
<1>6. CASE Timer
  <2>1. PICK stale \in SUBSET Pieces : retry_pieces(stale)
    BY <1>6, Zenon DEF Timer
  <2>2. UNCHANGED <<client, active, queue, writer, disk>>
    BY <2>1, Zenon DEF retry_pieces
  <2>3. used'.fails = used.fails
    BY <2>1 DEF retry_pieces, TypeOK, UsedType
  <2>4. heap' = [o \in Objs |-> IF \E p \in stale : active[p] = o
                                THEN retry_blocks(heap[o])
                                ELSE heap[o]]
    BY <2>1, Zenon DEF retry_pieces
  <2>5. \A o \in Objs : /\ heap'[o].id = heap[o].id
                        /\ heap'[o].done = heap[o].done
                        /\ heap'[o].good = heap[o].good
                        /\ heap'[o].written = heap[o].written
    <3>1. \A o \in Objs : heap[o] \in PieceType
      BY <1>0
    <3>2. QED BY <2>4, <3>1 DEF retry_blocks, PieceType
  <2>6. QED BY <2>2, <2>3, <2>5, RequestsOnly
<1>7. ASSUME NEW r \in Peers, NEW q \in Requests, NEW ok \in BOOLEAN,
             recv_piece(r, q[1], q[2], ok)
      PROVE  Safe'
  BY <1>7, PieceStep
<1>8. CASE Writer
  BY <1>8, WriterStep
<1>9. QED
  BY <1>1, <1>2, <1>3, <1>4, <1>5, <1>6, <1>7, <1>8, Zenon
     DEF Next, Remote, Handler

LEMMA InitSafe == Init => Safe
<1> SUFFICES ASSUME Init PROVE Safe
  OBVIOUS
<1>1. /\ client = {} /\ \A p \in Pieces : ~IsActive(p)
      /\ \A o \in Objs : heap[o].good = {} /\ ~heap[o].written
      /\ writer.pc = "idle"
  BY DEF Init, IsActive, Fresh
<1>2. QED
  BY <1>1 DEF Safe, ActiveById, ClientIffComplete, DataIsActive, WriterHasData,
              WrittenIsOnDisk, StillDone, NoPieceForgotten

-----------------------------------------------------------------------------
(* Theorems *)

\* The invariant holds in every state: in every state the variables have their
\* types, and the pieces, the queue, the writer and the files fit together.
THEOREM Invariance == Spec => []IndInv
<1>1. Init => IndInv
  BY InitTypes, InitSafe DEF IndInv
<1>2. IndInv /\ [Next]_vars => IndInv'
  <2> SUFFICES ASSUME TypeOK, Safe, [Next]_vars
               PROVE  TypeOK' /\ Safe'
    BY DEF IndInv
  <2>1. TypeOK'
    BY StepTypes DEF Safe
  <2>2. Safe'
    BY StepSafe
  <2>3. QED BY <2>1, <2>2
<1>3. QED BY <1>1, <1>2, PTL DEF Spec

\* Every variable stays in its type.
THEOREM TypeCorrectness == Spec => []TypeOK
<1>1. IndInv => TypeOK
  BY DEF IndInv
<1>2. QED BY <1>1, Invariance, PTL

\* m_client_pieces is exact: a bit is set just while the active object of the
\* piece has all its blocks.
THEOREM ClientPiecesAreComplete == Spec => []ClientIffComplete
<1>1. IndInv => ClientIffComplete
  BY DEF IndInv, Safe
<1>2. QED BY <1>1, Invariance, PTL

\* Until the torrent completes, piece_written() is backed by the files.
THEOREM WrittenPiecesAreOnDisk == Spec => []WrittenIsOnDisk
<1>1. IndInv => WrittenIsOnDisk
  BY DEF IndInv, Safe
<1>2. QED BY <1>1, Invariance, PTL

\* Unless a write fails, the FileWriter has every complete piece to write.
THEOREM NoPieceIsForgotten == Spec => []NoPieceForgotten
<1>1. IndInv => NoPieceForgotten
  BY DEF IndInv, Safe
<1>2. QED BY <1>1, Invariance, PTL

\* The first torrentComplete() publishes all pieces, verified.
THEOREM FirstCompletion == Spec => FirstCompletionIsGood
<1>1. IndInv /\ [Next]_vars
        => [disk'.completed /\ ~disk.completed => Published' = Pieces]_vars
  <2> SUFFICES ASSUME IndInv, Next, disk'.completed, ~disk.completed
               PROVE  Published' = Pieces
    BY DEF vars
  <2> USE DEF IndInv
  <2>1. torrentComplete
    <3>1. disk \in [tmp : BOOLEAN, part : SUBSET Pieces, full : SUBSET Pieces,
                    completed : BOOLEAN]
      BY DEF TypeOK
    <3>2. \A d : d \in {disk, allocate} => ~d.completed
      BY <3>1 DEF allocate
    <3>3. CASE writePiece
      BY <3>1, <3>3 DEF writePiece, allocate
    <3>4. CASE write_failed
      BY <3>1, <3>4 DEF write_failed, allocate
    <3>5. disk' = disk \/ writePiece \/ write_failed \/ torrentComplete
      BY DEF Next, Remote, Timer, Handler, Writer, recv_handshake, set_remote_pieces,
             disconnected, set_choking, set_unchoking, have, recv_piece, next_piece, next_offset,
             retry_pieces, retry_next_peer, request, write_next_piece, check_sha,
             reset_piece, mark_written, check_done, last_piece_written
    <3>6. QED BY <3>3, <3>4, <3>5
  <2>2. client = Pieces /\ \A p \in Pieces : IsActive(p) /\ heap[active[p]].written
    BY <2>1 DEF Safe, StillDone, done, torrentComplete, ClientIffComplete
  <2>3. \A p \in Pieces : p \in disk.part
    BY <2>2 DEF Safe, WrittenIsOnDisk
  <2>4. disk.part = Pieces
    BY <2>3 DEF TypeOK
  <2>5. QED BY <2>1, <2>4 DEF torrentComplete, Published
<1>2. QED BY <1>1, Invariance, PTL DEF Spec, FirstCompletionIsGood

-----------------------------------------------------------------------------
(* The pending requests of a Peer *)

LEMMA OutstandingFinite ==
  ASSUME NEW flight \in [Requests -> Nat]
  PROVE  IsFiniteSet(Outstanding(flight)) /\ Cardinality(Outstanding(flight)) \in Nat
<1> DEFINE f == [q \in Requests |-> {q} \X (1 .. flight[q])]
           T == {{q} \X (1 .. flight[q]) : q \in Requests}
<1>1. f \in Surjection(Requests, T)
  BY DEF Surjection
<1>2. IsFiniteSet(T)
  BY <1>1, RequestsFinite, FS_Surjection DEF ExistsSurjection
<1>3. ASSUME NEW q \in Requests PROVE IsFiniteSet({q} \X (1 .. flight[q]))
  <2>1. IsFiniteSet({q})
    BY FS_Singleton
  <2>2. flight[q] \in Int /\ 1 \in Int
    OBVIOUS
  <2>3. IsFiniteSet(1 .. flight[q])
    BY <2>2, FS_Interval
  <2>4. QED BY <2>1, <2>3, FS_Product
<1>4. IsFiniteSet(UNION T)
  BY <1>2, <1>3, FS_UNION
<1>5. QED BY <1>4, FS_CardinalityType DEF Outstanding

\* One answer more on its way, or one less.
LEMMA OutstandingChange ==
  ASSUME NEW flight \in [Requests -> Nat], NEW q \in Requests
  PROVE  /\ Cardinality(Outstanding([flight EXCEPT ![q] = flight[q] + 1]))
              = Cardinality(Outstanding(flight)) + 1
         /\ flight[q] > 0 =>
              Cardinality(Outstanding([flight EXCEPT ![q] = flight[q] - 1]))
                = Cardinality(Outstanding(flight)) - 1
<1> DEFINE O == Outstanding(flight)
           more == [flight EXCEPT ![q] = flight[q] + 1]
           less == [flight EXCEPT ![q] = flight[q] - 1]
           n == flight[q]
<1>1. IsFiniteSet(O)
  BY OutstandingFinite
<1>2. \A f, x : x \in Outstanding(f) <=> \E r \in Requests : \E k \in 1 .. f[r] : x = <<r, k>>
  BY DEF Outstanding
<1>3. /\ n \in Nat
      /\ \A r \in Requests : more[r] = IF r = q THEN n + 1 ELSE flight[r]
      /\ \A r \in Requests : less[r] = IF r = q THEN n - 1 ELSE flight[r]
      /\ \A r \in Requests : flight[r] \in Nat
  OBVIOUS
<1>4. Cardinality(Outstanding(more)) = Cardinality(O) + 1
  <2> HIDE DEF more, less, n
  <2>1. <<q, n + 1>> \notin O
    BY <1>2, <1>3 DEF n
  <2>2. ASSUME NEW x \in Outstanding(more) PROVE x \in O \cup {<<q, n + 1>>}
    <3>1. PICK r \in Requests : \E k \in 1 .. more[r] : x = <<r, k>>
      BY <1>2
    <3>2. PICK k \in 1 .. more[r] : x = <<r, k>>
      BY <3>1
    <3>3. k \in 1 .. flight[r] \/ (r = q /\ k = n + 1)
      BY <1>3, <3>2 DEF n
    <3>4. QED BY <1>2, <3>2, <3>3
  <2>3. O \cup {<<q, n + 1>>} \subseteq Outstanding(more)
    BY <1>2, <1>3 DEF n
  <2>4. Outstanding(more) = O \cup {<<q, n + 1>>}
    BY <2>2, <2>3
  <2> HIDE DEF O
  <2>5. QED BY <1>1, <2>1, <2>4, FS_AddElement
<1>5. ASSUME flight[q] > 0 PROVE Cardinality(Outstanding(less)) = Cardinality(O) - 1
  <2>1. n > 0
    BY <1>5
  <2> HIDE DEF more, less, n
  <2>2. <<q, n>> \in O
    BY <1>2, <1>3, <2>1 DEF n
  <2>3. Outstanding(less) \subseteq O \ {<<q, n>>}
    BY <1>2, <1>3 DEF n
  <2>4. O \ {<<q, n>>} \subseteq Outstanding(less)
    BY <1>2, <1>3 DEF n
  <2>5. Outstanding(less) = O \ {<<q, n>>}
    BY <2>3, <2>4
  <2> HIDE DEF O
  <2>6. QED BY <1>1, <2>2, <2>5, FS_RemoveElement
<1>6. QED BY <1>4, <1>5

\* The slots of a Peer object are for answers that are on their way.
Counted(q) == q.pending <= Cardinality(Outstanding(q.flight))

LEMMA CountedStays ==
  ASSUME NEW q \in PeerType, NEW req \in Requests
  PROVE  /\ Counted(q) => Counted(requested(q, req))
         /\ Counted(q) /\ q.flight[req] > 0 => Counted(answered(q, req))
<1> DEFINE f == q.flight
           n == Cardinality(Outstanding(f))
<1>1. /\ f \in [Requests -> Nat] /\ q.pending \in Nat
      /\ n \in Nat
  BY OutstandingFinite DEF PeerType
<1>2. ASSUME Counted(q) PROVE Counted(requested(q, req))
  <2>1. /\ requested(q, req).pending = q.pending + 1
        /\ requested(q, req).flight = [f EXCEPT ![req] = f[req] + 1]
    BY DEF requested, PeerType
  <2>2. q.pending <= n
    BY <1>2 DEF Counted
  <2>3. Cardinality(Outstanding(requested(q, req).flight)) = n + 1
    BY <1>1, <2>1, OutstandingChange
  <2> HIDE DEF n, f
  <2> QED BY <1>1, <2>1, <2>2, <2>3 DEF Counted
<1>3. ASSUME Counted(q), q.flight[req] > 0 PROVE Counted(answered(q, req))
  <2>1. /\ answered(q, req).pending = IF q.pending > 0 THEN q.pending - 1 ELSE 0
        /\ answered(q, req).flight = [f EXCEPT ![req] = f[req] - 1]
    BY DEF answered, PeerType
  <2>2. q.pending <= n
    BY <1>3 DEF Counted
  <2>3. /\ Cardinality(Outstanding(answered(q, req).flight)) = n - 1
        /\ Cardinality(Outstanding(answered(q, req).flight)) \in Nat
    <3>1. f[req] > 0
      BY <1>3
    <3>2. [f EXCEPT ![req] = f[req] - 1] \in [Requests -> Nat]
      BY <1>1, <3>1
    <3> HIDE DEF f
    <3> QED BY <1>1, <2>1, <3>1, <3>2, OutstandingChange, OutstandingFinite DEF n
  <2> HIDE DEF n, f
  <2> QED BY <1>1, <2>1, <2>2, <2>3 DEF Counted
<1>4. QED BY <1>2, <1>3

LEMMA CountedInit ==
  ASSUME NEW q, q.pending = 0, q.flight \in [Requests -> Nat]
  PROVE  Counted(q)
BY OutstandingFinite DEF Counted

\* A step that changes one Peer object only.
LEMMA CountedUpdate ==
  ASSUME TypeOK, PendingIsOutstanding, NEW r \in Peers, NEW q, Counted(q),
         peer' = [peer EXCEPT ![r] = q]
  PROVE  PendingIsOutstanding'
<1>1. \A s \in Peers : peer'[s] = IF s = r THEN q ELSE peer[s]
  BY DEF TypeOK
<1>2. \A s \in Peers : peer'[s].pending <= Cardinality(Outstanding(peer'[s].flight))
  BY <1>1 DEF PendingIsOutstanding, Counted
<1>3. QED BY <1>2 DEF PendingIsOutstanding, Outstanding

LEMMA NextCounted ==
  ASSUME TypeOK, PendingIsOutstanding, [Next]_vars
  PROVE  PendingIsOutstanding'
<1>0. \A r \in Peers : peer[r] \in PeerType /\ Counted(peer[r]) /\ peer[r].pending \in Nat
                       /\ peer[r].flight \in [Requests -> Nat]
  BY DEF TypeOK, PendingIsOutstanding, Counted, PeerType
<1>1. ASSUME peer' = peer PROVE PendingIsOutstanding'
  BY <1>1 DEF PendingIsOutstanding, Outstanding
<1>2. ASSUME NEW r \in Peers, NEW bf \in Bitfields, recv_handshake(r, bf)
      PROVE  PendingIsOutstanding'
  <2> DEFINE q == [NoPeer EXCEPT !.on = TRUE, !.interested = ~done, !.remote = bf]
  <2>1. q.pending = 0 /\ q.flight \in [Requests -> Nat]
    BY NoFlightType DEF NoPeer
  <2>2. peer' = [peer EXCEPT ![r] = q]
    BY <1>2 DEF recv_handshake
  <2> HIDE DEF q
  <2> QED BY <2>1, <2>2, CountedInit, CountedUpdate
<1>3. ASSUME NEW r \in Peers, NEW bf \in Bitfields, set_remote_pieces(r, bf)
      PROVE  PendingIsOutstanding'
  <2> DEFINE q == [peer[r] EXCEPT !.remote = bf]
  <2>1. q.pending = peer[r].pending /\ q.flight = peer[r].flight
    BY <1>0 DEF PeerType
  <2>2. peer' = [peer EXCEPT ![r] = q]
    BY <1>3 DEF set_remote_pieces
  <2> HIDE DEF q
  <2>3. Counted(q)
    BY <1>0, <2>1 DEF Counted
  <2> QED BY <2>2, <2>3, CountedUpdate
<1>4. ASSUME NEW r \in Peers, disconnected(r) PROVE PendingIsOutstanding'
  <2>1. NoPeer.pending = 0 /\ NoPeer.flight \in [Requests -> Nat]
    BY NoFlightType DEF NoPeer
  <2>2. peer' = [peer EXCEPT ![r] = NoPeer]
    BY <1>4 DEF disconnected
  <2> QED BY <2>1, <2>2, CountedInit, CountedUpdate
<1>5. ASSUME NEW r \in Peers, set_choking(r) PROVE PendingIsOutstanding'
  <2>1. PICK flight \in {peer[r].flight, NoFlight} :
          peer' = [peer EXCEPT ![r] = choked(peer[r], flight)]
    BY <1>5 DEF set_choking
  <2>2. flight \in [Requests -> Nat]
    BY <1>0, NoFlightType
  <2>3. choked(peer[r], flight).pending = 0 /\ choked(peer[r], flight).flight = flight
    BY <1>0 DEF choked, PeerType
  <2>4. Counted(choked(peer[r], flight))
    BY <2>2, <2>3, CountedInit
  <2> QED BY <2>1, <2>4, CountedUpdate
<1>6. ASSUME NEW r \in Peers, set_unchoking(r) PROVE PendingIsOutstanding'
  <2> DEFINE q == [peer[r] EXCEPT !.choking = FALSE]
  <2>1. q.pending = peer[r].pending /\ q.flight = peer[r].flight
    BY <1>0 DEF PeerType
  <2>2. peer' = [peer EXCEPT ![r] = q]
    BY <1>6 DEF set_unchoking
  <2> HIDE DEF q
  <2>3. Counted(q)
    BY <1>0, <2>1 DEF Counted
  <2> QED BY <2>2, <2>3, CountedUpdate
<1>7. ASSUME NEW r \in Peers, NEW p \in Pieces, have(r, p) PROVE PendingIsOutstanding'
  <2> DEFINE q == [peer[r] EXCEPT !.remote = IF @ = {} THEN Pieces ELSE @ \cup {p}]
  <2>1. q.pending = peer[r].pending /\ q.flight = peer[r].flight
    BY <1>0 DEF PeerType
  <2>2. peer' = [peer EXCEPT ![r] = q]
    BY <1>7 DEF have
  <2> HIDE DEF q
  <2>3. Counted(q)
    BY <1>0, <2>1 DEF Counted
  <2> QED BY <2>2, <2>3, CountedUpdate
<1>8. ASSUME NEW r \in Peers, NEW q \in Requests, NEW ok \in BOOLEAN,
             recv_piece(r, q[1], q[2], ok)
      PROVE  PendingIsOutstanding'
  <2>1. q = <<q[1], q[2]>>
    BY DEF Requests
  <2>2. peer[r].flight[q] > 0 /\ peer' = [peer EXCEPT ![r] = answered(peer[r], q)]
    BY <1>8, <2>1 DEF recv_piece
  <2>3. Counted(answered(peer[r], q))
    BY <1>0, <2>2, CountedStays
  <2> QED BY <2>2, <2>3, CountedUpdate
<1>9. ASSUME next_offset PROVE PendingIsOutstanding'
  <2>1. CASE Unrequested(heap[net.obj]) = {}
    BY <1>1, <1>9, <2>1 DEF next_offset
  <2>2. CASE Unrequested(heap[net.obj]) # {}
    <3> DEFINE p == heap[net.obj].id
               b == Min(Unrequested(heap[net.obj]))
    <3>1. net.peer \in Peers /\ heap[net.obj] \in PieceType
      BY <1>9 DEF next_offset, TypeOK, NetType
    <3>2. p \in Pieces /\ b \in Blocks(p)
      BY <2>2, <3>1, UnrequestedBlock DEF PieceType
    <3>3. <<p, b>> \in Requests
      BY <3>2, RequestsType
    <3>4. peer' = [peer EXCEPT ![net.peer] = requested(peer[net.peer], <<p, b>>)]
      BY <1>9, <2>2 DEF next_offset
    <3> HIDE DEF p, b
    <3>5. Counted(requested(peer[net.peer], <<p, b>>))
      BY <1>0, <3>1, <3>3, CountedStays
    <3> QED BY <3>1, <3>4, <3>5, CountedUpdate
  <2> QED BY <2>1, <2>2
<1>10. ASSUME last_piece_written PROVE PendingIsOutstanding'
  <2>1. ASSUME NEW r \in Peers
        PROVE  peer'[r].pending = peer[r].pending /\ peer'[r].flight = peer[r].flight
    BY <1>0, <1>10 DEF last_piece_written, PeerType
  <2> QED BY <2>1 DEF PendingIsOutstanding, Outstanding
<1>11. CASE UNCHANGED vars
  BY <1>1, <1>11 DEF vars
<1>12. CASE Timer
  BY <1>1, <1>12 DEF Timer, retry_pieces
<1>13. CASE Handler
  BY <1>1, <1>9, <1>13 DEF Handler, next_piece, retry_next_peer
<1>14. CASE Writer
  BY <1>1, <1>10, <1>14 DEF Writer, write_next_piece, check_sha, reset_piece, writePiece,
       write_failed, mark_written, check_done, torrentComplete
<1>15. ASSUME NEW r \in Peers, NEW p \in Pieces, request(r, p) PROVE PendingIsOutstanding'
  BY <1>1, <1>15 DEF request
<1>16. QED
  BY <1>2, <1>3, <1>4, <1>5, <1>6, <1>7, <1>8, <1>11, <1>12, <1>13, <1>14, <1>15
  DEF Next, Remote

\* m_pending_requests of a Peer, which request_next_block compares with
\* MAX_PENDING_REQUESTS, counts no answer that is not on its way: no slot stays taken for
\* ever, whatever is retried, choked, answered late or twice.
THEOREM PendingAreOutstanding == Spec => []PendingIsOutstanding
<1>1. Init => PendingIsOutstanding
  <2> SUFFICES ASSUME Init PROVE PendingIsOutstanding
    OBVIOUS
  <2>1. ASSUME NEW r \in Peers PROVE Counted(peer[r])
    <3>1. peer[r] = NoPeer
      BY DEF Init
    <3>2. NoPeer.pending = 0 /\ NoPeer.flight \in [Requests -> Nat]
      BY NoFlightType DEF NoPeer
    <3> QED BY <3>1, <3>2, CountedInit
  <2> QED BY <2>1 DEF PendingIsOutstanding, Counted
<1>2. TypeOK /\ PendingIsOutstanding /\ [Next]_vars => PendingIsOutstanding'
  BY NextCounted
<1> QED BY <1>1, <1>2, TypeCorrectness, PTL DEF Spec

-----------------------------------------------------------------------------
(* What was published stays, whatever is received later, as long as no retry *)
(* was early                                                                 *)

\* The object has all blocks of its piece, and is in the map, but not on disk.
Received(o) == active[heap[o].id] = o /\ Complete(heap[o]) /\ ~heap[o].written

\* A block is under way from one remote, once, and only while the active object of
\* its piece waits for it.
OnTheWay ==
  \A r \in Peers, q \in Requests : peer[r].flight[q] > 0 =>
    /\ peer[r].flight[q] = 1
    /\ \A s \in Peers : peer[s].flight[q] > 0 => s = r
    /\ IsActive(q[1])
    /\ q[2] \in heap[active[q[1]]].requested
    /\ q[2] \notin heap[active[q[1]]].done

\* A block is asked for of an active object, which the writer cannot have reset.
Asking ==
  net.pc = "mark" =>
    active[heap[net.obj].id] = net.obj /\ Unrequested(heap[net.obj]) # {}

\* A piece comes to the writer once.
QueuedOnce ==
  /\ \A i \in DOMAIN queue : Received(queue[i]) /\ queue[i] # writer.obj
  /\ \A i, j \in DOMAIN queue : queue[i] = queue[j] => i = j
InHand == writer.pc \in {"hash", "reset", "write", "mark"} => Received(writer.obj)

\* Nothing is left to do for the writer of a torrent that is complete.
Kept ==
  disk.completed => done /\ Published = Pieces /\ writer.pc \in {"idle", "notify"}

Quiet == OnTheWay /\ Asking /\ QueuedOnce /\ InHand /\ Kept
Settled == used.late = 0 => Quiet

-----------------------------------------------------------------------------
(* What follows from it *)

\* The objects that the map, the queue and the writer have.
LEMMA Objects ==
  ASSUME TypeOK
  PROVE  /\ \A p \in Pieces : IsActive(p) <=> active[p] \in Objs
         /\ \A i \in DOMAIN queue : queue[i] \in Objs
         /\ writer.pc = "idle" <=> writer.obj = None
         /\ writer.pc # "idle" => writer.obj \in Objs
         /\ net.pc = "mark" => net.obj \in Objs
         /\ \A o \in Objs : /\ o # None /\ heap[o] \in PieceType /\ heap[o].id \in Pieces
                            /\ heap[o].done \subseteq Blocks(heap[o].id)
         /\ used.late \in Nat
BY NamesAssumption DEF TypeOK, IsActive, WriterType, NetType, PieceType, UsedType

\* A complete object has no block to ask for, and is asked for none.
LEMMA CompleteIsAsked ==
  ASSUME NEW piece, Complete(piece)
  PROVE  Unrequested(piece) = {}
BY DEF Complete, Unrequested

\* When the torrent is complete, the queue is empty and no piece is on its way.
LEMMA CompleteIsIdle ==
  ASSUME TypeOK, Safe, Quiet, disk.completed
  PROVE  /\ queue = <<>>
         /\ writer.pc \in {"idle", "notify"}
         /\ \A p \in Pieces : p \in client /\ IsActive(p)
         /\ \A r \in Peers, q \in Requests : ~(peer[r].flight[q] > 0)
<1>1. /\ writer.pc \in {"idle", "notify"} /\ client = Pieces
      /\ \A p \in Pieces : IsActive(p) => heap[active[p]].written
  BY DEF Quiet, Kept, done
<1>2. \A p \in Pieces : IsActive(p) /\ Complete(heap[active[p]])
  BY <1>1 DEF Safe, ClientIffComplete
<1>3. queue = <<>>
  <2> SUFFICES ASSUME queue # <<>> PROVE FALSE
    OBVIOUS
  <2>1. 1 \in DOMAIN queue
    BY LenProperties, EmptySeq DEF TypeOK
  <2>2. queue[1] \in Objs /\ Received(queue[1])
    BY <2>1, Objects DEF Quiet, QueuedOnce
  <2>3. heap[queue[1]].id \in Pieces /\ active[heap[queue[1]].id] = queue[1]
    BY <2>2, Objects DEF Received
  <2>4. QED BY <1>1, <1>2, <2>2, <2>3 DEF Received
<1>4. ASSUME NEW r \in Peers, NEW q \in Requests, peer[r].flight[q] > 0
      PROVE  FALSE
  <2>1. q[1] \in Pieces /\ q[2] \in Blocks(q[1])
    BY RequestsType
  <2>2. q[2] \notin heap[active[q[1]]].done
    BY <1>4 DEF Quiet, OnTheWay
  <2>3. heap[active[q[1]]].id = q[1]
    BY <1>2, <2>1 DEF Safe, ActiveById
  <2>4. QED BY <1>2, <2>1, <2>2, <2>3 DEF Complete
<1>5. QED BY <1>1, <1>2, <1>3, <1>4

-----------------------------------------------------------------------------
(* The torrent thread *)

\* What a handler that finishes no piece, and forgets none, leaves to the writer.
LEMMA SameToWriter ==
  ASSUME TypeOK, Quiet, UNCHANGED <<client, queue, writer, disk>>,
         \A p \in Pieces : IsActive(p) => active'[p] = active[p],
         disk.completed => active' = active,
         \A o \in Objs : (\E p \in Pieces : active[p] = o) =>
                           /\ heap'[o].id = heap[o].id
                           /\ heap'[o].done = heap[o].done
                           /\ heap'[o].written = heap[o].written
  PROVE  QueuedOnce' /\ InHand' /\ Kept'
<1>1. ASSUME NEW o \in Objs, Received(o) PROVE Received(o)'
  <2>1. heap[o].id \in Pieces /\ IsActive(heap[o].id)
    BY <1>1, Objects DEF Received, IsActive
  <2>2. QED BY <1>1, <2>1 DEF Received, Complete
<1>2. QueuedOnce'
  BY <1>1, Objects DEF Quiet, QueuedOnce
<1>3. InHand'
  BY <1>1, Objects DEF Quiet, InHand
<1>4. Kept'
  BY Objects DEF Quiet, Kept, done, Published, IsActive
<1>5. QED BY <1>2, <1>3, <1>4

\* No answer is new on its way, and those that are, are waited for.
LEMMA FewerOnTheWay ==
  ASSUME OnTheWay,
         \A r \in Peers, q \in Requests :
           peer'[r].flight[q] > 0 => peer'[r].flight[q] = peer[r].flight[q],
         \A r \in Peers, q \in Requests :
           peer[r].flight[q] > 0 =>
             /\ active'[q[1]] = active[q[1]]
             /\ heap'[active[q[1]]].requested = heap[active[q[1]]].requested
             /\ heap'[active[q[1]]].done = heap[active[q[1]]].done
  PROVE  OnTheWay'
BY DEF OnTheWay, IsActive

\* The places that a handler goes on to.
LEMMA GoesOn ==
  /\ Idle.pc # "mark"
  /\ \A n, r, retry : Advance(n, r, retry).pc # "mark"
  /\ \A n \in NetType : \A r, q, max : request_next_block(n, r, q, max).pc # "mark"
<1>1. Idle.pc = "idle" /\ \A n, r, retry : Advance(n, r, retry).pc # "mark"
  BY DEF Idle, Advance
<1>2. ASSUME NEW n \in NetType, NEW r, NEW q, NEW max
      PROVE  request_next_block(n, r, q, max).pc # "mark"
  <2>1. \A left : [n EXCEPT !.pc = "select", !.peer = r, !.left = left].pc = "select"
    BY DEF NetType
  <2>2. QED BY <1>1, <2>1 DEF request_next_block
<1>3. QED BY <1>1, <1>2

\* Messages that change what is known of a remote, and turns of retry_pieces.
LEMMA RemoteQuiet ==
  ASSUME TypeOK, Quiet, NEW r \in Peers,
         \/ \E bf \in Bitfields : recv_handshake(r, bf) \/ set_remote_pieces(r, bf)
         \/ disconnected(r)
         \/ set_choking(r)
         \/ set_unchoking(r)
         \/ \E p \in Pieces : have(r, p)
         \/ retry_next_peer(r)
  PROVE  Quiet'
<1>1. UNCHANGED <<client, active, heap, queue, writer, disk>>
  BY DEF recv_handshake, set_remote_pieces, disconnected, set_choking,
         set_unchoking, have, retry_next_peer
<1>2. net \in NetType /\ Idle \in NetType
  BY IdleType DEF TypeOK
<1>3. net'.pc # "mark" \/ net' = net
  <2>1. CASE \/ \E bf \in Bitfields : recv_handshake(r, bf) \/ set_remote_pieces(r, bf)
             \/ disconnected(r) \/ set_choking(r)
    BY <2>1 DEF recv_handshake, set_remote_pieces, disconnected, set_choking
  <2>2. CASE set_unchoking(r)
    <3>1. net' = request_next_block(Idle, r, peer'[r], MaxPending)
      BY <2>2 DEF set_unchoking
    <3>2. QED BY <1>2, <3>1, GoesOn, Zenon
  <2>3. ASSUME NEW p \in Pieces, have(r, p) PROVE net'.pc # "mark"
    <3>1. net' = request_next_block(Idle, r, peer'[r], MaxPending)
      BY <2>3 DEF have
    <3>2. QED BY <1>2, <3>1, GoesOn, Zenon
  <2>4. CASE retry_next_peer(r)
    <3>1. \E max : net' = request_next_block(net, r, peer[r], max)
      BY <2>4, Zenon DEF retry_next_peer
    <3>2. QED BY <1>2, <3>1, GoesOn, Zenon
  <2>5. QED BY <2>1, <2>2, <2>3, <2>4
<1>4. peer \in [Peers -> PeerType] /\ \A q \in Requests : NoFlight[q] = 0 /\ NoPeer.flight[q] = 0
  BY DEF TypeOK, NoFlight, NoPeer
<1>5. \A s \in Peers, q \in Requests : peer'[s].flight[q] \in {0, peer[s].flight[q]}
  <2>1. CASE \E bf \in Bitfields : recv_handshake(r, bf)
    <3>1. PICK bf \in Bitfields : recv_handshake(r, bf)
      BY <2>1
    <3>2. PICK q \in {[NoPeer EXCEPT !.on = TRUE, !.interested = ~done, !.remote = bf]} :
            peer' = [peer EXCEPT ![r] = q]
      BY <3>1 DEF recv_handshake
    <3>3. q.flight = NoPeer.flight
      BY <3>2 DEF NoPeer
    <3>4. QED BY <1>4, <3>2, <3>3
  <2>2. CASE \E bf \in Bitfields : set_remote_pieces(r, bf)
    BY <1>4, <2>2 DEF set_remote_pieces, PeerType
  <2>3. CASE disconnected(r)
    BY <1>4, <2>3 DEF disconnected
  <2>4. CASE set_choking(r)
    BY <1>4, <2>4 DEF set_choking, choked, PeerType
  <2>5. CASE set_unchoking(r)
    BY <1>4, <2>5 DEF set_unchoking, PeerType
  <2>6. CASE \E p \in Pieces : have(r, p)
    BY <1>4, <2>6 DEF have, PeerType
  <2>7. CASE retry_next_peer(r)
    BY <1>4, <2>7 DEF retry_next_peer
  <2>8. QED BY <2>1, <2>2, <2>3, <2>4, <2>5, <2>6, <2>7
<1>6. OnTheWay'
  <2>1. \A s \in Peers, q \in Requests :
          peer'[s].flight[q] > 0 => peer'[s].flight[q] = peer[s].flight[q]
    BY <1>5
  <2>2. QED BY <1>1, <2>1, FewerOnTheWay DEF Quiet
<1>7. Asking'
  BY <1>1, <1>3 DEF Quiet, Asking
<1>8. QueuedOnce' /\ InHand' /\ Kept'
  BY <1>1, SameToWriter
<1>9. QED BY <1>6, <1>7, <1>8 DEF Quiet

\* Torrent::active_piece makes a new object, on which nothing is under way.
LEMMA NewQuiet ==
  ASSUME TypeOK, Safe, Quiet, UNCHANGED <<client, queue, writer, disk, peer>>,
         NEW p \in Pieces, ~IsActive(p), NEW o \in Objs \ Held,
         active' = [active EXCEPT ![p] = o],
         heap' = [heap EXCEPT ![o] = Fresh(p)]
  PROVE  OnTheWay' /\ QueuedOnce' /\ InHand' /\ Kept'
<1>1. /\ \A x \in Objs \ {o} : heap'[x] = heap[x]
      /\ \A x \in Pieces \ {p} : active'[x] = active[x]
      /\ \A x \in Pieces : active[x] # o
  BY DEF TypeOK, Held, Range
<1>2. ~disk.completed
  BY CompleteIsIdle
<1>3. OnTheWay'
  <2>1. ASSUME NEW r \in Peers, NEW q \in Requests, peer[r].flight[q] > 0
        PROVE  active'[q[1]] = active[q[1]] /\ heap'[active[q[1]]] = heap[active[q[1]]]
    <3>1. q[1] \in Pieces /\ IsActive(q[1]) /\ active[q[1]] \in Objs
      BY <2>1, RequestsType, Objects DEF Quiet, OnTheWay
    <3>2. QED BY <1>1, <3>1
  <2>2. QED BY <2>1, FewerOnTheWay DEF Quiet
<1>4. QED BY <1>1, <1>2, <1>3, SameToWriter

LEMMA RequestQuiet ==
  ASSUME TypeOK, Safe, Quiet, NEW r \in Peers, NEW p \in Pieces, request(r, p)
  PROVE  Quiet'
<1>1. UNCHANGED <<client, queue, writer, disk, peer>> /\ net'.pc # "mark"
  BY GoesOn DEF request, Idle
<1>2. Asking'
  BY <1>1 DEF Asking
<1>3. CASE IsActive(p)
  <2>1. UNCHANGED <<active, heap>>
    BY <1>3 DEF request
  <2>2. OnTheWay'
    BY <1>1, <2>1 DEF Quiet, OnTheWay, IsActive
  <2>3. QueuedOnce' /\ InHand' /\ Kept'
    BY <1>1, <2>1, SameToWriter
  <2>4. QED BY <1>2, <2>2, <2>3 DEF Quiet
<1>4. CASE ~IsActive(p)
  <2>1. PICK o \in Objs \ Held : /\ active' = [active EXCEPT ![p] = o]
                                 /\ heap' = [heap EXCEPT ![o] = Fresh(p)]
    BY <1>4 DEF request
  <2>2. QED BY <1>1, <1>2, <1>4, <2>1, NewQuiet DEF Quiet
<1>5. QED BY <1>3, <1>4

LEMMA NextPieceQuiet ==
  ASSUME TypeOK, Safe, Quiet, next_piece
  PROVE  Quiet'
<1> DEFINE p == Min(Candidates(net.peer))
<1>1. net \in NetType /\ net.peer \in Peers
      /\ UNCHANGED <<client, queue, writer, disk, peer>>
  BY DEF next_piece, TypeOK, NetType
<1>2. CASE Candidates(net.peer) = {}
  <2>1. UNCHANGED <<active, heap>> /\ net'.pc # "mark"
    BY <1>2, GoesOn DEF next_piece
  <2>2. OnTheWay' /\ Asking'
    BY <1>1, <2>1 DEF Quiet, OnTheWay, Asking, IsActive
  <2>3. QED BY <1>1, <2>1, <2>2, SameToWriter DEF Quiet
<1>3. CASE Candidates(net.peer) # {}
  <2>1. p \in Pieces /\ p \in Candidates(net.peer)
    BY <1>1, <1>3, CandidateType
  <2>2. CASE IsActive(p)
    <3>1. UNCHANGED <<active, heap>>
          /\ net' = [net EXCEPT !.pc = "mark", !.obj = active[p]]
      BY <1>3, <2>2 DEF next_piece
    <3>2. Unrequested(heap[active[p]]) # {} /\ heap[active[p]].id = p
      BY <2>1, <2>2 DEF Candidates, Safe, ActiveById
    <3> HIDE DEF p
    <3>3. net'.obj = active[p]
      BY <1>1, <3>1 DEF NetType
    <3>4. Asking'
      BY <3>1, <3>2, <3>3 DEF Asking, Unrequested
    <3>5. OnTheWay'
      BY <1>1, <3>1 DEF Quiet, OnTheWay, IsActive
    <3>6. QED BY <1>1, <3>1, <3>4, <3>5, SameToWriter DEF Quiet
  <2>3. CASE ~IsActive(p)
    <3>1. PICK o \in Objs \ Held : /\ active' = [active EXCEPT ![p] = o]
                                   /\ heap' = [heap EXCEPT ![o] = Fresh(p)]
                                   /\ net' = [net EXCEPT !.pc = "mark", !.obj = o]
      BY <1>3, <2>3 DEF next_piece
    <3> HIDE DEF p
    <3>2. net'.obj = o /\ active'[p] = o /\ heap'[o] = Fresh(p)
      BY <1>1, <2>1, <3>1 DEF NetType, TypeOK
    <3>3. Fresh(p).id = p /\ Fresh(p).requested = {} /\ Fresh(p).done = {} /\ 0 \in Blocks(p)
      BY <2>1, SizesAssumption DEF Fresh, Blocks
    <3>4. Asking'
      BY <3>2, <3>3 DEF Asking, Unrequested
    <3>5. OnTheWay' /\ QueuedOnce' /\ InHand' /\ Kept'
      BY <1>1, <2>1, <2>3, <3>1, NewQuiet
    <3>6. QED BY <3>4, <3>5 DEF Quiet
  <2>4. QED BY <2>2, <2>3
<1>4. QED BY <1>2, <1>3

\* The block that is asked for was not under way from anyone.
LEMMA NextOffsetQuiet ==
  ASSUME TypeOK, Safe, Quiet, next_offset
  PROVE  Quiet'
<1> DEFINE o == net.obj
           piece == heap[o]
           b == Min(Unrequested(piece))
           r == net.peer
           q == <<piece.id, b>>
           marked == [piece EXCEPT !.requested = piece.requested \cup {b}]
           asked == requested(peer[r], q)
<1>1. /\ net \in NetType /\ o \in Objs /\ r \in Peers /\ piece \in PieceType
      /\ piece.id \in Pieces /\ active[piece.id] = o /\ Unrequested(piece) # {}
      /\ peer[r] \in PeerType
  BY Objects DEF next_offset, TypeOK, NetType, Quiet, Asking
<1>2. b \in Unrequested(piece) /\ b \in Blocks(piece.id) /\ q \in Requests
  BY <1>1, UnrequestedBlock, RequestsType
<1>3. /\ UNCHANGED <<client, active, queue, writer, disk>>
      /\ heap' = [heap EXCEPT ![o] = marked]
      /\ peer' = [peer EXCEPT ![r] = asked]
      /\ net'.pc # "mark"
  <2>1. /\ UNCHANGED <<client, active, queue, writer, disk>>
        /\ heap' = [heap EXCEPT ![o] = marked]
        /\ peer' = [peer EXCEPT ![r] = asked]
    BY <1>1 DEF next_offset
  <2>2. \E left, retry : net' = IF left = 0
                       THEN Advance(net, r, retry)
                       ELSE [net EXCEPT !.left = left, !.retry = retry,
                                        !.pc = "select", !.obj = None]
    BY <1>1 DEF next_offset
  <2>3. net'.pc # "mark"
    BY <1>1, <2>2, GoesOn DEF NetType
  <2>4. QED BY <2>1, <2>3
<1>4. /\ marked.id = piece.id /\ marked.done = piece.done /\ marked.written = piece.written
      /\ marked.requested = piece.requested \cup {b}
      /\ \A x \in Objs : heap'[x] = IF x = o THEN marked ELSE heap[x]
  BY <1>1, <1>3 DEF PieceType, TypeOK
<1>5. /\ \A x \in Requests : asked.flight[x] = IF x = q THEN peer[r].flight[q] + 1
                                                      ELSE peer[r].flight[x]
      /\ \A s \in Peers : peer'[s] = IF s = r THEN asked ELSE peer[s]
  <2>1. asked.flight = [peer[r].flight EXCEPT ![q] = peer[r].flight[q] + 1]
    BY <1>1 DEF requested, PeerType
  <2>2. QED BY <1>1, <1>2, <1>3, <2>1 DEF PeerType, TypeOK
<1>6. q[1] = piece.id /\ q[2] = b /\ b \notin piece.requested /\ b \notin piece.done
  BY <1>2 DEF Unrequested
<1>7. \A s \in Peers : peer[s].flight[q] = 0
  <2>1. \A s \in Peers : peer[s].flight[q] \in Nat
    BY <1>2 DEF TypeOK, PeerType
  <2>2. QED BY <1>1, <1>2, <1>6, <2>1 DEF Quiet, OnTheWay
<1> HIDE DEF o, piece, b, r, q, marked, asked
<1>8. OnTheWay'
  <2> SUFFICES ASSUME NEW s \in Peers, NEW x \in Requests, peer'[s].flight[x] > 0
               PROVE  /\ peer'[s].flight[x] = 1
                      /\ \A t \in Peers : peer'[t].flight[x] > 0 => t = s
                      /\ IsActive(x[1])
                      /\ x[2] \in heap'[active[x[1]]].requested
                      /\ x[2] \notin heap'[active[x[1]]].done
    BY <1>3 DEF OnTheWay, IsActive
  <2>1. CASE x = q
    <3>1. s = r /\ \A t \in Peers : peer'[t].flight[x] > 0 => t = r
      BY <1>1, <1>5, <1>7, <2>1
    <3>2. peer'[s].flight[x] = 1
      BY <1>1, <1>5, <1>7, <2>1, <3>1
    <3>3. IsActive(x[1]) /\ active[x[1]] = o
      BY <1>1, <1>6, <2>1, Objects
    <3>4. QED BY <1>1, <1>4, <1>6, <2>1, <3>1, <3>2, <3>3
  <2>2. CASE x # q
    <3>1. \A t \in Peers : peer'[t].flight[x] = peer[t].flight[x]
      BY <1>5, <2>2
    <3>2. IsActive(x[1]) /\ active[x[1]] \in Objs
      BY <3>1, RequestsType, Objects DEF Quiet, OnTheWay
    <3>3. QED BY <1>4, <3>1, <3>2 DEF Quiet, OnTheWay, piece
  <2>3. QED BY <2>1, <2>2
<1>9. Asking'
  BY <1>3 DEF Asking
<1>10. QueuedOnce' /\ InHand' /\ Kept'
  <2>1. \A x \in Objs : heap'[x].id = heap[x].id /\ heap'[x].done = heap[x].done
                        /\ heap'[x].written = heap[x].written
    BY <1>4 DEF piece
  <2>2. QED BY <1>3, <2>1, SameToWriter
<1>11. QED BY <1>8, <1>9, <1>10 DEF Quiet

\* A retry that is not early clears no block that is under way.
LEMMA RetryQuiet ==
  ASSUME TypeOK, Safe, Quiet, NEW stale \in SUBSET Pieces, retry_pieces(stale),
         used.late = 0, used'.late = 0
  PROVE  Quiet'
<1> DEFINE cleared == {q \in Requests : /\ q[1] \in stale
                                        /\ q[2] \in heap[active[q[1]]].requested
                                        /\ q[2] \notin heap[active[q[1]]].done}
<1>1. /\ UNCHANGED <<client, active, queue, writer, disk, peer>>
      /\ heap' = [x \in Objs |-> IF \E p \in stale : active[p] = x
                                 THEN retry_blocks(heap[x])
                                 ELSE heap[x]]
      /\ \A p \in stale : IsActive(p)
  BY Zenon DEF retry_pieces
<1>2. net'.pc # "mark"
  BY DEF retry_pieces, Idle
<1>3. ~\E q \in cleared : InFlight(q)
  <2>1. used' = [used EXCEPT !.late = IF \E q \in cleared : InFlight(q) THEN used.late + 1
                                                                         ELSE used.late]
    BY DEF retry_pieces
  <2> HIDE DEF cleared
  <2>2. QED BY <2>1 DEF TypeOK, UsedType
<1>4. ASSUME NEW r \in Peers, NEW q \in Requests, peer[r].flight[q] > 0
      PROVE  heap'[active[q[1]]] = heap[active[q[1]]]
  <2>1. q[1] \in Pieces /\ IsActive(q[1]) /\ active[q[1]] \in Objs
        /\ q[2] \in heap[active[q[1]]].requested /\ q[2] \notin heap[active[q[1]]].done
    BY <1>4, RequestsType, Objects DEF Quiet, OnTheWay
  <2>2. InFlight(q)
    BY <1>4 DEF InFlight
  <2>3. q[1] \notin stale
    BY <1>3, <2>1, <2>2
  <2>4. \A p \in stale : active[p] # active[q[1]]
    BY <1>1, <2>1, <2>3, ActiveIsInjective DEF Safe
  <2>5. QED BY <1>1, <2>1, <2>4
<1>5. OnTheWay'
  BY <1>1, <1>4, FewerOnTheWay DEF Quiet
<1>6. Asking'
  BY <1>2 DEF Asking
<1>7. QueuedOnce' /\ InHand' /\ Kept'
  <2>1. \A x \in Objs : heap'[x].id = heap[x].id /\ heap'[x].done = heap[x].done
                        /\ heap'[x].written = heap[x].written
    BY <1>1, Objects DEF retry_blocks, PieceType
  <2>2. QED BY <1>1, <2>1, SameToWriter
<1>8. QED BY <1>5, <1>6, <1>7 DEF Quiet

\* Piece::set_block: the block was waited for, so the piece was not complete, and is
\* given to the writer for the first time if it is now.
LEMMA PieceQuiet ==
  ASSUME TypeOK, Safe, Quiet, NEW r \in Peers, NEW q \in Requests, NEW ok \in BOOLEAN,
         recv_piece(r, q[1], q[2], ok)
  PROVE  Quiet'
<1> DEFINE p == q[1]
           b == q[2]
           o == active[p]
           piece == set_block(heap[o], b, ok)
           finished == set_block_result(heap[o], b)
<1>1. /\ p \in Pieces /\ b \in Blocks(p) /\ q = <<p, b>> /\ q \in Requests
      /\ peer[r].flight[q] > 0 /\ peer[r].flight[q] \in Nat
  BY RequestsType DEF recv_piece, TypeOK, PeerType
<1>2. /\ peer[r].flight[q] = 1 /\ \A s \in Peers : peer[s].flight[q] > 0 => s = r
      /\ IsActive(p) /\ o \in Objs /\ b \notin heap[o].done
      /\ heap[o].id = p /\ heap[o] \in PieceType
  BY <1>1, Objects DEF Quiet, OnTheWay, Safe, ActiveById
<1>3. /\ UNCHANGED <<active, writer, disk>>
      /\ heap' = [heap EXCEPT ![o] = piece]
      /\ client' = IF finished THEN client \cup {p} ELSE client
      /\ queue' = IF finished THEN Append(queue, o) ELSE queue
      /\ peer' = [peer EXCEPT ![r] = answered(peer[r], q)]
      /\ net' = request_next_block(Idle, r, peer'[r], MaxPending)
  BY <1>1, <1>2 DEF recv_piece, add
<1>4. /\ piece.id = p /\ piece.done = heap[o].done \cup {b}
      /\ piece.written = heap[o].written /\ piece.requested = heap[o].requested
      /\ finished = Complete(piece)
      /\ \A x \in Objs : heap'[x] = IF x = o THEN piece ELSE heap[x]
  <2>1. /\ piece.id = p /\ piece.done = heap[o].done \cup {b}
        /\ piece.written = heap[o].written /\ finished = Complete(piece)
    BY <1>1, <1>2, SetBlock
  <2>2. piece.requested = heap[o].requested
    BY <1>2 DEF set_block, PieceType
  <2> HIDE DEF piece, finished
  <2>3. \A x \in Objs : heap'[x] = IF x = o THEN piece ELSE heap[x]
    BY <1>2, <1>3 DEF TypeOK
  <2>4. QED BY <2>1, <2>2, <2>3
<1>5. ~Complete(heap[o]) /\ ~heap[o].written
  BY <1>1, <1>2 DEF Complete, Safe, DataIsActive
<1>6. ~disk.completed
  BY <1>1, CompleteIsIdle
<1>7. \A s \in Peers, x \in Requests :
        peer'[s].flight[x] = IF s = r /\ x = q THEN 0 ELSE peer[s].flight[x]
  <2>1. peer[r] \in PeerType /\ peer[r].flight \in [Requests -> Nat]
    BY DEF TypeOK, PeerType
  <2>2. answered(peer[r], q).flight = [peer[r].flight EXCEPT ![q] = peer[r].flight[q] - 1]
    BY <2>1 DEF answered, PeerType
  <2>3. \A x \in Requests :
          answered(peer[r], q).flight[x] = IF x = q THEN 0 ELSE peer[r].flight[x]
    BY <1>1, <1>2, <2>1, <2>2
  <2>4. \A s \in Peers : peer'[s] = IF s = r THEN answered(peer[r], q) ELSE peer[s]
    BY <1>3 DEF TypeOK
  <2>5. QED BY <2>3, <2>4
<1> HIDE DEF p, b, o, piece, finished
<1>8. OnTheWay'
  <2> SUFFICES ASSUME NEW s \in Peers, NEW x \in Requests, peer'[s].flight[x] > 0
               PROVE  /\ peer'[s].flight[x] = 1
                      /\ \A t \in Peers : peer'[t].flight[x] > 0 => t = s
                      /\ IsActive(x[1])
                      /\ x[2] \in heap'[active[x[1]]].requested
                      /\ x[2] \notin heap'[active[x[1]]].done
    BY <1>3 DEF OnTheWay, IsActive
  <2>1. x # q /\ peer[s].flight[x] > 0 /\ peer'[s].flight[x] = peer[s].flight[x]
    BY <1>2, <1>7
  <2>2. /\ peer[s].flight[x] = 1 /\ \A t \in Peers : peer[t].flight[x] > 0 => t = s
        /\ IsActive(x[1]) /\ active[x[1]] \in Objs /\ x[1] \in Pieces
        /\ x[2] \in heap[active[x[1]]].requested /\ x[2] \notin heap[active[x[1]]].done
    BY <2>1, RequestsType, Objects DEF Quiet, OnTheWay
  <2>3. \A t \in Peers : peer'[t].flight[x] > 0 => t = s
    BY <1>7, <2>1, <2>2
  <2>4. CASE active[x[1]] = o
    <3>1. x[1] = p
      BY <1>1, <1>2, <2>2, <2>4, ActiveIsInjective DEF Safe, o
    <3>2. x[2] # b
      BY <1>1, <2>1, <3>1, RequestsType
    <3>3. QED BY <1>4, <2>1, <2>2, <2>3, <2>4, <3>2
  <2>5. CASE active[x[1]] # o
    BY <1>4, <2>1, <2>2, <2>3, <2>5
  <2>6. QED BY <2>4, <2>5
<1>9. Asking'
  BY <1>3, IdleType, GoesOn, Zenon DEF Asking
<1>10. ASSUME NEW x \in Objs, Received(x) PROVE x # o /\ Received(x)'
  <2>1. x # o
    BY <1>5, <1>10 DEF Received
  <2>2. QED BY <1>3, <1>4, <1>10, <2>1 DEF Received, Complete
<1>11. ASSUME finished
       PROVE  o # writer.obj /\ \A x : x = o => Received(x)'
  <2>1. \A x : x = o => Received(x)'
    BY <1>2, <1>3, <1>4, <1>5, <1>11 DEF Received, Complete, o
  <2>2. writer.pc \in {"hash", "reset", "write", "mark"} => o # writer.obj
    BY <1>10, Objects DEF Quiet, InHand
  <2>3. writer.pc \in {"check", "complete", "notify"} => o # writer.obj
    BY <1>5 DEF Safe, WriterHasData
  <2>4. writer.pc = "idle" => o # writer.obj
    BY <1>2, Objects
  <2>5. QED BY <2>1, <2>2, <2>3, <2>4 DEF TypeOK, WriterType
<1>12. QueuedOnce'
  <2>1. ASSUME NEW i \in DOMAIN queue
        PROVE  /\ queue[i] # o /\ queue[i] # writer.obj
               /\ \A x : x = queue[i] => Received(x)'
    <3>1. queue[i] \in Objs /\ Received(queue[i]) /\ queue[i] # writer.obj
      BY Objects DEF Quiet, QueuedOnce
    <3>2. QED BY <1>10, <3>1
  <2>2. CASE ~finished
    <3>1. queue' = queue
      BY <1>3, <2>2
    <3>2. QED BY <1>3, <2>1, <3>1 DEF Quiet, QueuedOnce
  <2>3. CASE finished
    <3>1. /\ DOMAIN queue = 1 .. Len(queue) /\ DOMAIN queue' = 1 .. Len(queue) + 1
          /\ Len(queue) \in Nat /\ queue'[Len(queue) + 1] = o
          /\ \A i \in DOMAIN queue : queue'[i] = queue[i]
      BY <1>2, <1>3, <2>3, AppendProperties, LenProperties DEF TypeOK
    <3>2. \A i \in DOMAIN queue' : i \in DOMAIN queue \/ i = Len(queue) + 1
      BY <3>1
    <3>3. \A i \in DOMAIN queue' : queue'[i] # writer.obj
                                   /\ \A x : x = queue'[i] => Received(x)'
      BY <1>11, <2>1, <2>3, <3>1, <3>2
    <3>4. \A i, j \in DOMAIN queue' : queue'[i] = queue'[j] => i = j
      BY <2>1, <3>1, <3>2 DEF Quiet, QueuedOnce
    <3>5. QED BY <1>3, <3>3, <3>4 DEF QueuedOnce
  <2>4. QED BY <2>2, <2>3
<1>13. InHand'
  BY <1>3, <1>10, Objects DEF Quiet, InHand
<1>14. QED BY <1>3, <1>6, <1>8, <1>9, <1>12, <1>13 DEF Quiet, Kept

-----------------------------------------------------------------------------
(* The writer thread *)

\* A step that changes no piece and no connection.
LEMMA SameToTorrent ==
  ASSUME Quiet, UNCHANGED <<active, heap, net>>,
         \A r \in Peers : peer'[r].flight = peer[r].flight
  PROVE  OnTheWay' /\ Asking'
<1>1. OnTheWay'
  BY FewerOnTheWay DEF Quiet
<1>2. Asking'
  BY DEF Quiet, Asking, Unrequested
<1>3. QED BY <1>1, <1>2

\* The writer goes on with what it has, or leaves it.
LEMMA GoesOnWith ==
  ASSUME TypeOK, Quiet, UNCHANGED <<active, heap, queue>>,
         writer'.obj \in {writer.obj, None},
         writer'.pc \in {"hash", "reset", "write", "mark"} =>
           writer'.obj = writer.obj /\ writer.pc \in {"hash", "reset", "write", "mark"}
  PROVE  QueuedOnce' /\ InHand'
<1>1. QueuedOnce'
  BY Objects DEF Quiet, QueuedOnce, Received
<1>2. InHand'
  BY DEF Quiet, InHand, Received
<1>3. QED BY <1>1, <1>2

LEMMA WriterQuiet ==
  ASSUME TypeOK, Safe, Quiet, Writer
  PROVE  Quiet'
<1> DEFINE o == writer.obj
           id == heap[o].id
<1>1. writer.pc # "idle" => o \in Objs /\ heap[o] \in PieceType /\ id \in Pieces
  BY Objects
<1>2. writer.pc \notin {"idle", "notify"} => ~disk.completed
  BY CompleteIsIdle
<1>3. \A pc \in {"hash", "reset", "write", "mark", "check", "complete", "notify"} :
        [writer EXCEPT !.pc = pc].pc = pc /\ [writer EXCEPT !.pc = pc].obj = o
  BY DEF TypeOK, WriterType
<1>4. ASSUME NEW x \in Objs, writer.pc \in {"reset", "mark"}, x # o
      PROVE  active[heap[x].id] = x => heap[x].id # id
  BY <1>4 DEF Quiet, InHand, Received
<1>5. CASE write_next_piece
  <2>1. /\ UNCHANGED <<client, active, heap, disk, peer, net>> /\ writer.pc = "idle"
        /\ queue # <<>> /\ queue \in Seq(Objs)
        /\ writer' = [pc |-> "hash", obj |-> Head(queue)] /\ queue' = Tail(queue)
    BY <1>5 DEF write_next_piece, TypeOK
  <2>2. /\ DOMAIN queue = 1 .. Len(queue) /\ DOMAIN queue' = 1 .. Len(queue) - 1
        /\ Len(queue) \in Nat \ {0} /\ Head(queue) = queue[1]
        /\ \A i \in DOMAIN queue' : queue'[i] = queue[i + 1]
    BY <2>1, HeadTailProperties
  <2>3. \A i \in DOMAIN queue' : i + 1 \in DOMAIN queue /\ i + 1 # 1
    BY <2>2
  <2>4. 1 \in DOMAIN queue
    BY <2>2
  <2>5. QueuedOnce'
    <3>1. \A i \in DOMAIN queue' : queue'[i] # writer'.obj
                                   /\ \A x : x = queue'[i] => Received(x)'
      BY <2>1, <2>2, <2>3, <2>4 DEF Quiet, QueuedOnce, Received
    <3>2. \A i, j \in DOMAIN queue' : queue'[i] = queue'[j] => i = j
      <4> TAKE i, j \in DOMAIN queue'
      <4>1. i + 1 = j + 1 => i = j
        BY <2>2
      <4>2. QED BY <2>2, <2>3, <4>1 DEF Quiet, QueuedOnce
    <3>3. QED BY <3>1, <3>2 DEF QueuedOnce
  <2>6. InHand'
    BY <2>1, <2>2, <2>4 DEF Quiet, QueuedOnce, InHand, Received
  <2>7. ~disk.completed
    BY <2>1, CompleteIsIdle
  <2>8. QED BY <2>1, <2>5, <2>6, <2>7, SameToTorrent DEF Quiet, Kept
<1>6. CASE check_sha \/ writePiece
  <2>1. /\ UNCHANGED <<client, active, heap, queue, peer, net>> /\ ~disk.completed
        /\ writer'.obj = o /\ writer.pc \in {"hash", "write"}
    BY <1>2, <1>3, <1>6 DEF check_sha, writePiece
  <2>2. disk'.completed = disk.completed
    BY <1>6 DEF check_sha, writePiece, allocate, TypeOK
  <2>3. QueuedOnce' /\ InHand'
    BY <2>1, GoesOnWith
  <2>4. QED BY <2>1, <2>2, <2>3, SameToTorrent DEF Quiet, Kept
<1>7. CASE write_failed
  <2>1. /\ UNCHANGED <<client, active, heap, queue, peer, net>> /\ ~disk.completed
        /\ writer'.obj = None /\ writer'.pc = "idle"
    BY <1>2, <1>7 DEF write_failed
  <2>2. disk'.completed = disk.completed
    BY <1>7 DEF write_failed, allocate, TypeOK
  <2>3. QueuedOnce' /\ InHand'
    BY <2>1, GoesOnWith
  <2>4. QED BY <2>1, <2>2, <2>3, SameToTorrent DEF Quiet, Kept
<1>8. CASE check_done
  <2>1. /\ UNCHANGED <<client, active, heap, queue, disk, peer, net>> /\ ~disk.completed
        /\ writer'.obj \in {o, None} /\ writer'.pc \in {"complete", "idle"}
    BY <1>2, <1>3, <1>8 DEF check_done
  <2>2. QueuedOnce' /\ InHand'
    BY <2>1, GoesOnWith
  <2>3. QED BY <2>1, <2>2, SameToTorrent DEF Quiet, Kept
<1>9. CASE last_piece_written
  <2>1. /\ UNCHANGED <<client, active, heap, queue, disk, net>>
        /\ writer'.obj = None /\ writer'.pc = "idle"
        /\ peer' = [r \in Peers |-> [peer[r] EXCEPT !.interested = FALSE]]
    BY <1>9 DEF last_piece_written
  <2>2. \A r \in Peers : peer'[r].flight = peer[r].flight
    BY <2>1 DEF TypeOK, PeerType
  <2>3. QueuedOnce' /\ InHand'
    BY <2>1, GoesOnWith
  <2>4. Kept'
    BY <2>1 DEF Quiet, Kept, done, Published, IsActive
  <2>5. QED BY <2>1, <2>2, <2>3, <2>4, SameToTorrent DEF Quiet
<1>10. CASE torrentComplete
  <2>1. /\ UNCHANGED <<client, active, heap, queue, peer, net>> /\ ~disk.completed
        /\ writer.pc = "complete" /\ writer'.obj = o /\ writer'.pc = "notify"
        /\ disk' = [tmp       |-> FALSE,
                    part      |-> IF SingleFile THEN {} ELSE disk.part,
                    full      |-> IF SingleFile THEN disk.part ELSE disk.full,
                    completed |-> TRUE]
    BY <1>2, <1>3, <1>10 DEF torrentComplete
  <2>2. done /\ client = Pieces
    BY <2>1 DEF Safe, StillDone, done
  <2>3. disk.part = Pieces
    BY <2>1, <2>2 DEF Safe, WrittenIsOnDisk, ClientIffComplete, done, TypeOK
  <2>4. Kept'
    BY <2>1, <2>2, <2>3 DEF Kept, done, Published, IsActive
  <2>5. QueuedOnce' /\ InHand'
    BY <2>1, GoesOnWith
  <2>6. QED BY <2>1, <2>4, <2>5, SameToTorrent DEF Quiet
<1>11. CASE mark_written
  <2>1. /\ UNCHANGED <<client, active, queue, disk, peer, net>> /\ ~disk.completed
        /\ writer.pc = "mark" /\ writer'.obj = o /\ writer'.pc = "check"
        /\ heap' = [heap EXCEPT ![o] = set_piece_written(heap[o])]
        /\ o \in Objs /\ Received(o)
    BY <1>1, <1>2, <1>3, <1>11 DEF mark_written, Quiet, InHand
  <2>2. /\ \A x \in Objs \ {o} : heap'[x] = heap[x]
        /\ heap'[o].id = id /\ heap'[o].requested = heap[o].requested
        /\ heap'[o].done = heap[o].done
    BY <1>1, <2>1 DEF set_piece_written, PieceType, TypeOK, Received, Complete
  <2>3. \A x \in Objs : /\ heap'[x].id = heap[x].id /\ heap'[x].done = heap[x].done
                        /\ heap'[x].requested = heap[x].requested
    BY <2>2
  <2>4. OnTheWay'
    <3>1. ASSUME NEW r \in Peers, NEW q \in Requests, peer[r].flight[q] > 0
          PROVE  active[q[1]] \in Objs
      BY <3>1, RequestsType, Objects DEF Quiet, OnTheWay
    <3>2. QED BY <2>1, <2>3, <3>1, FewerOnTheWay DEF Quiet
  <2>5. Asking'
    BY <2>1, <2>3, Objects DEF Quiet, Asking, Unrequested
  <2>6. QueuedOnce'
    BY <2>1, <2>2, Objects DEF Quiet, QueuedOnce, Received, Complete
  <2>7. InHand' /\ Kept'
    BY <2>1 DEF InHand, Kept
  <2>8. QED BY <2>4, <2>5, <2>6, <2>7 DEF Quiet
<1>12. CASE reset_piece
  <2>1. /\ UNCHANGED <<queue, disk, peer, net>> /\ ~disk.completed
        /\ writer.pc = "reset" /\ writer' = [pc |-> "idle", obj |-> None]
        /\ o \in Objs /\ Received(o) /\ active[id] = o
    BY <1>1, <1>2, <1>12 DEF reset_piece, Quiet, InHand, Received
  <2>2. IsActive(id)
    BY <1>1, <2>1, Objects
  <2>3. /\ heap' = [heap EXCEPT ![o] = reset(heap[o])]
        /\ active' = [active EXCEPT ![id] = None]
    BY <1>12, <2>1, <2>2 DEF reset_piece
  <2>4. /\ \A x \in Objs \ {o} : heap'[x] = heap[x]
        /\ \A p \in Pieces \ {id} : active'[p] = active[p]
    BY <2>3 DEF TypeOK
  <2>5. ASSUME NEW r \in Peers, NEW q \in Requests, peer[r].flight[q] > 0
        PROVE  active'[q[1]] = active[q[1]] /\ heap'[active[q[1]]] = heap[active[q[1]]]
    <3>1. /\ q[1] \in Pieces /\ q[2] \in Blocks(q[1]) /\ IsActive(q[1])
          /\ active[q[1]] \in Objs /\ q[2] \notin heap[active[q[1]]].done
      BY <2>5, RequestsType, Objects DEF Quiet, OnTheWay
    <3>2. q[1] # id
      BY <2>1, <3>1 DEF Received, Complete
    <3>3. active[q[1]] # o
      BY <1>1, <2>1, <2>2, <3>1, <3>2, ActiveIsInjective DEF Safe
    <3>4. QED BY <2>4, <3>1, <3>2, <3>3
  <2>6. OnTheWay'
    BY <2>1, <2>5, FewerOnTheWay DEF Quiet
  <2>7. Asking'
    <3>1. SUFFICES ASSUME net.pc = "mark"
                   PROVE  /\ active'[heap'[net.obj].id] = net.obj
                          /\ Unrequested(heap'[net.obj]) # {}
      BY <2>1 DEF Asking, Unrequested
    <3>2. /\ net.obj \in Objs /\ heap[net.obj].id \in Pieces
          /\ active[heap[net.obj].id] = net.obj /\ Unrequested(heap[net.obj]) # {}
      BY <3>1, Objects DEF Quiet, Asking
    <3>3. net.obj # o
      BY <2>1, <3>2, CompleteIsAsked DEF Received
    <3>4. QED BY <1>4, <2>1, <2>4, <3>2, <3>3
  <2>8. QueuedOnce'
    <3>1. ASSUME NEW i \in DOMAIN queue
          PROVE  Received(queue[i])' /\ queue[i] # None
      <4>1. queue[i] \in Objs /\ queue[i] # o /\ Received(queue[i])
            /\ heap[queue[i]].id \in Pieces /\ queue[i] # None
        BY Objects DEF Quiet, QueuedOnce
      <4>2. heap[queue[i]].id # id
        BY <1>4, <2>1, <4>1 DEF Received
      <4>3. QED BY <2>1, <2>4, <4>1, <4>2 DEF Received, Complete
    <3>2. QED BY <2>1, <3>1 DEF Quiet, QueuedOnce
  <2>9. InHand' /\ Kept'
    BY <2>1 DEF InHand, Kept
  <2>10. QED BY <2>6, <2>7, <2>8, <2>9 DEF Quiet
<1>13. QED
  BY <1>5, <1>6, <1>7, <1>8, <1>9, <1>10, <1>11, <1>12, Zenon DEF Writer

-----------------------------------------------------------------------------
(* The theorem *)

LEMMA InitSettled == Init => Settled
<1> SUFFICES ASSUME Init PROVE Quiet
  BY DEF Settled
<1>1. /\ \A r \in Peers, q \in Requests : peer[r].flight[q] = 0
      /\ queue = <<>> /\ DOMAIN queue = {} /\ net.pc = "idle" /\ writer.pc = "idle"
      /\ ~disk.completed
  BY DEF Init, NoPeer, NoFlight, Idle
<1>2. QED BY <1>1 DEF Quiet, OnTheWay, Asking, QueuedOnce, InHand, Kept

\* The bound on early retries is only counted up.
LEMMA LateStays ==
  ASSUME TypeOK, [Next]_vars, used'.late = 0
  PROVE  used.late = 0
<1>1. used \in UsedType
  BY DEF TypeOK
<1>2. CASE UNCHANGED vars
  BY <1>2 DEF vars
<1>3. CASE Remote
  BY <1>1, <1>3 DEF Remote, recv_handshake, set_remote_pieces, disconnected, set_choking,
       set_unchoking, have, request, recv_piece, UsedType
<1>4. CASE Timer
  <2>1. PICK stale \in SUBSET Pieces : retry_pieces(stale)
    BY <1>4, Zenon DEF Timer
  <2>2. \E early : used' = [used EXCEPT !.late = IF early THEN used.late + 1 ELSE used.late]
    BY <2>1 DEF retry_pieces
  <2>3. QED BY <1>1, <2>2 DEF UsedType
<1>5. CASE Handler
  BY <1>5 DEF Handler, next_piece, next_offset, retry_next_peer
<1>6. CASE Writer
  BY <1>1, <1>6 DEF Writer, write_next_piece, check_sha, reset_piece, writePiece,
       write_failed, mark_written, check_done, torrentComplete, last_piece_written, UsedType
<1>7. QED BY <1>2, <1>3, <1>4, <1>5, <1>6 DEF Next

LEMMA NextSettled ==
  ASSUME IndInv, Settled, [Next]_vars
  PROVE  Settled'
<1> SUFFICES ASSUME used'.late = 0 PROVE Quiet'
  BY DEF Settled
<1>1. TypeOK /\ Safe
  BY DEF IndInv
<1>2. used.late = 0 /\ Quiet
  BY <1>1, LateStays DEF Settled
<1>3. CASE UNCHANGED vars
  <2>1. OnTheWay' /\ Asking'
    BY <1>2, <1>3, SameToTorrent DEF vars
  <2>2. QueuedOnce' /\ InHand'
    BY <1>1, <1>2, <1>3, GoesOnWith DEF vars, Quiet, InHand
  <2>3. Kept'
    BY <1>2, <1>3 DEF vars, Quiet, Kept, done, Published, IsActive
  <2>4. QED BY <2>1, <2>2, <2>3 DEF Quiet
<1>4. ASSUME NEW r \in Peers,
             \/ \E bf \in Bitfields : recv_handshake(r, bf) \/ set_remote_pieces(r, bf)
             \/ disconnected(r)
             \/ set_choking(r)
             \/ set_unchoking(r)
             \/ \E p \in Pieces : have(r, p)
             \/ retry_next_peer(r)
      PROVE  Quiet'
  BY <1>1, <1>2, <1>4, RemoteQuiet
<1>5. ASSUME NEW r \in Peers, NEW p \in Pieces, request(r, p)
      PROVE  Quiet'
  BY <1>1, <1>2, <1>5, RequestQuiet
<1>6. ASSUME NEW r \in Peers, NEW q \in Requests, NEW ok \in BOOLEAN,
             recv_piece(r, q[1], q[2], ok)
      PROVE  Quiet'
  BY <1>1, <1>2, <1>6, PieceQuiet
<1>7. CASE Timer
  <2>1. PICK stale \in SUBSET Pieces : retry_pieces(stale)
    BY <1>7, Zenon DEF Timer
  <2>2. QED BY <1>1, <1>2, <2>1, RetryQuiet
<1>8. CASE next_piece \/ next_offset
  BY <1>1, <1>2, <1>8, NextPieceQuiet, NextOffsetQuiet
<1>9. CASE Writer
  BY <1>1, <1>2, <1>9, WriterQuiet
<1>10. QED
  BY <1>3, <1>4, <1>5, <1>6, <1>7, <1>8, <1>9, Zenon DEF Next, Remote, Handler

\* As long as no retry was early, what is published stays whole: nothing is on its way
\* to a torrent that is complete, and the writer has nothing to do.
THEOREM PublishedIsKept == Spec => []PublishedStays
<1>1. IndInv /\ Settled /\ [Next]_vars => Settled'
  BY NextSettled
<1>2. Settled => PublishedStays
  BY DEF Settled, Quiet, Kept, PublishedStays
<1>3. QED BY <1>1, <1>2, Invariance, InitSettled, PTL DEF Spec

-----------------------------------------------------------------------------
(* The download as a Store *)

\* A step that leaves the active objects and their marks leaves the pieces.
LEMMA WrittenStay ==
  ASSUME disk'.completed = disk.completed,
         \A p \in Pieces : IsActive(p) =>
           active'[p] = active[p] /\ heap'[active[p]].written = heap[active[p]].written,
         \A p \in Pieces : ~IsActive(p) => active'[p] = None \/ ~heap'[active'[p]].written
  PROVE  UNCHANGED Pipeline!stvars
<1>1. \A p \in Pieces : p \in WrittenPieces <=> p \in WrittenPieces'
  BY DEF WrittenPieces, IsActive
<1>2. WrittenPieces \subseteq Pieces /\ WrittenPieces' \subseteq Pieces
  BY DEF WrittenPieces
<1> QED BY <1>1, <1>2 DEF Pipeline!stvars

\* A new object is not written, and is not that of another piece.
LEMMA NewStays ==
  ASSUME TypeOK, UNCHANGED disk, NEW p \in Pieces, ~IsActive(p), NEW o \in Objs \ Held,
         active' = [active EXCEPT ![p] = o], heap' = [heap EXCEPT ![o] = Fresh(p)]
  PROVE  UNCHANGED Pipeline!stvars
<1>1. /\ active'[p] = o /\ heap'[o] = Fresh(p) /\ ~Fresh(p).written
      /\ \A x \in Pieces \ {p} : active'[x] = active[x]
      /\ \A x \in Objs \ {o} : heap'[x] = heap[x]
  BY DEF TypeOK, Fresh
<1>2. \A x \in Pieces : active[x] # o
  BY DEF Held, Range, TypeOK
<1>3. \A x \in Pieces : IsActive(x) => x # p /\ active[x] \in Objs \ {o}
  BY <1>2 DEF TypeOK, IsActive
<1>4. \A x \in Pieces : ~IsActive(x) => active'[x] = None \/ ~heap'[active'[x]].written
  BY <1>1 DEF IsActive
<1> QED BY <1>1, <1>3, <1>4, WrittenStay

\* What only changes objects, and no mark of one.
LEMMA MarksStay ==
  ASSUME TypeOK, UNCHANGED <<active, disk>>,
         \A o \in Objs : heap'[o].written = heap[o].written
  PROVE  UNCHANGED Pipeline!stvars
<1>1. \A p \in Pieces : IsActive(p) => active[p] \in Objs
  BY DEF TypeOK, IsActive
<1>2. \A p \in Pieces : ~IsActive(p) => active'[p] = None
  BY DEF IsActive
<1> QED BY <1>1, <1>2, WrittenStay

LEMMA TorrentKeeps ==
  ASSUME TypeOK, Safe, Remote \/ Timer \/ Handler
  PROVE  UNCHANGED Pipeline!stvars
<1>1. \A o \in Objs : heap[o] \in PieceType
  BY DEF TypeOK
<1>2. CASE UNCHANGED <<active, heap, disk>>
  BY <1>2, MarksStay
<1>3. ASSUME NEW r \in Peers, NEW p \in Pieces, request(r, p)
      PROVE  UNCHANGED Pipeline!stvars
  <2>1. CASE IsActive(p)
    BY <1>2, <1>3, <2>1 DEF request
  <2>2. CASE ~IsActive(p)
    <3>1. UNCHANGED disk
      BY <1>3 DEF request
    <3>2. PICK o \in Objs \ Held : /\ active' = [active EXCEPT ![p] = o]
                                   /\ heap' = [heap EXCEPT ![o] = Fresh(p)]
      BY <1>3, <2>2 DEF request
    <3> QED BY <2>2, <3>1, <3>2, NewStays
  <2> QED BY <2>1, <2>2
<1>4. ASSUME NEW r \in Peers, NEW q \in Requests, NEW ok \in BOOLEAN,
             recv_piece(r, q[1], q[2], ok)
      PROVE  UNCHANGED Pipeline!stvars
  <2> DEFINE p == q[1]
             b == q[2]
             o == active[p]
  <2>1. UNCHANGED <<active, disk>>
    BY <1>4 DEF recv_piece
  <2>2. CASE ~IsActive(p)
    BY <1>2, <1>4, <2>2 DEF recv_piece
  <2>3. CASE IsActive(p)
    <3>1. heap' = [heap EXCEPT ![o] = set_block(heap[o], b, ok)]
      BY <1>4, <2>3 DEF recv_piece
    <3>2. o \in Objs /\ heap[o] \in PieceType
      BY <1>1, <2>3, RequestsType DEF TypeOK, IsActive
    <3>3. set_block(heap[o], b, ok).written = heap[o].written
      BY <3>2 DEF set_block, PieceType
    <3>4. \A x \in Objs : heap'[x].written = heap[x].written
      BY <3>1, <3>2, <3>3 DEF TypeOK
    <3> QED BY <2>1, <3>4, MarksStay
  <2> QED BY <2>2, <2>3
<1>5. ASSUME NEW stale \in SUBSET Pieces, retry_pieces(stale)
      PROVE  UNCHANGED Pipeline!stvars
  <2>1. UNCHANGED <<active, disk>>
        /\ heap' = [o \in Objs |-> IF \E p \in stale : active[p] = o
                                   THEN retry_blocks(heap[o])
                                   ELSE heap[o]]
    BY <1>5 DEF retry_pieces
  <2>2. \A o \in Objs : retry_blocks(heap[o]).written = heap[o].written
    BY <1>1 DEF retry_blocks, PieceType
  <2>3. \A o \in Objs : heap'[o].written = heap[o].written
    BY <2>1, <2>2
  <2> QED BY <2>1, <2>3, MarksStay
<1>6. CASE next_piece
  <2>1. UNCHANGED disk
    BY <1>6 DEF next_piece
  <2>2. CASE UNCHANGED <<active, heap>>
    BY <1>2, <2>1, <2>2
  <2>3. CASE ~UNCHANGED <<active, heap>>
    <3> DEFINE p == Min(Candidates(net.peer))
    <3>1. net.pc = "select" /\ Candidates(net.peer) # {} /\ ~IsActive(p)
      BY <1>6, <2>3 DEF next_piece
    <3>2. p \in Pieces
      BY <3>1, CandidateType DEF TypeOK, NetType
    <3>3. PICK o \in Objs \ Held : /\ active' = [active EXCEPT ![p] = o]
                                   /\ heap' = [heap EXCEPT ![o] = Fresh(p)]
      BY <1>6, <3>1 DEF next_piece
    <3> HIDE DEF p
    <3> QED BY <2>1, <3>1, <3>2, <3>3, NewStays
  <2> QED BY <2>2, <2>3
<1>7. CASE next_offset
  <2>1. UNCHANGED <<active, disk>>
    BY <1>7 DEF next_offset
  <2>2. heap' = heap \/ \E s : heap' = [heap EXCEPT ![net.obj] = [heap[net.obj] EXCEPT !.requested = s]]
    BY <1>7 DEF next_offset
  <2>3. \A o \in Objs : heap'[o].written = heap[o].written
    <3>1. net.obj \in Objs
      BY <1>7, Objects DEF next_offset
    <3>2. \A piece \in PieceType : \A s : [piece EXCEPT !.requested = s].written = piece.written
      BY DEF PieceType
    <3>3. CASE heap' = heap
      BY <3>3
    <3>4. ASSUME NEW s, heap' = [heap EXCEPT ![net.obj] = [heap[net.obj] EXCEPT !.requested = s]]
          PROVE  \A o \in Objs : heap'[o].written = heap[o].written
      <4>1. heap'[net.obj].written = heap[net.obj].written
        BY <1>1, <3>1, <3>2, <3>4 DEF TypeOK
      <4>2. \A o \in Objs \ {net.obj} : heap'[o] = heap[o]
        BY <3>4 DEF TypeOK
      <4> QED BY <4>1, <4>2
    <3> QED BY <2>2, <3>3, <3>4
  <2> QED BY <2>1, <2>3, MarksStay
<1>8. CASE Handler
  <2>1. (\E r \in Peers : retry_next_peer(r)) => UNCHANGED <<active, heap, disk>>
    BY DEF retry_next_peer
  <2> QED BY <1>2, <1>6, <1>7, <1>8, <2>1 DEF Handler
<1>9. CASE Timer
  BY <1>5, <1>9, Zenon DEF Timer
<1>10. CASE Remote
  <2>1. PICK r \in Peers :
          \/ \E bf \in Bitfields : recv_handshake(r, bf) \/ set_remote_pieces(r, bf)
          \/ disconnected(r) \/ set_choking(r) \/ set_unchoking(r)
          \/ \E p \in Pieces : have(r, p) \/ request(r, p)
          \/ \E q \in Requests, ok \in BOOLEAN : recv_piece(r, q[1], q[2], ok)
    BY <1>10 DEF Remote
  <2>2. CASE \/ \E bf \in Bitfields : recv_handshake(r, bf) \/ set_remote_pieces(r, bf)
             \/ disconnected(r) \/ set_choking(r) \/ set_unchoking(r)
             \/ \E p \in Pieces : have(r, p)
    <3>1. UNCHANGED <<active, heap, disk>>
      BY <2>2 DEF recv_handshake, set_remote_pieces, disconnected, set_choking,
                  set_unchoking, have
    <3> QED BY <1>2, <3>1
  <2> QED BY <1>3, <1>4, <2>1, <2>2, Zenon
<1> QED BY <1>8, <1>9, <1>10

\* The writer marks the piece in its hands, or resets it before it is marked.
LEMMA WriterKeeps ==
  ASSUME TypeOK, Safe, Quiet, Writer
  PROVE  [Pipeline!STNext]_(Pipeline!stvars)
<1> DEFINE o == writer.obj
           p == heap[o].id
<1>1. /\ \A x \in Objs : heap[x] \in PieceType /\ heap[x].id \in Pieces
      /\ \A x \in Pieces : IsActive(x) => active[x] \in Objs
  BY DEF TypeOK, PieceType, IsActive
<1>2. writer.pc \in {"reset", "mark"} =>
        /\ o \in Objs /\ p \in Pieces /\ active[p] = o /\ IsActive(p)
        /\ ~heap[o].written /\ ~disk.completed
  <2>1. writer.pc # "idle" => o \in Objs /\ o # None
    BY Objects
  <2> QED BY <1>1, <2>1 DEF Quiet, InHand, Received, Kept, IsActive
<1>3. CASE write_next_piece \/ check_sha \/ check_done \/ last_piece_written
  <2>1. UNCHANGED <<active, heap, disk>>
    BY <1>3 DEF write_next_piece, check_sha, check_done, last_piece_written
  <2> QED BY <2>1, MarksStay
<1>4. CASE writePiece \/ write_failed
  <2>1. UNCHANGED <<active, heap>>
    BY <1>4 DEF writePiece, write_failed
  <2>2. disk'.completed = disk.completed
    <3> DEFINE With(s) == [allocate EXCEPT !.part = s]
    <3>1. disk \in [tmp : BOOLEAN, part : SUBSET Pieces, full : SUBSET Pieces,
                    completed : BOOLEAN]
      BY DEF TypeOK
    <3>2. \A s : /\ allocate.completed = disk.completed
                 /\ With(s).completed = disk.completed
      BY <3>1 DEF allocate
    <3>3. writePiece => \E s : disk' = With(s)
      BY DEF writePiece
    <3>4. write_failed => \/ disk' \in {disk, allocate}
                          \/ \E s : disk' = With(s)
      BY DEF write_failed
    <3> HIDE DEF With
    <3> QED BY <1>4, <3>2, <3>3, <3>4
  <2> QED BY <2>1, <2>2, WrittenStay DEF IsActive
<1>5. CASE reset_piece
  <2>1. writer.pc = "reset" /\ UNCHANGED disk
    BY <1>5 DEF reset_piece
  <2>2. heap' = [heap EXCEPT ![o] = reset(heap[o])] /\ active' = [active EXCEPT ![p] = None]
    BY <1>2, <1>5, <2>1 DEF reset_piece
  <2>3. /\ \A x \in Objs \ {o} : heap'[x] = heap[x]
        /\ \A x \in Pieces \ {p} : active'[x] = active[x] /\ (IsActive(x) => active[x] # o)
        /\ active'[p] = None
    BY <1>2, <2>1, <2>2 DEF TypeOK, Safe, ActiveById
  <2>4. WrittenPieces' = WrittenPieces
    BY <1>1, <1>2, <2>1, <2>3 DEF WrittenPieces, IsActive
  <2> QED BY <2>1, <2>4 DEF Pipeline!stvars
<1>6. CASE mark_written
  <2>1. writer.pc = "mark" /\ UNCHANGED <<active, disk>>
        /\ heap' = [heap EXCEPT ![o] = set_piece_written(heap[o])]
    BY <1>6 DEF mark_written
  <2>2. set_piece_written(heap[o]).written
    BY <1>1, <1>2, <2>1 DEF set_piece_written, PieceType
  <2>3. /\ heap'[o].written /\ \A x \in Objs \ {o} : heap'[x] = heap[x]
        /\ \A x \in Pieces \ {p} : IsActive(x) => active[x] # o
    BY <1>2, <2>1, <2>2 DEF TypeOK, Safe, ActiveById
  <2>4. WrittenPieces' = WrittenPieces \cup {p}
    BY <1>1, <1>2, <2>1, <2>3 DEF WrittenPieces, IsActive
  <2>5. Pipeline!Save(p)
    BY <1>2, <2>1, <2>4 DEF Pipeline!Save
  <2> QED BY <1>2, <2>1, <2>5 DEF Pipeline!STNext
<1>7. CASE torrentComplete
  <2>1. writer.pc = "complete" /\ UNCHANGED <<active, heap>> /\ disk'.completed = TRUE
    BY <1>7 DEF torrentComplete
  <2>2. \A x \in Pieces : IsActive(x) /\ heap[active[x]].written
    BY <2>1 DEF Safe, StillDone, done, ClientIffComplete
  <2>3. WrittenPieces = Pieces /\ WrittenPieces' = WrittenPieces
    BY <2>1, <2>2 DEF WrittenPieces, IsActive
  <2> QED BY <2>1, <2>3 DEF Pipeline!STNext, Pipeline!Publish
<1> QED BY <1>3, <1>4, <1>5, <1>6, <1>7 DEF Writer

\* As long as no retry was early, the pieces that are written are a Store: they are
\* written one by one, stay written, and the torrent completes with all of them.
THEOREM DownloadIsAStore == Spec => PiecesAreKept
<1>1. Init => Pipeline!STInit
  <2> SUFFICES ASSUME Init PROVE Pipeline!STInit
    OBVIOUS
  <2>1. \A p \in Pieces : ~IsActive(p)
    BY DEF Init, IsActive
  <2> QED BY <2>1 DEF Init, Pipeline!STInit, WrittenPieces
<1>2. IndInv /\ Settled /\ [Next]_vars => Settled'
  BY NextSettled
<1>3. IndInv /\ Settled /\ [Next]_vars
        => [used'.late = 0 => [Pipeline!STNext]_(Pipeline!stvars)]_vars
  <2> SUFFICES ASSUME IndInv, Settled, Next, used'.late = 0
               PROVE  [Pipeline!STNext]_(Pipeline!stvars)
    BY DEF vars
  <2>1. TypeOK /\ Safe /\ Quiet
    BY LateStays DEF IndInv, Settled
  <2> QED BY <2>1, TorrentKeeps, WriterKeeps DEF Next
<1> QED BY <1>1, <1>2, <1>3, Invariance, InitSettled, PTL DEF Spec, PiecesAreKept
=============================================================================
