----------------------------- MODULE SwarmProofs -----------------------------
(***************************************************************************)
(* Proofs about Swarm: what the two ends of each connection hold of each   *)
(* other agrees, and no request is dropped that should be served, for any  *)
(* number of clients, pieces and troubles.                                 *)
(*                                                                         *)
(* The state of a connection is five values: the Torrent and the Peer of   *)
(* the one that dialed, the Peer that listens, and the messages each way.  *)
(* The invariant is stated, and shown to be kept, for the five values.     *)
(***************************************************************************)
EXTENDS Swarm, FiniteSetTheorems, TLAPS

Messages ==
  [kind : {"handshake", "interested", "not_interested", "unchoke"}]
    \cup [kind : {"bitfield"}, pieces : SUBSET Pieces]
    \cup [kind : {"request"}, piece : Pieces]
    \cup [kind : {"piece"}, piece : Pieces, good : BOOLEAN]

Torrents ==
  [bits : SUBSET Pieces, requested : SUBSET Pieces, good : SUBSET Pieces,
   corrupt : SUBSET Pieces, written : SUBSET Pieces, deciding : BOOLEAN]
DialingPeers ==
  [up : BOOLEAN, am_interested : BOOLEAN, choking : BOOLEAN,
   remote : SUBSET Pieces, pending : Nat]
ListeningPeers == [there : BOOLEAN, am_choking : BOOLEAN, interested : BOOLEAN]

Typed ==
  /\ client \in [Clients -> Torrents]
  /\ dialing \in [Dialers -> DialingPeers]
  /\ listening \in [Dialers -> ListeningPeers]
  /\ to \in [Dialers -> Seq(Messages)]
  /\ from \in [Dialers -> Seq(Messages)]
  /\ trouble \in Nat

\* A bit is set for a piece that is with the writer or on disk, and what is corrupt is
\* in no other place.
Consistent(t) ==
  /\ t.written \cup t.good \cup t.corrupt = t.bits
  /\ t.corrupt \cap (t.written \cup t.good) = {}

\* A piece is asked for once: it is in one message at most, and still waited for.
Once(s, kind) ==
  \A i, j \in DOMAIN s :
    s[i].kind = kind /\ s[j].kind = kind /\ s[i].piece = s[j].piece => i = j
Waited(t, s, kind) ==
  \A i \in DOMAIN s : s[i].kind = kind => s[i].piece \in t.requested \ t.bits
OnTheWay(t, s, r) ==
  /\ Once(s, "request") /\ Once(r, "piece")
  /\ Waited(t, s, "request") /\ Waited(t, r, "piece")
  /\ \A i \in DOMAIN s, j \in DOMAIN r :
       s[i].kind = "request" /\ r[j].kind = "piece" => s[i].piece # r[j].piece

\* Before the other end accepts there is nothing but a handshake.
Apart(t, d, s, r) ==
  /\ r = <<>> /\ ~t.deciding
  /\ \/ s = <<>> /\ ~d.up
     \/ s = <<Message("handshake")>> /\ d.up /\ ~d.am_interested /\ d.choking

In(s, kind) == {s[i].piece : i \in {i \in DOMAIN s : s[i].kind = kind}}

\* A request under way was made by an end that was not choked and had said, before
\* it, that it is interested.
Asks(l, s) ==
  \A i \in DOMAIN s : s[i].kind = "request" => ~l.am_choking /\ Interested(s, i - 1, l.interested)

Joined(d, l, s, r) ==
  /\ d.up
  /\ ~Has_kind(s, "handshake")
  /\ ~l.am_choking <=> ~d.choking \/ Has_kind(r, "unchoke")
  /\ d.am_interested <=> Interested(s, Len(s), l.interested)
  /\ Asks(l, s)
  /\ d.pending >= Cardinality(In(s, "request")) + Cardinality(In(r, "piece"))

Connected(t, d, l, s, r) ==
  /\ OnTheWay(t, s, r)
  /\ IF l.there THEN Joined(d, l, s, r) ELSE Apart(t, d, s, r)

IndInv ==
  /\ Typed
  /\ \A k \in Clients : Consistent(client[k])
  /\ \A c \in Dialers : Connected(client[c], dialing[c], listening[c], to[c], from[c])

-----------------------------------------------------------------------------
(* Messages *)

\* What a message has depends on its kind.
LEMMA Fields ==
  ASSUME NEW m \in Messages
  PROVE  /\ m.kind = "bitfield" => m.pieces \in SUBSET Pieces
         /\ m.kind = "request" => m.piece \in Pieces
         /\ m.kind = "piece" => m.piece \in Pieces /\ m.good \in BOOLEAN
         /\ m.kind \in Kinds
BY DEF Messages, Kinds

LEMMA MessageTypes ==
  /\ \A kind \in {"handshake", "interested", "not_interested", "unchoke"} :
       Message(kind) \in Messages
  /\ \A pieces \in SUBSET Pieces : Bitfield(pieces) \in Messages
  /\ \A p \in Pieces : Request(p) \in Messages
  /\ \A p \in Pieces, good \in BOOLEAN : Block(p, good) \in Messages
BY DEF Messages, Message, Bitfield, Request, Block

\* Sets of pieces are finite.
LEMMA PiecesFinite ==
  ASSUME NEW set \in SUBSET Pieces
  PROVE  IsFiniteSet(set) /\ Cardinality(set) \in Nat
<1>1. NumPieces \in Nat
  BY SwarmAssumption
<1>2. IsFiniteSet(Pieces)
  BY <1>1, FS_Interval DEF Pieces
<1>3. IsFiniteSet(set)
  BY <1>2, FS_Subset
<1> QED
  BY <1>3, FS_CardinalityType

LEMMA InPieces ==
  ASSUME NEW s \in Seq(Messages), NEW kind \in {"request", "piece"}
  PROVE  /\ In(s, kind) \in SUBSET Pieces
         /\ Cardinality(In(s, kind)) \in Nat
<1>1. \A i \in DOMAIN s : s[i] \in Messages
  OBVIOUS
<1>2. In(s, kind) \in SUBSET Pieces
  BY <1>1, Fields DEF In
<1> QED
  BY <1>2, PiecesFinite

\* The requests on their way and the answers, as Swarm states them.
LEMMA AskedIn ==
  ASSUME NEW c \in Dialers, to \in [Dialers -> Seq(Messages)],
         from \in [Dialers -> Seq(Messages)]
  PROVE  Asked(c) = In(to[c], "request") /\ Answered(c) = In(from[c], "piece")
BY DEF Asked, Answered, In, ToSet

\* A message more, at the end.
LEMMA InAppend ==
  ASSUME NEW s \in Seq(Messages), NEW m \in Messages, NEW kind
  PROVE  In(Append(s, m), kind) = In(s, kind) \cup (IF m.kind = kind THEN {m.piece} ELSE {})
<1> DEFINE a == Append(s, m)
<1>1. /\ DOMAIN a = DOMAIN s \cup {Len(s) + 1}
      /\ \A i \in DOMAIN s : a[i] = s[i]
      /\ a[Len(s) + 1] = m
      /\ Len(s) \in Nat /\ DOMAIN s = 1 .. Len(s)
  OBVIOUS
<1> HIDE DEF a
<1>2. In(a, kind) = In(s, kind) \cup (IF m.kind = kind THEN {m.piece} ELSE {})
  BY <1>1 DEF In
<1> QED
  BY <1>2 DEF a

\* The first message is gone.
LEMMA TailPositions ==
  ASSUME NEW S, NEW s \in Seq(S), s # <<>>
  PROVE  /\ Tail(s) \in Seq(S) /\ Len(s) \in Nat \ {0} /\ Len(Tail(s)) = Len(s) - 1
         /\ DOMAIN s = 1 .. Len(s)
         /\ DOMAIN Tail(s) = 1 .. Len(s) - 1
         /\ Head(s) = s[1] /\ s[1] \in S
         /\ \A i \in DOMAIN Tail(s) : Tail(s)[i] = s[i + 1]
OBVIOUS

LEMMA InTail ==
  ASSUME NEW s \in Seq(Messages), s # <<>>, NEW kind, Once(s, kind)
  PROVE  /\ In(Tail(s), kind) = IF Head(s).kind = kind THEN In(s, kind) \ {Head(s).piece}
                                ELSE In(s, kind)
         /\ Head(s).kind = kind => Head(s).piece \in In(s, kind)
<1> DEFINE a == Tail(s)
           n == Len(s)
<1>1. /\ n \in Nat \ {0} /\ DOMAIN s = 1 .. n /\ DOMAIN a = 1 .. n - 1
      /\ Head(s) = s[1]
      /\ \A i \in DOMAIN a : a[i] = s[i + 1]
  BY TailPositions
<1> HIDE DEF a, n
<1>2. In(a, kind) = {s[i].piece : i \in {i \in 2 .. n : s[i].kind = kind}}
  <2>1. ASSUME NEW x \in In(a, kind)
        PROVE  x \in {s[i].piece : i \in {i \in 2 .. n : s[i].kind = kind}}
    <3>1. PICK i \in DOMAIN a : a[i].kind = kind /\ x = a[i].piece
      BY DEF In
    <3>2. i + 1 \in 2 .. n /\ s[i + 1].kind = kind /\ x = s[i + 1].piece
      BY <1>1, <3>1
    <3> QED BY <3>2
  <2>2. ASSUME NEW i \in 2 .. n, s[i].kind = kind
        PROVE  s[i].piece \in In(a, kind)
    <3>1. i - 1 \in DOMAIN a /\ a[i - 1] = s[i]
      BY <1>1
    <3> QED BY <3>1, <2>2 DEF In
  <2> QED BY <2>1, <2>2
<1>3. \A i \in 2 .. n : s[i].kind = kind /\ s[1].kind = kind => s[i].piece # s[1].piece
  BY <1>1 DEF Once
<1>4. In(s, kind) = {s[i].piece : i \in {i \in 2 .. n : s[i].kind = kind}}
                      \cup (IF s[1].kind = kind THEN {s[1].piece} ELSE {})
  BY <1>1 DEF In
<1>5. s[1].kind = kind => s[1].piece \notin {s[i].piece : i \in {i \in 2 .. n : s[i].kind = kind}}
  BY <1>3
<1> QED
  BY <1>1, <1>2, <1>4, <1>5 DEF a

LEMMA OnceAppend ==
  ASSUME NEW s \in Seq(Messages), NEW m \in Messages, NEW kind, Once(s, kind),
         m.kind = kind => m.piece \notin In(s, kind)
  PROVE  Once(Append(s, m), kind)
<1> DEFINE a == Append(s, m)
<1>1. /\ DOMAIN a = DOMAIN s \cup {Len(s) + 1}
      /\ \A i \in DOMAIN s : a[i] = s[i]
      /\ a[Len(s) + 1] = m
  OBVIOUS
<1> HIDE DEF a
<1>2. \A i \in DOMAIN s : m.kind = kind /\ s[i].kind = kind => s[i].piece # m.piece
  BY DEF In
<1>3. Once(a, kind)
  BY <1>1, <1>2 DEF Once
<1> QED BY <1>3 DEF a

LEMMA OnceTail ==
  ASSUME NEW s \in Seq(Messages), s # <<>>, NEW kind, Once(s, kind)
  PROVE  Once(Tail(s), kind)
<1>1. \A i \in DOMAIN Tail(s) : i + 1 \in DOMAIN s /\ Tail(s)[i] = s[i + 1] /\ i \in Nat
  BY TailPositions
<1> QED
  BY <1>1 DEF Once

-----------------------------------------------------------------------------
(* Whether the remote is interested *)

LEMMA InterestedPrefix ==
  ASSUME NEW s, NEW a, NEW n \in Nat, NEW before \in BOOLEAN, \A i \in 1 .. n : s[i] = a[i]
  PROVE  Interested(s, n, before) = Interested(a, n, before)
BY DEF Interested

\* Messages that say nothing of it change nothing.
LEMMA InterestedStays ==
  ASSUME NEW s, NEW n \in Nat, NEW m \in Nat, n <= m, NEW before \in BOOLEAN,
         \A k \in n + 1 .. m : s[k].kind \notin {"interested", "not_interested"}
  PROVE  Interested(s, m, before) = Interested(s, n, before)
<1>1. Interested(s, m, before) => Interested(s, n, before)
  BY DEF Interested
<1>2. Interested(s, n, before) => Interested(s, m, before)
  BY DEF Interested
<1>3. Interested(s, n, before) \in BOOLEAN /\ Interested(s, m, before) \in BOOLEAN
  BY DEF Interested
<1> QED
  BY <1>1, <1>2, <1>3

LEMMA InterestedAppend ==
  ASSUME NEW s \in Seq(Messages), NEW m \in Messages, NEW before \in BOOLEAN
  PROVE  /\ \A n \in 0 .. Len(s) :
              Interested(Append(s, m), n, before) = Interested(s, n, before)
         /\ Interested(Append(s, m), Len(s) + 1, before)
              <=> \/ m.kind = "interested"
                  \/ m.kind # "not_interested" /\ Interested(s, Len(s), before)
<1> DEFINE a == Append(s, m)
           N == Len(s)
<1>1. N \in Nat /\ a[N + 1] = m /\ \A i \in 1 .. N : a[i] = s[i]
  OBVIOUS
<1> HIDE DEF a, N
<1>2. ASSUME NEW n \in 0 .. N PROVE Interested(a, n, before) = Interested(s, n, before)
  BY <1>1, InterestedPrefix
<1>3. Interested(a, N + 1, before)
        <=> \/ m.kind = "interested"
            \/ m.kind # "not_interested" /\ Interested(a, N, before)
  BY <1>1 DEF Interested
<1> QED
  BY <1>1, <1>2, <1>3 DEF a, N

LEMMA InterestedTail ==
  ASSUME NEW s \in Seq(Messages), s # <<>>, NEW n \in 0 .. Len(s) - 1,
         NEW before \in BOOLEAN, NEW after \in BOOLEAN,
         after <=> s[1].kind = "interested" \/ (before /\ s[1].kind # "not_interested")
  PROVE  Interested(Tail(s), n, after) = Interested(s, n + 1, before)
<1> DEFINE a == Tail(s)
<1>1. n \in Nat /\ \A i \in 1 .. n : a[i] = s[i + 1]
  BY TailPositions
<1> HIDE DEF a
<1>2. ASSUME Interested(a, n, after) PROVE Interested(s, n + 1, before)
  <2>1. CASE after /\ \A k \in 1 .. n : a[k].kind # "not_interested"
    <3>1. \A k \in 2 .. n + 1 : s[k].kind # "not_interested"
      <4>1. ASSUME NEW k \in 2 .. n + 1 PROVE s[k].kind # "not_interested"
        <5>1. k - 1 \in 1 .. n /\ (k - 1) + 1 = k
          OBVIOUS
        <5> QED BY <1>1, <2>1, <5>1
      <4> QED BY <4>1
    <3> QED BY <2>1, <3>1, <1>1 DEF Interested
  <2>2. CASE \E i \in 1 .. n : a[i].kind = "interested"
                               /\ \A k \in i + 1 .. n : a[k].kind # "not_interested"
    <3>1. PICK i \in 1 .. n : a[i].kind = "interested"
                              /\ \A k \in i + 1 .. n : a[k].kind # "not_interested"
      BY <2>2
    <3>2. \A k \in i + 2 .. n + 1 : s[k].kind # "not_interested"
      <4>1. ASSUME NEW k \in i + 2 .. n + 1 PROVE s[k].kind # "not_interested"
        <5>1. k - 1 \in i + 1 .. n /\ k - 1 \in 1 .. n /\ (k - 1) + 1 = k
          OBVIOUS
        <5> QED BY <1>1, <3>1, <5>1
      <4> QED BY <4>1
    <3>3. i + 1 \in 1 .. n + 1 /\ s[i + 1].kind = "interested" /\ (i + 1) + 1 = i + 2
      BY <1>1, <3>1
    <3> QED BY <3>2, <3>3 DEF Interested
  <2> QED BY <1>2, <2>1, <2>2 DEF Interested
<1>3. ASSUME Interested(s, n + 1, before) PROVE Interested(a, n, after)
  <2>1. CASE before /\ \A k \in 1 .. n + 1 : s[k].kind # "not_interested"
    <3>1. after /\ \A k \in 1 .. n : a[k].kind # "not_interested"
      BY <1>1, <2>1
    <3> QED BY <3>1 DEF Interested
  <2>2. CASE \E i \in 1 .. n + 1 : s[i].kind = "interested"
                               /\ \A k \in i + 1 .. n + 1 : s[k].kind # "not_interested"
    <3>1. PICK i \in 1 .. n + 1 : s[i].kind = "interested"
                               /\ \A k \in i + 1 .. n + 1 : s[k].kind # "not_interested"
      BY <2>2
    <3>2. \A k \in i .. n : k \in 1 .. n /\ a[k].kind # "not_interested"
      BY <1>1, <3>1
    <3>3. CASE i = 1
      BY <3>1, <3>2, <3>3 DEF Interested
    <3>4. CASE i # 1
      <4>1. i - 1 \in 1 .. n /\ a[i - 1].kind = "interested" /\ (i - 1) + 1 = i
        BY <1>1, <3>1, <3>4
      <4> QED BY <3>2, <4>1 DEF Interested
    <3> QED BY <3>3, <3>4
  <2> QED BY <1>3, <2>1, <2>2 DEF Interested
<1>4. Interested(a, n, after) \in BOOLEAN /\ Interested(s, n + 1, before) \in BOOLEAN
  BY DEF Interested
<1> QED
  BY <1>2, <1>3, <1>4 DEF a

-----------------------------------------------------------------------------
(* Requests *)

\* The pieces of a set come one after the other: each number below their count is
\* the rank of one of them.
LEMMA Ranks ==
  ASSUME NEW set \in SUBSET Pieces, NEW i \in 1 .. Cardinality(set)
  PROVE  \E p \in set : Rank(p, set) = i - 1
<1> DEFINE n == Cardinality(set)
           Before(p) == {q \in set : q < p}
<1>1. set \in SUBSET Nat
  BY SwarmAssumption DEF Pieces
<1>2. IsFiniteSet(set) /\ n \in Nat
  BY PiecesFinite
<1>3. \A p \in set : /\ IsFiniteSet(Before(p)) /\ Rank(p, set) \in Nat
                     /\ Rank(p, set) = Cardinality(Before(p))
  <2> SUFFICES ASSUME NEW p \in set
               PROVE  IsFiniteSet(Before(p)) /\ Rank(p, set) \in Nat
                      /\ Rank(p, set) = Cardinality(Before(p))
    OBVIOUS
  <2>1. Before(p) \in SUBSET Pieces
    OBVIOUS
  <2> QED BY <2>1, PiecesFinite DEF Rank
<1>4. ASSUME NEW p \in set, NEW S \in SUBSET set, Before(p) \cup {p} \subseteq S
      PROVE  Rank(p, set) + 1 <= Cardinality(S)
  <2>1. p \notin Before(p)
    BY <1>1
  <2>2. Cardinality(Before(p) \cup {p}) = Rank(p, set) + 1
    BY <1>3, <2>1, FS_AddElement
  <2>3. IsFiniteSet(S) /\ Before(p) \cup {p} \in SUBSET S
    BY <1>4, PiecesFinite
  <2> QED BY <2>2, <2>3, FS_Subset
<1>5. ASSUME NEW p \in set PROVE Rank(p, set) + 1 \in 1 .. n
  <2>1. set \in SUBSET set /\ Before(p) \cup {p} \subseteq set
    OBVIOUS
  <2>2. Rank(p, set) + 1 <= n
    BY <2>1, <1>4
  <2>3. Rank(p, set) \in Nat
    BY <1>3
  <2> HIDE DEF n
  <2> QED BY <1>2, <2>2, <2>3
<1>6. ASSUME NEW p \in set, NEW q \in set, p < q
      PROVE  Rank(p, set) < Rank(q, set)
  <2>1. p \in Nat /\ q \in Nat
    BY <1>1
  <2>2. \A x \in set : x < p => x < q
    <3> SUFFICES ASSUME NEW x \in set, x < p PROVE x < q
      OBVIOUS
    <3>1. x \in Nat
      BY <1>1
    <3> QED BY <2>1, <3>1, <1>6
  <2>3. Before(p) \cup {p} \subseteq Before(q) /\ Before(q) \in SUBSET set
    BY <1>6, <2>2
  <2>4. Rank(p, set) + 1 <= Cardinality(Before(q))
    BY <2>3, <1>4
  <2>5. Rank(p, set) \in Nat /\ Rank(q, set) \in Nat /\ Rank(q, set) = Cardinality(Before(q))
    BY <1>3
  <2> QED BY <2>4, <2>5
<1> DEFINE f == [p \in set |-> Rank(p, set) + 1]
<1>7. f \in Injection(set, 1 .. n)
  <2>1. f \in [set -> 1 .. n]
    BY <1>5
  <2>2. ASSUME NEW p \in set, NEW q \in set, f[p] = f[q] PROVE p = q
    <3>1. Rank(p, set) \in Nat /\ Rank(q, set) \in Nat
      BY <1>3
    <3>2. Rank(p, set) = Rank(q, set)
      BY <2>2, <3>1
    <3>3. ~ (p < q) /\ ~ (q < p)
      BY <1>6, <3>1, <3>2
    <3>4. p \in Nat /\ q \in Nat
      BY <1>1
    <3> QED BY <3>3, <3>4
  <2> HIDE DEF f
  <2> QED BY <2>1, <2>2 DEF Injection, IsInjective
<1>8. IsFiniteSet(1 .. n) /\ Cardinality(1 .. n) = n
  BY <1>2, FS_Interval
<1>9. f \in Surjection(set, 1 .. n)
  <2> HIDE DEF f
  <2> QED BY <1>7, <1>8, FS_Injection
<1>10. PICK p \in set : f[p] = i
  <2> HIDE DEF f
  <2> QED BY <1>9 DEF Surjection
<1>11. Rank(p, set) + 1 = i /\ Rank(p, set) \in Nat
  BY <1>3, <1>10
<1> QED
  BY <1>2, <1>11

\* One request for each piece.
LEMMA OneEach ==
  ASSUME NEW set \in SUBSET Pieces
  PROVE  /\ Requests(set) \in Seq(Messages) /\ Len(Requests(set)) = Cardinality(set)
         /\ Cardinality(set) \in Nat
         /\ \A i \in 1 .. Cardinality(set) :
              Requests(set)[i].kind = "request" /\ Requests(set)[i].piece \in set
         /\ \A i, j \in 1 .. Cardinality(set) :
              Requests(set)[i].piece = Requests(set)[j].piece => i = j
<1> DEFINE n == Cardinality(set)
           Nth(i) == CHOOSE p \in set : Rank(p, set) = i - 1
<1>1. n \in Nat
  BY PiecesFinite
<1>2. \A i \in 1 .. n : Nth(i) \in set /\ Rank(Nth(i), set) = i - 1
  BY Ranks
<1>3. /\ DOMAIN Requests(set) = 1 .. n
      /\ \A i \in 1 .. n : Requests(set)[i] = Request(Nth(i))
  BY DEF Requests
<1> HIDE DEF Nth, n
<1>4. \A i \in 1 .. n : Requests(set)[i].kind = "request" /\ Requests(set)[i].piece = Nth(i)
  BY <1>3 DEF Request
<1>5. \A i \in 1 .. n : Requests(set)[i] \in Messages
  BY <1>2, <1>3, MessageTypes
<1>6. Requests(set) = [i \in 1 .. n |-> Request(Nth(i))]
  BY DEF Requests, Nth, n
<1>7. Requests(set) \in Seq(Messages) /\ Len(Requests(set)) = n
  BY <1>1, <1>3, <1>5, <1>6
<1>8. \A i, j \in 1 .. n : Requests(set)[i].piece = Requests(set)[j].piece => i = j
  BY <1>2, <1>4
<1> QED
  BY <1>1, <1>2, <1>4, <1>7, <1>8 DEF n

LEMMA Concatenated ==
  ASSUME NEW S, NEW s \in Seq(S), NEW r \in Seq(S), NEW n \in Nat, NEW k \in Nat,
         Len(s) = n, Len(r) = k
  PROVE  /\ s \o r \in Seq(S) /\ Len(s \o r) = n + k /\ DOMAIN (s \o r) = 1 .. n + k
         /\ \A i \in 1 .. n : (s \o r)[i] = s[i]
         /\ \A j \in 1 .. k : (s \o r)[n + j] = r[j]
OBVIOUS

\* Requests for pieces that are asked for nowhere else, made by an end that may.
LEMMA RequestsMade ==
  ASSUME NEW t \in Torrents, NEW d \in DialingPeers, NEW l \in ListeningPeers,
         NEW s \in Seq(Messages), NEW r \in Seq(Messages), NEW set \in SUBSET Pieces,
         OnTheWay(t, s, r), Joined(d, l, s, r),
         set \cap (t.bits \cup t.requested) = {},
         set = {} \/ (d.am_interested /\ ~d.choking)
  PROVE  /\ OnTheWay([t EXCEPT !.requested = @ \cup set], s \o Requests(set), r)
         /\ Joined([d EXCEPT !.pending = @ + Cardinality(set)], l, s \o Requests(set), r)
         /\ s \o Requests(set) \in Seq(Messages)
<1> DEFINE R == Requests(set)
           k == Cardinality(set)
           n == Len(s)
           a == s \o R
           T == [t EXCEPT !.requested = @ \cup set]
           D == [d EXCEPT !.pending = @ + k]
<1>1. /\ R \in Seq(Messages) /\ Len(R) = k /\ k \in Nat
      /\ \A i \in 1 .. k : R[i].kind = "request" /\ R[i].piece \in set
      /\ \A i, j \in 1 .. k : R[i].piece = R[j].piece => i = j
  BY OneEach
<1>2. n \in Nat /\ DOMAIN s = 1 .. n
  OBVIOUS
<1>3. /\ a \in Seq(Messages) /\ Len(a) = n + k /\ DOMAIN a = 1 .. n + k
      /\ \A i \in 1 .. n : a[i] = s[i]
      /\ \A i \in n + 1 .. n + k : i - n \in 1 .. k /\ a[i] = R[i - n]
  <2> HIDE DEF R, k, n
  <2>1. Len(s) = n
    BY DEF n
  <2>2. R \in Seq(Messages) /\ Len(R) = k /\ k \in Nat /\ n \in Nat
    BY <1>1, <1>2
  <2>3. /\ a \in Seq(Messages) /\ Len(a) = n + k /\ DOMAIN a = 1 .. n + k
        /\ \A i \in 1 .. n : a[i] = s[i]
    BY <2>1, <2>2, Concatenated
  <2>4. ASSUME NEW j \in 1 .. k PROVE a[n + j] = R[j]
    <3>1. n + j \in 1 .. n + k /\ n + j > n /\ n + j - n = j
      BY <2>2
    <3> QED BY <2>1, <2>2, <3>1
  <2>5. ASSUME NEW i \in n + 1 .. n + k PROVE i - n \in 1 .. k /\ a[i] = R[i - n]
    <3>1. i - n \in 1 .. k /\ n + (i - n) = i
      BY <2>2
    <3> HIDE DEF a
    <3> QED BY <2>4, <3>1
  <2> QED BY <2>3, <2>5
<1>4. /\ T.bits = t.bits /\ T.requested = t.requested \cup set
      /\ D.up = d.up /\ D.choking = d.choking /\ D.am_interested = d.am_interested
      /\ D.pending = d.pending + k
  BY <1>1 DEF Torrents, DialingPeers
<1> HIDE DEF a, R, k, n, T, D
<1>5. \A i \in n + 1 .. n + k : a[i].kind = "request" /\ a[i].piece \in set
  BY <1>1, <1>3
<1>6. OnTheWay(T, a, r)
  <2>1. \A i \in 1 .. n : s[i].kind = "request" => s[i].piece \notin set
    BY <1>2 DEF OnTheWay, Waited
  <2>2. Once(a, "request")
    <3> SUFFICES ASSUME NEW i \in DOMAIN a, NEW j \in DOMAIN a, a[i].kind = "request",
                        a[j].kind = "request", a[i].piece = a[j].piece
                 PROVE  i = j
      BY DEF Once
    <3>1. CASE i \in 1 .. n /\ j \in 1 .. n
      BY <1>2, <1>3, <3>1 DEF OnTheWay, Once
    <3>2. CASE i \in 1 .. n /\ j \in n + 1 .. n + k
      BY <1>3, <1>5, <2>1, <3>2
    <3>3. CASE j \in 1 .. n /\ i \in n + 1 .. n + k
      BY <1>3, <1>5, <2>1, <3>3
    <3>4. CASE i \in n + 1 .. n + k /\ j \in n + 1 .. n + k
      <4>1. i - n = j - n
        BY <1>1, <1>3, <3>4
      <4> QED BY <1>2, <1>1, <3>4, <4>1
    <3> QED BY <1>1, <1>2, <1>3, <3>1, <3>2, <3>3, <3>4
  <2>3. Waited(T, a, "request")
    <3> SUFFICES ASSUME NEW i \in DOMAIN a, a[i].kind = "request"
                 PROVE  a[i].piece \in T.requested \ T.bits
      BY DEF Waited
    <3>1. CASE i \in 1 .. n
      BY <1>2, <1>3, <1>4, <3>1 DEF OnTheWay, Waited
    <3>2. CASE i \in n + 1 .. n + k
      BY <1>4, <1>5, <3>2
    <3> QED BY <1>1, <1>2, <1>3, <3>1, <3>2
  <2>4. Waited(T, r, "piece")
    BY <1>4 DEF OnTheWay, Waited
  <2>5. ASSUME NEW i \in DOMAIN a, NEW j \in DOMAIN r, a[i].kind = "request", r[j].kind = "piece"
        PROVE  a[i].piece # r[j].piece
    <3>1. CASE i \in 1 .. n
      BY <1>2, <1>3, <2>5, <3>1 DEF OnTheWay
    <3>2. CASE i \in n + 1 .. n + k
      BY <1>5, <2>5, <3>2 DEF OnTheWay, Waited
    <3> QED BY <1>1, <1>2, <1>3, <3>1, <3>2
  <2> QED BY <2>2, <2>3, <2>4, <2>5 DEF OnTheWay
<1>7. l.interested \in BOOLEAN /\ l.am_choking \in BOOLEAN
  BY DEF ListeningPeers
<1>8. ASSUME NEW i \in 0 .. n PROVE Interested(a, i, l.interested) = Interested(s, i, l.interested)
  <2>1. i \in Nat /\ \A j \in 1 .. i : a[j] = s[j]
    BY <1>2, <1>3
  <2> DEFINE before == l.interested
  <2>2. before \in BOOLEAN
    BY <1>7
  <2> HIDE DEF before, a, R, n, k, T
  <2>3. Interested(a, i, before) = Interested(s, i, before)
    BY ONLY <2>1, <2>2, InterestedPrefix
  <2> QED BY <2>3 DEF before
<1>9. ASSUME NEW i \in n .. n + k
      PROVE  Interested(a, i, l.interested) = Interested(a, n, l.interested)
  <2>1. i \in Nat /\ n <= i
        /\ \A j \in n + 1 .. i : a[j].kind \notin {"interested", "not_interested"}
    BY <1>1, <1>2, <1>5
  <2> QED BY <1>2, <1>7, <2>1, InterestedStays
<1>10. Joined(D, l, a, r)
  <2>1. ~Has_kind(a, "handshake")
    BY <1>1, <1>2, <1>3, <1>5 DEF Joined, Has_kind
  <2>2. D.am_interested <=> Interested(a, n + k, l.interested)
    <3>1. n \in 0 .. n /\ n + k \in n .. n + k
      BY <1>1, <1>2
    <3> QED BY <1>4, <1>8, <1>9, <3>1 DEF Joined, n
  <2>3. Asks(l, a)
    <3> SUFFICES ASSUME NEW i \in DOMAIN a, a[i].kind = "request"
                 PROVE  ~l.am_choking /\ Interested(a, i - 1, l.interested)
      BY DEF Asks
    <3>1. CASE i \in 1 .. n
      <4>1. ~l.am_choking /\ Interested(s, i - 1, l.interested)
        BY <1>2, <1>3, <3>1 DEF Joined, Asks
      <4>2. i - 1 \in 0 .. n
        BY <1>2, <3>1
      <4> QED BY <1>8, <4>1, <4>2
    <3>2. CASE i \in n + 1 .. n + k
      <4>1. d.am_interested /\ ~d.choking
        BY <1>5, <3>2
      <4>2. Interested(s, n, l.interested) /\ ~l.am_choking
        BY <4>1 DEF Joined, n
      <4>3. n \in 0 .. n /\ i - 1 \in n .. n + k
        BY <1>1, <1>2, <3>2
      <4> QED BY <1>8, <1>9, <4>2, <4>3
    <3> QED BY <1>1, <1>2, <1>3, <3>1, <3>2
  <2>4. D.pending >= Cardinality(In(a, "request")) + Cardinality(In(r, "piece"))
    <3>1. In(a, "request") \subseteq In(s, "request") \cup set
      BY <1>1, <1>2, <1>3, <1>5 DEF In
    <3>2. In(s, "request") \in SUBSET Pieces /\ In(a, "request") \in SUBSET Pieces
          /\ Cardinality(In(r, "piece")) \in Nat
      BY <1>3, InPieces
    <3>3. /\ Cardinality(In(s, "request") \cup set) <= Cardinality(In(s, "request")) + k
          /\ Cardinality(In(s, "request") \cup set) \in Nat
          /\ Cardinality(In(s, "request")) \in Nat
      <4>1. /\ IsFiniteSet(In(s, "request")) /\ IsFiniteSet(set)
            /\ Cardinality(In(s, "request")) \in Nat
            /\ Cardinality(In(s, "request") \cap set) \in Nat
            /\ Cardinality(In(s, "request") \cup set) \in Nat
        BY <3>2, PiecesFinite
      <4>2. Cardinality(In(s, "request") \cup set)
              = Cardinality(In(s, "request")) + k - Cardinality(In(s, "request") \cap set)
        BY <4>1, FS_Union DEF k
      <4> QED BY <1>1, <4>1, <4>2
    <3>4. /\ Cardinality(In(a, "request")) <= Cardinality(In(s, "request") \cup set)
          /\ Cardinality(In(a, "request")) \in Nat
      <4>1. IsFiniteSet(In(s, "request") \cup set)
        BY <3>2, PiecesFinite
      <4> QED BY <3>1, <3>2, <4>1, FS_Subset, PiecesFinite
    <3>5. d.pending >= Cardinality(In(s, "request")) + Cardinality(In(r, "piece")) /\ d.pending \in Nat
      BY DEF Joined, DialingPeers
    <3> QED BY <1>1, <1>4, <3>2, <3>3, <3>4, <3>5
  <2>5. /\ D.up
        /\ ~l.am_choking <=> ~D.choking \/ Has_kind(r, "unchoke")
    BY <1>4 DEF Joined
  <2> QED BY <1>3, <2>1, <2>2, <2>3, <2>4, <2>5 DEF Joined
<1> QED
  BY <1>3, <1>6, <1>10 DEF a, R, T, D, k

-----------------------------------------------------------------------------
(* A message more, or less *)

LEMMA AppendPositions ==
  ASSUME NEW S, NEW s \in Seq(S), NEW m \in S
  PROVE  /\ Append(s, m) \in Seq(S) /\ Len(s) \in Nat /\ Len(Append(s, m)) = Len(s) + 1
         /\ DOMAIN s = 1 .. Len(s) /\ DOMAIN Append(s, m) = 1 .. Len(s) + 1
         /\ \A i \in DOMAIN s : Append(s, m)[i] = s[i]
         /\ Append(s, m)[Len(s) + 1] = m
OBVIOUS

LEMMA HasAppend ==
  ASSUME NEW s \in Seq(Messages), NEW m \in Messages, NEW kind
  PROVE  Has_kind(Append(s, m), kind) <=> Has_kind(s, kind) \/ m.kind = kind
<1> DEFINE a == Append(s, m)
<1>1. /\ DOMAIN a = DOMAIN s \cup {Len(s) + 1}
      /\ \A i \in DOMAIN s : a[i] = s[i]
      /\ a[Len(s) + 1] = m
  OBVIOUS
<1> HIDE DEF a
<1>2. Has_kind(a, kind) <=> Has_kind(s, kind) \/ m.kind = kind
  BY <1>1 DEF Has_kind
<1> QED BY <1>2 DEF a

LEMMA HasTail ==
  ASSUME NEW s \in Seq(Messages), s # <<>>, NEW kind
  PROVE  /\ Has_kind(Tail(s), kind) => Has_kind(s, kind)
         /\ Head(s).kind # kind => (Has_kind(Tail(s), kind) <=> Has_kind(s, kind))
         /\ Head(s).kind = kind => Has_kind(s, kind)
<1> DEFINE a == Tail(s)
           n == Len(s)
<1>1. /\ n \in Nat \ {0} /\ DOMAIN s = 1 .. n /\ DOMAIN a = 1 .. n - 1
      /\ Head(s) = s[1]
      /\ \A i \in DOMAIN a : a[i] = s[i + 1]
  BY TailPositions
<1> HIDE DEF a, n
<1>2. ASSUME NEW i \in DOMAIN a PROVE i + 1 \in DOMAIN s /\ a[i] = s[i + 1]
  BY <1>1
<1>3. ASSUME NEW i \in DOMAIN s, i # 1 PROVE i - 1 \in DOMAIN a /\ a[i - 1] = s[i]
  <2>1. i - 1 \in DOMAIN a /\ (i - 1) + 1 = i
    BY <1>1, <1>3
  <2> QED BY <1>1, <2>1
<1>4. Has_kind(a, kind) => Has_kind(s, kind)
  BY <1>2 DEF Has_kind
<1>5. ASSUME Head(s).kind # kind, Has_kind(s, kind) PROVE Has_kind(a, kind)
  <2>1. PICK i \in DOMAIN s : s[i].kind = kind
    BY <1>5 DEF Has_kind
  <2>2. i # 1
    BY <1>1, <1>5, <2>1
  <2> QED BY <1>3, <2>1, <2>2 DEF Has_kind
<1>6. Head(s).kind = kind => Has_kind(s, kind)
  BY <1>1 DEF Has_kind
<1> QED BY <1>4, <1>5, <1>6 DEF a

LEMMA WayShorter ==
  ASSUME NEW t \in Torrents, NEW s \in Seq(Messages), NEW r \in Seq(Messages),
         OnTheWay(t, s, r)
  PROVE  /\ s # <<>> => OnTheWay(t, Tail(s), r)
         /\ r # <<>> => OnTheWay(t, s, Tail(r))
<1>1. ASSUME NEW q \in Seq(Messages), q # <<>>, NEW i \in DOMAIN Tail(q)
      PROVE  i + 1 \in DOMAIN q /\ Tail(q)[i] = q[i + 1]
  BY <1>1, TailPositions
<1>2. ASSUME s # <<>> PROVE OnTheWay(t, Tail(s), r)
  <2>1. Once(Tail(s), "request")
    BY <1>2, OnceTail DEF OnTheWay
  <2>2. \A i \in DOMAIN Tail(s) : i + 1 \in DOMAIN s /\ Tail(s)[i] = s[i + 1]
    BY <1>1, <1>2
  <2> QED BY <2>1, <2>2 DEF OnTheWay, Waited
<1>3. ASSUME r # <<>> PROVE OnTheWay(t, s, Tail(r))
  <2>1. Once(Tail(r), "piece")
    BY <1>3, OnceTail DEF OnTheWay
  <2>2. \A i \in DOMAIN Tail(r) : i + 1 \in DOMAIN r /\ Tail(r)[i] = r[i + 1]
    BY <1>1, <1>3
  <2> QED BY <2>1, <2>2 DEF OnTheWay, Waited
<1> QED BY <1>2, <1>3

LEMMA WayLonger ==
  ASSUME NEW t \in Torrents, NEW s \in Seq(Messages), NEW r \in Seq(Messages),
         OnTheWay(t, s, r), NEW m \in Messages
  PROVE  /\ m.kind # "request" => OnTheWay(t, Append(s, m), r)
         /\ m.kind # "piece" => OnTheWay(t, s, Append(r, m))
<1>1. ASSUME NEW q \in Seq(Messages), NEW i \in DOMAIN Append(q, m)
      PROVE  IF i \in DOMAIN q THEN Append(q, m)[i] = q[i] ELSE Append(q, m)[i] = m
  BY AppendPositions
<1>2. ASSUME m.kind # "request" PROVE OnTheWay(t, Append(s, m), r)
  <2>1. Once(Append(s, m), "request")
    BY <1>2, OnceAppend DEF OnTheWay
  <2> DEFINE a == Append(s, m)
  <2>2. \A i \in DOMAIN a : IF i \in DOMAIN s THEN a[i] = s[i] ELSE a[i] = m
    BY <1>1
  <2> HIDE DEF a
  <2>3. Once(a, "request") => OnTheWay(t, a, r)
    BY <1>2, <2>2 DEF OnTheWay, Waited
  <2> QED BY <2>1, <2>3 DEF a
<1>3. ASSUME m.kind # "piece" PROVE OnTheWay(t, s, Append(r, m))
  <2>1. Once(Append(r, m), "piece")
    BY <1>3, OnceAppend DEF OnTheWay
  <2> DEFINE a == Append(r, m)
  <2>2. \A i \in DOMAIN a : IF i \in DOMAIN r THEN a[i] = r[i] ELSE a[i] = m
    BY <1>1
  <2> HIDE DEF a
  <2>3. Once(a, "piece") => OnTheWay(t, s, a)
    BY <1>3, <2>2 DEF OnTheWay, Waited
  <2> QED BY <2>1, <2>3 DEF a
<1> QED BY <1>2, <1>3

\* The dialing end has parsed a message.
LEMMA Parsed ==
  ASSUME NEW d \in DialingPeers, NEW l \in ListeningPeers,
         NEW s \in Seq(Messages), NEW r \in Seq(Messages), r # <<>>, Once(r, "piece"),
         Joined(d, l, s, r)
  PROVE  /\ Head(r).kind \notin {"unchoke", "piece"} => Joined(d, l, s, Tail(r))
         /\ Head(r).kind = "unchoke" => Joined([d EXCEPT !.choking = FALSE], l, s, Tail(r))
         /\ Head(r).kind = "piece" =>
              Joined([d EXCEPT !.pending = IF @ > 0 THEN @ - 1 ELSE 0], l, s, Tail(r))
<1> DEFINE q == Tail(r)
           A == Cardinality(In(s, "request"))
           B == Cardinality(In(r, "piece"))
           C == Cardinality(In(q, "piece"))
<1>1. A \in Nat /\ B \in Nat /\ C \in Nat /\ d.pending \in Nat /\ q \in Seq(Messages)
  <2>1. q \in Seq(Messages)
    BY TailPositions
  <2> QED BY <2>1, InPieces DEF DialingPeers
<1>2. Head(r).kind # "piece" => C = B
  BY InTail
<1>3. Head(r).kind = "piece" => C = B - 1 /\ B > 0
  <2> SUFFICES ASSUME Head(r).kind = "piece" PROVE C = B - 1 /\ B > 0
    OBVIOUS
  <2>1. In(q, "piece") = In(r, "piece") \ {Head(r).piece} /\ Head(r).piece \in In(r, "piece")
    BY InTail
  <2>2. IsFiniteSet(In(r, "piece"))
    BY InPieces, PiecesFinite
  <2>3. C = B - 1
    BY <2>1, <2>2, FS_RemoveElement
  <2> HIDE DEF A, B, C
  <2> QED BY <1>1, <2>3
<1>4. d.pending >= A + B
  BY DEF Joined
<1> HIDE DEF q, A, B, C
<1>5. ASSUME Head(r).kind \notin {"unchoke", "piece"} PROVE Joined(d, l, s, q)
  <2>1. Has_kind(r, "unchoke") <=> Has_kind(q, "unchoke")
    BY <1>5, HasTail DEF q
  <2>2. d.pending >= A + C
    BY <1>1, <1>2, <1>4, <1>5
  <2> QED BY <2>1, <2>2 DEF Joined, A, C
<1>6. ASSUME Head(r).kind = "unchoke" PROVE Joined([d EXCEPT !.choking = FALSE], l, s, q)
  <2> DEFINE D == [d EXCEPT !.choking = FALSE]
  <2>1. /\ ~D.choking /\ D.up = d.up /\ D.am_interested = d.am_interested
        /\ D.pending = d.pending
    BY DEF DialingPeers
  <2> HIDE DEF D
  <2>2. Has_kind(r, "unchoke")
    BY <1>6, HasTail
  <2>3. D.pending >= A + C
    BY <1>1, <1>2, <1>4, <1>6, <2>1
  <2>4. Joined(D, l, s, q)
    BY <2>1, <2>2, <2>3 DEF Joined, A, C
  <2> QED BY <2>4 DEF D
<1>7. ASSUME Head(r).kind = "piece"
      PROVE  Joined([d EXCEPT !.pending = IF @ > 0 THEN @ - 1 ELSE 0], l, s, q)
  <2> DEFINE D == [d EXCEPT !.pending = IF @ > 0 THEN @ - 1 ELSE 0]
  <2>1. /\ D.choking = d.choking /\ D.up = d.up /\ D.am_interested = d.am_interested
        /\ D.pending = IF d.pending > 0 THEN d.pending - 1 ELSE 0
    BY DEF DialingPeers
  <2> HIDE DEF D
  <2>2. Has_kind(r, "unchoke") <=> Has_kind(q, "unchoke")
    BY <1>7, HasTail DEF q
  <2>3. D.pending >= A + C
    BY <1>1, <1>3, <1>4, <1>7, <2>1
  <2>4. Joined(D, l, s, q)
    BY <2>1, <2>2, <2>3 DEF Joined, A, C
  <2> QED BY <2>4 DEF D
<1> QED BY <1>5, <1>6, <1>7 DEF q

\* The dialing end says what it has, or whether it is interested.
LEMMA Said ==
  ASSUME NEW d \in DialingPeers, NEW l \in ListeningPeers,
         NEW s \in Seq(Messages), NEW r \in Seq(Messages), Joined(d, l, s, r),
         NEW m \in Messages, m.kind \in {"bitfield", "interested", "not_interested"},
         NEW D \in DialingPeers, D.up = d.up, D.choking = d.choking, D.pending = d.pending,
         D.am_interested <=> \/ m.kind = "interested"
                             \/ m.kind # "not_interested" /\ d.am_interested
  PROVE  Joined(D, l, Append(s, m), r)
<1> DEFINE a == Append(s, m)
           n == Len(s)
           before == l.interested
<1>1. /\ a \in Seq(Messages) /\ n \in Nat /\ Len(a) = n + 1
      /\ DOMAIN s = 1 .. n /\ DOMAIN a = 1 .. n + 1
      /\ \A i \in 1 .. n : a[i] = s[i]
      /\ a[n + 1] = m
  BY AppendPositions
<1>2. before \in BOOLEAN
  BY DEF ListeningPeers
<1>3. \A i \in 0 .. n : Interested(a, i, before) = Interested(s, i, before)
  BY <1>2, InterestedAppend
<1>4. Interested(a, n + 1, before)
        <=> \/ m.kind = "interested"
            \/ m.kind # "not_interested" /\ Interested(s, n, before)
  BY <1>2, InterestedAppend
<1>5. In(a, "request") = In(s, "request")
  <2>1. In(a, "request") = In(s, "request")
                           \cup (IF m.kind = "request" THEN {m.piece} ELSE {})
    BY InAppend
  <2> HIDE DEF a
  <2> QED BY <2>1
<1>6. ~Has_kind(a, "handshake")
  BY HasAppend DEF Joined
<1>7. Asks(l, s) /\ (d.am_interested <=> Interested(s, n, before))
  BY DEF Joined
<1> HIDE DEF a, n
<1>8. Asks(l, a)
  <2> SUFFICES ASSUME NEW i \in DOMAIN a, a[i].kind = "request"
               PROVE  ~l.am_choking /\ Interested(a, i - 1, before)
    BY DEF Asks
  <2>1. i \in DOMAIN s /\ s[i].kind = "request" /\ i - 1 \in 0 .. n
    BY <1>1
  <2>2. ~l.am_choking /\ Interested(s, i - 1, before)
    BY <1>7, <2>1 DEF Asks
  <2> HIDE DEF before
  <2> QED BY <1>3, <2>1, <2>2
<1>9. D.am_interested <=> Interested(a, n + 1, before)
  <2> HIDE DEF before
  <2> QED BY <1>4, <1>7
<1>10. Joined(D, l, a, r)
  BY <1>1, <1>5, <1>6, <1>8, <1>9 DEF Joined
<1> QED BY <1>10 DEF a

\* The listening end has taken a message from its stream.
LEMMA Heard ==
  ASSUME NEW d \in DialingPeers, NEW l \in ListeningPeers,
         NEW s \in Seq(Messages), NEW r \in Seq(Messages), s # <<>>, Once(s, "request"),
         Joined(d, l, s, r),
         NEW L \in ListeningPeers, L.am_choking = l.am_choking,
         L.interested <=> \/ s[1].kind = "interested"
                          \/ l.interested /\ s[1].kind # "not_interested"
  PROVE  Joined(d, L, Tail(s), r)
<1> DEFINE a == Tail(s)
           n == Len(s)
           before == l.interested
           after == L.interested
<1>1. /\ a \in Seq(Messages) /\ n \in Nat \ {0} /\ Len(a) = n - 1
      /\ DOMAIN s = 1 .. n /\ DOMAIN a = 1 .. n - 1
      /\ \A i \in DOMAIN a : a[i] = s[i + 1]
  BY TailPositions
<1>2. before \in BOOLEAN /\ after \in BOOLEAN
  BY DEF ListeningPeers
<1>3. \A i \in 0 .. n - 1 : Interested(a, i, after) = Interested(s, i + 1, before)
  BY <1>2, InterestedTail
<1>4. ~Has_kind(a, "handshake")
  BY HasTail DEF Joined
<1>5. Asks(l, s) /\ (d.am_interested <=> Interested(s, n, before))
  BY DEF Joined
<1>6. /\ Cardinality(In(a, "request")) <= Cardinality(In(s, "request"))
      /\ Cardinality(In(a, "request")) \in Nat /\ Cardinality(In(s, "request")) \in Nat
      /\ Cardinality(In(r, "piece")) \in Nat /\ d.pending \in Nat
  <2>1. In(s, "request") \in SUBSET Pieces /\ a \in Seq(Messages)
    BY <1>1, InPieces
  <2>2. In(a, "request") \subseteq In(s, "request")
    BY InTail
  <2> HIDE DEF a
  <2> QED BY <2>1, <2>2, PiecesFinite, InPieces, FS_Subset DEF DialingPeers
<1> HIDE DEF a, n
<1>7. Asks(L, a)
  <2> SUFFICES ASSUME NEW i \in DOMAIN a, a[i].kind = "request"
               PROVE  ~L.am_choking /\ Interested(a, i - 1, after)
    BY DEF Asks
  <2>1. i + 1 \in DOMAIN s /\ s[i + 1].kind = "request" /\ i - 1 \in 0 .. n - 1
        /\ (i + 1) - 1 = (i - 1) + 1
    BY <1>1
  <2>2. ~l.am_choking /\ Interested(s, (i + 1) - 1, before)
    BY <1>5, <2>1 DEF Asks
  <2>3. ~L.am_choking
    BY <2>2
  <2> HIDE DEF before, after
  <2> QED BY <1>3, <2>1, <2>2, <2>3
<1>8. d.am_interested <=> Interested(a, n - 1, after)
  <2>1. n - 1 \in 0 .. n - 1 /\ (n - 1) + 1 = n
    BY <1>1
  <2> HIDE DEF before, after
  <2> QED BY <1>3, <1>5, <2>1
<1>9. d.pending >= Cardinality(In(a, "request")) + Cardinality(In(r, "piece"))
  <2>1. d.pending >= Cardinality(In(s, "request")) + Cardinality(In(r, "piece"))
    BY DEF Joined
  <2> QED BY <1>6, <2>1
<1>10. Joined(d, L, a, r)
  BY <1>1, <1>4, <1>7, <1>8, <1>9 DEF Joined
<1> QED BY <1>10 DEF a

\* It unchokes the other end.
LEMMA Unchoked ==
  ASSUME NEW d \in DialingPeers, NEW l \in ListeningPeers,
         NEW s \in Seq(Messages), NEW r \in Seq(Messages), Joined(d, l, s, r)
  PROVE  Joined(d, [l EXCEPT !.am_choking = FALSE], s, Append(r, Message("unchoke")))
<1> DEFINE L == [l EXCEPT !.am_choking = FALSE]
           m == Message("unchoke")
           q == Append(r, m)
<1>1. m \in Messages /\ m.kind = "unchoke"
  BY MessageTypes DEF Message
<1>2. L.am_choking = FALSE /\ L.interested = l.interested
  BY DEF ListeningPeers
<1>3. Has_kind(q, "unchoke")
  BY <1>1, HasAppend
<1>4. In(q, "piece") = In(r, "piece")
  <2>1. In(q, "piece") = In(r, "piece") \cup (IF m.kind = "piece" THEN {m.piece} ELSE {})
    BY <1>1, InAppend
  <2> HIDE DEF q, m
  <2> QED BY <1>1, <2>1
<1> HIDE DEF q, L, m
<1>5. Joined(d, L, s, q)
  BY <1>2, <1>3, <1>4 DEF Joined, Asks
<1> QED BY <1>5 DEF L, q, m

\* It answers a request with a block.
LEMMA Answers ==
  ASSUME NEW t \in Torrents, NEW d \in DialingPeers, NEW l \in ListeningPeers,
         NEW s \in Seq(Messages), NEW r \in Seq(Messages), s # <<>>,
         OnTheWay(t, s, r), Joined(d, l, s, r), s[1].kind = "request", NEW good \in BOOLEAN
  PROVE  /\ OnTheWay(t, Tail(s), Append(r, Block(s[1].piece, good)))
         /\ Joined(d, l, Tail(s), Append(r, Block(s[1].piece, good)))
         /\ Block(s[1].piece, good) \in Messages
<1> DEFINE p == s[1].piece
           m == Block(p, good)
           a == Tail(s)
           q == Append(r, m)
<1>1. /\ a \in Seq(Messages) /\ Len(s) \in Nat \ {0}
      /\ DOMAIN s = 1 .. Len(s) /\ DOMAIN a = 1 .. Len(s) - 1
      /\ Head(s) = s[1] /\ s[1] \in Messages
      /\ \A i \in DOMAIN a : a[i] = s[i + 1]
  BY TailPositions
<1>2. p \in Pieces
  BY <1>1, Fields
<1>3. m \in Messages /\ m.kind = "piece" /\ m.piece = p
  BY <1>2, MessageTypes DEF Block
<1>4. Once(s, "request") /\ Once(r, "piece")
  BY DEF OnTheWay
<1>5. In(a, "request") = In(s, "request") \ {p} /\ p \in In(s, "request")
  BY <1>1, <1>4, InTail
<1>6. p \notin In(r, "piece")
  <2>1. 1 \in DOMAIN s
    BY <1>1
  <2> QED BY <2>1 DEF OnTheWay, In
<1>7. In(q, "piece") = In(r, "piece") \cup {p}
  <2>1. In(q, "piece") = In(r, "piece") \cup (IF m.kind = "piece" THEN {m.piece} ELSE {})
    BY <1>3, InAppend
  <2> HIDE DEF q, m
  <2> QED BY <1>3, <2>1
<1>8. /\ Cardinality(In(a, "request")) = Cardinality(In(s, "request")) - 1
      /\ Cardinality(In(q, "piece")) = Cardinality(In(r, "piece")) + 1
      /\ Cardinality(In(s, "request")) \in Nat /\ Cardinality(In(r, "piece")) \in Nat
  <2>1. /\ IsFiniteSet(In(s, "request")) /\ Cardinality(In(s, "request")) \in Nat
        /\ IsFiniteSet(In(r, "piece")) /\ Cardinality(In(r, "piece")) \in Nat
    BY InPieces, PiecesFinite
  <2>2. Cardinality(In(s, "request") \ {p}) = Cardinality(In(s, "request")) - 1
    <3>1. p \in In(s, "request")
      BY <1>5
    <3> HIDE DEF a, q, m, p
    <3> QED BY <3>1, <2>1, FS_RemoveElement
  <2>3. Cardinality(In(r, "piece") \cup {p}) = Cardinality(In(r, "piece")) + 1
    BY <1>6, <2>1, FS_AddElement
  <2> HIDE DEF a, q
  <2> QED BY <1>5, <1>7, <2>1, <2>2, <2>3
<1>9. OnTheWay(t, a, r)
  BY WayShorter
<1>10. Once(q, "piece")
  BY <1>3, <1>4, <1>6, OnceAppend
<1>11. \A i \in DOMAIN q : IF i \in DOMAIN r THEN q[i] = r[i] ELSE q[i] = m
  BY <1>3, AppendPositions
<1>12. \A i \in DOMAIN a : a[i].kind = "request" => a[i].piece # p
  BY <1>5 DEF In
<1>13. p \in t.requested \ t.bits
  <2>1. 1 \in DOMAIN s
    BY <1>1
  <2> QED BY <2>1 DEF OnTheWay, Waited
<1>14. OnTheWay(t, a, q)
  <2> HIDE DEF a, q, m, p
  <2>1. Once(a, "request") /\ Waited(t, a, "request")
    BY <1>9 DEF OnTheWay
  <2>2. Waited(t, q, "piece")
    BY <1>3, <1>9, <1>11, <1>13 DEF OnTheWay, Waited
  <2>3. \A i \in DOMAIN a, j \in DOMAIN q :
          a[i].kind = "request" /\ q[j].kind = "piece" => a[i].piece # q[j].piece
    BY <1>3, <1>9, <1>11, <1>12 DEF OnTheWay
  <2> QED BY <1>10, <2>1, <2>2, <2>3 DEF OnTheWay
<1>15. Joined(d, l, a, r)
  <2>1. l.interested <=> \/ s[1].kind = "interested"
                         \/ l.interested /\ s[1].kind # "not_interested"
    OBVIOUS
  <2> QED BY <1>4, <2>1, Heard
<1>16. Has_kind(q, "unchoke") <=> Has_kind(r, "unchoke")
  BY <1>3, HasAppend
<1>17. d.pending >= Cardinality(In(a, "request")) + Cardinality(In(q, "piece"))
  <2>1. d.pending >= Cardinality(In(s, "request")) + Cardinality(In(r, "piece")) /\ d.pending \in Nat
    BY DEF Joined, DialingPeers
  <2> HIDE DEF a, q
  <2> QED BY <1>8, <2>1
<1>18. Joined(d, l, a, q)
  <2> HIDE DEF a, q
  <2> QED BY <1>15, <1>16, <1>17 DEF Joined
<1> QED BY <1>3, <1>14, <1>18 DEF a, q, m, p

-----------------------------------------------------------------------------
(* What a step does to one connection *)

\* The pieces under way are still waited for by what the Torrent has become.
LEMMA WayTorrent ==
  ASSUME NEW t, NEW T, NEW s, NEW r, OnTheWay(t, s, r),
         \A p \in In(s, "request") \cup In(r, "piece") : p \in T.requested \ T.bits
  PROVE  OnTheWay(T, s, r)
<1>1. Waited(T, s, "request") /\ Waited(T, r, "piece")
  BY DEF Waited, In
<1> QED BY <1>1 DEF OnTheWay

LEMMA WayWaited ==
  ASSUME NEW t, NEW s, NEW r, OnTheWay(t, s, r)
  PROVE  \A p \in In(s, "request") \cup In(r, "piece") : p \in t.requested \ t.bits
BY DEF OnTheWay, Waited, In

LEMMA Empty ==
  /\ <<>> \in Seq(Messages)
  /\ \A kind : In(<<>>, kind) = {} /\ ~Has_kind(<<>>, kind) /\ Once(<<>>, kind)
  /\ \A t, kind : Waited(t, <<>>, kind)
  /\ \A before \in BOOLEAN : Interested(<<>>, 0, before) <=> before
  /\ Cardinality({}) = 0
<1>1. DOMAIN <<>> = {} /\ <<>> \in Seq(Messages)
  OBVIOUS
<1>2. Cardinality({}) = 0
  BY FS_EmptySet
<1>3. ASSUME NEW before \in BOOLEAN PROVE Interested(<<>>, 0, before) <=> before
  <2>1. 0 + 1 .. 0 = {} /\ 1 .. 0 = {}
    OBVIOUS
  <2> QED BY <2>1 DEF Interested
<1> QED BY <1>1, <1>2, <1>3 DEF In, Has_kind, Once, Waited

\* A step of the client that dialed, and of the one it dialed, changes their connection
\* and the Torrent of the first, nothing else.
LEMMA OneConnection ==
  ASSUME IndInv, NEW c \in Dialers,
         NEW t \in Torrents, NEW d \in DialingPeers, NEW l \in ListeningPeers,
         NEW s \in Seq(Messages), NEW r \in Seq(Messages),
         client' = [client EXCEPT ![c] = t], dialing' = [dialing EXCEPT ![c] = d],
         listening' = [listening EXCEPT ![c] = l],
         to' = [to EXCEPT ![c] = s], from' = [from EXCEPT ![c] = r],
         trouble' \in Nat, Consistent(t), Connected(t, d, l, s, r)
  PROVE  IndInv'
<1>1. c \in Clients
  BY SwarmAssumption
<1>2. Typed'
  BY <1>1 DEF IndInv, Typed
<1>3. \A k \in Clients : client'[k] = IF k = c THEN t ELSE client[k]
  BY <1>1 DEF IndInv, Typed
<1>4. \A k \in Clients : Consistent(client'[k])
  BY <1>3 DEF IndInv
<1>5. ASSUME NEW k \in Dialers
      PROVE  Connected(client'[k], dialing'[k], listening'[k], to'[k], from'[k])
  <2>1. /\ client'[k] = IF k = c THEN t ELSE client[k]
        /\ dialing'[k] = IF k = c THEN d ELSE dialing[k]
        /\ listening'[k] = IF k = c THEN l ELSE listening[k]
        /\ to'[k] = IF k = c THEN s ELSE to[k]
        /\ from'[k] = IF k = c THEN r ELSE from[k]
    BY <1>3, SwarmAssumption DEF IndInv, Typed
  <2> QED BY <2>1 DEF IndInv
<1> QED BY <1>2, <1>4, <1>5 DEF IndInv, Consistent, Connected, OnTheWay, Once, Waited, Joined,
                            Asks, Apart, Interested, Has_kind, In

\* What holds of the connection of c before a step.
LEMMA Before ==
  ASSUME IndInv, NEW c \in Dialers
  PROVE  /\ c \in Clients /\ client[c] \in Torrents /\ dialing[c] \in DialingPeers
         /\ listening[c] \in ListeningPeers
         /\ to[c] \in Seq(Messages) /\ from[c] \in Seq(Messages)
         /\ trouble \in Nat
         /\ Consistent(client[c])
         /\ Connected(client[c], dialing[c], listening[c], to[c], from[c])
         /\ client = [client EXCEPT ![c] = client[c]]
         /\ dialing = [dialing EXCEPT ![c] = dialing[c]]
         /\ listening = [listening EXCEPT ![c] = listening[c]]
         /\ to = [to EXCEPT ![c] = to[c]] /\ from = [from EXCEPT ![c] = from[c]]
BY SwarmAssumption DEF IndInv, Typed

-----------------------------------------------------------------------------
(* Connecting *)

LEMMA KeptByHandshake ==
  ASSUME IndInv, NEW c \in Dialers, handshake(c), trouble' \in Nat
  PROVE  IndInv'
<1> DEFINE t == client[c]
           s == <<Message("handshake")>>
           l == [listening[c] EXCEPT !.there = FALSE]
<1>1. /\ t \in Torrents /\ Consistent(t) /\ ~t.deciding
      /\ NewDialing \in DialingPeers /\ l \in ListeningPeers /\ ~l.there
  BY Before DEF handshake, Free, NewDialing, DialingPeers, ListeningPeers
<1>2. s \in Seq(Messages) /\ Len(s) = 1 /\ DOMAIN s = {1} /\ s[1].kind = "handshake"
  BY MessageTypes DEF Message
<1>3. OnTheWay(t, s, <<>>)
  BY <1>2, Empty DEF OnTheWay, Once, Waited
<1>4. Connected(t, NewDialing, l, s, <<>>)
  BY <1>1, <1>3 DEF Connected, Apart, NewDialing
<1>5. /\ client' = [client EXCEPT ![c] = t] /\ dialing' = [dialing EXCEPT ![c] = NewDialing]
      /\ listening' = [listening EXCEPT ![c] = l]
      /\ to' = [to EXCEPT ![c] = s] /\ from' = [from EXCEPT ![c] = <<>>]
  BY Before DEF handshake
<1> HIDE DEF t, s, l
<1> QED BY <1>1, <1>2, <1>4, <1>5, Empty, OneConnection

LEMMA KeptByDisconnected ==
  ASSUME IndInv, NEW c \in Dialers, disconnected(c)
  PROVE  IndInv'
<1> DEFINE t == client[c]
           d == [dialing[c] EXCEPT !.up = FALSE]
           l == [listening[c] EXCEPT !.there = FALSE]
<1>1. /\ t \in Torrents /\ Consistent(t) /\ ~t.deciding
      /\ d \in DialingPeers /\ ~d.up /\ l \in ListeningPeers /\ ~l.there
      /\ trouble' \in Nat
  <2>1. trouble' \in Nat
    BY Before DEF disconnected, Trouble
  <2> QED BY <2>1, Before DEF disconnected, Free, DialingPeers, ListeningPeers
<1>2. OnTheWay(t, <<>>, <<>>)
  BY Empty DEF OnTheWay
<1>3. Connected(t, d, l, <<>>, <<>>)
  BY <1>1, <1>2 DEF Connected, Apart
<1>4. /\ client' = [client EXCEPT ![c] = t] /\ dialing' = [dialing EXCEPT ![c] = d]
      /\ listening' = [listening EXCEPT ![c] = l]
      /\ to' = [to EXCEPT ![c] = <<>>] /\ from' = [from EXCEPT ![c] = <<>>]
  BY Before DEF disconnected
<1> HIDE DEF t, d, l
<1> QED BY <1>1, <1>3, <1>4, Empty, OneConnection

LEMMA PutBehind ==
  ASSUME NEW S, NEW g \in Seq(S), NEW q \in Seq(S), Len(g) = 1
  PROVE  /\ g \o q \in Seq(S) /\ DOMAIN (g \o q) = 1 .. 1 + Len(q)
         /\ (g \o q)[1] = g[1]
         /\ \A j \in 1 .. Len(q) : (g \o q)[1 + j] = q[j]
<1> DEFINE n == Len(g)
<1>1. n \in Nat /\ Len(q) \in Nat
  OBVIOUS
<1>2. Len(g) = n
  OBVIOUS
<1>3. n = 1
  OBVIOUS
<1> HIDE DEF n
<1>4. /\ g \o q \in Seq(S) /\ DOMAIN (g \o q) = 1 .. n + Len(q)
      /\ \A i \in 1 .. n : (g \o q)[i] = g[i]
      /\ \A j \in 1 .. Len(q) : (g \o q)[n + j] = q[j]
  BY <1>1, <1>2, Concatenated
<1> QED BY <1>3, <1>4

\* The remote accepts, which it has not done before: its handshake, and what it has, are
\* the first messages.
LEMMA KeptByAccept ==
  ASSUME IndInv, NEW c \in Dialers, accept(c)
  PROVE  IndInv'
<1> DEFINE t == client[c]
           d == dialing[c]
           s == to[c]
           r == from[c] \o <<Message("handshake")>> \o Report(Dials[c])
<1>1. /\ t \in Torrents /\ Consistent(t) /\ d \in DialingPeers /\ trouble \in Nat
      /\ s \in Seq(Messages) /\ from[c] \in Seq(Messages)
      /\ Connected(t, d, listening[c], s, from[c])
      /\ s # <<>> /\ Head(s).kind = "handshake"
  BY Before DEF accept
<1>2. ~listening[c].there
  <2>1. Has_kind(s, "handshake")
    BY <1>1, HasTail
  <2> HIDE DEF s, d, t
  <2> QED BY <1>1, <2>1 DEF Connected, Joined
<1>3. /\ from[c] = <<>> /\ s = <<Message("handshake")>> /\ d.up /\ ~d.am_interested
      /\ d.choking
  BY <1>1, <1>2 DEF Connected, Apart
<1>4. Tail(s) = <<>>
  BY <1>3
<1>5. /\ r \in Seq(Messages)
      /\ \A i \in DOMAIN r : r[i].kind \in {"handshake", "bitfield"}
  <2> DEFINE h == Message("handshake")
             b == Bitfield(client[Dials[c]].bits)
  <2>1. h \in Messages /\ b \in Messages /\ h.kind = "handshake" /\ b.kind = "bitfield"
    <3>1. client[Dials[c]].bits \in SUBSET Pieces
      BY SwarmAssumption DEF IndInv, Typed, Torrents
    <3> QED BY <3>1, MessageTypes DEF Message, Bitfield
  <2>2. r = <<h>> \o Report(Dials[c])
    BY <1>3
  <2>3. PICK k \in {0, 1} : Report(Dials[c]) = IF k = 0 THEN <<>> ELSE <<b>>
    BY DEF Report
  <2> DEFINE q == Report(Dials[c])
  <2> HIDE DEF h, b, r, q
  <2>4. q \in Seq(Messages) /\ Len(q) = k /\ (k = 1 => q[1] = b)
    BY <2>1, <2>3 DEF q
  <2> DEFINE g == <<h>>
  <2>5. g \in Seq(Messages) /\ Len(g) = 1 /\ g[1] = h
    BY <2>1
  <2>8. r = g \o q
    BY <2>2 DEF q
  <2> HIDE DEF g
  <2>9. /\ g \o q \in Seq(Messages) /\ DOMAIN (g \o q) = 1 .. 1 + Len(q)
        /\ (g \o q)[1] = g[1]
        /\ \A j \in 1 .. Len(q) : (g \o q)[1 + j] = q[j]
    BY <2>4, <2>5, PutBehind
  <2>6. /\ r \in Seq(Messages) /\ DOMAIN r = 1 .. 1 + k
        /\ r[1] = g[1]
        /\ \A j \in 1 .. k : r[1 + j] = q[j]
    BY <2>4, <2>8, <2>9
  <2>7. r[1] = h /\ (k = 1 => r[2] = b)
    BY <2>4, <2>5, <2>6
  <2> QED BY <2>1, <2>6, <2>7
<1>6. NewListening \in ListeningPeers
  BY DEF NewListening, ListeningPeers
<1>7. /\ client' = [client EXCEPT ![c] = t] /\ dialing' = [dialing EXCEPT ![c] = d]
      /\ listening' = [listening EXCEPT ![c] = NewListening]
      /\ to' = [to EXCEPT ![c] = <<>>] /\ from' = [from EXCEPT ![c] = r]
      /\ trouble' \in Nat
  BY <1>1, <1>4, Before DEF accept
<1> HIDE DEF t, d, s, r
<1>8. OnTheWay(t, <<>>, r)
  BY <1>5, Empty DEF OnTheWay, Once, Waited
<1>9. In(r, "piece") = {} /\ ~Has_kind(r, "unchoke")
  BY <1>5 DEF In, Has_kind
<1>10. Joined(d, NewListening, <<>>, r)
  <2> DEFINE l == NewListening
             e == <<>>
  <2>1. /\ d.pending \in Nat /\ Len(e) = 0 /\ l.interested = FALSE /\ l.am_choking
        /\ In(e, "request") = {} /\ ~Has_kind(e, "handshake") /\ Cardinality({}) = 0
    BY <1>1, Empty DEF DialingPeers, NewListening
  <2>2. ~Interested(e, 0, FALSE)
    BY Empty
  <2>3. Asks(l, e)
    BY DEF Asks
  <2> HIDE DEF l, e
  <2>4. d.pending >= Cardinality(In(e, "request")) + Cardinality(In(r, "piece"))
    <3>1. Cardinality(In(e, "request")) = 0 /\ Cardinality(In(r, "piece")) = 0
      BY <1>9, <2>1, Zenon
    <3> QED BY <2>1, <3>1
  <2>5. Joined(d, l, e, r)
    BY <1>3, <1>9, <2>1, <2>2, <2>3, <2>4 DEF Joined
  <2> QED BY <2>5 DEF l, e
<1>11. Connected(t, d, NewListening, <<>>, r)
  BY <1>8, <1>10 DEF Connected, NewListening
<1> QED BY <1>1, <1>5, <1>6, <1>7, <1>11, Empty, OneConnection

-----------------------------------------------------------------------------
(* The dialing end *)

\* Something is on its way to it, or it is asking for blocks: the remote has accepted.
LEMMA Accepted ==
  ASSUME IndInv, NEW c \in Dialers,
         \/ from[c] # <<>> \/ client[c].deciding
         \/ dialing[c].up /\ (dialing[c].am_interested \/ ~dialing[c].choking)
  PROVE  /\ listening[c].there
         /\ OnTheWay(client[c], to[c], from[c])
         /\ Joined(dialing[c], listening[c], to[c], from[c])
BY Before DEF Connected, Apart

LEMMA KeptByParseHandshake ==
  ASSUME IndInv, NEW c \in Dialers, parse_handshake(c)
  PROVE  IndInv'
<1> DEFINE t == [client[c] EXCEPT !.deciding = ~done(c)]
           d == dialing[c]
           l == listening[c]
           b == Bitfield(client[c].bits)
           q == Tail(from[c])
           s == to[c] \o Report(c)
<1>1. /\ d \in DialingPeers /\ l \in ListeningPeers /\ to[c] \in Seq(Messages)
      /\ from[c] \in Seq(Messages) /\ from[c] # <<>> /\ Head(from[c]).kind = "handshake"
      /\ client[c] \in Torrents /\ trouble \in Nat
  BY Before DEF parse_handshake, Answer
<1>2. /\ l.there /\ OnTheWay(client[c], to[c], from[c]) /\ Joined(d, l, to[c], from[c])
      /\ d.up
  BY <1>1, Accepted DEF Joined
<1>3. b \in Messages /\ b.kind = "bitfield"
  <2>1. client[c].bits \in SUBSET Pieces
    BY <1>1 DEF Torrents
  <2> QED BY <2>1, MessageTypes DEF Bitfield
<1>4. /\ t \in Torrents /\ Consistent(t)
      /\ t.requested = client[c].requested /\ t.bits = client[c].bits
  BY <1>1, Before DEF Torrents, Consistent, done
<1>5. OnTheWay(client[c], to[c], q) /\ Joined(d, l, to[c], q) /\ q \in Seq(Messages)
  <2>1. Once(from[c], "piece")
    BY <1>2 DEF OnTheWay
  <2> QED BY <1>1, <1>2, <2>1, WayShorter, Parsed, TailPositions
<1>6. s = to[c] \/ s = Append(to[c], b)
  <2>1. to[c] \o <<>> = to[c] /\ to[c] \o <<b>> = Append(to[c], b)
    BY <1>1, <1>3
  <2>2. Report(c) = <<>> \/ Report(c) = <<b>>
    BY DEF Report
  <2> HIDE DEF b
  <2> QED BY <2>1, <2>2
<1>7. /\ client' = [client EXCEPT ![c] = t] /\ dialing' = [dialing EXCEPT ![c] = d]
      /\ listening' = [listening EXCEPT ![c] = l]
      /\ to' = [to EXCEPT ![c] = s] /\ from' = [from EXCEPT ![c] = q]
      /\ trouble' \in Nat
  BY <1>1, Before DEF parse_handshake, Answer
<1> HIDE DEF t, d, l, b, q, s
<1>8. OnTheWay(client[c], s, q) /\ Joined(d, l, s, q) /\ s \in Seq(Messages)
  <2>1. CASE s = to[c]
    BY <1>1, <1>5, <2>1
  <2>2. CASE s = Append(to[c], b)
    <3>1. OnTheWay(client[c], s, q)
      BY <1>1, <1>3, <1>5, <2>2, WayLonger
    <3>2. Joined(d, l, s, q)
      BY <1>1, <1>3, <1>5, <2>2, Said
    <3> QED BY <1>1, <1>3, <2>2, <3>1, <3>2, AppendPositions
  <2> QED BY <1>6, <2>1, <2>2
<1>9. OnTheWay(t, s, q)
  BY <1>4, <1>8 DEF OnTheWay, Waited
<1>10. Connected(t, d, l, s, q)
  BY <1>2, <1>8, <1>9 DEF Connected
<1> QED BY <1>1, <1>4, <1>5, <1>7, <1>8, <1>10, OneConnection

LEMMA KeptBySetAmInterested ==
  ASSUME IndInv, NEW c \in Dialers, set_am_interested(c)
  PROVE  IndInv'
<1> DEFINE t == [client[c] EXCEPT !.deciding = FALSE]
           d == dialing[c]
           D == [dialing[c] EXCEPT !.am_interested = TRUE]
           l == listening[c]
           r == from[c]
           m == Message("interested")
           s == Append(to[c], m)
<1>1. /\ d \in DialingPeers /\ l \in ListeningPeers /\ to[c] \in Seq(Messages)
      /\ r \in Seq(Messages) /\ client[c] \in Torrents /\ trouble \in Nat
  BY Before
<1>2. l.there /\ OnTheWay(client[c], to[c], r) /\ Joined(d, l, to[c], r)
  BY Accepted DEF set_am_interested
<1>3. m \in Messages /\ m.kind = "interested"
  BY MessageTypes DEF Message
<1>4. /\ t \in Torrents /\ Consistent(t)
      /\ t.requested = client[c].requested /\ t.bits = client[c].bits
  BY <1>1, Before DEF Torrents, Consistent
<1>5. /\ D \in DialingPeers /\ D.up = d.up /\ D.choking = d.choking
      /\ D.pending = d.pending /\ D.am_interested
  BY <1>1 DEF DialingPeers
<1>6. /\ client' = [client EXCEPT ![c] = t] /\ dialing' = [dialing EXCEPT ![c] = D]
      /\ listening' = [listening EXCEPT ![c] = l]
      /\ to' = [to EXCEPT ![c] = s] /\ from' = [from EXCEPT ![c] = r]
      /\ trouble' \in Nat
  BY <1>1, Before DEF set_am_interested
<1>7. s \in Seq(Messages)
  BY <1>1, <1>3, AppendPositions
<1> HIDE DEF t, d, D, l, r, m
<1>8. Joined(D, l, s, r)
  BY <1>1, <1>2, <1>3, <1>5, Said
<1>9. OnTheWay(client[c], s, r)
  BY <1>1, <1>2, <1>3, WayLonger
<1> HIDE DEF s
<1>10. OnTheWay(t, s, r)
  BY <1>4, <1>9 DEF OnTheWay, Waited
<1>11. Connected(t, D, l, s, r)
  BY <1>2, <1>8, <1>10 DEF Connected
<1> QED BY <1>1, <1>4, <1>5, <1>6, <1>7, <1>11, OneConnection

LEMMA KeptByParseBitfield ==
  ASSUME IndInv, NEW c \in Dialers, parse_bitfield(c)
  PROVE  IndInv'
<1> DEFINE t == client[c]
           d == dialing[c]
           D == [dialing[c] EXCEPT !.remote = Head(from[c]).pieces]
           l == listening[c]
           q == Tail(from[c])
           s == to[c]
<1>1. /\ d \in DialingPeers /\ l \in ListeningPeers /\ s \in Seq(Messages)
      /\ from[c] \in Seq(Messages) /\ from[c] # <<>> /\ Head(from[c]).kind = "bitfield"
      /\ t \in Torrents /\ Consistent(t) /\ trouble \in Nat
  BY Before DEF parse_bitfield, Answer
<1>2. l.there /\ OnTheWay(t, s, from[c]) /\ Joined(d, l, s, from[c])
  BY <1>1, Accepted
<1>3. Head(from[c]).pieces \in SUBSET Pieces
  <2>1. Head(from[c]) \in Messages
    BY <1>1
  <2> QED BY <1>1, <2>1, Fields
<1>4. /\ D \in DialingPeers /\ D.up = d.up /\ D.choking = d.choking
      /\ D.pending = d.pending /\ D.am_interested = d.am_interested
  BY <1>1, <1>3 DEF DialingPeers
<1>5. OnTheWay(t, s, q) /\ Joined(d, l, s, q) /\ q \in Seq(Messages)
  <2>1. Once(from[c], "piece")
    BY <1>2 DEF OnTheWay
  <2> QED BY <1>1, <1>2, <2>1, WayShorter, Parsed, TailPositions
<1>6. /\ client' = [client EXCEPT ![c] = t] /\ dialing' = [dialing EXCEPT ![c] = D]
      /\ listening' = [listening EXCEPT ![c] = l]
      /\ to' = [to EXCEPT ![c] = s] /\ from' = [from EXCEPT ![c] = q]
      /\ trouble' \in Nat
  BY <1>1, Before DEF parse_bitfield, Answer
<1> HIDE DEF t, d, D, l, q, s
<1>7. Joined(D, l, s, q)
  BY <1>4, <1>5 DEF Joined
<1>8. Connected(t, D, l, s, q)
  BY <1>2, <1>5, <1>7 DEF Connected
<1> QED BY <1>1, <1>4, <1>5, <1>6, <1>8, OneConnection

-----------------------------------------------------------------------------
(* Asking for blocks *)

\* request_next_block, for what a handler has made of the Torrent and the Peer.
LEMMA KeptByRequests ==
  ASSUME IndInv, NEW c \in Dialers,
         NEW T \in Torrents, NEW D \in DialingPeers, NEW q \in Seq(Messages), NEW n,
         Consistent(T), D.up,
         OnTheWay(T, to[c], q),
         listening[c].there => Joined(D, listening[c], to[c], q),
         ~listening[c].there => Apart(T, D, to[c], q),
         request_next_block(c, T, D, n),
         listening' = listening, from' = [from EXCEPT ![c] = q], trouble' = trouble
  PROVE  IndInv'
<1> DEFINE N == Max({n - D.pending, 0})
           asked == IF ~D.am_interested \/ D.choking THEN {}
                    ELSE First(N, (D.remote \ T.bits) \ T.requested)
           t == [T EXCEPT !.requested = @ \cup asked]
           d == [D EXCEPT !.pending = @ + Cardinality(asked)]
           s == to[c] \o Requests(asked)
           l == listening[c]
<1>1. /\ asked \in SUBSET Pieces /\ asked \cap (T.bits \cup T.requested) = {}
      /\ asked = {} \/ (D.am_interested /\ ~D.choking)
  <2>1. First(N, (D.remote \ T.bits) \ T.requested) \subseteq (D.remote \ T.bits) \ T.requested
    <3> HIDE DEF N
    <3> QED BY DEF First
  <2>2. D.remote \subseteq Pieces
    BY DEF DialingPeers
  <2> HIDE DEF N
  <2> QED BY <2>1, <2>2
<1>2. /\ client' = [client EXCEPT ![c] = t] /\ dialing' = [dialing EXCEPT ![c] = d]
      /\ to' = [to EXCEPT ![c] = s]
  BY DEF request_next_block
<1>3. listening' = [listening EXCEPT ![c] = l] /\ trouble' \in Nat
  BY Before
<1>4. /\ to[c] \in Seq(Messages) /\ l \in ListeningPeers
  BY Before
<1> HIDE DEF asked, s, l
<1>5. asked \in SUBSET Pieces /\ Cardinality(asked) \in Nat
  BY <1>1, PiecesFinite
<1>6. t \in Torrents /\ Consistent(t) /\ d \in DialingPeers
  BY <1>5 DEF Torrents, Consistent, DialingPeers
<1>7. CASE l.there
  <2>1. OnTheWay(t, s, q) /\ Joined(d, l, s, q) /\ s \in Seq(Messages)
    BY <1>1, <1>4, <1>7, RequestsMade DEF s, l
  <2>2. Connected(t, d, l, s, q)
    BY <1>7, <2>1 DEF Connected
  <2> HIDE DEF t, d
  <2> QED BY <1>2, <1>3, <1>4, <1>6, <2>1, <2>2, OneConnection
<1>8. CASE ~l.there
  <2>1. Apart(T, D, to[c], q)
    BY <1>8 DEF l
  <2>2. asked = {}
    BY <1>1, <2>1 DEF Apart
  <2>3. Requests(asked) \in Seq(Messages) /\ Len(Requests(asked)) = 0
    BY <1>5, <2>2, OneEach, FS_EmptySet
  <2>4. s = to[c]
    BY <1>4, <2>3 DEF s
  <2>5. t = T
    <3>1. T.requested \cup asked = T.requested
      BY <2>2
    <3> QED BY <3>1 DEF Torrents
  <2>6. d = D
    <3>1. D.pending + Cardinality(asked) = D.pending
      BY <2>2, FS_EmptySet DEF DialingPeers
    <3> QED BY <3>1 DEF DialingPeers
  <2>7. Connected(T, D, l, to[c], q)
    BY <1>8, <2>1 DEF Connected
  <2> HIDE DEF t, d
  <2> QED BY <1>2, <1>3, <1>4, <1>6, <2>4, <2>5, <2>6, <2>7, OneConnection
<1> QED BY <1>7, <1>8

LEMMA KeptByParseUnchoke ==
  ASSUME IndInv, NEW c \in Dialers, parse_unchoke(c)
  PROVE  IndInv'
<1> DEFINE t == client[c]
           D == [dialing[c] EXCEPT !.choking = FALSE]
           l == listening[c]
           q == Tail(from[c])
           s == to[c]
<1>1. /\ dialing[c] \in DialingPeers /\ l \in ListeningPeers /\ s \in Seq(Messages)
      /\ from[c] \in Seq(Messages) /\ from[c] # <<>> /\ Head(from[c]).kind = "unchoke"
      /\ t \in Torrents /\ Consistent(t)
  BY Before DEF parse_unchoke, Answer
<1>2. l.there /\ OnTheWay(t, s, from[c]) /\ Joined(dialing[c], l, s, from[c])
  BY <1>1, Accepted
<1>3. OnTheWay(t, s, q) /\ Joined(D, l, s, q) /\ q \in Seq(Messages)
  <2>1. Once(from[c], "piece")
    BY <1>2 DEF OnTheWay
  <2> QED BY <1>1, <1>2, <2>1, WayShorter, Parsed, TailPositions
<1>4. D \in DialingPeers /\ D.up
  BY <1>1, <1>2 DEF DialingPeers, Joined
<1>5. /\ request_next_block(c, t, D, MaxPending) /\ listening' = listening
      /\ from' = [from EXCEPT ![c] = q] /\ trouble' = trouble
  BY DEF parse_unchoke, Answer
<1> HIDE DEF D, q
<1> QED BY <1>1, <1>2, <1>3, <1>4, <1>5, KeptByRequests

LEMMA KeptByParsePiece ==
  ASSUME IndInv, NEW c \in Dialers, parse_piece(c)
  PROVE  IndInv'
<1> DEFINE block == Head(from[c])
           p == block.piece
           t == client[c]
           D == [dialing[c] EXCEPT !.pending = IF @ > 0 THEN @ - 1 ELSE 0]
           bits == client[c].bits \cup {block.piece}
           T == IF block.good
                THEN [client[c] EXCEPT !.bits = bits, !.good = @ \cup {block.piece}]
                ELSE [client[c] EXCEPT !.bits = bits, !.corrupt = @ \cup {block.piece}]
           l == listening[c]
           q == Tail(from[c])
           s == to[c]
<1>1. /\ dialing[c] \in DialingPeers /\ l \in ListeningPeers /\ s \in Seq(Messages)
      /\ from[c] \in Seq(Messages) /\ from[c] # <<>> /\ block.kind = "piece"
      /\ t \in Torrents /\ Consistent(t)
  BY Before DEF parse_piece, Answer
<1>2. l.there /\ OnTheWay(t, s, from[c]) /\ Joined(dialing[c], l, s, from[c])
  BY <1>1, Accepted
<1>3. OnTheWay(t, s, q) /\ Joined(D, l, s, q) /\ q \in Seq(Messages)
  <2>1. Once(from[c], "piece")
    BY <1>2 DEF OnTheWay
  <2> QED BY <1>1, <1>2, <2>1, WayShorter, Parsed, TailPositions
<1>4. D \in DialingPeers /\ D.up
  BY <1>1, <1>2 DEF DialingPeers, Joined
<1>5. p \in Pieces /\ p \in t.requested \ t.bits
  <2>1. 1 \in DOMAIN from[c] /\ from[c][1] = block /\ block \in Messages
    BY <1>1, TailPositions
  <2> HIDE DEF block
  <2> QED BY <1>1, <1>2, <2>1, Fields DEF OnTheWay, Waited
<1>6. p \notin In(s, "request") /\ p \notin In(q, "piece")
  <2>1. 1 \in DOMAIN from[c] /\ from[c][1] = block
    BY <1>1, TailPositions
  <2>2. p \notin In(s, "request")
    <3> HIDE DEF block, s
    <3> QED BY <1>1, <1>2, <2>1 DEF OnTheWay, In
  <2>3. In(q, "piece") = In(from[c], "piece") \ {p}
    BY <1>1, <1>2, InTail DEF OnTheWay
  <2> QED BY <2>2, <2>3
<1>7. T \in Torrents /\ T.requested = t.requested /\ T.bits = t.bits \cup {p}
  BY <1>1, <1>5 DEF Torrents
<1>8. Consistent(T)
  <2>1. CASE block.good
    <3>1. /\ T.written = t.written /\ T.good = t.good \cup {p} /\ T.corrupt = t.corrupt
          /\ T.bits = t.bits \cup {p}
      BY <1>1, <2>1 DEF Torrents
    <3> HIDE DEF T, t, p
    <3> QED BY <1>1, <1>5, <3>1 DEF Consistent
  <2>2. CASE ~block.good
    <3>1. /\ T.written = t.written /\ T.good = t.good /\ T.corrupt = t.corrupt \cup {p}
          /\ T.bits = t.bits \cup {p}
      BY <1>1, <2>2 DEF Torrents
    <3> HIDE DEF T, t, p
    <3> QED BY <1>1, <1>5, <3>1 DEF Consistent
  <2> QED BY <2>1, <2>2
<1>9. /\ request_next_block(c, T, D, MaxPending) /\ listening' = listening
      /\ from' = [from EXCEPT ![c] = q] /\ trouble' = trouble
  BY DEF parse_piece, Answer
<1> HIDE DEF D, q, T, p, block, t, l, s
<1>10. OnTheWay(T, s, q)
  <2>1. \A x \in In(s, "request") \cup In(q, "piece") : x \in t.requested \ t.bits
    BY <1>3, WayWaited
  <2>2. \A x \in In(s, "request") \cup In(q, "piece") : x \in T.requested \ T.bits
    BY <1>6, <1>7, <2>1
  <2> QED BY <1>3, <2>2, WayTorrent
<1> QED BY <1>2, <1>3, <1>4, <1>7, <1>8, <1>9, <1>10, KeptByRequests DEF l, s

\* What retry_pieces forgets is on its way nowhere.
LEMMA KeptByRetryPieces ==
  ASSUME IndInv, NEW c \in Dialers, retry_pieces(c)
  PROVE  IndInv'
<1> DEFINE t == client[c]
           lost == (client[c].requested \ client[c].bits) \ (Asked(c) \cup Answered(c))
           T == [client[c] EXCEPT !.requested = @ \ lost]
           d == dialing[c]
           s == to[c]
           r == from[c]
           l == listening[c]
<1>1. /\ t \in Torrents /\ Consistent(t) /\ d \in DialingPeers /\ l \in ListeningPeers
      /\ s \in Seq(Messages) /\ r \in Seq(Messages) /\ Connected(t, d, l, s, r)
      /\ trouble \in Nat
  BY Before
<1>2. Asked(c) = In(s, "request") /\ Answered(c) = In(r, "piece")
  BY AskedIn DEF IndInv, Typed
<1>3. /\ T \in Torrents /\ Consistent(T) /\ T.bits = t.bits
      /\ T.requested = t.requested \ lost /\ T.deciding = t.deciding
  BY <1>1 DEF Torrents, Consistent
<1>4. OnTheWay(t, s, r)
  BY <1>1 DEF Connected
<1>5. OnTheWay(T, s, r)
  <2>1. \A x \in In(s, "request") \cup In(r, "piece") : x \in t.requested \ t.bits
    BY <1>4, WayWaited
  <2>2. \A x \in In(s, "request") \cup In(r, "piece") : x \notin lost
    BY <1>2
  <2> HIDE DEF T, s, r, t, lost
  <2>3. \A x \in In(s, "request") \cup In(r, "piece") : x \in T.requested \ T.bits
    BY <1>3, <2>1, <2>2
  <2> QED BY <1>4, <2>3, WayTorrent
<1>6. /\ from' = [from EXCEPT ![c] = r] /\ listening' = [listening EXCEPT ![c] = l]
      /\ listening' = listening /\ trouble' = trouble
  BY Before DEF retry_pieces
<1>7. /\ l.there => Joined(d, l, s, r)
      /\ ~l.there => Apart(T, d, s, r)
  <2> HIDE DEF T, s, r, t, d, l
  <2> QED BY <1>1, <1>3 DEF Connected, Apart
<1>8. CASE d.up
  <2>1. PICK n : request_next_block(c, T, d, n)
    BY <1>8 DEF retry_pieces
  <2> HIDE DEF T
  <2> QED BY <1>1, <1>3, <1>5, <1>6, <1>7, <1>8, <2>1, KeptByRequests
<1>9. CASE ~d.up
  <2>1. /\ client' = [client EXCEPT ![c] = T] /\ dialing' = [dialing EXCEPT ![c] = d]
        /\ to' = [to EXCEPT ![c] = s]
    BY <1>9, Before DEF retry_pieces
  <2> HIDE DEF T, s, r, t, d, l
  <2>2. Connected(T, d, l, s, r)
    BY <1>5, <1>7 DEF Connected
  <2> QED BY <1>1, <1>3, <1>6, <2>1, <2>2, OneConnection
<1> QED BY <1>8, <1>9

-----------------------------------------------------------------------------
(* The listening end *)

\* A step of it that leaves the Torrent and the Peer of the other end as they are.
LEMMA KeptByListening ==
  ASSUME IndInv, NEW c \in Dialers, client' = client, dialing' = dialing,
         NEW l \in ListeningPeers, NEW r \in Seq(Messages), l.there, to[c] # <<>>,
         listening' = [listening EXCEPT ![c] = l], from' = [from EXCEPT ![c] = r],
         to' = [to EXCEPT ![c] = Tail(@)], trouble' \in Nat,
         OnTheWay(client[c], Tail(to[c]), r), Joined(dialing[c], l, Tail(to[c]), r)
  PROVE  IndInv'
<1>1. /\ client' = [client EXCEPT ![c] = client[c]]
      /\ dialing' = [dialing EXCEPT ![c] = dialing[c]]
      /\ to' = [to EXCEPT ![c] = Tail(to[c])]
  BY Before
<1>2. Tail(to[c]) \in Seq(Messages)
  BY Before, TailPositions
<1>3. Connected(client[c], dialing[c], l, Tail(to[c]), r)
  BY DEF Connected
<1> DEFINE t == client[c]
           d == dialing[c]
           a == Tail(to[c])
<1>4. t \in Torrents /\ d \in DialingPeers /\ Consistent(t)
  BY Before
<1> HIDE DEF t, d, a
<1>5. /\ client' = [client EXCEPT ![c] = t] /\ dialing' = [dialing EXCEPT ![c] = d]
      /\ to' = [to EXCEPT ![c] = a] /\ a \in Seq(Messages) /\ Connected(t, d, l, a, r)
  BY <1>1, <1>2, <1>3 DEF t, d, a
<1> QED BY <1>4, <1>5, OneConnection

\* What holds when it takes a message.
LEMMA Taken ==
  ASSUME IndInv, NEW c \in Dialers, NEW kind, Received(c, kind)
  PROVE  /\ to[c] # <<>> /\ to[c][1].kind = kind /\ to' = [to EXCEPT ![c] = Tail(@)]
         /\ listening[c].there
         /\ OnTheWay(client[c], to[c], from[c]) /\ Once(to[c], "request")
         /\ OnTheWay(client[c], Tail(to[c]), from[c])
         /\ Joined(dialing[c], listening[c], to[c], from[c])
<1>1. /\ to[c] # <<>> /\ to[c][1].kind = kind /\ to' = [to EXCEPT ![c] = Tail(@)]
      /\ listening[c].there
  <2>1. to[c] # <<>> /\ Head(to[c]).kind = kind
    BY DEF Received
  <2>2. Head(to[c]) = to[c][1]
    BY <2>1, Before, TailPositions
  <2> QED BY <2>1, <2>2 DEF Received
<1>2. /\ OnTheWay(client[c], to[c], from[c])
      /\ Joined(dialing[c], listening[c], to[c], from[c])
  BY <1>1, Before DEF Connected
<1>3. OnTheWay(client[c], Tail(to[c]), from[c])
  BY <1>1, <1>2, Before, WayShorter
<1> QED BY <1>1, <1>2, <1>3 DEF OnTheWay

LEMMA KeptBySetRemotePieces ==
  ASSUME IndInv, NEW c \in Dialers, set_remote_pieces(c)
  PROVE  IndInv'
<1> DEFINE l == listening[c]
           r == from[c]
<1>1. Received(c, "bitfield")
  BY DEF set_remote_pieces
<1>2. /\ client' = client /\ dialing' = dialing /\ listening' = [listening EXCEPT ![c] = l]
      /\ from' = [from EXCEPT ![c] = r] /\ trouble' \in Nat
      /\ l \in ListeningPeers /\ r \in Seq(Messages) /\ dialing[c] \in DialingPeers
      /\ to[c] \in Seq(Messages)
  BY Before DEF set_remote_pieces
<1> HIDE DEF l, r
<1>3. Joined(dialing[c], l, Tail(to[c]), r)
  BY <1>1, <1>2, Taken, Heard DEF l, r
<1> QED BY <1>1, <1>2, <1>3, Taken, KeptByListening DEF l, r

LEMMA KeptBySetNotInterested ==
  ASSUME IndInv, NEW c \in Dialers, set_not_interested(c)
  PROVE  IndInv'
<1> DEFINE l == [listening[c] EXCEPT !.interested = FALSE]
           r == from[c]
<1>1. Received(c, "not_interested")
  BY DEF set_not_interested
<1>2. /\ client' = client /\ dialing' = dialing /\ listening' = [listening EXCEPT ![c] = l]
      /\ from' = [from EXCEPT ![c] = r] /\ trouble' \in Nat
      /\ listening[c] \in ListeningPeers /\ r \in Seq(Messages)
      /\ dialing[c] \in DialingPeers /\ to[c] \in Seq(Messages)
  BY Before DEF set_not_interested
<1>3. /\ l \in ListeningPeers /\ l.there = listening[c].there
      /\ l.am_choking = listening[c].am_choking /\ ~l.interested
  BY <1>2 DEF ListeningPeers
<1> HIDE DEF l, r
<1>4. Joined(dialing[c], l, Tail(to[c]), r)
  BY <1>1, <1>2, <1>3, Taken, Heard DEF r
<1> QED BY <1>1, <1>2, <1>3, <1>4, Taken, KeptByListening DEF r

LEMMA KeptBySetInterested ==
  ASSUME IndInv, NEW c \in Dialers, set_interested(c)
  PROVE  IndInv'
<1> DEFINE k == [listening[c] EXCEPT !.interested = TRUE]
           l == [listening[c] EXCEPT !.interested = TRUE, !.am_choking = FALSE]
           m == Message("unchoke")
           q == from[c]
           r == IF listening[c].am_choking THEN Append(q, m) ELSE q
           a == Tail(to[c])
<1>1. Received(c, "interested")
  BY DEF set_interested
<1>2. /\ client' = client /\ dialing' = dialing /\ listening' = [listening EXCEPT ![c] = l]
      /\ from' = [from EXCEPT ![c] = r] /\ trouble' \in Nat
      /\ listening[c] \in ListeningPeers /\ q \in Seq(Messages)
      /\ dialing[c] \in DialingPeers /\ to[c] \in Seq(Messages)
      /\ client[c] \in Torrents
  BY Before DEF set_interested
<1>3. /\ k \in ListeningPeers /\ k.am_choking = listening[c].am_choking /\ k.interested
      /\ k.there = listening[c].there
      /\ l \in ListeningPeers /\ l.there = listening[c].there
      /\ l = [k EXCEPT !.am_choking = FALSE]
      /\ ~listening[c].am_choking => l = k
  BY <1>2 DEF ListeningPeers
<1>4. m \in Messages /\ m.kind = "unchoke"
  BY MessageTypes DEF Message
<1>5. a \in Seq(Messages)
  BY <1>1, <1>2, Taken, TailPositions
<1> HIDE DEF k, l, m, q
<1>6. Joined(dialing[c], k, a, q)
  BY <1>1, <1>2, <1>3, Taken, Heard DEF q
<1>7. OnTheWay(client[c], a, q)
  BY <1>1, Taken DEF q
<1> HIDE DEF a
<1>8. r \in Seq(Messages) /\ OnTheWay(client[c], a, r) /\ Joined(dialing[c], l, a, r)
  <2>1. CASE listening[c].am_choking
    <3>1. Joined(dialing[c], l, a, Append(q, m))
      BY <1>2, <1>3, <1>5, <1>6, Unchoked DEF m
    <3>2. OnTheWay(client[c], a, Append(q, m))
      BY <1>2, <1>4, <1>5, <1>7, WayLonger
    <3> QED BY <1>2, <1>4, <2>1, <3>1, <3>2, AppendPositions
  <2>2. CASE ~listening[c].am_choking
    BY <1>2, <1>3, <1>6, <1>7, <2>2
  <2> QED BY <2>1, <2>2
<1> HIDE DEF r
<1> QED BY <1>1, <1>2, <1>3, <1>8, Taken, KeptByListening DEF a

LEMMA KeptByRequest ==
  ASSUME IndInv, NEW c \in Dialers, request(c)
  PROVE  IndInv'
<1> DEFINE p == to[c][1].piece
           l == listening[c]
           q == from[c]
           a == Tail(to[c])
<1>1. Received(c, "request")
  BY DEF request
<1>2. /\ client' = client /\ dialing' = dialing /\ listening' = [listening EXCEPT ![c] = l]
      /\ l \in ListeningPeers /\ q \in Seq(Messages)
      /\ dialing[c] \in DialingPeers /\ to[c] \in Seq(Messages)
      /\ client[c] \in Torrents
  BY Before DEF request
<1>3. Head(to[c]) = to[c][1]
  BY <1>1, <1>2, Taken, TailPositions
<1>4. trouble' \in Nat
  <2>1. trouble' = trouble \/ trouble' = trouble + 1
    BY DEF request, Trouble
  <2> QED BY <2>1, Before
<1>5. \/ from' = [from EXCEPT ![c] = q]
      \/ \E good \in BOOLEAN : from' = [from EXCEPT ![c] = Append(q, Block(p, good))]
  <2>1. \/ from' = from
        \/ from' = [from EXCEPT ![c] = Append(@, Block(p, p \notin client[Dials[c]].corrupt))]
        \/ from' = [from EXCEPT ![c] = Append(@, Block(p, FALSE))]
    BY <1>3 DEF request
  <2>2. (p \notin client[Dials[c]].corrupt) \in BOOLEAN
    OBVIOUS
  <2> QED BY <2>1, <2>2, Before
<1>6. CASE from' = [from EXCEPT ![c] = q]
  <2>1. Joined(dialing[c], l, a, q)
    BY <1>1, <1>2, Taken, Heard
  <2> QED BY <1>1, <1>2, <1>4, <1>6, <2>1, Taken, KeptByListening
<1>7. ASSUME NEW good \in BOOLEAN, from' = [from EXCEPT ![c] = Append(q, Block(p, good))]
      PROVE  IndInv'
  <2>1. /\ OnTheWay(client[c], a, Append(q, Block(p, good)))
        /\ Joined(dialing[c], l, a, Append(q, Block(p, good)))
        /\ Block(p, good) \in Messages
    BY <1>1, <1>2, Taken, Answers
  <2>2. Append(q, Block(p, good)) \in Seq(Messages)
    BY <1>2, <2>1, AppendPositions
  <2> QED BY <1>1, <1>2, <1>4, <1>7, <2>1, <2>2, Taken, KeptByListening
<1> QED BY <1>5, <1>6, <1>7

LEMMA KeptByRequestThrows ==
  ASSUME IndInv, NEW c \in Dialers, request_throws(c)
  PROVE  IndInv'
<1> DEFINE l == listening[c]
           r == from[c]
           a == Tail(to[c])
<1>1. Received(c, "request")
  BY DEF request_throws
<1>2. /\ client' = client /\ dialing' = dialing /\ listening' = [listening EXCEPT ![c] = l]
      /\ from' = [from EXCEPT ![c] = r] /\ trouble' \in Nat
      /\ l \in ListeningPeers /\ r \in Seq(Messages) /\ dialing[c] \in DialingPeers
      /\ to[c] \in Seq(Messages)
  BY Before DEF request_throws
<1>3. Joined(dialing[c], l, a, r)
  <2>1. /\ to[c] # <<>> /\ to[c][1].kind = "request" /\ Once(to[c], "request")
        /\ Joined(dialing[c], l, to[c], r)
    BY <1>1, Taken
  <2>2. l.interested <=> \/ to[c][1].kind = "interested"
                         \/ l.interested /\ to[c][1].kind # "not_interested"
    BY <2>1
  <2> HIDE DEF l, r
  <2> QED BY <1>2, <2>1, <2>2, Heard
<1> QED BY <1>1, <1>2, <1>3, Taken, KeptByListening

-----------------------------------------------------------------------------
(* The writer thread *)

\* A client that dialed nobody, for which a step changes its Torrent only.
LEMMA OneTorrent ==
  ASSUME IndInv, NEW c \in Clients, c \notin Dialers, NEW t \in Torrents, Consistent(t),
         client' = [client EXCEPT ![c] = t],
         UNCHANGED <<dialing, listening, to, from, trouble>>
  PROVE  IndInv'
<1>1. Typed'
  BY DEF IndInv, Typed
<1>2. \A k \in Clients : client'[k] = IF k = c THEN t ELSE client[k]
  BY DEF IndInv, Typed
<1>3. \A k \in Clients : Consistent(client'[k])
  BY <1>2 DEF IndInv
<1>4. \A k \in Dialers : client'[k] = client[k]
  BY <1>2, SwarmAssumption
<1>5. ASSUME NEW k \in Dialers
      PROVE  Connected(client'[k], dialing'[k], listening'[k], to'[k], from'[k])
  BY <1>4 DEF IndInv
<1> QED BY <1>1, <1>3, <1>5 DEF IndInv, Consistent, Connected, OnTheWay, Once, Waited, Joined,
                            Asks, Apart, Interested, Has_kind, In

\* The last piece: the remote is told that the client is no longer interested.
LEMMA KeptByLastPiece ==
  ASSUME IndInv, NEW c \in Dialers, NEW t \in Torrents, Consistent(t),
         t.bits = client[c].bits, t.requested = client[c].requested,
         t.deciding = client[c].deciding,
         client' = [client EXCEPT ![c] = t],
         last_piece_written(c) \/ UNCHANGED <<dialing, to>>,
         UNCHANGED <<listening, from, trouble>>
  PROVE  IndInv'
<1> DEFINE d == dialing[c]
           D == [dialing[c] EXCEPT !.am_interested = FALSE]
           l == listening[c]
           s == to[c]
           r == from[c]
           m == Message("not_interested")
<1>1. /\ d \in DialingPeers /\ l \in ListeningPeers /\ s \in Seq(Messages)
      /\ r \in Seq(Messages) /\ trouble' \in Nat /\ Connected(client[c], d, l, s, r)
      /\ listening' = [listening EXCEPT ![c] = l] /\ from' = [from EXCEPT ![c] = r]
  BY Before
<1>2. CASE dialing' = dialing /\ to' = to
  <2>1. dialing' = [dialing EXCEPT ![c] = d] /\ to' = [to EXCEPT ![c] = s]
    BY <1>2, Before
  <2> HIDE DEF d, D, l, s, r
  <2>2. Connected(t, d, l, s, r)
    BY <1>1 DEF Connected, OnTheWay, Waited, Apart
  <2> QED BY <1>1, <2>1, <2>2, OneConnection
<1>3. CASE /\ d.up /\ d.am_interested
           /\ dialing' = [dialing EXCEPT ![c] = D] /\ to' = [to EXCEPT ![c] = Append(s, m)]
  <2>1. l.there /\ OnTheWay(client[c], s, r) /\ Joined(d, l, s, r)
    BY <1>3, Accepted
  <2>2. m \in Messages /\ m.kind = "not_interested"
    BY MessageTypes DEF Message
  <2>3. /\ D \in DialingPeers /\ D.up = d.up /\ D.choking = d.choking
        /\ D.pending = d.pending /\ ~D.am_interested
    BY <1>1 DEF DialingPeers
  <2>4. Append(s, m) \in Seq(Messages)
    BY <1>1, <2>2, AppendPositions
  <2>5. OnTheWay(client[c], Append(s, m), r)
    <3>1. client[c] \in Torrents
      BY Before
    <3> HIDE DEF m, s, r
    <3> QED BY <1>1, <2>1, <2>2, <3>1, WayLonger
  <2> HIDE DEF d, D, l, m, s, r
  <2>6. Joined(D, l, Append(s, m), r)
    BY <1>1, <2>1, <2>2, <2>3, Said
  <2>7. OnTheWay(t, Append(s, m), r)
    BY <2>5 DEF OnTheWay, Waited
  <2>8. Connected(t, D, l, Append(s, m), r)
    BY <2>1, <2>6, <2>7 DEF Connected
  <2> QED BY <1>1, <1>3, <2>3, <2>4, <2>8, OneConnection
<1> QED BY <1>2, <1>3 DEF last_piece_written

LEMMA KeptByWritePiece ==
  ASSUME IndInv, NEW c \in Clients, NEW p \in Pieces, write_piece(c, p)
  PROVE  IndInv'
<1> DEFINE k == client[c]
           t == [client[c] EXCEPT !.good = @ \ {p}, !.written = @ \cup {p}]
<1>1. k \in Torrents /\ Consistent(k) /\ p \in k.good
  BY DEF IndInv, Typed, write_piece
<1>2. /\ t \in Torrents /\ t.bits = k.bits /\ t.requested = k.requested
      /\ t.deciding = k.deciding /\ t.good = k.good \ {p} /\ t.written = k.written \cup {p}
      /\ t.corrupt = k.corrupt
  BY <1>1 DEF Torrents
<1>3. /\ client' = [client EXCEPT ![c] = t] /\ UNCHANGED <<listening, from, trouble>>
      /\ last_piece_written(c) \/ UNCHANGED <<dialing, to>>
  BY DEF write_piece
<1>4. Consistent(t)
  <2> HIDE DEF t, k
  <2> QED BY <1>1, <1>2 DEF Consistent
<1>5. CASE c \in Dialers
  <2> HIDE DEF t
  <2> QED BY <1>2, <1>3, <1>4, <1>5, KeptByLastPiece
<1>6. CASE c \notin Dialers
  <2>1. UNCHANGED <<dialing, to>>
    BY <1>3, <1>6 DEF last_piece_written
  <2> HIDE DEF t
  <2> QED BY <1>2, <1>3, <1>4, <1>6, <2>1, OneTorrent
<1> QED BY <1>5, <1>6

\* A piece that is reset was received: nothing of it is on its way.
LEMMA KeptByResetPiece ==
  ASSUME IndInv, NEW c \in Clients, NEW p \in Pieces, reset_piece(c, p)
  PROVE  IndInv'
<1> DEFINE k == client[c]
           t == [client[c] EXCEPT !.corrupt = @ \ {p}, !.bits = @ \ {p},
                                  !.requested = @ \ {p}]
<1>1. k \in Torrents /\ Consistent(k) /\ p \in k.corrupt
  BY DEF IndInv, Typed, reset_piece
<1>2. /\ t \in Torrents /\ t.bits = k.bits \ {p} /\ t.requested = k.requested \ {p}
      /\ t.deciding = k.deciding /\ t.good = k.good /\ t.written = k.written
      /\ t.corrupt = k.corrupt \ {p}
  BY <1>1 DEF Torrents
<1>3. /\ client' = [client EXCEPT ![c] = t]
      /\ UNCHANGED <<dialing, listening, to, from, trouble>>
  BY DEF reset_piece
<1> HIDE DEF t
<1>4. Consistent(t) /\ p \in k.bits
  <2> HIDE DEF k
  <2> QED BY <1>1, <1>2 DEF Consistent
<1>5. CASE c \in Dialers
  <2> DEFINE d == dialing[c]
             l == listening[c]
             s == to[c]
             r == from[c]
  <2>1. /\ d \in DialingPeers /\ l \in ListeningPeers /\ s \in Seq(Messages)
        /\ r \in Seq(Messages) /\ trouble' \in Nat /\ Connected(k, d, l, s, r)
        /\ dialing' = [dialing EXCEPT ![c] = d] /\ listening' = [listening EXCEPT ![c] = l]
        /\ to' = [to EXCEPT ![c] = s] /\ from' = [from EXCEPT ![c] = r]
    BY <1>3, <1>5, Before
  <2> HIDE DEF k, d, l, s, r
  <2>2. OnTheWay(k, s, r)
    BY <2>1 DEF Connected
  <2>3. \A x \in In(s, "request") \cup In(r, "piece") : x \in t.requested \ t.bits
    BY <1>2, <1>4, <2>2, WayWaited
  <2>4. OnTheWay(t, s, r)
    BY <2>2, <2>3, WayTorrent
  <2>5. Connected(t, d, l, s, r)
    BY <1>2, <2>1, <2>4 DEF Connected, Apart
  <2> QED BY <1>2, <1>3, <1>4, <1>5, <2>1, <2>5, OneConnection
<1>6. CASE c \notin Dialers
  BY <1>2, <1>3, <1>4, <1>6, OneTorrent
<1> QED BY <1>5, <1>6

-----------------------------------------------------------------------------

LEMMA InitIndInv == Init => IndInv
<1> SUFFICES ASSUME Init PROVE IndInv
  OBVIOUS
<1>1. \A pieces \in SUBSET Pieces :
        /\ Torrent(pieces) \in Torrents /\ Consistent(Torrent(pieces))
        /\ ~Torrent(pieces).deciding
  BY DEF Torrent, Torrents, Consistent
<1>2. \A k \in Clients : Has[k] \in SUBSET Pieces
  BY SwarmAssumption
<1>3. /\ client = [k \in Clients |-> Torrent(Has[k])]
      /\ \A k \in Clients : client[k] = Torrent(Has[k])
  BY DEF Init
<1>4. client \in [Clients -> Torrents] /\ \A k \in Clients : Consistent(client[k])
  <2>1. \A k \in Clients : Torrent(Has[k]) \in Torrents /\ Consistent(Torrent(Has[k]))
    BY <1>1, <1>2
  <2> QED BY <1>3, <2>1
<1>5. /\ [NewDialing EXCEPT !.up = FALSE] \in DialingPeers
      /\ [NewListening EXCEPT !.there = FALSE] \in ListeningPeers
      /\ ~[NewDialing EXCEPT !.up = FALSE].up /\ ~[NewListening EXCEPT !.there = FALSE].there
  BY DEF NewDialing, NewListening, DialingPeers, ListeningPeers
<1>6. Typed
  <2>1. /\ dialing \in [Dialers -> DialingPeers] /\ listening \in [Dialers -> ListeningPeers]
        /\ trouble \in Nat
    BY <1>5 DEF Init
  <2>2. to \in [Dialers -> Seq(Messages)] /\ from \in [Dialers -> Seq(Messages)]
    BY Empty DEF Init
  <2> QED BY <1>4, <2>1, <2>2 DEF Typed
<1>7. ASSUME NEW c \in Dialers
      PROVE  Connected(client[c], dialing[c], listening[c], to[c], from[c])
  <2>1. ~client[c].deciding
    <3>1. c \in Clients
      BY SwarmAssumption
    <3> QED BY <1>1, <1>2, <1>3, <3>1
  <2>2. to[c] = <<>> /\ from[c] = <<>> /\ ~dialing[c].up /\ ~listening[c].there
    BY <1>5 DEF Init
  <2>3. OnTheWay(client[c], <<>>, <<>>)
    BY Empty DEF OnTheWay
  <2> QED BY <2>1, <2>2, <2>3 DEF Connected, Apart
<1> QED BY <1>4, <1>6, <1>7 DEF IndInv

LEMMA NextIndInv == IndInv /\ [Next]_vars => IndInv'
<1> SUFFICES ASSUME IndInv, [Next]_vars PROVE IndInv'
  OBVIOUS
<1>1. ASSUME NEW c \in Dialers, Parse(c) PROVE IndInv'
  <2>1. CASE parse_handshake(c)
    BY <2>1, KeptByParseHandshake
  <2>2. CASE parse_bitfield(c)
    BY <2>2, KeptByParseBitfield
  <2>3. CASE parse_unchoke(c)
    BY <2>3, KeptByParseUnchoke
  <2>4. CASE parse_piece(c)
    BY <2>4, KeptByParsePiece
  <2>5. CASE set_am_interested(c)
    BY <2>5, KeptBySetAmInterested
  <2> QED BY <1>1, <2>1, <2>2, <2>3, <2>4, <2>5 DEF Parse
<1>2. ASSUME NEW c \in Dialers, Serve(c) PROVE IndInv'
  <2>1. CASE accept(c)
    BY <2>1, KeptByAccept
  <2>2. CASE set_remote_pieces(c)
    BY <2>2, KeptBySetRemotePieces
  <2>3. CASE set_interested(c)
    BY <2>3, KeptBySetInterested
  <2>4. CASE set_not_interested(c)
    BY <2>4, KeptBySetNotInterested
  <2>5. CASE request(c)
    BY <2>5, KeptByRequest
  <2>6. CASE request_throws(c)
    BY <2>6, KeptByRequestThrows
  <2> QED BY <1>2, <2>1, <2>2, <2>3, <2>4, <2>5, <2>6 DEF Serve
<1>3. ASSUME NEW c \in Dialers, retry_peers(c) PROVE IndInv'
  <2>1. trouble \in Nat
    BY DEF IndInv, Typed
  <2>2. trouble' \in Nat
    BY <1>3, <2>1 DEF retry_peers, Trouble
  <2>3. handshake(c)
    BY <1>3 DEF retry_peers
  <2> QED BY <2>2, <2>3, KeptByHandshake
<1>4. ASSUME NEW c \in Dialers, retry_pieces(c) PROVE IndInv'
  BY <1>4, KeptByRetryPieces
<1>5. ASSUME NEW c \in Dialers, disconnected(c) PROVE IndInv'
  BY <1>5, KeptByDisconnected
<1>6. ASSUME NEW c \in Clients, Write(c) PROVE IndInv'
  <2>1. PICK p \in Pieces : write_piece(c, p) \/ reset_piece(c, p)
    BY <1>6 DEF Write
  <2> QED BY <2>1, KeptByWritePiece, KeptByResetPiece
<1>7. CASE UNCHANGED vars
  <2>1. Typed'
    BY <1>7 DEF vars, IndInv, Typed
  <2>2. \A k \in Clients : Consistent(client'[k])
    BY <1>7 DEF vars, IndInv
  <2>3. ASSUME NEW k \in Dialers
        PROVE  Connected(client'[k], dialing'[k], listening'[k], to'[k], from'[k])
    BY <1>7 DEF vars, IndInv
  <2> QED BY <2>1, <2>2, <2>3 DEF IndInv, Consistent, Connected, OnTheWay, Once, Waited,
                                  Joined, Asks, Apart, Interested, Has_kind, In
<1> QED BY <1>1, <1>2, <1>3, <1>4, <1>5, <1>6, <1>7 DEF Next

-----------------------------------------------------------------------------
(* Programs that end *)

ClientsEnd == completed \cup over \subseteq Clients

LEMMA InitClientsEnd == Init => ClientsEnd
BY DEF Init, ClientsEnd

LEMMA NextClientsEnd == ClientsEnd /\ [Next]_vars => ClientsEnd'
<1> SUFFICES ASSUME ClientsEnd, [Next]_vars PROVE ClientsEnd'
  OBVIOUS
<1>1. ASSUME NEW c \in Dialers, request_throws(c) PROVE ClientsEnd'
  BY <1>1, SwarmAssumption DEF request_throws, ClientsEnd
<1>2. ASSUME NEW c \in Clients, NEW p \in Pieces, write_piece(c, p) PROVE ClientsEnd'
  BY <1>2 DEF write_piece, ClientsEnd
<1>3. CASE UNCHANGED ends
  BY <1>3 DEF ends, ClientsEnd
<1>4. CASE UNCHANGED vars
  BY <1>3, <1>4 DEF vars
<1>5. ASSUME NEW c \in Dialers, Parse(c) PROVE UNCHANGED ends
  BY <1>5 DEF Parse, parse_handshake, parse_bitfield, parse_unchoke, parse_piece,
              set_am_interested
<1>6. ASSUME NEW c \in Dialers, Serve(c) PROVE request_throws(c) \/ UNCHANGED ends
  BY <1>6 DEF Serve, accept, set_remote_pieces, set_interested, set_not_interested, request
<1>7. ASSUME NEW c \in Dialers, retry_peers(c) \/ retry_pieces(c) \/ disconnected(c)
      PROVE  UNCHANGED ends
  BY <1>7 DEF retry_peers, handshake, retry_pieces, disconnected
<1>8. ASSUME NEW c \in Clients, Write(c)
      PROVE  UNCHANGED ends \/ \E p \in Pieces : write_piece(c, p)
  BY <1>8 DEF Write, reset_piece
<1> QED BY <1>1, <1>2, <1>3, <1>4, <1>5, <1>6, <1>7, <1>8 DEF Next

\* A client that has the torrent from the start has nothing to write, and so completes
\* nothing.
Seeds(t) == t.bits = Pieces /\ t.good = {} /\ t.corrupt = {}
SeedsStay ==
  \A k \in Clients : Has[k] = Pieces => Seeds(client[k]) /\ k \notin completed

LEMMA InitSeedsStay == Init => SeedsStay
BY DEF Init, SeedsStay, Seeds, Torrent

\* It stays so where a step changes no Torrent but that of c, and this one does so.
LEMMA SeedsOfOne ==
  ASSUME IndInv, SeedsStay, NEW c \in Clients, NEW t \in Torrents,
         client' = [client EXCEPT ![c] = t], Has[c] = Pieces => Seeds(t),
         completed' = completed
  PROVE  SeedsStay'
<1>1. \A k \in Clients : client'[k] = IF k = c THEN t ELSE client[k]
  BY DEF IndInv, Typed
<1> QED BY <1>1 DEF SeedsStay, Seeds

\* request_next_block marks blocks as requested, nothing else.
LEMMA SeedsRequest ==
  ASSUME IndInv, SeedsStay, NEW c \in Dialers, NEW torrent \in Torrents, NEW peer, NEW n,
         request_next_block(c, torrent, peer, n), Has[c] = Pieces => Seeds(torrent),
         peer.remote \in SUBSET Pieces, completed' = completed
  PROVE  SeedsStay'
<1> DEFINE m == Max({n - peer.pending, 0})
           asked == IF ~peer.am_interested \/ peer.choking THEN {}
                    ELSE First(m, (peer.remote \ torrent.bits) \ torrent.requested)
           t == [torrent EXCEPT !.requested = @ \cup asked]
<1>1. client' = [client EXCEPT ![c] = t]
  BY DEF request_next_block
<1>2. asked \in SUBSET Pieces
  BY DEF First
<1> HIDE DEF asked
<1>3. t \in Torrents /\ (Seeds(torrent) => Seeds(t))
  BY <1>2 DEF Torrents, Seeds
<1> HIDE DEF t
<1> QED BY <1>1, <1>3, SeedsOfOne, SwarmAssumption

LEMMA NextSeedsStay == IndInv /\ SeedsStay /\ [Next]_vars => SeedsStay'
<1> SUFFICES ASSUME IndInv, SeedsStay, [Next]_vars PROVE SeedsStay'
  OBVIOUS
<1>1. CASE client' = client /\ completed' = completed
  BY <1>1 DEF SeedsStay, Seeds
<1>2. ASSUME NEW c \in Dialers
      PROVE  /\ c \in Clients /\ client[c] \in Torrents
             /\ Has[c] = Pieces => Seeds(client[c])
             /\ dialing[c].remote \in SUBSET Pieces
  BY Before DEF SeedsStay, DialingPeers
<1>3. ASSUME NEW c \in Dialers, Parse(c) PROVE SeedsStay'
  <2>1. CASE parse_handshake(c) \/ set_am_interested(c)
    <3>1. PICK b \in BOOLEAN : client' = [client EXCEPT ![c].deciding = b]
      BY <2>1 DEF parse_handshake, set_am_interested, done
    <3> DEFINE t == [client[c] EXCEPT !.deciding = b]
    <3>2. client' = [client EXCEPT ![c] = t] /\ completed' = completed
      BY <2>1, <3>1 DEF parse_handshake, set_am_interested, ends
    <3>3. t \in Torrents /\ (Has[c] = Pieces => Seeds(t))
      BY <1>2 DEF Torrents, Seeds
    <3> HIDE DEF t
    <3> QED BY <1>2, <3>2, <3>3, SeedsOfOne
  <2>2. CASE parse_bitfield(c)
    BY <1>1, <2>2 DEF parse_bitfield, ends
  <2>3. CASE parse_unchoke(c)
    <3> DEFINE D == [dialing[c] EXCEPT !.choking = FALSE]
    <3>1. request_next_block(c, client[c], D, MaxPending) /\ completed' = completed
      BY <2>3 DEF parse_unchoke, ends
    <3>2. D.remote \in SUBSET Pieces
      BY Before DEF DialingPeers
    <3> HIDE DEF D
    <3> QED BY <1>2, <3>1, <3>2, SeedsRequest
  <2>4. CASE parse_piece(c)
    <3> DEFINE block == Head(from[c])
               D == [dialing[c] EXCEPT !.pending = IF @ > 0 THEN @ - 1 ELSE 0]
               bits == client[c].bits \cup {block.piece}
               T == IF block.good
                    THEN [client[c] EXCEPT !.bits = bits, !.good = @ \cup {block.piece}]
                    ELSE [client[c] EXCEPT !.bits = bits, !.corrupt = @ \cup {block.piece}]
    <3>1. request_next_block(c, T, D, MaxPending) /\ completed' = completed
      BY <2>4 DEF parse_piece, ends
    <3>2. D.remote \in SUBSET Pieces
      BY Before DEF DialingPeers
    <3>3. block.piece \in Pieces /\ block.piece \notin client[c].bits
      <4>1. from[c] \in Seq(Messages) /\ from[c] # <<>> /\ block.kind = "piece"
        BY <2>4, Before DEF parse_piece, Answer
      <4>2. OnTheWay(client[c], to[c], from[c])
        BY Before DEF Connected
      <4>3. 1 \in DOMAIN from[c] /\ from[c][1] = block /\ block \in Messages
        BY <4>1, TailPositions
      <4> HIDE DEF block
      <4> QED BY <4>1, <4>2, <4>3, Fields DEF OnTheWay, Waited
    <3> HIDE DEF block
    <3>4. T \in Torrents
      BY <1>2, <3>3 DEF Torrents
    <3>5. Has[c] # Pieces
      BY <1>2, <3>3 DEF Seeds
    <3> HIDE DEF T, D
    <3> QED BY <3>1, <3>2, <3>4, <3>5, SeedsRequest
  <2> QED BY <1>3, <2>1, <2>2, <2>3, <2>4 DEF Parse
<1>4. ASSUME NEW c \in Dialers, Serve(c) PROVE SeedsStay'
  BY <1>1, <1>4 DEF Serve, accept, set_remote_pieces, set_interested, set_not_interested,
                    request, request_throws, ends
<1>5. ASSUME NEW c \in Dialers, retry_peers(c) \/ disconnected(c) PROVE SeedsStay'
  BY <1>1, <1>5 DEF retry_peers, handshake, disconnected, ends
<1>6. ASSUME NEW c \in Dialers, retry_pieces(c) PROVE SeedsStay'
  <2> DEFINE lost == (client[c].requested \ client[c].bits) \ (Asked(c) \cup Answered(c))
             T == [client[c] EXCEPT !.requested = @ \ lost]
  <2>1. T \in Torrents /\ (Has[c] = Pieces => Seeds(T))
    BY <1>2 DEF Torrents, Seeds
  <2>2. \/ \E n : request_next_block(c, T, dialing[c], n)
        \/ client' = [client EXCEPT ![c] = T]
    BY <1>6 DEF retry_pieces
  <2>3. completed' = completed
    BY <1>6 DEF retry_pieces, ends
  <2> HIDE DEF T
  <2> QED BY <1>2, <2>1, <2>2, <2>3, SeedsRequest, SeedsOfOne
<1>7. ASSUME NEW c \in Clients, Write(c) PROVE SeedsStay'
  <2>1. PICK p \in Pieces : write_piece(c, p) \/ reset_piece(c, p)
    BY <1>7 DEF Write
  <2>2. Has[c] # Pieces
    BY <2>1 DEF SeedsStay, Seeds, write_piece, reset_piece
  <2>3. \A k \in Clients : k # c => client'[k] = client[k]
    BY <2>1 DEF write_piece, reset_piece, IndInv, Typed
  <2>4. completed' \subseteq completed \cup {c}
    BY <2>1 DEF write_piece, reset_piece, ends
  <2> QED BY <2>2, <2>3, <2>4 DEF SeedsStay, Seeds
<1>8. CASE UNCHANGED vars
  BY <1>1, <1>8 DEF vars, ends
<1> QED BY <1>3, <1>4, <1>5, <1>6, <1>7, <1>8 DEF Next

-----------------------------------------------------------------------------

\* The inductive invariant, on the connections between any number of clients: a REQUEST
\* is under way only from an end that was unchoked and had said before that it is
\* interested (Peer::set_am_interested, set_am_choking), and each block is in one message
\* at most, and is waited for (Piece::next_offset, retry_blocks).
THEOREM ConnectionsAgree == Spec => []IndInv
<1>1. Init => IndInv
  BY InitIndInv
<1>2. IndInv /\ [Next]_vars => IndInv'
  BY NextIndInv
<1> QED BY <1>1, <1>2, PTL DEF Spec

\* What the two Peers of a connection hold of each other agrees, up to the messages that
\* are on their way: m_am_choking of one with m_choking of the other, m_interested with
\* m_am_interested; and each request under way has its place among the pending ones.
THEOREM BothEndsAgree == Spec => []Inv
<1>1. IndInv /\ ClientsEnd => Inv
  <2> SUFFICES ASSUME IndInv, ClientsEnd PROVE Inv
    OBVIOUS
  <2>1. ASSUME NEW k \in Clients
        PROVE  /\ client[k].bits \subseteq Pieces /\ client[k].requested \subseteq Pieces
               /\ client[k].written \cup client[k].good \cup client[k].corrupt = client[k].bits
               /\ client[k].deciding \in BOOLEAN
    <3>1. client[k] \in Torrents /\ Consistent(client[k])
      BY DEF IndInv, Typed
    <3> QED BY <3>1 DEF Torrents, Consistent
  <2>2. ASSUME NEW c \in Dialers
        PROVE  /\ {dialing[c].up, dialing[c].am_interested, dialing[c].choking} \subseteq BOOLEAN
               /\ dialing[c].remote \subseteq Pieces /\ dialing[c].pending \in Nat
               /\ {listening[c].there, listening[c].am_choking, listening[c].interested}
                    \subseteq BOOLEAN
    BY Before DEF DialingPeers, ListeningPeers
  <2>3. ASSUME NEW c \in Dialers, NEW m \in ToSet(to[c]) \cup ToSet(from[c])
        PROVE  m.kind \in Kinds
    <3>1. m \in Messages
      BY Before DEF ToSet
    <3> QED BY <3>1, Fields
  <2>4. TypeOK
    BY <2>1, <2>2, <2>3 DEF TypeOK, ClientsEnd
  <2>5. ASSUME NEW c \in Dialers, listening[c].there PROVE Agree(c)
    <3>1. Joined(dialing[c], listening[c], to[c], from[c])
      BY <2>5, Before DEF Connected
    <3>2. Asked(c) = In(to[c], "request") /\ Answered(c) = In(from[c], "piece")
      BY AskedIn DEF IndInv, Typed
    <3> QED BY <3>1, <3>2 DEF Agree, Joined
  <2> QED BY <2>4, <2>5 DEF Inv, EndsAgree
<1>2. Spec => []ClientsEnd
  BY InitClientsEnd, NextClientsEnd, PTL DEF Spec
<1> QED BY <1>1, <1>2, ConnectionsAgree, PTL

\* Peer::request is never ignored because the remote is choked or is not taken for
\* interested: an answer is sent, the bit of the piece is not set any more, or the read
\* throws; and it throws only at a client that did not have the torrent when it started.
THEOREM RequestsServed == Spec => RequestsAreServed
<1>1. IndInv => \A c \in Dialers : request(c) =>
                  \/ Len(from'[c]) > Len(from[c])
                  \/ Head(to[c]).piece \notin client[Dials[c]].bits
  <2> SUFFICES ASSUME IndInv, NEW c \in Dialers, request(c),
                      Head(to[c]).piece \in client[Dials[c]].bits
               PROVE  Len(from'[c]) > Len(from[c])
    OBVIOUS
  <2> DEFINE l == listening[c]
             before == l.interested
  <2>1. /\ to[c] # <<>> /\ to[c][1].kind = "request" /\ Asks(l, to[c])
        /\ to[c] \in Seq(Messages)
    BY Before, Taken DEF request, Joined
  <2>2. 1 \in DOMAIN to[c] /\ 1 - 1 = 0
    BY <2>1
  <2>3. ~l.am_choking /\ Interested(to[c], 0, before)
    BY <2>1, <2>2 DEF Asks
  <2>4. before
    <3>1. 1 .. 0 = {}
      OBVIOUS
    <3> HIDE DEF before
    <3> QED BY <2>3, <3>1 DEF Interested
  <2>5. Serves(l)
    BY <2>3, <2>4 DEF Serves
  <2>6. PICK good : from' = [from EXCEPT ![c] = Append(@, Block(Head(to[c]).piece, good))]
    BY <2>5 DEF request
  <2>7. from'[c] = Append(from[c], Block(Head(to[c]).piece, good))
    BY <2>6 DEF IndInv, Typed
  <2>8. from[c] \in Seq(Messages)
    BY Before
  <2> QED BY <2>7, <2>8
<1>2. ASSUME SeedsStay, [Next]_vars, NEW c \in Dialers, Dials[c] \in over' \ over
      PROVE  Has[Dials[c]] # Pieces
  <2>1. PICK d \in Dialers : request_throws(d)
    <3>1. over' # over
      BY <1>2
    <3>2. ASSUME NEW k \in Dialers, Parse(k) PROVE over' = over
      BY <3>2 DEF Parse, parse_handshake, parse_bitfield, parse_unchoke, parse_piece,
                  set_am_interested, ends
    <3>3. ASSUME NEW k \in Dialers, Serve(k) PROVE request_throws(k) \/ over' = over
      BY <3>3 DEF Serve, accept, set_remote_pieces, set_interested, set_not_interested,
                  request, ends
    <3>4. ASSUME NEW k \in Dialers, retry_peers(k) \/ retry_pieces(k) \/ disconnected(k)
          PROVE  over' = over
      BY <3>4 DEF retry_peers, handshake, retry_pieces, disconnected, ends
    <3>5. ASSUME NEW k \in Clients, Write(k) PROVE over' = over
      BY <3>5 DEF Write, write_piece, reset_piece, ends
    <3> QED BY <1>2, <3>1, <3>2, <3>3, <3>4, <3>5 DEF Next, vars, ends
  <2>2. Dials[c] = Dials[d] /\ ReadFails(Dials[c])
    BY <1>2, <2>1 DEF request_throws
  <2>3. Dials[c] \in completed \/ Has[Dials[c]] = {}
    BY <2>2 DEF ReadFails
  <2>4. 0 \in Pieces /\ Dials[c] \in Clients
    BY SwarmAssumption DEF Pieces
  <2> QED BY <1>2, <2>3, <2>4 DEF SeedsStay
<1>3. IndInv /\ SeedsStay /\ [Next]_vars =>
        [\A c \in Dialers : LET server == Dials[c] IN
           /\ request(c) => \/ Len(from'[c]) > Len(from[c])
                            \/ Head(to[c]).piece \notin client[server].bits
           /\ server \in over' \ over => Has[server] # Pieces]_vars
  BY <1>1, <1>2
<1>4. Spec => []SeedsStay
  BY InitSeedsStay, NextSeedsStay, ConnectionsAgree, PTL DEF Spec
<1> QED BY <1>3, <1>4, ConnectionsAgree, PTL DEF Spec, RequestsAreServed

==============================================================================
