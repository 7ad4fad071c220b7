----------------------------- MODULE PeerProofs ------------------------------
(***************************************************************************)
(* Proofs about the peers of a torrent: what they send, what they have,    *)
(* and which there are.                                                    *)
(*                                                                         *)
(* PeerWire: the handlers are called for complete messages, in order, and  *)
(* read() waits for nothing that is there, whatever the remote sends and   *)
(* wherever the network cuts it.                                           *)
(*                                                                         *)
(* Bitfield, in which remotes and this client keep what they have: its     *)
(* calls are operations on sets, for bytes of any width, of bitfields of   *)
(* any length, and its searches find the first position.                   *)
(*                                                                         *)
(* PeerList: for no address are there more peers than a tracker names.     *)
(***************************************************************************)
EXTENDS PeerWire, Bitfield, PeerList, FiniteSetTheorems, WellFoundedInduction, TLAPS

-----------------------------------------------------------------------------
(* Induction *)

LEMMA Least ==
  ASSUME NEW T, T \subseteq Nat, T # {}
  PROVE  \E n \in T : \A m \in T : n <= m
<1>1. IsWellFoundedOn(OpToRel(<, Nat), Nat)
  BY NatLessThanWellFounded
<1>2. PICK n \in T : \A y \in T : ~ (<<y, n>> \in OpToRel(<, Nat))
  BY <1>1, WFMin
<1>3. ASSUME NEW m \in T PROVE n <= m
  <2>1. ~ (m < n)
    BY <1>2 DEF OpToRel
  <2> QED BY <2>1
<1> QED BY <1>3

LEMMA Induction ==
  ASSUME NEW T, 0 \in T, \A n \in Nat : n \in T => n + 1 \in T
  PROVE  Nat \subseteq T
<1>1. SUFFICES ASSUME Nat \ T # {} PROVE FALSE
  OBVIOUS
<1>2. PICK n \in Nat \ T : \A m \in Nat \ T : n <= m
  BY <1>1, Least
<1>3. n # 0 /\ n - 1 \in Nat /\ n - 1 \in T
  BY <1>2
<1> QED BY <1>2, <1>3

LEMMA MinIsLeast ==
  ASSUME NEW S, S \subseteq Nat, S # {}
  PROVE  Min(S) \in S /\ \A m \in S : Min(S) <= m
<1>1. \E n \in S : \A m \in S : n <= m
  BY Least
<1> QED BY <1>1 DEF Min

LEMMA LeastIsMin ==
  ASSUME NEW S, S \subseteq Nat, NEW n \in S, \A m \in S : n <= m
  PROVE  S # {} /\ Min(S) = n
<1>1. S # {}
  OBVIOUS
<1>2. Min(S) \in S /\ \A m \in S : Min(S) <= m
  BY <1>1, MinIsLeast
<1>3. Min(S) <= n /\ n <= Min(S) /\ n \in Nat /\ Min(S) \in Nat
  BY <1>2
<1> QED BY <1>1, <1>3

-----------------------------------------------------------------------------
(* Where messages start *)

LEMMA Sizes ==
  /\ \A kind \in DOMAIN Size : Size[kind] \in Nat /\ Size[kind] >= 4
  /\ Size["handshake"] = 68
  /\ \A kind \in DOMAIN TextAt : TextAt[kind] \in Nat
  /\ "handshake" \in DOMAIN TextAt /\ TextAt["handshake"] = 0
<1>1. \A kind \in DOMAIN Size : Size[kind] \in Nat /\ Size[kind] >= 4
  BY DEF Size, HandshakeLength
<1>2. Size["handshake"] = 68
  BY DEF Size, HandshakeLength
<1>3. /\ \A kind \in DOMAIN TextAt : TextAt[kind] \in Nat
      /\ "handshake" \in DOMAIN TextAt /\ TextAt["handshake"] = 0
  BY DEF TextAt
<1> QED BY <1>1, <1>2, <1>3

\* The starts of the messages of s, as Start has them for script.
Sums(s, g) == g = [i \in 1 .. Len(s) + 1 |-> IF i = 1 THEN 0 ELSE g[i - 1] + Size[s[i - 1]]]

LEMMA SumsExist ==
  ASSUME NEW s \in Seq(DOMAIN Size)
  PROVE  \E g : Sums(s, g)
<1> DEFINE N == Len(s)
           To(n, g) == g = [i \in 1 .. n + 1 |-> IF i = 1 THEN 0 ELSE g[i - 1] + Size[s[i - 1]]]
           T == {n \in Nat : n <= N => \E g : To(n, g)}
<1>1. N \in Nat
  OBVIOUS
<1>2. 0 \in T
  <2>1. To(0, [i \in 1 .. 1 |-> 0])
    OBVIOUS
  <2> QED BY <2>1
<1>3. ASSUME NEW n \in Nat, n \in T PROVE n + 1 \in T
  <2> SUFFICES ASSUME n + 1 <= N PROVE \E g : To(n + 1, g)
    OBVIOUS
  <2>1. n <= N
    BY <1>1
  <2>2. PICK g : To(n, g)
    BY <1>3, <2>1
  <2> DEFINE h == [i \in 1 .. n + 2 |-> IF i = n + 2 THEN g[n + 1] + Size[s[n + 1]] ELSE g[i]]
  <2>3. /\ \A i \in 1 .. n + 1 : h[i] = g[i]
        /\ h[n + 2] = g[n + 1] + Size[s[n + 1]]
        /\ \A i \in 1 .. n + 1 : g[i] = IF i = 1 THEN 0 ELSE g[i - 1] + Size[s[i - 1]]
        /\ h = [i \in 1 .. n + 2 |-> h[i]]
    BY <2>2
  <2> HIDE DEF h
  <2>4. ASSUME NEW i \in 1 .. n + 2
        PROVE  h[i] = IF i = 1 THEN 0 ELSE h[i - 1] + Size[s[i - 1]]
    <3>1. CASE i = n + 2
      <4>1. i # 1 /\ i - 1 = n + 1 /\ n + 1 \in 1 .. n + 1
        BY <3>1
      <4>2. h[n + 1] = g[n + 1] /\ h[i] = g[n + 1] + Size[s[n + 1]]
        BY <2>3, <3>1, <4>1
      <4>3. h[i - 1] = g[n + 1] /\ s[i - 1] = s[n + 1]
        BY <4>1, <4>2
      <4> QED BY <4>1, <4>2, <4>3
    <3>2. CASE i # n + 2
      <4>1. i \in 1 .. n + 1 /\ (i # 1 => i - 1 \in 1 .. n + 1)
        BY <3>2
      <4> QED BY <2>3, <4>1
    <3> QED BY <3>1, <3>2
  <2>5. (n + 1) + 1 = n + 2
    OBVIOUS
  <2>6. To(n + 1, h)
    BY <2>3, <2>4, <2>5
  <2> QED BY <2>6
<1>4. Nat \subseteq T
  <2> HIDE DEF T
  <2> QED BY <1>2, <1>3, Induction
<1> QED BY <1>1, <1>4 DEF Sums

LEMMA StartIs ==
  ASSUME script \in Seq(DOMAIN Size)
  PROVE  Sums(script, Start)
<1>1. \E g : Sums(script, g)
  BY SumsExist
<1>2. Start = CHOOSE g : Sums(script, g)
  BY DEF Start, Sums
<1> QED BY <1>1, <1>2

LEMMA Starts ==
  ASSUME script \in Scripts \cup Incoming
  PROVE  /\ Len(script) \in Nat \ {0} /\ script[1] = "handshake"
         /\ \A i \in Messages : script[i] \in DOMAIN Size
         /\ \A i \in 1 .. Len(script) + 1 : Start[i] \in Nat
         /\ Start[1] = 0 /\ Start[2] = 68
         /\ \A i \in Messages : Start[i + 1] = Start[i] + Size[script[i]]
         /\ \A i, j \in 1 .. Len(script) + 1 : i < j => Start[i] < Start[j]
<1> DEFINE N == Len(script)
<1>1. /\ script \in Seq(DOMAIN Size) /\ N \in Nat \ {0} /\ script[1] = "handshake"
      /\ \A i \in Messages : script[i] \in DOMAIN Size
  BY PeerWireAssumption DEF Messages
<1>2. \A i \in 1 .. N + 1 : Start[i] = IF i = 1 THEN 0 ELSE Start[i - 1] + Size[script[i - 1]]
  BY <1>1, StartIs DEF Sums
<1>3. Start[1] = 0 /\ \A i \in Messages : Start[i + 1] = Start[i] + Size[script[i]]
  BY <1>1, <1>2 DEF Messages
<1>4. \A i \in 1 .. N + 1 : Start[i] \in Nat
  <2> DEFINE T == {n \in Nat : n <= N => Start[n + 1] \in Nat}
  <2>1. 0 \in T
    BY <1>3
  <2>2. ASSUME NEW n \in Nat, n \in T PROVE n + 1 \in T
    <3> SUFFICES ASSUME n + 1 <= N PROVE Start[(n + 1) + 1] \in Nat
      OBVIOUS
    <3>1. n + 1 \in Messages /\ Start[n + 1] \in Nat
      BY <1>1, <2>2 DEF Messages
    <3>2. Size[script[n + 1]] \in Nat
      BY <1>1, <3>1, Sizes
    <3> QED BY <1>3, <3>1, <3>2
  <2>3. Nat \subseteq T
    <3> HIDE DEF T
    <3> QED BY <2>1, <2>2, Induction
  <2>4. ASSUME NEW i \in 1 .. N + 1 PROVE Start[i] \in Nat
    <3>1. i - 1 \in Nat /\ i - 1 <= N /\ (i - 1) + 1 = i
      BY <1>1
    <3>2. i - 1 \in T
      BY <2>3, <3>1
    <3> QED BY <3>1, <3>2
  <2> QED BY <2>4
<1>5. ASSUME NEW i \in Messages PROVE Start[i] < Start[i + 1] /\ i \in 1 .. N + 1
  <2>1. Size[script[i]] \in Nat /\ Size[script[i]] >= 4 /\ i \in 1 .. N + 1
    BY <1>1, Sizes DEF Messages
  <2> QED BY <1>3, <1>4, <2>1
<1>6. \A i, j \in 1 .. N + 1 : i < j => Start[i] < Start[j]
  <2> DEFINE T == {n \in Nat : \A i \in 1 .. N + 1 :
                                 i + n + 1 <= N + 1 => Start[i] < Start[i + n + 1]}
  <2>1. 0 \in T
    <3>1. ASSUME NEW i \in 1 .. N + 1, i + 0 + 1 <= N + 1 PROVE Start[i] < Start[i + 0 + 1]
      <4>1. i \in Messages /\ i + 0 + 1 = i + 1
        BY <1>1, <3>1 DEF Messages
      <4> QED BY <1>5, <4>1
    <3> QED BY <3>1
  <2>2. ASSUME NEW n \in Nat, n \in T PROVE n + 1 \in T
    <3>1. ASSUME NEW i \in 1 .. N + 1, i + (n + 1) + 1 <= N + 1
          PROVE  Start[i] < Start[i + (n + 1) + 1]
      <4>1. /\ i + n + 1 <= N + 1 /\ i + n + 1 \in Messages
            /\ (i + n + 1) + 1 = i + (n + 1) + 1
            /\ i + n + 1 \in 1 .. N + 1 /\ i + (n + 1) + 1 \in 1 .. N + 1
        BY <1>1, <3>1 DEF Messages
      <4>2. Start[i] < Start[i + n + 1] /\ Start[i + n + 1] < Start[i + (n + 1) + 1]
        BY <1>5, <2>2, <4>1
      <4> QED BY <1>4, <4>1, <4>2
    <3> QED BY <3>1
  <2>3. Nat \subseteq T
    <3> HIDE DEF T
    <3> QED BY <2>1, <2>2, Induction
  <2>4. ASSUME NEW i \in 1 .. N + 1, NEW j \in 1 .. N + 1, i < j PROVE Start[i] < Start[j]
    <3>1. j - i - 1 \in Nat /\ i + (j - i - 1) + 1 = j /\ j <= N + 1
      BY <1>1, <2>4
    <3>2. j - i - 1 \in T
      BY <2>3, <3>1
    <3> QED BY <3>1, <3>2
  <2> QED BY <2>4
<1>7. Start[2] = 68
  <2>1. 1 \in Messages
    BY <1>1 DEF Messages
  <2> QED BY <1>1, <1>3, <2>1, Sizes
<1> QED BY <1>1, <1>3, <1>4, <1>6, <1>7


LEMMA SameStarts ==
  ASSUME script' = script
  PROVE  Start' = Start /\ Total' = Total /\ Messages' = Messages
<1>1. Start' = Start
  BY DEF Start
<1> QED BY <1>1 DEF Total, Messages

\* What HandshakeMsg::parse takes of a buffer that ends at a byte of the stream.
LEMMA Handshake ==
  ASSUME script \in Scripts \cup Incoming, consumed \in Nat,
         NEW end \in Nat, end <= Total
  PROVE  \/ HandshakeMsg_parse(end) = -1
         \/ HandshakeMsg_parse(end) = 68 /\ consumed + 68 <= end
         \/ /\ HandshakeMsg_parse(end) = 0 /\ 2 \in Messages
            /\ 68 < end /\ end < Start[3]
         \/ /\ HandshakeMsg_parse(end) = Start[3] /\ 2 \in Messages
            /\ consumed + 68 <= end /\ Start[3] <= end
<1> DEFINE found == {t \in Texts : t >= consumed /\ t + TextLength <= end}
           length == end - Min(found)
           none == end - consumed < 68 \/ found = {} \/ length < 68
           more == length < 68 + 5 \/ 0 \notin found \/ script[2] # "bitfield"
<1>1. HandshakeMsg_parse(end) =
        IF none THEN -1
        ELSE IF length = 68 THEN 68
        ELSE IF more THEN -1
        ELSE IF end < Start[3] THEN 0
        ELSE Start[3]
  BY DEF HandshakeMsg_parse, HandshakeLength
<1>2. Texts \subseteq Nat
  <2>1. ASSUME NEW i \in Messages, script[i] \in DOMAIN TextAt
        PROVE  Start[i] + TextAt[script[i]] \in Nat
    <3>1. i \in 1 .. Len(script) + 1
      BY Starts DEF Messages
    <3> QED BY <2>1, <3>1, Starts, Sizes
  <2> QED BY <2>1 DEF Texts
<1>3. ASSUME ~ none
      PROVE  consumed + 68 <= end /\ Min(found) \in Nat
  <2>1. found \subseteq Nat /\ found # {}
    BY <1>2, <1>3
  <2>2. Min(found) \in Nat
    <3> HIDE DEF found
    <3> QED BY <2>1, MinIsLeast
  <2>3. ~ (end - consumed < 68)
    BY <1>3
  <2> QED BY <2>2, <2>3
<1>4. ASSUME ~ none, ~ more
      PROVE  68 < end /\ 2 \in Messages /\ Start[3] \in Nat
  <2>1. ~ (length < 68 + 5)
    BY <1>4
  <2>2. 68 < end
    <3> HIDE DEF found
    <3> QED BY <1>3, <1>4, <2>1
  <2>3. Len(script) # 1
    <3> HIDE DEF found, more
    <3>1. SUFFICES ASSUME Len(script) = 1 PROVE FALSE
      OBVIOUS
    <3>2. Len(script) + 1 = 2
      BY <3>1
    <3>3. Total = 68
      BY <3>2, Starts DEF Total
    <3> QED BY <2>2, <3>3
  <2>4. 2 \in Messages /\ 3 \in 1 .. Len(script) + 1
    <3> HIDE DEF found, length, none, more
    <3>1. Len(script) \in Nat \ {0}
      BY Starts
    <3>2. Len(script) \in Nat /\ Len(script) >= 2
      <4>1. \A l \in Nat \ {0} : l # 1 => l >= 2
        OBVIOUS
      <4> QED BY <2>3, <3>1, <4>1
    <3> QED BY <3>2 DEF Messages
  <2> QED BY <2>2, <2>4, Starts
<1> HIDE DEF none, more, length
<1> QED BY <1>1, <1>3, <1>4

-----------------------------------------------------------------------------
(* The inductive invariant *)

\* What was handled is not in the buffer any more.
HandledAreConsumed ==
  \A j \in DOMAIN handled :
    /\ j > 1 => handled[j - 1] < handled[j]
    /\ Start[handled[j] + 1] <= consumed

NothingAccepted == pc = "accepting" => received = 0 /\ handled = <<>>

IndInv == TypeOK /\ HandledAreConsumed /\ WaitsForMore /\ NothingAccepted

\* Whatever is consumed and received, and whether the client waits then.
LEMMA Keeps ==
  ASSUME IndInv, script' = script, handled' = handled,
         received' \in Nat, received <= received', received' <= Total,
         consumed' \in Nat, consumed <= consumed', consumed' <= received',
         accepted' \in Nat, accepted' <= received',
         pc' \in {"reading", "parsing", "closed", "lost"}, WaitsForMore'
  PROVE  IndInv'
<1>1. Start' = Start /\ Total' = Total /\ Messages' = Messages
  BY SameStarts
<1>2. Total \in Nat /\ received \in Nat /\ consumed \in Nat
  <2>1. Total \in Nat
    BY Starts DEF IndInv, TypeOK, Total
  <2> QED BY <2>1 DEF IndInv, TypeOK
<1>3. TypeOK'
  BY <1>1, <1>2 DEF IndInv, TypeOK
<1>4. HandledAreConsumed'
  <2>1. ASSUME NEW j \in DOMAIN handled
        PROVE  /\ j > 1 => handled[j - 1] < handled[j]
               /\ Start[handled[j] + 1] <= consumed'
    <3>1. handled[j] \in Messages
      BY DEF IndInv, TypeOK
    <3>2. handled[j] + 1 \in 1 .. Len(script) + 1
      BY <3>1, Starts DEF IndInv, TypeOK, Messages
    <3>3. Start[handled[j] + 1] \in Nat
      BY <3>2, Starts DEF IndInv, TypeOK
    <3>4. Start[handled[j] + 1] <= consumed /\ (j > 1 => handled[j - 1] < handled[j])
      BY DEF IndInv, HandledAreConsumed
    <3> QED BY <1>2, <3>3, <3>4
  <2> QED BY <1>1, <2>1 DEF HandledAreConsumed
<1>5. NothingAccepted'
  BY DEF NothingAccepted
<1> QED BY <1>3, <1>4, <1>5 DEF IndInv

\* The handlers of n messages are called, from i on, and their bytes consumed.
LEMMA Handles ==
  ASSUME IndInv, script' = script, received' = received, accepted' = accepted,
         NEW i \in Messages, Start[i] = consumed,
         NEW n \in {1, 2}, i + n - 1 \in Messages, Handle(i, n),
         consumed' \in Nat, Start[i + n] <= consumed', consumed' <= received,
         pc' \in {"reading", "parsing", "closed", "lost"}, WaitsForMore'
  PROVE  IndInv'
<1> DEFINE new == [k \in 1 .. n |-> i + k - 1]
<1>1. Start' = Start /\ Total' = Total /\ Messages' = Messages
  BY SameStarts
<1>2. /\ Len(script) \in Nat \ {0} /\ Messages = 1 .. Len(script)
      /\ \A k \in 1 .. Len(script) + 1 : Start[k] \in Nat
      /\ \A k, l \in 1 .. Len(script) + 1 : k < l => Start[k] < Start[l]
      /\ Total \in Nat /\ received \in 0 .. Total /\ consumed \in Nat
      /\ handled \in Seq(Messages)
  <2>1. Total \in Nat
    BY Starts DEF IndInv, TypeOK, Total
  <2> QED BY <2>1, Starts DEF IndInv, TypeOK, Messages
<1>3. /\ new \in Seq(Messages) /\ Len(new) = n
      /\ \A k \in 1 .. n : new[k] = i + k - 1
  <2>1. \A k \in 1 .. n : i + k - 1 \in Messages
    BY <1>2
  <2> QED BY <2>1
<1> HIDE DEF new
<1>4. handled' = handled \o new
  BY DEF Handle, new
<1>5. /\ handled' \in Seq(Messages) /\ DOMAIN handled' = 1 .. Len(handled) + n
      /\ \A j \in 1 .. Len(handled) : handled'[j] = handled[j]
      /\ \A k \in 1 .. n : handled'[Len(handled) + k] = new[k]
  BY <1>2, <1>3, <1>4
<1>6. ASSUME NEW j \in 1 .. Len(handled)
      PROVE  handled[j] < i /\ Start[handled[j] + 1] <= consumed /\ handled[j] \in Messages
  <2>1. handled[j] \in Messages /\ Start[handled[j] + 1] <= consumed
    <3>1. HandledAreConsumed
      BY DEF IndInv
    <3>2. DOMAIN handled = 1 .. Len(handled) /\ handled[j] \in Messages
      BY <1>2
    <3> QED BY <3>1, <3>2 DEF HandledAreConsumed
  <2>2. ~ (i < handled[j] + 1)
    <3>1. i \in 1 .. Len(script) + 1 /\ handled[j] + 1 \in 1 .. Len(script) + 1
      BY <1>2, <2>1
    <3>2. i < handled[j] + 1 => Start[i] < Start[handled[j] + 1]
      BY <1>2, <3>1
    <3> QED BY <1>2, <2>1, <3>1, <3>2
  <2> QED BY <1>2, <2>1, <2>2
<1>7. \A k \in 1 .. n : Start[new[k] + 1] <= consumed'
  <2>1. ASSUME NEW k \in 1 .. n PROVE Start[new[k] + 1] <= consumed'
    <3>1. /\ new[k] + 1 = i + k /\ i + k \in 1 .. Len(script) + 1
          /\ i + n \in 1 .. Len(script) + 1 /\ (k = n \/ i + k < i + n)
      <4>1. i \in Nat /\ i >= 1 /\ n \in Nat /\ k \in Nat /\ k >= 1 /\ k <= n
        BY <1>2
      <4>2. i + n - 1 <= Len(script) /\ Len(script) \in Nat
        BY <1>2
      <4>3. new[k] = i + k - 1
        BY <1>3
      <4> QED BY <4>1, <4>2, <4>3
    <3>2. Start[i + k] <= Start[i + n] /\ Start[i + k] \in Nat /\ Start[i + n] \in Nat
      BY <1>2, <3>1
    <3> QED BY <3>1, <3>2
  <2> QED BY <2>1
<1>8. consumed < consumed'
  <2>1. i \in 1 .. Len(script) + 1 /\ i + n \in 1 .. Len(script) + 1 /\ i < i + n
    BY <1>2
  <2>2. Start[i] < Start[i + n] /\ Start[i + n] \in Nat
    BY <1>2, <2>1
  <2> QED BY <1>2, <2>2
<1>9. ASSUME NEW j \in DOMAIN handled'
      PROVE  /\ j > 1 => handled'[j - 1] < handled'[j]
             /\ Start[handled'[j] + 1] <= consumed'
  <2>1. CASE j \in 1 .. Len(handled)
    <3>1. Start[handled[j] + 1] <= consumed'
      <4>1. handled[j] + 1 \in 1 .. Len(script) + 1
        BY <1>2, <1>6, <2>1
      <4>2. Start[handled[j] + 1] \in Nat
        BY <1>2, <4>1
      <4> QED BY <1>2, <1>6, <1>8, <2>1, <4>2
    <3>2. j > 1 => handled[j - 1] < handled[j] /\ j - 1 \in 1 .. Len(handled)
      <4>1. j \in DOMAIN handled /\ (j > 1 => j - 1 \in 1 .. Len(handled))
        BY <1>2, <2>1
      <4> QED BY <4>1 DEF IndInv, HandledAreConsumed
    <3> QED BY <1>5, <2>1, <3>1, <3>2
  <2>2. CASE j = Len(handled) + 1
    <3>1. 1 \in 1 .. n /\ (j > 1 => j - 1 \in 1 .. Len(handled))
      BY <1>2, <2>2
    <3>2. handled'[j] = new[1] /\ new[1] = i
      <4>1. new[1] = i + 1 - 1 /\ i + 1 - 1 = i
        BY <1>2, <1>3, <3>1
      <4> QED BY <1>5, <2>2, <3>1, <4>1
    <3>3. j > 1 => handled'[j - 1] = handled[j - 1] /\ handled[j - 1] < i
      BY <1>5, <1>6, <3>1
    <3> QED BY <1>7, <3>1, <3>2, <3>3
  <2>3. CASE n = 2 /\ j = Len(handled) + 2
    <3>1. 1 \in 1 .. n /\ 2 \in 1 .. n /\ j - 1 = Len(handled) + 1
      BY <1>2, <2>3
    <3>2. /\ handled'[j] = new[2] /\ handled'[j - 1] = new[1]
          /\ new[1] = i /\ new[2] = i + 1
      <4>1. i \in Nat /\ i + 1 - 1 = i /\ i + 2 - 1 = i + 1
        BY <1>2
      <4>2. new[1] = i /\ new[2] = i + 1
        BY <1>3, <3>1, <4>1
      <4>3. handled'[j] = new[2] /\ handled'[j - 1] = new[1]
        BY <1>5, <2>3, <3>1
      <4> QED BY <4>2, <4>3
    <3>3. i < i + 1
      BY <1>2
    <3> QED BY <1>7, <3>1, <3>2, <3>3
  <2>4. j \in 1 .. Len(handled) + n /\ Len(handled) \in Nat
    BY <1>2, <1>5
  <2>5. \/ j \in 1 .. Len(handled)
        \/ j = Len(handled) + 1
        \/ n = 2 /\ j = Len(handled) + 2
    BY <2>4
  <2> QED BY <2>1, <2>2, <2>3, <2>5
<1>10. HandledAreConsumed'
  BY <1>1, <1>9 DEF HandledAreConsumed
<1>11. TypeOK'
  BY <1>1, <1>2, <1>5 DEF IndInv, TypeOK
<1> QED BY <1>10, <1>11 DEF IndInv, NothingAccepted

-----------------------------------------------------------------------------
(* When the client waits *)

LEMMA HasTotal ==
  ASSUME IndInv
  PROVE  /\ Total \in Nat /\ received \in Nat /\ consumed \in Nat /\ accepted \in Nat
         /\ received <= Total /\ consumed <= received /\ accepted <= received
<1>1. Total \in Nat
  BY Starts DEF IndInv, TypeOK, Total
<1> QED BY <1>1 DEF IndInv, TypeOK

\* It has consumed all that came in.
LEMMA WaitsAtTheEnd ==
  ASSUME IndInv, script' = script, consumed' = received', received' \in Nat
  PROVE  WaitsForMore'
<1>1. Start' = Start /\ Messages' = Messages
  BY SameStarts
<1>2. ASSUME NEW i \in Messages, Start[i] >= received'
      PROVE  received' < IF i = 1 /\ received' > 68 THEN Start[3] ELSE Start[i + 1]
  <2>1. i \in 1 .. Len(script) + 1 /\ i + 1 \in 1 .. Len(script) + 1 /\ i < i + 1
    BY Starts DEF IndInv, TypeOK, Messages
  <2>2. Start[i] < Start[i + 1] /\ Start[i] \in Nat /\ Start[i + 1] \in Nat
    BY <2>1, Starts DEF IndInv, TypeOK
  <2>3. Start[1] = 0
    BY Starts DEF IndInv, TypeOK
  <2>4. ~ (i = 1 /\ received' > 68)
    BY <1>2, <2>3
  <2> QED BY <1>2, <2>2, <2>4
<1> QED BY <1>1, <1>2 DEF WaitsForMore, HandshakeLength

\* The message that it is at is not all there.
LEMMA WaitsInAMessage ==
  ASSUME IndInv, script' = script, received' = received, consumed' = consumed,
         NEW k \in Messages, Start[k] = consumed,
         \/ received < Start[k + 1]
         \/ k = 1 /\ 68 < received /\ received < Start[3] /\ 2 \in Messages
  PROVE  WaitsForMore'
<1>1. Start' = Start /\ Messages' = Messages
  BY SameStarts
<1>2. /\ Len(script) \in Nat \ {0} /\ Messages = 1 .. Len(script)
      /\ \A i \in 1 .. Len(script) + 1 : Start[i] \in Nat
      /\ \A i, j \in 1 .. Len(script) + 1 : i < j => Start[i] < Start[j]
      /\ Start[2] = 68 /\ received \in Nat /\ consumed \in Nat
  BY Starts, HasTotal DEF IndInv, TypeOK, Messages
<1>3. ASSUME NEW i \in Messages, Start[i] >= consumed
      PROVE  received < IF i = 1 /\ received > 68 THEN Start[3] ELSE Start[i + 1]
  <2>1. /\ i \in 1 .. Len(script) + 1 /\ i + 1 \in 1 .. Len(script) + 1
        /\ k \in 1 .. Len(script) + 1 /\ k + 1 \in 1 .. Len(script) + 1
    BY <1>2
  <2>2. k <= i
    <3>1. i < k => Start[i] < Start[k]
      BY <1>2, <2>1
    <3>2. Start[i] \in Nat /\ Start[k] \in Nat
      BY <1>2, <2>1
    <3>3. ~ (i < k)
      BY <1>2, <1>3, <3>1, <3>2
    <3> QED BY <1>2, <3>3
  <2>3. CASE received < Start[k + 1]
    <3>1. Start[k + 1] <= Start[i + 1]
      <4>1. k = i \/ k + 1 < i + 1
        BY <1>2, <2>2
      <4>2. k + 1 < i + 1 => Start[k + 1] < Start[i + 1]
        BY <1>2, <2>1
      <4> QED BY <1>2, <2>1, <4>1, <4>2
    <3>2. received < Start[i + 1]
      <4>1. Start[k + 1] \in Nat /\ Start[i + 1] \in Nat
        BY <1>2, <2>1
      <4> QED BY <1>2, <2>3, <3>1, <4>1
    <3>3. ~ (i = 1 /\ received > 68)
      BY <1>2, <3>2
    <3> QED BY <3>2, <3>3
  <2>4. CASE k = 1 /\ 68 < received /\ received < Start[3] /\ 2 \in Messages
    <3>1. CASE i = 1
      BY <2>4, <3>1
    <3>2. CASE i # 1
      <4>1. 3 \in 1 .. Len(script) + 1 /\ (3 = i + 1 \/ 3 < i + 1)
        BY <1>2, <2>4, <3>2
      <4>2. 3 < i + 1 => Start[3] < Start[i + 1]
        BY <1>2, <2>1, <4>1
      <4>3. Start[3] <= Start[i + 1] /\ Start[3] \in Nat /\ Start[i + 1] \in Nat
        BY <1>2, <2>1, <4>1, <4>2
      <4> QED BY <1>2, <2>4, <3>2, <4>3
    <3> QED BY <3>1, <3>2
  <2> QED BY <1>3, <2>3, <2>4
<1> QED BY <1>1, <1>3 DEF WaitsForMore, HandshakeLength

-----------------------------------------------------------------------------
(* The steps *)

\* Bytes are consumed, and read() is called only if these were the last ones.
LEMMA Consumes ==
  ASSUME IndInv, script' = script, received' = received,
         NEW n \in Nat, consumed + n <= received, Consume(n)
  PROVE  /\ consumed' = consumed + n /\ consumed' \in Nat /\ consumed <= consumed'
         /\ consumed' <= received
         /\ pc' \in {"reading", "parsing", "closed", "lost"}
         /\ n # 0 => WaitsForMore'
<1>1. consumed \in Nat /\ received \in Nat
  BY HasTotal
<1>2. /\ consumed' = consumed + n
      /\ pc' \in {"reading", "parsing", "closed", "lost"}
  BY DEF Consume
<1>3. ASSUME n # 0 PROVE WaitsForMore'
  <2>1. CASE pc' = "reading"
    <3>1. consumed' = received'
      BY <1>3, <2>1 DEF Consume
    <3> QED BY <1>1, <3>1, WaitsAtTheEnd
  <2>2. CASE pc' # "reading"
    BY <2>2 DEF WaitsForMore
  <2> QED BY <2>1, <2>2
<1> QED BY <1>1, <1>2, <1>3

LEMMA Skips ==
  ASSUME IndInv, UNCHANGED <<script, received, accepted, handled>>,
         NEW n \in Nat, n # 0, consumed + n <= received, Consume(n)
  PROVE  IndInv'
<1>1. /\ consumed' \in Nat /\ consumed <= consumed' /\ consumed' <= received
      /\ pc' \in {"reading", "parsing", "closed", "lost"}
      /\ WaitsForMore'
  BY Consumes
<1> QED BY <1>1, HasTotal, Keeps

LEMMA Waits ==
  ASSUME IndInv, UNCHANGED <<script, received, accepted, handled>>, Consume(0),
         NEW k \in Messages, Start[k] = consumed,
         \/ received < Start[k + 1]
         \/ k = 1 /\ 68 < received /\ received < Start[3] /\ 2 \in Messages
  PROVE  IndInv'
<1>1. consumed \in Nat /\ consumed + 0 = consumed /\ consumed <= received
  BY HasTotal
<1>2. /\ consumed' = consumed /\ consumed' \in Nat /\ consumed <= consumed'
      /\ consumed' <= received /\ pc' \in {"reading", "parsing", "closed", "lost"}
  BY <1>1 DEF Consume
<1>3. WaitsForMore'
  BY <1>2, WaitsInAMessage
<1> QED BY <1>2, <1>3, HasTotal, Keeps

LEMMA Closes ==
  ASSUME IndInv, UNCHANGED <<script, received, accepted>>, Close
  PROVE  IndInv'
<1>1. pc' = "closed" /\ consumed' = consumed /\ handled' = handled
  BY DEF Close
<1>2. WaitsForMore'
  BY <1>1 DEF WaitsForMore
<1> QED BY <1>1, <1>2, HasTotal, Keeps

LEMMA Reads ==
  ASSUME IndInv, NEW n \in 1 .. Total - received, read(n)
  PROVE  IndInv'
<1>1. /\ received' = received + n /\ pc' = "parsing"
      /\ UNCHANGED <<script, consumed, handled, accepted>>
  BY DEF read
<1>2. /\ received' \in Nat /\ received <= received' /\ received' <= Total
      /\ consumed' <= received' /\ accepted' <= received'
  BY <1>1, HasTotal
<1>3. WaitsForMore'
  BY <1>1 DEF WaitsForMore
<1> QED BY <1>1, <1>2, <1>3, HasTotal, Keeps

LEMMA Listens ==
  ASSUME IndInv, NEW n \in 1 .. Total - received, listen(n)
  PROVE  IndInv'
<1>1. /\ pc = "accepting" /\ received' = n /\ accepted' = n /\ script' = script
      /\ received = 0 /\ consumed = 0 /\ handled = <<>>
  BY HasTotal DEF listen, IndInv, NothingAccepted
<1>2. n \in Nat /\ n <= Total /\ n >= 68 /\ Total \in Nat
  BY <1>1, HasTotal DEF listen, Portion, HandshakeLength
<1>3. CASE HandshakeMsg_parse(n) = -1
  <2>1. pc' = "closed" /\ UNCHANGED <<consumed, handled>>
    BY <1>3 DEF listen
  <2>2. WaitsForMore'
    BY <2>1 DEF WaitsForMore
  <2> QED BY <1>1, <1>2, <2>1, <2>2, Keeps
<1>4. CASE HandshakeMsg_parse(n) # -1
  <2>1. consumed' = n /\ handled' = <<1>> /\ pc' \in {"reading", "lost"}
    BY <1>4 DEF listen
  <2>2. Start' = Start /\ Total' = Total /\ Messages' = Messages
    BY <1>1, SameStarts
  <2>3. Start[1 + 1] = 68 /\ 1 \in Messages
    BY Starts DEF IndInv, TypeOK, Messages
  <2>4. TypeOK'
    <3>1. handled' \in Seq(Messages)
      BY <2>1, <2>3
    <3> QED BY <1>1, <1>2, <2>1, <2>2, <3>1 DEF IndInv, TypeOK
  <2>5. HandledAreConsumed'
    <3>1. ASSUME NEW j \in DOMAIN handled' PROVE j = 1 /\ handled'[j] = 1
      BY <2>1
    <3>2. Start'[1 + 1] <= consumed'
      BY <1>2, <2>1, <2>2, <2>3
    <3> QED BY <3>1, <3>2 DEF HandledAreConsumed
  <2>6. WaitsForMore'
    BY <1>1, <1>2, <2>1, WaitsAtTheEnd
  <2> QED BY <2>1, <2>4, <2>5, <2>6 DEF IndInv, NothingAccepted
<1> QED BY <1>3, <1>4

LEMMA ParsesHandshake ==
  ASSUME IndInv, parse_handshake
  PROVE  IndInv'
<1> DEFINE taken == HandshakeMsg_parse(received)
           number == IF taken = 0 THEN 0 ELSE IF taken = 68 THEN 1 ELSE 2
<1>1. 1 \in Messages /\ Start[1] = 0 /\ consumed = 0
  <2>1. 1 \in Here
    BY DEF parse_handshake
  <2>2. 1 \in Messages /\ Start[1] = consumed
    BY <2>1 DEF Here
  <2> QED BY <2>2, Starts DEF IndInv, TypeOK
<1>2. Start[2] = 68 /\ Start[1 + 1] = 68
  BY Starts DEF IndInv, TypeOK
<1>3. UNCHANGED <<script, received, accepted>>
  BY DEF parse_handshake
<1>4. /\ taken >= 0 => Consume(taken) /\ Handle(1, number)
      /\ ~ (taken >= 0) => Close \/ (Buffered < 4 /\ Consume(0) /\ UNCHANGED handled)
  <2>1. Buffered \in Int
    BY HasTotal DEF Buffered
  <2>2. IF taken >= 0
        THEN /\ Consume(taken)
             /\ Handle(1, IF taken = 0 THEN 0 ELSE IF taken = HandshakeLength THEN 1 ELSE 2)
        ELSE IF Buffered >= 4
        THEN Close
        ELSE Consume(0) /\ UNCHANGED handled
    BY DEF parse_handshake
  <2> HIDE DEF taken
  <2> QED BY <2>1, <2>2 DEF HandshakeLength
<1>5. \/ taken = -1
      \/ taken = 68 /\ 68 <= received
      \/ taken = 0 /\ 2 \in Messages /\ 68 < received /\ received < Start[3]
      \/ taken = Start[3] /\ 2 \in Messages /\ Start[3] <= received
  <2>1. consumed + 68 = 68
    BY <1>1
  <2> HIDE DEF taken
  <2>2. script \in Scripts \cup Incoming
    BY DEF IndInv, TypeOK
  <2> QED BY <2>1, <2>2, Handshake, HasTotal DEF taken
<1> HIDE DEF taken
<1>6. CASE taken = -1
  <2>1. Close \/ (Buffered < 4 /\ Consume(0) /\ UNCHANGED handled)
    BY <1>4, <1>6
  <2>2. CASE Close
    BY <1>3, <2>2, Closes
  <2>3. CASE Buffered < 4 /\ Consume(0) /\ UNCHANGED handled
    <3>1. received < Start[1 + 1]
      BY <1>1, <1>2, <2>3, HasTotal DEF Buffered
    <3> QED BY <1>1, <1>3, <2>3, <3>1, Waits
  <2> QED BY <2>1, <2>2, <2>3
<1>7. CASE taken = 68 /\ 68 <= received
  <2>1. Consume(68) /\ Handle(1, 1)
    BY <1>4, <1>7
  <2>2. consumed + 68 <= received /\ consumed + 68 = 68
    BY <1>1, <1>7
  <2>3. /\ consumed' = 68 /\ pc' \in {"reading", "parsing", "closed", "lost"}
        /\ WaitsForMore'
    BY <1>3, <2>1, <2>2, Consumes
  <2>4. 1 + 1 - 1 \in Messages
    BY <1>1
  <2> QED BY <1>1, <1>2, <1>3, <1>7, <2>1, <2>3, <2>4, Handles
<1>8. CASE taken = 0 /\ 2 \in Messages /\ 68 < received /\ received < Start[3]
  <2>1. Consume(0) /\ Handle(1, 0)
    BY <1>4, <1>8
  <2>2. handled' = handled
    <3>1. [j \in 1 .. 0 |-> 1 + j - 1] = <<>>
      OBVIOUS
    <3>2. handled \in Seq(Messages)
      BY DEF IndInv, TypeOK
    <3> QED BY <2>1, <3>1, <3>2 DEF Handle
  <2> QED BY <1>1, <1>3, <1>8, <2>1, <2>2, Waits
<1>9. CASE taken = Start[3] /\ 2 \in Messages /\ Start[3] <= received
  <2>1. Start[3] \in Nat /\ Start[2] < Start[3]
    <3>1. 2 \in 1 .. Len(script) + 1 /\ 3 \in 1 .. Len(script) + 1
      BY <1>9, Starts DEF Messages, IndInv, TypeOK
    <3> QED BY <3>1, Starts DEF IndInv, TypeOK
  <2>2. Consume(taken) /\ Handle(1, 2)
    BY <1>2, <1>4, <1>9, <2>1
  <2>3. taken \in Nat /\ taken # 0 /\ consumed + taken <= received /\ consumed + taken = taken
    BY <1>1, <1>2, <1>9, <2>1
  <2>4. /\ consumed' = Start[3] /\ pc' \in {"reading", "parsing", "closed", "lost"}
        /\ WaitsForMore'
    BY <1>3, <1>9, <2>2, <2>3, Consumes
  <2>5. 1 + 2 - 1 \in Messages /\ Start[1 + 2] <= consumed'
    BY <1>9, <2>1, <2>4
  <2> QED BY <1>1, <1>3, <1>9, <2>1, <2>2, <2>4, <2>5, Handles
<1> QED BY <1>5, <1>6, <1>7, <1>8, <1>9

LEMMA Parses ==
  ASSUME IndInv, parse
  PROVE  IndInv'
<1>1. UNCHANGED <<script, received, accepted>>
  BY DEF parse
<1>2. PICK i \in Here \ {1} :
        \/ HandshakeMsg_parse(received) > 0 /\ Consume(HandshakeLength) /\ UNCHANGED handled
        \/ Close
        \/ (Buffered < 4 \/ ~ Complete(i)) /\ Consume(0) /\ UNCHANGED handled
        \/ Buffered >= 4 /\ Complete(i) /\ Consume(Buffered) /\ UNCHANGED handled
        \/ Complete(i) /\ Consume(Size[script[i]]) /\ Handle(i, 1)
  <2>1. Buffered \in Int
    BY HasTotal DEF Buffered
  <2> QED BY <2>1 DEF parse
<1>3. i \in Messages /\ Start[i] = consumed
  BY DEF Here
<1>4. /\ Start[i + 1] = consumed + Size[script[i]]
      /\ Size[script[i]] \in Nat /\ Size[script[i]] >= 4
      /\ Buffered = received - consumed
  <2>1. script[i] \in DOMAIN Size
    BY <1>3, Starts DEF IndInv, TypeOK
  <2> QED BY <1>3, <2>1, Sizes, Starts DEF IndInv, TypeOK, Buffered
<1>5. ASSUME HandshakeMsg_parse(received) > 0, Consume(HandshakeLength), UNCHANGED handled
      PROVE  IndInv'
  <2>1. consumed + 68 <= received
    <3>1. script \in Scripts \cup Incoming
      BY DEF IndInv, TypeOK
    <3> QED BY <1>5, <3>1, Handshake, HasTotal
  <2>2. Consume(68)
    BY <1>5 DEF HandshakeLength
  <2> QED BY <1>1, <1>5, <2>1, <2>2, Skips
<1>6. ASSUME Close PROVE IndInv'
  BY <1>1, <1>6, Closes
<1>7. ASSUME Buffered < 4 \/ ~ Complete(i), Consume(0), UNCHANGED handled
      PROVE  IndInv'
  <2>1. received < Start[i + 1]
    BY <1>4, <1>7, HasTotal DEF Complete
  <2> QED BY <1>1, <1>3, <1>7, <2>1, Waits
<1>8. ASSUME Buffered >= 4, Consume(Buffered), UNCHANGED handled
      PROVE  IndInv'
  <2>1. Buffered \in Nat /\ Buffered # 0 /\ consumed + Buffered <= received
    BY <1>4, <1>8, HasTotal
  <2> QED BY <1>1, <1>8, <2>1, Skips
<1>9. ASSUME Complete(i), Consume(Size[script[i]]), Handle(i, 1)
      PROVE  IndInv'
  <2>1. consumed + Size[script[i]] <= received
    BY <1>4, <1>9, HasTotal DEF Complete
  <2>2. /\ consumed' = Start[i + 1] /\ consumed' \in Nat /\ consumed' <= received
        /\ pc' \in {"reading", "parsing", "closed", "lost"}
        /\ WaitsForMore'
    BY <1>1, <1>4, <1>9, <2>1, Consumes
  <2>3. i + 1 - 1 = i
    BY <1>3 DEF Messages
  <2> QED BY <1>1, <1>3, <1>9, <2>2, <2>3, Handles
<1> QED BY <1>2, <1>5, <1>6, <1>7, <1>8, <1>9

-----------------------------------------------------------------------------
(* The theorem *)

LEMMA Initially == Init => IndInv
<1> SUFFICES ASSUME Init PROVE IndInv
  OBVIOUS
<1>1. script \in Scripts \cup Incoming /\ Total \in Nat
  BY Starts DEF Init, Total
<1>2. TypeOK /\ HandledAreConsumed /\ NothingAccepted
  BY <1>1 DEF Init, TypeOK, HandledAreConsumed, NothingAccepted
<1>3. WaitsForMore
  <2>1. ASSUME NEW i \in Messages
        PROVE  received < IF i = 1 /\ received > 68 THEN Start[3] ELSE Start[i + 1]
    <3>1. i + 1 \in 1 .. Len(script) + 1 /\ 1 \in 1 .. Len(script) + 1 /\ 1 < i + 1
      BY <1>1, Starts DEF Messages
    <3>2. Start[1] = 0 /\ Start[1] < Start[i + 1]
      BY <1>1, <3>1, Starts
    <3> QED BY <3>2 DEF Init
  <2> QED BY <2>1 DEF WaitsForMore, HandshakeLength
<1> QED BY <1>2, <1>3 DEF IndInv

LEMMA Steps == IndInv /\ [Next]_vars => IndInv'
<1> SUFFICES ASSUME IndInv, [Next]_vars PROVE IndInv'
  OBVIOUS
<1>1. CASE Next
  BY <1>1, Reads, Listens, ParsesHandshake, Parses DEF Next
<1>2. CASE UNCHANGED vars
  <2>1. /\ UNCHANGED <<script, received, consumed, handled, accepted, pc>>
        /\ Start' = Start /\ Total' = Total /\ Messages' = Messages
    BY <1>2, SameStarts DEF vars
  <2> QED BY <2>1 DEF IndInv, TypeOK, HandledAreConsumed, WaitsForMore, NothingAccepted
<1> QED BY <1>1, <1>2

LEMMA Implies == IndInv => Inv
<1> SUFFICES ASSUME IndInv PROVE HandledInOrder
  BY DEF Inv, IndInv
<1>1. ASSUME NEW j \in DOMAIN handled
      PROVE  /\ j > 1 => handled[j - 1] < handled[j]
             /\ Start[handled[j] + 1] <= received
  <2>1. handled[j] \in Messages
    BY DEF IndInv, TypeOK
  <2>2. handled[j] + 1 \in 1 .. Len(script) + 1
    BY <2>1, Starts DEF IndInv, TypeOK, Messages
  <2>3. Start[handled[j] + 1] \in Nat
    BY <2>2, Starts DEF IndInv, TypeOK
  <2>4. Start[handled[j] + 1] <= consumed /\ (j > 1 => handled[j - 1] < handled[j])
    BY DEF IndInv, HandledAreConsumed
  <2> QED BY <2>3, <2>4, HasTotal
<1> QED BY <1>1 DEF HandledInOrder

\* Wherever the network cuts what a remote sends (handle_response, Message::parse),
\* the handlers are called for complete messages, in their order and for each once,
\* and the client does not wait for data while a message in its buffer is complete.
THEOREM FramingIsRight == Spec => []Inv
<1>1. Init => IndInv
  BY Initially
<1>2. IndInv /\ [Next]_vars => IndInv'
  BY Steps
<1>3. IndInv => Inv
  BY Implies
<1> QED BY <1>1, <1>2, <1>3, PTL DEF Spec

-----------------------------------------------------------------------------
(* Positions *)

\* Position i is offset bit_mask(i) of byte byte(i), and no other position is.
LEMMA Positions ==
  ASSUME BitfieldAssumption
  PROVE  /\ \A i \in Nat : /\ byte(i) \in Nat \ {0} /\ bit_mask(i) \in Offsets
                           /\ i = ByteBits * (byte(i) - 1) + bit_mask(i)
         /\ \A k \in Nat \ {0}, o \in Offsets :
              /\ ByteBits * (k - 1) + o \in Nat
              /\ byte(ByteBits * (k - 1) + o) = k
              /\ bit_mask(ByteBits * (k - 1) + o) = o
<1> USE DEF BitfieldAssumption
<1>1. ASSUME NEW i \in Nat
      PROVE  /\ byte(i) \in Nat \ {0} /\ bit_mask(i) \in Offsets
             /\ i = ByteBits * (byte(i) - 1) + bit_mask(i)
  <2>1. /\ i = (ByteBits * (i \div ByteBits)) + (i % ByteBits)
        /\ i % ByteBits \in 0 .. ByteBits - 1 /\ i \div ByteBits \in Nat
    OBVIOUS
  <2>2. (i \div ByteBits) + 1 - 1 = i \div ByteBits
    BY <2>1
  <2> QED BY <2>1, <2>2 DEF byte, bit_mask, Offsets
<1>2. ASSUME NEW k \in Nat \ {0}, NEW o \in Offsets
      PROVE  /\ ByteBits * (k - 1) + o \in Nat
             /\ byte(ByteBits * (k - 1) + o) = k
             /\ bit_mask(ByteBits * (k - 1) + o) = o
  <2> DEFINE l == k - 1
             i == ByteBits * l + o
  <2>1. l \in Nat /\ o \in 0 .. ByteBits - 1 /\ l + 1 = k
    BY DEF Offsets
  <2> HIDE DEF l
  <2>2. i \div ByteBits = l /\ i % ByteBits = o
    BY <2>1, SMTT(30)
  <2>3. i \in Nat
    BY <2>1
  <2> QED BY <2>1, <2>2, <2>3 DEF byte, bit_mask, l
<1> QED BY <1>1, <1>2

LEMMA PositionTypes ==
  ASSUME BitfieldAssumption
  PROVE  /\ Offsets \subseteq Nat
         /\ \A i \in Nat : /\ byte(i) \in Nat \ {0} /\ byte(i) \in Nat
                           /\ bit_mask(i) \in Offsets /\ bit_mask(i) \in Nat
<1>1. Offsets \subseteq Nat
  BY DEF Offsets, BitfieldAssumption
<1> QED BY <1>1, Positions

LEMMA SamePosition ==
  ASSUME BitfieldAssumption, NEW i \in Nat, NEW j \in Nat
  PROVE  i = j <=> byte(i) = byte(j) /\ bit_mask(i) = bit_mask(j)
BY Positions

\* Positions are ordered by byte, then by offset.
LEMMA Ordered ==
  ASSUME BitfieldAssumption, NEW i \in Nat, NEW j \in Nat
  PROVE  i < j <=> \/ byte(i) < byte(j)
                   \/ byte(i) = byte(j) /\ bit_mask(i) < bit_mask(j)
<1>1. /\ byte(i) \in Nat \ {0} /\ byte(j) \in Nat \ {0}
      /\ bit_mask(i) \in 0 .. ByteBits - 1 /\ bit_mask(j) \in 0 .. ByteBits - 1
      /\ i = ByteBits * (byte(i) - 1) + bit_mask(i)
      /\ j = ByteBits * (byte(j) - 1) + bit_mask(j)
  BY Positions DEF Offsets
<1>2. ASSUME NEW k \in Nat, NEW l \in Nat, k < l, NEW o \in 0 .. ByteBits - 1,
             NEW p \in 0 .. ByteBits - 1
      PROVE  ByteBits * k + o < ByteBits * l + p
  <2>1. ByteBits * k + ByteBits <= ByteBits * l
    BY <1>2, SMTT(30) DEF BitfieldAssumption
  <2>2. ByteBits * k \in Nat /\ ByteBits * l \in Nat /\ ByteBits \in Nat
    BY DEF BitfieldAssumption
  <2> QED BY <2>1, <2>2
<1>3. byte(i) < byte(j) => i < j
  <2>1. byte(i) - 1 \in Nat /\ byte(j) - 1 \in Nat
        /\ (byte(i) < byte(j) => byte(i) - 1 < byte(j) - 1)
    BY <1>1
  <2> QED BY <1>1, <1>2, <2>1
<1>4. byte(j) < byte(i) => j < i
  <2>1. byte(i) - 1 \in Nat /\ byte(j) - 1 \in Nat
        /\ (byte(j) < byte(i) => byte(j) - 1 < byte(i) - 1)
    BY <1>1
  <2> QED BY <1>1, <1>2, <2>1
<1>5. CASE byte(i) = byte(j)
  <2> DEFINE m == ByteBits * (byte(j) - 1)
  <2>1. m \in Nat /\ i = m + bit_mask(i) /\ j = m + bit_mask(j)
    <3>1. byte(j) - 1 \in Nat
      BY <1>1
    <3>2. m \in Nat
      BY <3>1 DEF BitfieldAssumption
    <3> QED BY <1>1, <1>5, <3>2
  <2> HIDE DEF m
  <2> QED BY <1>1, <1>5, <2>1
<1>6. CASE byte(i) # byte(j)
  BY <1>1, <1>3, <1>4, <1>6
<1> QED BY <1>5, <1>6

\* The positions of the first n bytes.
LEMMA Within ==
  ASSUME BitfieldAssumption, NEW i \in Nat, NEW n \in Nat
  PROVE  /\ ByteBits * n \in Nat
         /\ i < ByteBits * n <=> byte(i) <= n
<1> DEFINE j == ByteBits * ((n + 1) - 1) + 0
<1>1. n + 1 \in Nat \ {0} /\ 0 \in Offsets /\ ByteBits * n \in Nat
  BY DEF Offsets, BitfieldAssumption
<1>2. j \in Nat /\ byte(j) = n + 1 /\ bit_mask(j) = 0
  BY <1>1, Positions
<1>3. j = ByteBits * n
  <2>1. (n + 1) - 1 = n
    OBVIOUS
  <2> QED BY <1>1, <2>1
<1> HIDE DEF j
<1>4. /\ byte(i) \in Nat /\ bit_mask(i) \in Nat
      /\ (i < j <=> byte(i) < byte(j) \/ (byte(i) = byte(j) /\ bit_mask(i) < bit_mask(j)))
  BY <1>2, Ordered, Positions DEF Offsets
<1> QED BY <1>1, <1>2, <1>3, <1>4

-----------------------------------------------------------------------------
(* The ones *)

LEMMA OnesAre ==
  ASSUME BitfieldAssumption, NEW b \in Seq(Bytes)
  PROVE  /\ size(b) \in Nat
         /\ Ones(b) \subseteq Nat
         /\ \A i \in Nat : i < size(b) <=> byte(i) \in 1 .. Len(b)
         /\ \A i \in Nat : i \in Ones(b) <=> /\ byte(i) \in 1 .. Len(b)
                                             /\ bit_mask(i) \in b[byte(i)]
<1>1. Len(b) \in Nat
  OBVIOUS
<1>2. size(b) \in Nat /\ \A i \in Nat : i < size(b) <=> byte(i) \in 1 .. Len(b)
  <2>1. size(b) \in Nat
    BY <1>1 DEF size, BitfieldAssumption
  <2>2. ASSUME NEW i \in Nat PROVE i < size(b) <=> byte(i) \in 1 .. Len(b)
    <3>1. byte(i) \in Nat \ {0}
      BY Positions
    <3> QED BY <1>1, <3>1, Within DEF size
  <2> QED BY <2>1, <2>2
<1>3. \A i \in Nat : i \in 0 .. size(b) - 1 <=> i < size(b)
  BY <1>2
<1> QED BY <1>2, <1>3 DEF Ones, get

\* Which positions c has, if each of its bytes has the offsets of those in S.
LEMMA SameOnes ==
  ASSUME BitfieldAssumption, NEW c \in Seq(Bytes), NEW S, S \subseteq Nat,
         \A i \in Nat : i \in S <=> byte(i) \in 1 .. Len(c) /\ bit_mask(i) \in c[byte(i)]
  PROVE  Ones(c) = S
BY OnesAre

-----------------------------------------------------------------------------
(* Writing *)

LEMMA Masked ==
  ASSUME NEW b \in Seq(Bytes), NEW k \in 1 .. Len(b), NEW mask \in SUBSET Offsets,
         NEW val \in BOOLEAN
  PROVE  /\ masked(b, k, mask, val) \in Seq(Bytes)
         /\ Len(masked(b, k, mask, val)) = Len(b)
         /\ \A l \in 1 .. Len(b) :
              masked(b, k, mask, val)[l] = IF l = k THEN Put(b[k], mask, val) ELSE b[l]
<1>1. Put(b[k], mask, val) \in Bytes
  BY DEF Put, Bytes
<1>2. masked(b, k, mask, val) = [b EXCEPT ![k] = Put(b[k], mask, val)]
  BY DEF masked, Put
<1> QED BY <1>1, <1>2

LEMMA Tuples ==
  ASSUME NEW S, NEW n \in Nat, NEW f \in [1 .. n -> S]
  PROVE  f \in Seq(S) /\ Len(f) = n
OBVIOUS

LEMMA ZerosType ==
  ASSUME BitfieldAssumption, NEW n \in Nat
  PROVE  zeros(n) \in Seq(Bytes)
<1> DEFINE m == (n \div ByteBits) + (IF n % ByteBits # 0 THEN 1 ELSE 0)
<1>1. m \in Nat
  BY DEF BitfieldAssumption
<1>2. zeros(n) = [k \in 1 .. m |-> {}]
  BY DEF zeros
<1> HIDE DEF m
<1>3. [k \in 1 .. m |-> {}] \in [1 .. m -> Bytes]
  BY DEF Bytes
<1> QED BY <1>1, <1>2, <1>3, Tuples

LEMMA Assigned ==
  ASSUME BitfieldAssumption, NEW b \in Seq(Bytes), NEW i \in Nat, NEW val \in BOOLEAN
  PROVE  /\ assign(b, i, val) \in Seq(Bytes)
         /\ Len(assign(b, i, val)) = IF Len(b) < byte(i) THEN byte(i) ELSE Len(b)
         /\ Ones(assign(b, i, val)) = Put(Ones(b), {i}, val)
<1> DEFINE grown == [k \in 1 .. byte(i) |-> IF k <= Len(b) THEN b[k] ELSE {}]
           a == IF Len(b) < byte(i) THEN grown ELSE b
           c == masked(a, byte(i), {bit_mask(i)}, val)
<1>1. byte(i) \in Nat \ {0} /\ bit_mask(i) \in Offsets /\ Len(b) \in Nat
  <2>1. Len(b) \in Nat
    OBVIOUS
  <2> QED BY <2>1, Positions
<1>2. /\ a \in Seq(Bytes)
      /\ Len(a) = IF Len(b) < byte(i) THEN byte(i) ELSE Len(b)
      /\ \A k \in 1 .. Len(a) : a[k] = IF k <= Len(b) THEN b[k] ELSE {}
  <2>1. CASE Len(b) < byte(i)
    <3>1. \A k \in 1 .. byte(i) : (IF k <= Len(b) THEN b[k] ELSE {}) \in Bytes
      BY <1>1 DEF Bytes
    <3>2. grown \in [1 .. byte(i) -> Bytes]
      BY <3>1
    <3>3. grown \in Seq(Bytes) /\ Len(grown) = byte(i)
      BY <1>1, <3>2, Tuples
    <3>4. \A k \in 1 .. byte(i) : grown[k] = IF k <= Len(b) THEN b[k] ELSE {}
      OBVIOUS
    <3> HIDE DEF grown
    <3> QED BY <2>1, <3>3, <3>4
  <2>2. CASE ~ (Len(b) < byte(i))
    BY <2>2, <1>1
  <2> QED BY <2>1, <2>2
<1>3. assign(b, i, val) = c
  BY DEF assign
<1> HIDE DEF a
<1>4. byte(i) \in 1 .. Len(a)
  BY <1>1, <1>2
<1>5. /\ c \in Seq(Bytes) /\ Len(c) = Len(a)
      /\ \A l \in 1 .. Len(a) :
           c[l] = IF l = byte(i) THEN Put(a[l], {bit_mask(i)}, val) ELSE a[l]
  BY <1>1, <1>2, <1>4, Masked
<1> HIDE DEF c
<1>6. ASSUME NEW j \in Nat
      PROVE  j \in Put(Ones(b), {i}, val)
               <=> byte(j) \in 1 .. Len(c) /\ bit_mask(j) \in c[byte(j)]
  <2>1. byte(j) \in Nat \ {0} /\ bit_mask(j) \in Offsets
    BY Positions
  <2>2. j \in Ones(b) <=> byte(j) \in 1 .. Len(b) /\ bit_mask(j) \in b[byte(j)]
    BY OnesAre
  <2>3. j = i <=> byte(j) = byte(i) /\ bit_mask(j) = bit_mask(i)
    BY SamePosition
  <2>4. j \in Ones(b) <=> byte(j) \in 1 .. Len(c) /\ bit_mask(j) \in a[byte(j)]
    BY <1>1, <1>2, <1>5, <2>1, <2>2
  <2>5. CASE byte(j) = byte(i)
    <3>1. c[byte(j)] = Put(a[byte(j)], {bit_mask(i)}, val) /\ byte(j) \in 1 .. Len(c)
      BY <1>4, <1>5, <2>5
    <3>2. j \in Ones(b) <=> bit_mask(j) \in a[byte(j)]
      BY <2>4, <3>1
    <3>3. j = i <=> bit_mask(j) = bit_mask(i)
      BY <2>3, <2>5
    <3> QED BY <3>1, <3>2, <3>3 DEF Put
  <2>6. CASE byte(j) # byte(i)
    <3>1. byte(j) \in 1 .. Len(c) => c[byte(j)] = a[byte(j)]
      BY <1>5, <2>6
    <3>2. j # i
      BY <2>6
    <3>3. j \in Put(Ones(b), {i}, val) <=> j \in Ones(b)
      BY <3>2 DEF Put
    <3> QED BY <2>4, <3>1, <3>3
  <2> QED BY <2>5, <2>6
<1>7. Put(Ones(b), {i}, val) \subseteq Nat
  BY OnesAre DEF Put
<1>8. Ones(c) = Put(Ones(b), {i}, val)
  BY <1>5, <1>6, <1>7, SameOnes
<1> QED BY <1>2, <1>3, <1>5, <1>8

LEMMA Combined ==
  ASSUME BitfieldAssumption, NEW b \in Seq(Bytes), NEW c \in Seq(Bytes)
  PROVE  LET both == 0 .. Smaller(size(b), size(c)) - 1
         IN /\ minus(b, c) \in Seq(Bytes) /\ plus(b, c) \in Seq(Bytes)
            /\ Len(minus(b, c)) <= Len(b) /\ Len(plus(b, c)) <= Len(b)
            /\ Ones(minus(b, c)) = (Ones(b) \ Ones(c)) \cap both
            /\ Ones(plus(b, c)) = (Ones(b) \cup Ones(c)) \cap both
<1> DEFINE n == Smaller(Len(b), Len(c))
           both == 0 .. Smaller(size(b), size(c)) - 1
           less == minus(b, c)
           more == plus(b, c)
<1>1. n \in Nat /\ Len(b) \in Nat /\ Len(c) \in Nat /\ n <= Len(b) /\ n <= Len(c)
      /\ 1 .. n = (1 .. Len(b)) \cap (1 .. Len(c))
  BY DEF Smaller
<1>2. /\ less \in Seq(Bytes) /\ Len(less) = n
      /\ \A k \in 1 .. n : less[k] = b[k] \ c[k]
  <2>1. \A k \in 1 .. n : b[k] \ (b[k] \cap c[k]) \in Bytes
    BY <1>1 DEF Bytes
  <2>2. less = [k \in 1 .. n |-> b[k] \ (b[k] \cap c[k])]
    BY DEF minus
  <2> HIDE DEF less, n
  <2> QED BY <1>1, <2>1, <2>2
<1>3. /\ more \in Seq(Bytes) /\ Len(more) = n
      /\ \A k \in 1 .. n : more[k] = b[k] \cup c[k]
  <2>1. \A k \in 1 .. n : b[k] \cup c[k] \in Bytes
    BY <1>1 DEF Bytes
  <2>2. more = [k \in 1 .. n |-> b[k] \cup c[k]]
    BY DEF plus
  <2> HIDE DEF more, n
  <2> QED BY <1>1, <2>1, <2>2
<1>4. \A j \in Nat : j \in both <=> byte(j) \in 1 .. n
  <2>1. ASSUME NEW j \in Nat PROVE j \in both <=> byte(j) \in 1 .. n
    <3>1. /\ j < size(b) <=> byte(j) \in 1 .. Len(b)
          /\ j < size(c) <=> byte(j) \in 1 .. Len(c)
          /\ size(b) \in Nat /\ size(c) \in Nat
      BY OnesAre
    <3>2. j \in both <=> j < size(b) /\ j < size(c)
      BY <3>1 DEF Smaller
    <3> QED BY <1>1, <3>1, <3>2
  <2> QED BY <2>1
<1> HIDE DEF less, more, n, both
<1>5. \A j \in Nat : /\ j \in Ones(b) <=> byte(j) \in 1 .. Len(b) /\ bit_mask(j) \in b[byte(j)]
                     /\ j \in Ones(c) <=> byte(j) \in 1 .. Len(c) /\ bit_mask(j) \in c[byte(j)]
  BY OnesAre
<1>6. Ones(b) \subseteq Nat /\ Ones(c) \subseteq Nat
  BY OnesAre
<1>7. Ones(less) = (Ones(b) \ Ones(c)) \cap both
  <2>1. \A j \in Nat : j \in (Ones(b) \ Ones(c)) \cap both
                         <=> byte(j) \in 1 .. Len(less) /\ bit_mask(j) \in less[byte(j)]
    BY <1>1, <1>2, <1>4, <1>5
  <2>2. (Ones(b) \ Ones(c)) \cap both \subseteq Nat
    BY <1>6
  <2> QED BY <1>2, <2>1, <2>2, SameOnes
<1>8. Ones(more) = (Ones(b) \cup Ones(c)) \cap both
  <2>1. \A j \in Nat : j \in (Ones(b) \cup Ones(c)) \cap both
                         <=> byte(j) \in 1 .. Len(more) /\ bit_mask(j) \in more[byte(j)]
    BY <1>1, <1>3, <1>4, <1>5
  <2>2. (Ones(b) \cup Ones(c)) \cap both \subseteq Nat
    BY <1>6
  <2> QED BY <1>3, <2>1, <2>2, SameOnes
<1> QED BY <1>1, <1>2, <1>3, <1>7, <1>8 DEF less, more, both

\* The position behind e.
LEMMA Behind ==
  ASSUME BitfieldAssumption, NEW e \in Nat
  PROVE  /\ bit_mask(e + 1) > 0 => bit_mask(e + 1) = bit_mask(e) + 1
         /\ ~ (bit_mask(e + 1) > 0) => bit_mask(e) = ByteBits - 1
<1> DEFINE k == byte(e)
           o == bit_mask(e)
<1>1. /\ k \in Nat \ {0} /\ o \in 0 .. ByteBits - 1 /\ e = ByteBits * (k - 1) + o
      /\ ByteBits \in Nat
  BY Positions DEF Offsets, BitfieldAssumption
<1> HIDE DEF k, o
<1>2. CASE o < ByteBits - 1
  <2>1. o + 1 \in Offsets
    BY <1>1, <1>2 DEF Offsets
  <2>2. e + 1 = ByteBits * (k - 1) + (o + 1)
    <3> DEFINE m == ByteBits * (k - 1)
    <3>1. m \in Nat
      <4>1. k - 1 \in Nat
        BY <1>1
      <4> QED BY <1>1, <4>1
    <3> HIDE DEF m
    <3>2. e + 1 = m + (o + 1)
      BY <1>1, <3>1 DEF m
    <3> QED BY <3>2 DEF m
  <2>3. bit_mask(e + 1) = o + 1
    BY <1>1, <2>1, <2>2, Positions
  <2>4. o + 1 > 0
    BY <1>1
  <2> QED BY <2>3, <2>4 DEF o
<1>3. CASE o = ByteBits - 1
  <2>1. e + 1 = ByteBits * k
    <3>1. k - 1 \in Nat /\ k = (k - 1) + 1
      BY <1>1
    <3>2. \A l \in Nat : ByteBits * (l + 1) = ByteBits * l + ByteBits
      BY <1>1
    <3>3. ByteBits * k = ByteBits * (k - 1) + ByteBits /\ ByteBits * (k - 1) \in Nat
      BY <1>1, <3>1, <3>2
    <3> DEFINE m == ByteBits * (k - 1)
    <3> HIDE DEF m
    <3> QED BY <1>1, <1>3, <3>3 DEF m
  <2>2. (k + 1) - 1 = k /\ k + 1 \in Nat \ {0} /\ 0 \in Offsets
    BY <1>1 DEF Offsets, BitfieldAssumption
  <2>3. bit_mask(ByteBits * ((k + 1) - 1) + 0) = 0
    BY <2>2, Positions
  <2>4. bit_mask(e + 1) = 0
    <3>1. ByteBits * k + 0 = e + 1
      BY <1>1, <2>1
    <3> QED BY <2>2, <2>3, <3>1
  <2> QED BY <1>3, <2>4 DEF o
<1> QED BY <1>1, <1>2, <1>3

\* The offsets in byte k of the positions from begin to e.
OffsetsOf(k, begin, e) ==
  {o \in Offsets : /\ ~ (k < byte(begin)) /\ ~ (k = byte(begin) /\ o < bit_mask(begin))
                   /\ ~ (byte(e) < k) /\ ~ (k = byte(e) /\ bit_mask(e) < o)}

LEMMA OffsetsAre ==
  ASSUME BitfieldAssumption, NEW begin \in Nat, NEW e \in Nat, NEW j \in Nat
  PROVE  j \in begin .. e <=> bit_mask(j) \in OffsetsOf(byte(j), begin, e)
<1>1. j \in begin .. e <=> ~ (j < begin) /\ ~ (e < j)
  OBVIOUS
<1>2. bit_mask(j) \in Offsets
  BY Positions
<1>3. j < begin <=> byte(j) < byte(begin) \/ (byte(j) = byte(begin) /\ bit_mask(j) < bit_mask(begin))
  BY Ordered
<1>4. e < j <=> byte(e) < byte(j) \/ (byte(e) = byte(j) /\ bit_mask(e) < bit_mask(j))
  BY Ordered
<1> QED BY <1>1, <1>2, <1>3, <1>4 DEF OffsetsOf

\* fill(), byte by byte.
LEMMA FilledBytes ==
  ASSUME BitfieldAssumption, NEW b \in Seq(Bytes), NEW n \in Nat \ {0}, NEW begin \in Nat,
         NEW val \in BOOLEAN, byte(begin + n - 1) <= Len(b)
  PROVE  /\ fill(b, n, val, begin) \in Seq(Bytes)
         /\ Len(fill(b, n, val, begin)) = Len(b)
         /\ \A k \in 1 .. Len(b) :
              fill(b, n, val, begin)[k] = Put(b[k], OffsetsOf(k, begin, begin + n - 1), val)
<1> DEFINE bit_end == begin + n
           e == bit_end - 1
           first == byte(begin)
           last == byte(e)
           f == bit_mask(begin)
           l == bit_mask(e)
           c == fill(b, n, val, begin)
           In(k) == OffsetsOf(k, begin, e)
<1>1. /\ e \in Nat /\ begin <= e /\ bit_end = e + 1 /\ Len(b) \in Nat /\ ByteBits \in Nat \ {0}
      /\ first \in Nat \ {0} /\ last \in Nat \ {0} /\ f \in Offsets /\ l \in Offsets
      /\ f \in Nat /\ l \in Nat
      /\ \A k \in 1 .. Len(b) : b[k] \in SUBSET Offsets
  <2>1. e \in Nat /\ begin <= e /\ bit_end = e + 1 /\ Len(b) \in Nat
    OBVIOUS
  <2>2. \A k \in 1 .. Len(b) : b[k] \in SUBSET Offsets
    BY DEF Bytes
  <2> HIDE DEF e
  <2>3. /\ first \in Nat \ {0} /\ last \in Nat \ {0} /\ f \in Offsets /\ l \in Offsets
    BY <2>1, Positions
  <2> QED BY <2>1, <2>2, <2>3 DEF Offsets, BitfieldAssumption
<1>2. first <= last /\ last <= Len(b) /\ first \in 1 .. Len(b) /\ last \in 1 .. Len(b)
  <2>1. ~ (e < begin)
    BY <1>1
  <2>2. e < begin <=> last < first \/ (last = first /\ l < f)
    <3> HIDE DEF e
    <3> QED BY <1>1, Ordered
  <2> HIDE DEF first, last
  <2>3. last <= Len(b)
    BY DEF last
  <2> QED BY <1>1, <2>1, <2>2, <2>3
<1>3. \A k \in 1 .. Len(b) : k < first \/ last < k => In(k) = {}
  BY DEF OffsetsOf
<1>4. \A k \in 1 .. Len(b) : Put(b[k], {}, val) = b[k]
  BY DEF Put
<1>5. n # 0 /\ byte(bit_end - 1) = last
  OBVIOUS
<1>6. CASE first = last
  <2> DEFINE mask == {bit_mask(i) : i \in begin .. bit_end - 1}
  <2>1. c = masked(b, first, mask, val)
    BY <1>5, <1>6 DEF fill
  <2>2. mask = In(first)
    <3>1. ASSUME NEW i \in begin .. bit_end - 1
          PROVE  bit_mask(i) \in In(first)
      <4>1. i \in Nat /\ i \in begin .. e
        BY <1>1
      <4>2. bit_mask(i) \in In(byte(i))
        <5> HIDE DEF e
        <5> QED BY <1>1, <4>1, OffsetsAre
      <4>3. byte(i) = first
        <5>1. ~ (byte(i) < first) /\ ~ (last < byte(i)) /\ byte(i) \in Nat
          <6>1. byte(i) \in Nat
            BY <4>1, Positions
          <6> QED BY <4>2, <6>1 DEF OffsetsOf
        <5> HIDE DEF first, last
        <5> QED BY <1>1, <1>6, <5>1
      <4> QED BY <4>2, <4>3
    <3>2. ASSUME NEW o \in In(first)
          PROVE  \E i \in begin .. bit_end - 1 : o = bit_mask(i)
      <4> DEFINE i == ByteBits * (first - 1) + o
      <4>1. o \in Offsets
        BY <3>2 DEF OffsetsOf
      <4>2. i \in Nat /\ byte(i) = first /\ bit_mask(i) = o
        <5> HIDE DEF first
        <5> QED BY <1>1, <4>1, Positions
      <4> HIDE DEF i
      <4>3. i \in begin .. e
        <5> HIDE DEF e
        <5> QED BY <1>1, <3>2, <4>2, OffsetsAre
      <4> QED BY <4>2, <4>3
    <3> QED BY <3>1, <3>2
  <2>3. mask \in SUBSET Offsets
    BY <2>2 DEF OffsetsOf
  <2> HIDE DEF mask, c, In, first, last
  <2>4. /\ c \in Seq(Bytes) /\ Len(c) = Len(b)
        /\ \A k \in 1 .. Len(b) : c[k] = IF k = first THEN Put(b[first], mask, val) ELSE b[k]
    BY <1>2, <2>1, <2>3, Masked
  <2>5. \A k \in 1 .. Len(b) : k = first \/ k < first \/ last < k
    BY <1>1, <1>6
  <2>6. \A k \in 1 .. Len(b) : c[k] = Put(b[k], In(k), val)
    BY <1>3, <1>4, <2>2, <2>4, <2>5
  <2> QED BY <2>4, <2>6 DEF c, In
<1>7. CASE first < last
  <2> DEFINE head == f > 0
             tail == bit_mask(bit_end) > 0
             b1 == IF head THEN masked(b, first, first_mask(begin), val) ELSE b
             b2 == IF tail THEN masked(b1, last, last_mask(bit_end), val) ELSE b1
             from == IF head THEN first + 1 ELSE first
             to == IF tail THEN last - 1 ELSE last
             all == IF val THEN Offsets ELSE {}
  <2>1. c = [k \in 1 .. Len(b) |-> IF from <= k /\ k <= to THEN all ELSE b2[k]]
    <3>1. first # last
      BY <1>1, <1>7
    <3> QED BY <1>5, <3>1 DEF fill
  <2>2. /\ head => first_mask(begin) = {o \in Offsets : ~ (o < f)}
        /\ ~ head => f = 0
        /\ first_mask(begin) \in SUBSET Offsets
    BY <1>1 DEF first_mask, Offsets
  <2>3. /\ tail => last_mask(bit_end) = {o \in Offsets : ~ (l < o)}
        /\ ~ tail => l = ByteBits - 1
        /\ last_mask(bit_end) \in SUBSET Offsets
    <3>1. /\ tail => bit_mask(bit_end) = l + 1
          /\ ~ tail => l = ByteBits - 1
      <4> HIDE DEF e, bit_end
      <4> QED BY <1>1, Behind
    <3> HIDE DEF l, e, bit_end
    <3>2. tail => last_mask(bit_end) = {o \in Offsets : ~ (l < o)}
      <4>1. \A o \in Offsets : o < l + 1 <=> ~ (l < o)
        BY <1>1 DEF Offsets
      <4> QED BY <3>1, <4>1 DEF last_mask
    <3> QED BY <3>1, <3>2 DEF last_mask
  <2> HIDE DEF head, tail, f, l, first, last, e, bit_end, c
  <2>4. /\ b1 \in Seq(Bytes) /\ Len(b1) = Len(b)
        /\ \A k \in 1 .. Len(b) :
             b1[k] = IF head /\ k = first THEN Put(b[first], first_mask(begin), val) ELSE b[k]
    BY <1>2, <2>2, Masked
  <2> HIDE DEF b1
  <2>5. /\ b2 \in Seq(Bytes) /\ Len(b2) = Len(b)
        /\ \A k \in 1 .. Len(b) :
             b2[k] = IF tail /\ k = last THEN Put(b1[last], last_mask(bit_end), val) ELSE b1[k]
    BY <1>2, <2>3, <2>4, Masked
  <2> HIDE DEF b2
  <2>6. /\ head => from = first + 1
        /\ ~ head => from = first
        /\ tail => to = last - 1
        /\ ~ tail => to = last
        /\ from \in Nat /\ to \in Int
    BY <1>1
  <2> HIDE DEF from, to
  <2>7. /\ c \in Seq(Bytes) /\ Len(c) = Len(b)
        /\ \A k \in 1 .. Len(b) : c[k] = IF from <= k /\ k <= to THEN all ELSE b2[k]
    <3>1. \A k \in 1 .. Len(b) : (IF from <= k /\ k <= to THEN all ELSE b2[k]) \in Bytes
      BY <2>5 DEF Bytes
    <3>2. c \in [1 .. Len(b) -> Bytes]
      BY <2>1, <3>1
    <3>3. c \in Seq(Bytes) /\ Len(c) = Len(b)
      BY <1>1, <3>2, Tuples
    <3> QED BY <2>1, <3>3
  <2> HIDE DEF all
  <2>8. \A k \in 1 .. Len(b) : Put(b[k], Offsets, val) = all
    BY <1>1 DEF Put, all
  <2>9. /\ In(first) = {o \in Offsets : ~ (o < f)}
        /\ In(last) = {o \in Offsets : ~ (l < o)}
        /\ \A k \in 1 .. Len(b) : first < k /\ k < last => In(k) = Offsets
    <3>1. \A k : In(k) = {o \in Offsets : /\ ~ (k < first) /\ ~ (k = first /\ o < f)
                                          /\ ~ (last < k) /\ ~ (k = last /\ l < o)}
      BY DEF OffsetsOf, first, last, f, l
    <3> HIDE DEF In
    <3>2. first # last /\ ~ (first < first) /\ ~ (last < first) /\ ~ (last < last)
      BY <1>1, <1>7
    <3>3. \A k \in 1 .. Len(b) : first < k /\ k < last =>
                                   k # first /\ k # last /\ ~ (k < first) /\ ~ (last < k)
      BY <1>1
    <3>4. In(first) = {o \in Offsets : ~ (o < f)}
      BY <3>1, <3>2
    <3>5. In(last) = {o \in Offsets : ~ (l < o)}
      <4>1. last # first
        BY <3>2
      <4> QED BY <3>1, <3>2, <4>1
    <3>6. ASSUME NEW k \in 1 .. Len(b), first < k, k < last PROVE In(k) = Offsets
      BY <3>1, <3>3, <3>6
    <3> QED BY <3>4, <3>5, <3>6
  <2> HIDE DEF In
  <2>10. ASSUME NEW k \in 1 .. Len(b) PROVE c[k] = Put(b[k], In(k), val)
    <3>1. CASE k < first \/ last < k
      <4>1. ~ (from <= k /\ k <= to) /\ k # first /\ k # last
        BY <1>1, <1>7, <2>6, <3>1
      <4> QED BY <1>3, <1>4, <2>4, <2>5, <2>7, <3>1, <4>1
    <3>2. CASE first < k /\ k < last
      <4>1. from <= k /\ k <= to
        BY <1>1, <2>6, <3>2
      <4> QED BY <2>7, <2>8, <2>9, <3>2, <4>1
    <3>3. CASE k = first /\ head
      <4>1. ~ (from <= k) /\ k # last
        BY <1>1, <1>7, <2>6, <3>3
      <4>2. c[k] = Put(b[first], first_mask(begin), val)
        BY <2>4, <2>5, <2>7, <3>3, <4>1
      <4> QED BY <2>2, <2>9, <3>3, <4>2
    <3>4. CASE k = first /\ ~ head
      <4>1. from <= k /\ k <= to
        BY <1>1, <1>7, <2>6, <3>4
      <4>2. In(first) = Offsets
        <5>1. \A o \in Offsets : ~ (o < f)
          BY <2>2, <3>4 DEF Offsets
        <5> QED BY <2>9, <5>1
      <4> QED BY <2>7, <2>8, <3>4, <4>1, <4>2
    <3>5. CASE k = last /\ tail
      <4>1. ~ (k <= to) /\ k # first
        BY <1>1, <1>7, <2>6, <3>5
      <4>2. c[k] = Put(b[last], last_mask(bit_end), val)
        BY <2>4, <2>5, <2>7, <3>5, <4>1
      <4> QED BY <2>3, <2>9, <3>5, <4>2
    <3>6. CASE k = last /\ ~ tail
      <4>1. from <= k /\ k <= to
        BY <1>1, <1>7, <2>6, <3>6
      <4>2. In(last) = Offsets
        <5>1. \A o \in Offsets : ~ (l < o)
          BY <1>1, <2>3, <3>6 DEF Offsets
        <5> QED BY <2>9, <5>1
      <4> QED BY <2>7, <2>8, <3>6, <4>1, <4>2
    <3>7. k < first \/ last < k \/ (first < k /\ k < last) \/ k = first \/ k = last
      BY <1>1
    <3> QED BY <3>1, <3>2, <3>3, <3>4, <3>5, <3>6, <3>7
  <2> QED BY <2>7, <2>10 DEF c, In, e, bit_end
<1>8. first = last \/ first < last
  <2> HIDE DEF first, last
  <2> QED BY <1>1, <1>2
<1> QED BY <1>6, <1>7, <1>8

LEMMA Filled ==
  ASSUME BitfieldAssumption, NEW b \in Seq(Bytes), NEW n \in Nat, NEW begin \in Nat,
         NEW val \in BOOLEAN
  PROVE  /\ fill_throws(b, n, begin) <=> ~ (n = 0 \/ begin + n <= size(b))
         /\ ~ fill_throws(b, n, begin) =>
              /\ fill(b, n, val, begin) \in Seq(Bytes)
              /\ Len(fill(b, n, val, begin)) = Len(b)
              /\ size(fill(b, n, val, begin)) = size(b)
              /\ Ones(fill(b, n, val, begin)) = Put(Ones(b), begin .. begin + n - 1, val)
<1>1. CASE n = 0
  <2>1. begin .. begin + n - 1 = {} /\ ~ (n > 0)
    BY <1>1
  <2>2. fill(b, n, val, begin) = b
    BY <1>1 DEF fill
  <2>3. Put(Ones(b), {}, val) = Ones(b)
    BY DEF Put
  <2> QED BY <1>1, <2>1, <2>2, <2>3 DEF fill_throws
<1>2. CASE n # 0
  <2> DEFINE e == begin + n - 1
             c == fill(b, n, val, begin)
             S == Put(Ones(b), begin .. e, val)
  <2>1. e \in Nat /\ n > 0 /\ Len(b) \in Nat /\ (e < size(b) <=> begin + n <= size(b))
    <3>1. size(b) \in Nat
      BY OnesAre
    <3> QED BY <1>2, <3>1
  <2> HIDE DEF e
  <2>2. byte(e) \in Nat \ {0} /\ (e < size(b) <=> byte(e) \in 1 .. Len(b))
    BY <2>1, OnesAre, Positions
  <2>3. fill_throws(b, n, begin) <=> ~ (begin + n <= size(b))
    BY <2>1, <2>2 DEF fill_throws, e
  <2>4. ASSUME byte(e) <= Len(b)
        PROVE  c \in Seq(Bytes) /\ Len(c) = Len(b) /\ Ones(c) = S
    <3>1. /\ c \in Seq(Bytes) /\ Len(c) = Len(b)
          /\ \A k \in 1 .. Len(b) : c[k] = Put(b[k], OffsetsOf(k, begin, e), val)
      BY <1>2, <2>4, FilledBytes DEF e
    <3> HIDE DEF c
    <3>2. ASSUME NEW j \in Nat
          PROVE  j \in S <=> byte(j) \in 1 .. Len(c) /\ bit_mask(j) \in c[byte(j)]
      <4>1. j \in begin .. e <=> bit_mask(j) \in OffsetsOf(byte(j), begin, e)
        BY <2>1, OffsetsAre
      <4>2. j \in Ones(b) <=> byte(j) \in 1 .. Len(b) /\ bit_mask(j) \in b[byte(j)]
        BY OnesAre
      <4>3. j \in begin .. e => byte(j) \in 1 .. Len(b)
        <5>1. byte(j) \in Nat \ {0}
          BY Positions
        <5>2. j \in begin .. e => ~ (byte(e) < byte(j))
          BY <4>1 DEF OffsetsOf
        <5> QED BY <2>1, <2>2, <2>4, <5>1, <5>2
      <4>4. CASE byte(j) \in 1 .. Len(b)
        <5>1. bit_mask(j) \in c[byte(j)]
                <=> bit_mask(j) \in Put(b[byte(j)], OffsetsOf(byte(j), begin, e), val)
          BY <3>1, <4>4
        <5> QED BY <3>1, <4>1, <4>2, <4>4, <5>1 DEF Put
      <4>5. CASE byte(j) \notin 1 .. Len(b)
        BY <3>1, <4>2, <4>3, <4>5 DEF Put
      <4> QED BY <4>4, <4>5
    <3>3. S \subseteq Nat
      <4>1. Ones(b) \subseteq Nat /\ begin .. e \subseteq Nat
        BY OnesAre
      <4> QED BY <4>1 DEF Put
    <3> HIDE DEF S
    <3> QED BY <3>1, <3>2, <3>3, SameOnes
  <2>5. ~ fill_throws(b, n, begin) => byte(e) <= Len(b)
    BY <2>1, <2>2, <2>3
  <2> QED BY <1>2, <2>3, <2>4, <2>5 DEF e, size
<1> QED BY <1>1, <1>2

-----------------------------------------------------------------------------
(* Reading *)

\* The offset that a search of one byte finds.
LEMMA InByteIsFirst ==
  ASSUME BitfieldAssumption, NEW set, NEW val \in BOOLEAN, NEW from \in Nat
  PROVE  LET found == {o \in Offsets : o >= from /\ ((o \in set) <=> val)}
         IN \/ found = {} /\ InByte(set, val, from) = {}
            \/ \E o \in found : /\ InByte(set, val, from) = {o}
                                /\ \A p \in found : o <= p
<1> DEFINE found == {o \in Offsets : o >= from /\ ((o \in set) <=> val)}
<1> SUFFICES \/ found = {} /\ InByte(set, val, from) = {}
             \/ \E o \in found : /\ InByte(set, val, from) = {o}
                                 /\ \A p \in found : o <= p
  OBVIOUS
<1>1. found = {o \in from .. ByteBits - 1 : (o \in set) = val}
  BY DEF Offsets, BitfieldAssumption
<1>2. InByte(set, val, from) = IF found = {} THEN {} ELSE {Min(found)}
  BY <1>1 DEF InByte
<1>3. found \subseteq Nat
  BY DEF Offsets
<1>4. CASE found = {}
  BY <1>2, <1>4
<1>5. CASE found # {}
  <2> HIDE DEF found
  <2>1. Min(found) \in found /\ \A p \in found : Min(found) <= p
    BY <1>3, <1>5, MinIsLeast
  <2>2. InByte(set, val, from) = {Min(found)}
    BY <1>2, <1>5
  <2> QED BY <2>1, <2>2
<1> QED BY <1>4, <1>5

\* next() finds the first of the positions that it looks for.
LEMMA NextFinds ==
  ASSUME BitfieldAssumption, NEW b \in Seq(Bytes), NEW val \in BOOLEAN, NEW begin \in Nat
  PROVE  LET there == {i \in 0 .. size(b) - 1 : i >= begin /\ (get(b, i) <=> val)}
         IN next(b, val, begin) = IF there = {} THEN {} ELSE {Min(there)}
<1> DEFINE there == {i \in 0 .. size(b) - 1 : i >= begin /\ (get(b, i) <=> val)}
           N == Len(b)
           first == byte(begin)
           f == bit_mask(begin)
           Is(k, o) == (o \in b[k]) <=> val
           partial == IF f > 0 /\ first <= N THEN InByte(b[first], val, f) ELSE {}
           whole == IF f > 0 THEN first + 1 ELSE first
           hits == {k \in whole .. N : InByte(b[k], val, 0) # {}}
           At(k, offsets) == {ByteBits * (k - 1) + o : o \in offsets}
<1> SUFFICES next(b, val, begin) = IF there = {} THEN {} ELSE {Min(there)}
  OBVIOUS
<1>1. next(b, val, begin) = IF begin > size(b) THEN {}
                            ELSE IF partial # {} THEN At(first, partial)
                            ELSE IF hits # {} THEN At(Min(hits), InByte(b[Min(hits)], val, 0))
                            ELSE {}
  BY DEF next
<1>2. /\ size(b) \in Nat /\ N \in Nat /\ first \in Nat \ {0} /\ f \in Nat /\ f \in Offsets
      /\ there \subseteq Nat
  <2>1. size(b) \in Nat
    BY OnesAre
  <2>2. first \in Nat \ {0} /\ f \in Nat /\ f \in Offsets
    BY PositionTypes
  <2>3. there \subseteq Nat
    BY <2>1
  <2>4. N \in Nat
    OBVIOUS
  <2> QED BY <2>1, <2>2, <2>3, <2>4
<1>3. \A i \in Nat : i \in there <=> /\ byte(i) \in 1 .. N /\ Is(byte(i), bit_mask(i))
                                     /\ i >= begin
  <2>1. \A i \in Nat : i < size(b) <=> byte(i) \in 1 .. N
    BY OnesAre
  <2>2. \A i \in Nat : get(b, i) <=> bit_mask(i) \in b[byte(i)]
    BY DEF get
  <2>3. \A i \in Nat : i \in 0 .. size(b) - 1 <=> i < size(b)
    BY <1>2
  <2> QED BY <2>1, <2>2, <2>3
<1>4. \A i \in Nat : i >= begin <=> \/ first < byte(i)
                                    \/ first = byte(i) /\ f <= bit_mask(i)
  <2> TAKE i \in Nat
  <2>1. i < begin <=> byte(i) < first \/ (byte(i) = first /\ bit_mask(i) < f)
    BY Ordered
  <2>2. byte(i) \in Nat /\ bit_mask(i) \in Nat
    BY PositionTypes
  <2> QED BY <1>2, <2>1, <2>2
<1> HIDE DEF there, N, first, f
<1>5. ASSUME NEW k \in 1 .. N, NEW o \in Offsets, Is(k, o),
             first < k \/ (first = k /\ f <= o),
             \A i \in there : \/ k < byte(i)
                              \/ k = byte(i) /\ o <= bit_mask(i)
      PROVE  At(k, {o}) = IF there = {} THEN {} ELSE {Min(there)}
  <2> DEFINE p == ByteBits * (k - 1) + o
  <2>1. p \in Nat /\ byte(p) = k /\ bit_mask(p) = o
    <3>1. k \in Nat \ {0}
      BY <1>2
    <3> HIDE DEF first, f, there
    <3> QED BY <3>1, Positions
  <2>2. At(k, {o}) = {p}
    OBVIOUS
  <2> HIDE DEF p, there
  <2>3. p \in there
    BY <1>3, <1>4, <1>5, <2>1
  <2>4. ASSUME NEW i \in there PROVE p <= i
    <3>1. i \in Nat /\ byte(i) \in Nat /\ bit_mask(i) \in Nat
      BY <1>2, PositionTypes
    <3>2. i < p <=> byte(i) < k \/ (byte(i) = k /\ bit_mask(i) < o)
      BY <2>1, <3>1, Ordered
    <3>3. o \in Nat
      BY PositionTypes
    <3>4. ~ (i < p)
      BY <1>5, <3>1, <3>2, <3>3
    <3> QED BY <2>1, <3>1, <3>4
  <2>5. there # {} /\ Min(there) = p
    BY <1>2, <2>3, <2>4, LeastIsMin
  <2> QED BY <2>2, <2>5
<1>6. CASE begin > size(b)
  <2>1. there = {}
    BY <1>2, <1>6 DEF there
  <2> QED BY <1>1, <1>6, <2>1
<1>7. CASE ~ (begin > size(b)) /\ partial # {}
  <2>1. f > 0 /\ first \in 1 .. N /\ partial = InByte(b[first], val, f)
    BY <1>2, <1>7
  <2> DEFINE found == {o \in Offsets : o >= f /\ ((o \in b[first]) <=> val)}
  <2>a. \/ found = {} /\ InByte(b[first], val, f) = {}
        \/ \E o \in found : InByte(b[first], val, f) = {o} /\ \A p \in found : o <= p
    BY <1>2, InByteIsFirst
  <2>2. PICK o \in found : partial = {o} /\ \A q \in found : o <= q
    <3> HIDE DEF partial, found
    <3> QED BY <1>7, <2>1, <2>a
  <2>3. ASSUME NEW i \in there
        PROVE  first < byte(i) \/ (first = byte(i) /\ o <= bit_mask(i))
    <3>1. i \in Nat /\ bit_mask(i) \in Offsets /\ bit_mask(i) \in Nat
      BY <1>2, PositionTypes
    <3>2. Is(byte(i), bit_mask(i)) /\ (first < byte(i) \/ (first = byte(i) /\ f <= bit_mask(i)))
      BY <1>3, <1>4, <3>1
    <3>3. f <= bit_mask(i) <=> bit_mask(i) >= f
      BY <1>2, <3>1
    <3> QED BY <2>2, <3>1, <3>2, <3>3
  <2>4. f <= o
    BY <1>2, <2>2
  <2>5. At(first, {o}) = IF there = {} THEN {} ELSE {Min(there)}
    <3> HIDE DEF there, At, first, f
    <3> QED BY <1>5, <2>1, <2>2, <2>3, <2>4
  <2>6. next(b, val, begin) = At(first, {o})
    BY <1>1, <1>7, <2>2
  <2> QED BY <2>5, <2>6
<1>8. CASE ~ (begin > size(b)) /\ partial = {}
  <2>0. InByte(b[first], val, f) = {} => {q \in Offsets : q >= f /\ ((q \in b[first]) <=> val)} = {}
    <3> DEFINE found == {o \in Offsets : o >= f /\ ((o \in b[first]) <=> val)}
    <3>1. \/ found = {} /\ InByte(b[first], val, f) = {}
          \/ \E o \in found : InByte(b[first], val, f) = {o} /\ \A p \in found : o <= p
      BY <1>2, InByteIsFirst
    <3> QED BY <3>1
  <2>1. whole \in Nat \ {0} /\ (f > 0 => whole = first + 1) /\ (~ (f > 0) => whole = first)
    BY <1>2
  <2>2. \A k \in 1 .. N : \/ /\ \A o \in Offsets : ~ Is(k, o)
                             /\ InByte(b[k], val, 0) = {}
                          \/ \E o \in Offsets : /\ Is(k, o)
                                                /\ InByte(b[k], val, 0) = {o}
                                                /\ \A q \in Offsets : Is(k, q) => o <= q
    <3> TAKE k \in 1 .. N
    <3> DEFINE found == {o \in Offsets : o >= 0 /\ ((o \in b[k]) <=> val)}
    <3>1. \A q \in Offsets : q \in found <=> Is(k, q)
      BY DEF Offsets
    <3>2. \/ found = {} /\ InByte(b[k], val, 0) = {}
          \/ \E o \in found : InByte(b[k], val, 0) = {o} /\ \A q \in found : o <= q
      BY InByteIsFirst
    <3>3. found \subseteq Offsets
      OBVIOUS
    <3> HIDE DEF found
    <3> QED BY <3>1, <3>2, <3>3
  <2>3. ASSUME NEW i \in there
        PROVE  byte(i) \in hits
    <3>1. i \in Nat /\ bit_mask(i) \in Offsets /\ bit_mask(i) \in Nat /\ byte(i) \in Nat
      BY <1>2, PositionTypes
    <3>2. byte(i) \in 1 .. N /\ Is(byte(i), bit_mask(i))
      BY <1>3, <3>1
    <3>3. first < byte(i) \/ (first = byte(i) /\ f <= bit_mask(i))
      BY <1>3, <1>4, <3>1
    <3>4. ~ (f > 0 /\ first = byte(i))
      <4> SUFFICES ASSUME f > 0, first = byte(i) PROVE FALSE
        OBVIOUS
      <4>1. InByte(b[first], val, f) = {}
        BY <1>2, <1>8, <3>2
      <4>2. f <= bit_mask(i) /\ bit_mask(i) >= f
        BY <1>2, <3>1, <3>3
      <4>3. bit_mask(i) \in {q \in Offsets : q >= f /\ ((q \in b[first]) <=> val)}
        BY <3>1, <3>2, <4>2
      <4> QED BY <2>0, <4>1, <4>3
    <3>5. whole <= byte(i)
      BY <1>2, <2>1, <3>1, <3>3, <3>4
    <3>6. InByte(b[byte(i)], val, 0) # {}
      BY <2>2, <3>1, <3>2
    <3>7. byte(i) \in whole .. N
      BY <1>2, <2>1, <3>2, <3>5
    <3> QED BY <3>6, <3>7
  <2>4. CASE hits = {}
    BY <1>1, <1>8, <2>3, <2>4
  <2>5. CASE hits # {}
    <3> DEFINE k == Min(hits)
    <3>1. hits \subseteq Nat
      BY <2>1
    <3>2. k \in hits /\ \A l \in hits : k <= l
      <4> HIDE DEF hits
      <4> QED BY <2>5, <3>1, MinIsLeast
    <3> HIDE DEF k
    <3>3. k \in 1 .. N /\ whole <= k /\ InByte(b[k], val, 0) # {}
      <4> HIDE DEF whole
      <4>1. k \in whole .. N /\ InByte(b[k], val, 0) # {}
        BY <3>2
      <4> QED BY <1>2, <2>1, <4>1
    <3>4. PICK o \in Offsets : /\ Is(k, o)
                               /\ InByte(b[k], val, 0) = {o}
                               /\ \A q \in Offsets : Is(k, q) => o <= q
      BY <2>2, <3>3
    <3>5. ASSUME NEW i \in there
          PROVE  k < byte(i) \/ (k = byte(i) /\ o <= bit_mask(i))
      <4>1. i \in Nat /\ bit_mask(i) \in Offsets /\ byte(i) \in Nat
        BY <1>2, PositionTypes
      <4>2. Is(byte(i), bit_mask(i))
        BY <1>3, <4>1
      <4>3. k <= byte(i)
        BY <2>3, <3>2
      <4>4. k < byte(i) \/ k = byte(i)
        BY <3>3, <4>1, <4>3
      <4> QED BY <3>4, <4>1, <4>2, <4>4
    <3>6. first < k \/ (first = k /\ f <= o)
      BY <1>2, <2>1, <3>3 DEF Offsets
    <3>7. At(k, {o}) = IF there = {} THEN {} ELSE {Min(there)}
      <4> HIDE DEF there, At, first, f
      <4> QED BY <1>5, <3>3, <3>4, <3>5, <3>6
    <3>8. next(b, val, begin) = At(k, {o})
      BY <1>1, <1>8, <2>5, <3>4 DEF k
    <3> QED BY <3>7, <3>8
  <2> QED BY <2>4, <2>5
<1> QED BY <1>6, <1>7, <1>8

\* The ones in the first n bytes.
OnesIn(b, n) == {i \in Ones(b) : i < ByteBits * n}

LEMMA BytesAreFinite ==
  ASSUME BitfieldAssumption, NEW set \in Bytes
  PROVE  IsFiniteSet(set) /\ Cardinality(set) \in Nat
<1>1. IsFiniteSet(Offsets)
  BY FS_Interval DEF Offsets, BitfieldAssumption
<1>2. IsFiniteSet(set)
  BY <1>1, FS_Subset DEF Bytes
<1> QED BY <1>2, FS_CardinalityType

\* A byte more, and its ones are added.
LEMMA OnesOfOneMore ==
  ASSUME BitfieldAssumption, NEW b \in Seq(Bytes), NEW k \in 1 .. Len(b)
  PROVE  /\ IsFiniteSet(OnesIn(b, k - 1))
         /\ Cardinality(OnesIn(b, k)) = Cardinality(OnesIn(b, k - 1)) + Cardinality(b[k])
<1> DEFINE At(o) == ByteBits * (k - 1) + o
           here == {At(o) : o \in b[k]}
           f == [o \in b[k] |-> At(o)]
<1>1. b[k] \in Bytes /\ b[k] \subseteq Offsets /\ k \in Nat \ {0} /\ k - 1 \in Nat /\ k \in Nat
  BY DEF Bytes
<1>2. IsFiniteSet(b[k]) /\ Cardinality(b[k]) \in Nat
  BY <1>1, BytesAreFinite
<1>3. \A o \in Offsets : At(o) \in Nat /\ byte(At(o)) = k /\ bit_mask(At(o)) = o
  BY <1>1, Positions
<1>4. IsFiniteSet(here) /\ Cardinality(here) = Cardinality(b[k])
  <2>1. f \in [b[k] -> here]
    OBVIOUS
  <2>2. \A o, p \in b[k] : f[o] = f[p] => o = p
    <3> HIDE DEF At
    <3> QED BY <1>1, <1>3
  <2>3. \A i \in here : \E o \in b[k] : f[o] = i
    <3> HIDE DEF At
    <3> QED OBVIOUS
  <2> HIDE DEF f, here
  <2>4. f \in Bijection(b[k], here)
    BY <2>1, <2>2, <2>3 DEF Bijection, Injection, Surjection, IsInjective
  <2>5. ExistsBijection(b[k], here)
    BY <2>4 DEF ExistsBijection
  <2> QED BY <1>2, <2>5, FS_Bijection
<1>5. \A i \in Nat : /\ i \in Ones(b) <=> byte(i) \in 1 .. Len(b) /\ bit_mask(i) \in b[byte(i)]
                     /\ i < ByteBits * k <=> byte(i) <= k
                     /\ i < ByteBits * (k - 1) <=> byte(i) <= k - 1
                     /\ byte(i) \in Nat
  BY <1>1, OnesAre, Within, PositionTypes
<1>6. Ones(b) \subseteq Nat
  BY OnesAre
<1>7. \A i \in Nat : i \in here <=> byte(i) = k /\ bit_mask(i) \in b[k]
  <2> TAKE i \in Nat
  <2>1. i = ByteBits * (byte(i) - 1) + bit_mask(i)
    BY Positions
  <2>2. ASSUME i \in here PROVE byte(i) = k /\ bit_mask(i) \in b[k]
    <3> HIDE DEF At
    <3> QED BY <1>1, <1>3, <2>2
  <2>3. ASSUME byte(i) = k, bit_mask(i) \in b[k] PROVE i \in here
    BY <2>1, <2>3
  <2> QED BY <2>2, <2>3
<1>8. here \subseteq Nat
  <2> HIDE DEF At
  <2> QED BY <1>1, <1>3
<1> HIDE DEF here, At
<1>9. ASSUME NEW i \in Nat
      PROVE  /\ i \in OnesIn(b, k) <=> i \in OnesIn(b, k - 1) \/ i \in here
             /\ ~ (i \in OnesIn(b, k - 1) /\ i \in here)
  <2>1. /\ i \in OnesIn(b, k) <=> i \in Ones(b) /\ byte(i) <= k
        /\ i \in OnesIn(b, k - 1) <=> i \in Ones(b) /\ byte(i) <= k - 1
    BY <1>5 DEF OnesIn
  <2>2. byte(i) \in Nat
    BY <1>5
  <2>3. byte(i) <= k <=> byte(i) <= k - 1 \/ byte(i) = k
    BY <1>1, <2>2
  <2>4. ~ (k <= k - 1)
    BY <1>1
  <2> QED BY <1>5, <1>7, <2>1, <2>3, <2>4
<1>10. /\ OnesIn(b, k) = OnesIn(b, k - 1) \cup here
       /\ OnesIn(b, k - 1) \cap here = {}
  <2>1. OnesIn(b, k) \subseteq Nat /\ OnesIn(b, k - 1) \subseteq Nat
    BY <1>6 DEF OnesIn
  <2> QED BY <1>8, <1>9, <2>1
<1>11. IsFiniteSet(OnesIn(b, k - 1))
  <2>1. ByteBits * (k - 1) \in Nat
    BY <1>1, Within
  <2>2. OnesIn(b, k - 1) \in SUBSET Nat /\ \A i \in OnesIn(b, k - 1) : i <= ByteBits * (k - 1)
    BY <1>6, <2>1 DEF OnesIn
  <2> QED BY <2>1, <2>2, FS_BoundedSetOfNaturals
<1>12. Cardinality(OnesIn(b, k))
         = Cardinality(OnesIn(b, k - 1)) + Cardinality(here) - Cardinality({})
  BY <1>4, <1>10, <1>11, FS_Union
<1>13. Cardinality({}) = 0 /\ Cardinality(OnesIn(b, k - 1)) \in Nat
  BY <1>11, FS_EmptySet, FS_CardinalityType
<1> QED BY <1>2, <1>4, <1>11, <1>12, <1>13

\* count(), byte by byte.
Counts(b, g) == g = [k \in 0 .. Len(b) |-> IF k = 0 THEN 0 ELSE g[k - 1] + Cardinality(b[k])]

LEMMA CountIs ==
  ASSUME BitfieldAssumption, NEW b \in Seq(Bytes)
  PROVE  \E g : Counts(b, g) /\ count(b) = g[Len(b)]
<1> DEFINE h == [k \in 0 .. Len(b) |-> Cardinality(OnesIn(b, k))]
<1>1. Cardinality(OnesIn(b, 0)) = 0
  <2>1. ByteBits * 0 = 0
    BY DEF BitfieldAssumption
  <2>2. OnesIn(b, 0) = {}
    BY <2>1, OnesAre DEF OnesIn
  <2> QED BY <2>2, FS_EmptySet
<1>2. Counts(b, h)
  <2>1. ASSUME NEW k \in 0 .. Len(b)
        PROVE  h[k] = IF k = 0 THEN 0 ELSE h[k - 1] + Cardinality(b[k])
    <3>1. CASE k = 0
      BY <1>1, <3>1
    <3>2. CASE k # 0
      <4>1. k \in 1 .. Len(b) /\ k - 1 \in 0 .. Len(b)
        BY <3>2
      <4> QED BY <3>2, <4>1, OnesOfOneMore
    <3> QED BY <3>1, <3>2
  <2>2. h = [k \in 0 .. Len(b) |-> h[k]]
    OBVIOUS
  <2> HIDE DEF h
  <2> QED BY <2>1, <2>2 DEF Counts
<1> DEFINE g == CHOOSE x : Counts(b, x)
<1>3. count(b) = g[Len(b)]
  BY DEF count, Counts
<1>4. Counts(b, g)
  <2> HIDE DEF h
  <2> QED BY <1>2
<1> QED BY <1>3, <1>4

LEMMA Counted ==
  ASSUME BitfieldAssumption, NEW b \in Seq(Bytes)
  PROVE  count(b) = Cardinality(Ones(b))
<1>1. PICK g : Counts(b, g) /\ count(b) = g[Len(b)]
  BY CountIs
<1> DEFINE T == {n \in Nat : n <= Len(b) => g[n] = Cardinality(OnesIn(b, n))}
<1>2. \A k \in 0 .. Len(b) : g[k] = IF k = 0 THEN 0 ELSE g[k - 1] + Cardinality(b[k])
  BY <1>1 DEF Counts
<1>3. 0 \in T
  <2>1. ByteBits * 0 = 0
    BY DEF BitfieldAssumption
  <2>2. OnesIn(b, 0) = {}
    BY <2>1, OnesAre DEF OnesIn
  <2>3. g[0] = 0
    BY <1>2
  <2> QED BY <2>2, <2>3, FS_EmptySet
<1>4. ASSUME NEW n \in Nat, n \in T PROVE n + 1 \in T
  <2> SUFFICES ASSUME n + 1 <= Len(b) PROVE g[n + 1] = Cardinality(OnesIn(b, n + 1))
    OBVIOUS
  <2>1. n + 1 \in 1 .. Len(b) /\ n + 1 \in 0 .. Len(b) /\ n + 1 # 0 /\ (n + 1) - 1 = n /\ n <= Len(b)
    OBVIOUS
  <2>2. g[n] = Cardinality(OnesIn(b, n))
    BY <1>4, <2>1
  <2>3. g[n + 1] = g[n] + Cardinality(b[n + 1])
    BY <1>2, <2>1
  <2>4. Cardinality(OnesIn(b, n + 1)) = Cardinality(OnesIn(b, n)) + Cardinality(b[n + 1])
    <3> DEFINE k == n + 1
    <3>1. k \in 1 .. Len(b) /\ k - 1 = n
      BY <2>1
    <3> HIDE DEF k
    <3>2. Cardinality(OnesIn(b, k)) = Cardinality(OnesIn(b, n)) + Cardinality(b[k])
      BY <3>1, OnesOfOneMore
    <3> QED BY <3>2 DEF k
  <2> QED BY <2>2, <2>3, <2>4
<1>5. Nat \subseteq T
  <2> HIDE DEF T
  <2> QED BY <1>3, <1>4, Induction
<1>6. OnesIn(b, Len(b)) = Ones(b)
  <2>1. \A i \in Ones(b) : i \in Nat /\ i < size(b)
    BY DEF Ones, size, BitfieldAssumption
  <2> QED BY <2>1 DEF OnesIn, size
<1>7. Len(b) \in Nat
  OBVIOUS
<1>8. g[Len(b)] = Cardinality(OnesIn(b, Len(b)))
  BY <1>5, <1>7
<1> QED BY <1>1, <1>6, <1>8

\* What Piece finds, of the positions that it has blocks for.
LEMMA FreeFound ==
  ASSUME BitfieldAssumption, NEW b \in Seq(Bytes), NEW blocks \in 1 .. size(b)
  PROVE  LET free == 0 .. blocks - 1 \ Ones(b)
         IN first_free(b, blocks) = IF free = {} THEN {} ELSE {Min(free)}
<1> DEFINE free == (0 .. blocks - 1) \ Ones(b)
           there == {i \in 0 .. size(b) - 1 : i >= 0 /\ (get(b, i) <=> FALSE)}
<1> SUFFICES first_free(b, blocks) = IF free = {} THEN {} ELSE {Min(free)}
  OBVIOUS
<1>1. next(b, FALSE, 0) = IF there = {} THEN {} ELSE {Min(there)}
  BY NextFinds
<1>2. size(b) \in Nat /\ blocks \in Nat /\ blocks <= size(b)
  BY OnesAre
<1>3. \A i : i \in free <=> i \in there /\ i <= blocks - 1
  BY <1>2 DEF Ones
<1>4. there \subseteq Nat /\ free \subseteq Nat
  BY <1>2
<1>5. first_free(b, blocks) = {i \in next(b, FALSE, 0) : i <= blocks - 1}
  BY DEF first_free
<1> HIDE DEF there, free
<1>6. CASE there = {}
  <2>1. free = {}
    BY <1>3, <1>6
  <2> QED BY <1>1, <1>5, <1>6, <2>1
<1>7. CASE there # {}
  <2> DEFINE m == Min(there)
  <2>1. m \in there /\ \A i \in there : m <= i
    BY <1>4, <1>7, MinIsLeast
  <2>2. first_free(b, blocks) = {i \in {m} : i <= blocks - 1}
    BY <1>1, <1>5, <1>7
  <2> HIDE DEF m
  <2>3. CASE m <= blocks - 1
    <3>1. m \in free /\ \A i \in free : m <= i
      BY <1>3, <2>1, <2>3
    <3>2. free # {} /\ Min(free) = m
      BY <1>4, <3>1, LeastIsMin
    <3> QED BY <2>2, <2>3, <3>2
  <2>4. CASE ~ (m <= blocks - 1)
    <3>1. free = {}
      <4> SUFFICES ASSUME NEW i \in free PROVE FALSE
        OBVIOUS
      <4>1. m <= i /\ i <= blocks - 1 /\ i \in Nat /\ m \in Nat
        BY <1>3, <1>4, <2>1
      <4> QED BY <1>2, <2>4, <4>1
    <3> QED BY <2>2, <2>4, <3>1
  <2> QED BY <2>3, <2>4
<1> QED BY <1>6, <1>7

-----------------------------------------------------------------------------
(* Any sequence of calls *)

LEMMA Typed ==
  ASSUME NEW b \in Bitfields
  PROVE  b \in Seq(Bytes) /\ Len(b) \in 0 .. MaxBytes
<1>1. PICK n \in 0 .. MaxBytes : b \in [1 .. n -> Bytes]
  BY DEF Bitfields
<1> QED BY <1>1, Tuples

LEMMA IsBitfield ==
  ASSUME NEW b \in Seq(Bytes), Len(b) <= MaxBytes, BitfieldAssumption
  PROVE  b \in Bitfields
<1>1. Len(b) \in 0 .. MaxBytes /\ b \in [1 .. Len(b) -> Bytes]
  BY DEF BitfieldAssumption
<1> QED BY <1>1 DEF Bitfields

LEMMA ZerosLength ==
  ASSUME BitfieldAssumption, NEW n \in 0 .. MaxBits
  PROVE  Len(zeros(n)) <= MaxBytes
<1>1. MaxBits \in Nat
  BY DEF MaxBits, BitfieldAssumption
<1>2. n \in Nat /\ ByteBits \in Nat \ {0} /\ MaxBytes \in Nat \ {0}
  BY <1>1 DEF BitfieldAssumption
<1>3. Len(zeros(n)) = (n \div ByteBits) + (IF n % ByteBits # 0 THEN 1 ELSE 0)
  <2>1. (n \div ByteBits) + (IF n % ByteBits # 0 THEN 1 ELSE 0) \in Nat
    BY <1>2
  <2>2. {} \in Bytes
    BY DEF Bytes
  <2> HIDE DEF Bytes
  <2> QED BY <2>1, <2>2, ZerosType DEF zeros
<1>4. CASE n % ByteBits = 0
  <2>1. n \div ByteBits <= MaxBytes
    <3>1. n = ByteBits * (byte(n) - 1) + 0 /\ byte(n) = (n \div ByteBits) + 1 /\ n \div ByteBits \in Nat
      BY <1>2, <1>4, Positions DEF byte, bit_mask
    <3> DEFINE q == n \div ByteBits
    <3>2. q \in Nat /\ ByteBits * q <= ByteBits * MaxBytes
      <4>1. ByteBits * ((q + 1) - 1) + 0 = n
        BY <3>1
      <4>2. q \in Nat
        BY <3>1
      <4> HIDE DEF q
      <4>3. ByteBits * q = n
        BY <1>2, <4>1, <4>2
      <4> QED BY <4>2, <4>3 DEF MaxBits
    <3> HIDE DEF q
    <3>3. ASSUME q > MaxBytes PROVE FALSE
      <4>1. q >= MaxBytes + 1 /\ q - (MaxBytes + 1) \in Nat
        BY <1>2, <3>2, <3>3
      <4>2. ByteBits * q = ByteBits * MaxBytes + ByteBits + ByteBits * (q - (MaxBytes + 1))
        BY <1>2, <3>2, SMTT(30)
      <4>3. ByteBits * (q - (MaxBytes + 1)) >= 0
        BY <1>2, <4>1, SMTT(30)
      <4>4. ByteBits * q \in Int /\ ByteBits * MaxBytes \in Int /\ ByteBits * (q - (MaxBytes + 1)) \in Int
        BY <1>2, <3>2
      <4> QED BY <1>2, <3>2, <4>2, <4>3, <4>4
    <3>4. q <= MaxBytes
      BY <1>2, <3>2, <3>3
    <3> QED BY <3>4 DEF q
  <2> QED BY <1>2, <1>3, <1>4, <2>1
<1>5. CASE n % ByteBits # 0
  <2>1. n # MaxBits
    <3>1. SUFFICES ASSUME n = MaxBits PROVE n % ByteBits = 0
      BY <1>5
    <3>2. bit_mask(ByteBits * ((MaxBytes + 1) - 1) + 0) = 0
      <4>1. 0 \in Offsets /\ MaxBytes + 1 \in Nat \ {0}
        BY <1>2 DEF Offsets
      <4> QED BY <4>1, Positions
    <3>3. ByteBits * ((MaxBytes + 1) - 1) + 0 = MaxBits
      BY <1>2 DEF MaxBits
    <3> QED BY <3>1, <3>2, <3>3 DEF bit_mask
  <2>2. n < ByteBits * MaxBytes
    BY <1>1, <2>1 DEF MaxBits
  <2>3. byte(n) <= MaxBytes
    BY <1>2, <2>2, Within
  <2> QED BY <1>2, <1>3, <1>5, <2>3 DEF byte
<1> QED BY <1>4, <1>5

LEMMA AssignLength ==
  ASSUME BitfieldAssumption, NEW b \in Bitfields, NEW i \in 0 .. MaxBits - 1, NEW val \in BOOLEAN
  PROVE  assign(b, i, val) \in Bitfields
<1>1. MaxBits \in Nat /\ MaxBytes \in Nat
  BY DEF MaxBits, BitfieldAssumption
<1>2. i \in Nat /\ i < ByteBits * MaxBytes
  BY <1>1 DEF MaxBits
<1>3. byte(i) <= MaxBytes
  BY <1>1, <1>2, Within
<1>4. assign(b, i, val) \in Seq(Bytes) /\ Len(assign(b, i, val)) <= MaxBytes
  <2>1. b \in Seq(Bytes) /\ Len(b) <= MaxBytes
    BY <1>1, Typed
  <2> QED BY <1>2, <1>3, <2>1, Assigned
<1> QED BY <1>4, IsBitfield

LEMMA CallsKeepType ==
  ASSUME BitfieldAssumption, m_bytes \in Bitfields, [BitfieldNext]_m_bytes
  PROVE  m_bytes' \in Bitfields
<1> USE DEF BitfieldNext
<1>1. MaxBits \in Nat /\ m_bytes \in Seq(Bytes) /\ Len(m_bytes) \in 0 .. MaxBytes
  BY Typed DEF MaxBits, BitfieldAssumption
<1>2. CASE \E n \in 0 .. MaxBits : m_bytes' = zeros(n)
  <2>1. PICK n \in 0 .. MaxBits : m_bytes' = zeros(n)
    BY <1>2
  <2>2. n \in Nat
    BY <1>1
  <2> QED BY <2>1, <2>2, ZerosType, ZerosLength, IsBitfield
<1>3. CASE \E i \in 0 .. MaxBits - 1, val \in BOOLEAN : m_bytes' = assign(m_bytes, i, val)
  BY <1>3, AssignLength
<1>4. CASE \E n, begin \in 0 .. MaxBits, val \in BOOLEAN :
             /\ ~fill_throws(m_bytes, n, begin)
             /\ m_bytes' = fill(m_bytes, n, val, begin)
  <2>1. PICK n \in 0 .. MaxBits, begin \in 0 .. MaxBits, val \in BOOLEAN :
               /\ ~fill_throws(m_bytes, n, begin)
               /\ m_bytes' = fill(m_bytes, n, val, begin)
    BY <1>4
  <2>2. n \in Nat /\ begin \in Nat
    BY <1>1
  <2>3. m_bytes' \in Seq(Bytes) /\ Len(m_bytes') <= MaxBytes
    BY <1>1, <2>1, <2>2, Filled
  <2> QED BY <2>3, IsBitfield
<1>5. CASE \E other \in Bitfields :
             m_bytes' = minus(m_bytes, other) \/ m_bytes' = plus(m_bytes, other)
  <2>1. PICK other \in Bitfields :
               m_bytes' = minus(m_bytes, other) \/ m_bytes' = plus(m_bytes, other)
    BY <1>5
  <2>2. other \in Seq(Bytes)
    BY Typed
  <2>3. /\ minus(m_bytes, other) \in Seq(Bytes) /\ plus(m_bytes, other) \in Seq(Bytes)
        /\ Len(minus(m_bytes, other)) <= Len(m_bytes) /\ Len(plus(m_bytes, other)) <= Len(m_bytes)
    BY <1>1, <2>2, Combined
  <2>4. m_bytes' \in Seq(Bytes) /\ Len(m_bytes') <= MaxBytes
    BY <1>1, <2>1, <2>3 DEF BitfieldAssumption
  <2> QED BY <2>4, IsBitfield
<1>6. CASE UNCHANGED m_bytes
  BY <1>6
<1> QED BY <1>2, <1>3, <1>4, <1>5, <1>6

LEMMA TypedAgrees ==
  ASSUME BitfieldAssumption, m_bytes \in Bitfields
  PROVE  BitfieldAgreesWithSets
<1> DEFINE b == m_bytes
<1>1. /\ MaxBits \in Nat /\ b \in Seq(Bytes) /\ size(b) \in Nat
  BY Typed, OnesAre DEF MaxBits, BitfieldAssumption
<1>2. WritesAgreeWithSets
  <2>1. \A i \in 0 .. MaxBits - 1, val \in BOOLEAN :
          Ones(assign(b, i, val)) = Put(Ones(b), {i}, val)
    <3>1. \A i \in 0 .. MaxBits - 1 : i \in Nat
      BY <1>1
    <3> QED BY <1>1, <3>1, Assigned
  <2>2. ASSUME NEW n \in 0 .. MaxBits, NEW begin \in 0 .. MaxBits, NEW val \in BOOLEAN
        PROVE  IF n = 0 \/ begin + n <= size(b)
               THEN /\ ~fill_throws(b, n, begin)
                    /\ Ones(fill(b, n, val, begin)) = Put(Ones(b), begin .. begin + n - 1, val)
                    /\ size(fill(b, n, val, begin)) = size(b)
               ELSE fill_throws(b, n, begin)
    <3>1. n \in Nat /\ begin \in Nat
      BY <1>1
    <3> QED BY <1>1, <3>1, Filled
  <2>3. ASSUME NEW other \in Bitfields
        PROVE  LET both == 0 .. Smaller(size(b), size(other)) - 1
               IN /\ Ones(minus(b, other)) = (Ones(b) \ Ones(other)) \cap both
                  /\ Ones(plus(b, other)) = (Ones(b) \cup Ones(other)) \cap both
    <3>1. other \in Seq(Bytes)
      BY Typed
    <3> QED BY <1>1, <3>1, Combined
  <2> QED BY <2>1, <2>2, <2>3 DEF WritesAgreeWithSets
<1>3. NextIsFirst
  <2>1. ASSUME NEW val \in BOOLEAN, NEW begin \in 0 .. size(b) + 1
        PROVE  LET there == {i \in 0 .. size(b) - 1 : i >= begin /\ get(b, i) = val}
               IN next(b, val, begin) = IF there = {} THEN {} ELSE {Min(there)}
    <3> DEFINE there == {i \in 0 .. size(b) - 1 : i >= begin /\ get(b, i) = val}
    <3>1. begin \in Nat
      BY <1>1
    <3>2. \A i : get(b, i) = val <=> (get(b, i) <=> val)
      BY DEF get
    <3>3. there = {i \in 0 .. size(b) - 1 : i >= begin /\ (get(b, i) <=> val)}
      BY <3>2
    <3>4. next(b, val, begin) = IF there = {} THEN {} ELSE {Min(there)}
      <4> HIDE DEF b
      <4> QED BY <1>1, <3>1, <3>3, NextFinds
    <3> QED BY <3>4
  <2> QED BY <2>1 DEF NextIsFirst
<1>4. CountIsCardinality
  BY <1>1, Counted DEF CountIsCardinality
<1>5. FreeBlocksAreFound
  BY <1>1, FreeFound DEF FreeBlocksAreFound
<1> QED BY <1>2, <1>3, <1>4, <1>5 DEF BitfieldAgreesWithSets

\* Whatever calls made a bitfield (Proxy::operator=, fill, operator-, operator+), with
\* bytes of any width and any bound on their number: the next call that writes does to
\* the set of its ones just what it says, next() finds the first position with the value,
\* count() is the number of ones, and Piece finds the first free block.
THEOREM BitfieldsAgree ==
  ASSUME BitfieldAssumption
  PROVE  Calls => []BitfieldAgreesWithSets
<1>1. BitfieldInit => m_bytes \in Bitfields
  <2> SUFFICES ASSUME BitfieldInit PROVE m_bytes \in Bitfields
    OBVIOUS
  <2>1. m_bytes \in Seq(Bytes) /\ Len(m_bytes) = 0
    BY DEF BitfieldInit
  <2>2. Len(m_bytes) <= MaxBytes
    BY <2>1 DEF BitfieldAssumption
  <2> QED BY <2>1, <2>2, IsBitfield
<1>2. m_bytes \in Bitfields /\ [BitfieldNext]_m_bytes => (m_bytes \in Bitfields)'
  BY CallsKeepType
<1>3. m_bytes \in Bitfields => BitfieldAgreesWithSets
  BY TypedAgrees
<1> QED BY <1>1, <1>2, <1>3, PTL DEF Calls

-----------------------------------------------------------------------------
(* The peers with an address *)

LEMMA HoldersAreFinite ==
  ASSUME NEW list \in Seq(Peer), NEW url
  PROVE  /\ Holders(list, url) \subseteq 1 .. Len(list)
         /\ IsFiniteSet(Holders(list, url))
         /\ Cardinality(Holders(list, url)) \in Nat
<1>1. Holders(list, url) \subseteq 1 .. Len(list)
  BY DEF Holders
<1>2. IsFiniteSet(1 .. Len(list))
  BY FS_Interval
<1>3. IsFiniteSet(Holders(list, url))
  BY <1>1, <1>2, FS_Subset
<1> QED BY <1>1, <1>3, FS_CardinalityType

\* A list in which each peer stands for another one of a second list.
LEMMA Embedded ==
  ASSUME NEW a \in Seq(Peer), NEW b \in Seq(Peer), NEW url, NEW S, S \subseteq Holders(b, url),
         NEW f \in [1 .. Len(a) -> 1 .. Len(b)],
         \A i, j \in 1 .. Len(a) : f[i] = f[j] => i = j,
         \A i \in 1 .. Len(a) : a[i].url = url => f[i] \in S
  PROVE  Cardinality(Holders(a, url)) <= Cardinality(S)
<1> DEFINE g == [i \in Holders(a, url) |-> f[i]]
<1>1. Holders(a, url) \subseteq 1 .. Len(a)
  BY HoldersAreFinite
<1>2. \A i \in Holders(a, url) : f[i] \in S
  BY <1>1 DEF Holders
<1>3. g \in [Holders(a, url) -> S]
  BY <1>2
<1>4. \A i, j \in Holders(a, url) : g[i] = g[j] => i = j
  BY <1>1
<1> HIDE DEF g
<1>5. g \in Injection(Holders(a, url), S)
  BY <1>3, <1>4 DEF Injection, IsInjective
<1>6. IsFiniteSet(S)
  BY HoldersAreFinite, FS_Subset
<1> QED BY <1>5, <1>6, FS_Injection

\* Peers that keep their place and their address.
LEMMA SameUrls ==
  ASSUME NEW a \in Seq(Peer), NEW b \in Seq(Peer), NEW url, Len(a) = Len(b),
         \A i \in 1 .. Len(a) : a[i].url = b[i].url
  PROVE  Cardinality(Holders(a, url)) = Cardinality(Holders(b, url))
<1>1. Holders(a, url) = Holders(b, url)
  BY DEF Holders
<1> QED BY <1>1

LEMMA Concat ==
  ASSUME NEW S, NEW a \in Seq(S), NEW b \in Seq(S)
  PROVE  /\ a \o b \in Seq(S) /\ Len(a \o b) = Len(a) + Len(b)
         /\ \A j \in 1 .. Len(a) + Len(b) :
              (a \o b)[j] = IF j <= Len(a) THEN a[j] ELSE b[j - Len(a)]
OBVIOUS

LEMMA PeerRemoved ==
  ASSUME NEW list \in Seq(Peer), NEW i \in 1 .. Len(list)
  PROVE  /\ RemoveAt(list, i) \in Seq(Peer)
         /\ Len(RemoveAt(list, i)) = Len(list) - 1
         /\ \A j \in 1 .. Len(list) - 1 :
              RemoveAt(list, i)[j] = IF j < i THEN list[j] ELSE list[j + 1]
<1> DEFINE a == SubSeq(list, 1, i - 1)
           b == SubSeq(list, i + 1, Len(list))
<1>1. /\ a \in Seq(Peer) /\ Len(a) = i - 1
      /\ \A j \in 1 .. i - 1 : a[j] = list[j]
  OBVIOUS
<1>2. /\ b \in Seq(Peer) /\ Len(b) = Len(list) - i
      /\ \A j \in 1 .. Len(list) - i : b[j] = list[i + j]
  OBVIOUS
<1>3. RemoveAt(list, i) = a \o b
  BY DEF RemoveAt
<1> HIDE DEF a, b
<1>4. /\ a \o b \in Seq(Peer) /\ Len(a \o b) = Len(a) + Len(b)
      /\ \A j \in 1 .. Len(a) + Len(b) : (a \o b)[j] = IF j <= Len(a) THEN a[j] ELSE b[j - Len(a)]
  BY <1>1, <1>2, Concat
<1>5. Len(a) + Len(b) = Len(list) - 1
  BY <1>1, <1>2
<1>6. ASSUME NEW j \in 1 .. Len(list) - 1
      PROVE  (a \o b)[j] = IF j < i THEN list[j] ELSE list[j + 1]
  <2>1. CASE j < i
    BY <1>1, <1>4, <1>5, <2>1
  <2>2. CASE ~ (j < i)
    <3>1. j - Len(a) \in 1 .. Len(list) - i /\ i + (j - Len(a)) = j + 1 /\ ~ (j <= Len(a))
      BY <1>1, <2>2
    <3>2. (a \o b)[j] = b[j - Len(a)]
      BY <1>4, <1>5, <3>1
    <3>3. b[j - Len(a)] = list[j + 1]
      BY <1>2, <3>1
    <3> QED BY <2>2, <3>2, <3>3
  <2> QED BY <2>1, <2>2
<1> QED BY <1>3, <1>4, <1>5, <1>6

LEMMA FewerHolders ==
  ASSUME NEW list \in Seq(Peer), NEW i \in 1 .. Len(list), NEW url
  PROVE  Cardinality(Holders(RemoveAt(list, i), url)) <= Cardinality(Holders(list, url) \ {i})
<1> DEFINE a == RemoveAt(list, i)
           f == [j \in 1 .. Len(list) - 1 |-> IF j < i THEN j ELSE j + 1]
           S == Holders(list, url) \ {i}
<1>1. a \in Seq(Peer) /\ Len(a) = Len(list) - 1
  BY PeerRemoved
<1>2. f \in [1 .. Len(list) - 1 -> 1 .. Len(list)]
  OBVIOUS
<1>3. \A j, k \in 1 .. Len(list) - 1 : f[j] = f[k] => j = k
  OBVIOUS
<1>4. ASSUME NEW j \in 1 .. Len(list) - 1, a[j].url = url
      PROVE  f[j] \in S
  <2>1. a[j] = IF j < i THEN list[j] ELSE list[j + 1]
    BY PeerRemoved
  <2>2. a[j] = list[f[j]] /\ f[j] \in 1 .. Len(list) /\ f[j] # i
    BY <2>1
  <2> HIDE DEF f, a
  <2> QED BY <1>4, <2>2 DEF Holders
<1>5. S \subseteq Holders(list, url)
  OBVIOUS
<1> HIDE DEF a, f, S
<1>6. Cardinality(Holders(a, url)) <= Cardinality(S)
  BY <1>1, <1>2, <1>3, <1>4, <1>5, Embedded
<1> QED BY <1>6 DEF a, S

\* add_peer takes out one peer with the address, if there is one, and no other.
LEMMA AddPeer ==
  ASSUME NEW list \in Seq(Peer), NEW url, NEW other
  PROVE  /\ add_peer(list, url) \in Seq(Peer)
         /\ Replaced(list, url) \subseteq Peer
         /\ LET n == Cardinality(Holders(list, other))
            IN Cardinality(Holders(add_peer(list, url), other))
                 <= IF other = url /\ n # 0 THEN n - 1 ELSE n
<1> DEFINE n == Cardinality(Holders(list, other))
           H == Holders(list, url)
<1>1. n \in Nat /\ H \subseteq 1 .. Len(list) /\ IsFiniteSet(Holders(list, other))
  BY HoldersAreFinite
<1>2. CASE H = {}
  <2>1. add_peer(list, url) = list /\ Replaced(list, url) = {}
    BY <1>2 DEF add_peer, Replaced
  <2>2. other = url => n = 0
    BY <1>2, FS_EmptySet
  <2> QED BY <1>1, <2>1, <2>2
<1>3. CASE H # {}
  <2> DEFINE i == Min(H)
  <2>1. i \in H
    <3>1. H \subseteq Nat
      BY <1>1
    <3> HIDE DEF H
    <3> QED BY <1>3, <3>1, MinIsLeast
  <2>2. add_peer(list, url) = RemoveAt(list, i) /\ Replaced(list, url) = {list[i]}
    BY <1>3 DEF add_peer, Replaced
  <2>3. i \in 1 .. Len(list)
    BY <1>1, <2>1
  <2> HIDE DEF i
  <2>4. Cardinality(Holders(RemoveAt(list, i), other)) <= Cardinality(Holders(list, other) \ {i})
    BY <2>3, FewerHolders
  <2>5. Cardinality(Holders(list, other) \ {i})
          = IF i \in Holders(list, other) THEN n - 1 ELSE n
    BY <1>1, FS_RemoveElement
  <2>6. RemoveAt(list, i) \in Seq(Peer)
    BY <2>3, PeerRemoved
  <2>7. list[i] \in Peer
    BY <2>3
  <2>8. other = url => i \in Holders(list, other)
    BY <2>1
  <2>9. Cardinality(Holders(RemoveAt(list, i), other)) \in Nat
    BY <2>6, HoldersAreFinite
  <2>10. Cardinality(Holders(RemoveAt(list, i), other)) <= IF other = url /\ n # 0 THEN n - 1 ELSE n
    <3> HIDE DEF n
    <3> QED BY <1>1, <2>4, <2>5, <2>8, <2>9
  <2> QED BY <2>2, <2>6, <2>7, <2>10
<1> QED BY <1>2, <1>3

LEMMA ConcatHolders ==
  ASSUME NEW a \in Seq(Peer), NEW b \in Seq(Peer), NEW url
  PROVE  Cardinality(Holders(a \o b, url))
           <= Cardinality(Holders(a, url)) + Cardinality(Holders(b, url))
<1> DEFINE A == Holders(a, url)
           B == Holders(b, url)
           g == [i \in B |-> Len(a) + i]
           T == {Len(a) + i : i \in B}
<1>1. /\ A \subseteq 1 .. Len(a) /\ IsFiniteSet(A) /\ Cardinality(A) \in Nat
      /\ B \subseteq 1 .. Len(b) /\ IsFiniteSet(B) /\ Cardinality(B) \in Nat
      /\ Len(a) \in Nat /\ Len(b) \in Nat
  BY HoldersAreFinite
<1>2. g \in Surjection(B, T)
  <2>1. g \in [B -> T] /\ \A t \in T : \E i \in B : g[i] = t
    OBVIOUS
  <2> HIDE DEF g, T
  <2> QED BY <2>1 DEF Surjection
<1>3. IsFiniteSet(T) /\ Cardinality(T) <= Cardinality(B) /\ Cardinality(T) \in Nat
  <2> HIDE DEF g, T
  <2>1. IsFiniteSet(T) /\ Cardinality(T) <= Cardinality(B)
    BY <1>1, <1>2, FS_Surjection
  <2> QED BY <2>1, FS_CardinalityType
<1>4. Holders(a \o b, url) \subseteq A \cup T
  <2> SUFFICES ASSUME NEW j \in Holders(a \o b, url) PROVE j \in A \cup T
    OBVIOUS
  <2>1. /\ a \o b \in Seq(Peer) /\ Len(a \o b) = Len(a) + Len(b)
        /\ \A k \in 1 .. Len(a) + Len(b) :
             (a \o b)[k] = IF k <= Len(a) THEN a[k] ELSE b[k - Len(a)]
    BY Concat
  <2>2. j \in 1 .. Len(a) + Len(b) /\ (a \o b)[j].url = url
    BY <2>1, HoldersAreFinite DEF Holders
  <2>3. CASE j <= Len(a)
    <3>1. j \in 1 .. Len(a) /\ a[j].url = url
      BY <2>1, <2>2, <2>3
    <3> QED BY <3>1 DEF Holders
  <2>4. CASE ~ (j <= Len(a))
    <3> DEFINE i == j - Len(a)
    <3>1. i \in 1 .. Len(b) /\ j = Len(a) + i
      BY <1>1, <2>2, <2>4
    <3>2. b[i].url = url
      BY <2>1, <2>2, <2>4
    <3>3. i \in B
      BY <3>1, <3>2 DEF Holders
    <3> QED BY <3>1, <3>3
  <2> QED BY <2>3, <2>4
<1> HIDE DEF A, B, T, g
<1>5. IsFiniteSet(A \cup T) /\ Cardinality(A \cup T) = Cardinality(A) + Cardinality(T) - Cardinality(A \cap T)
  BY <1>1, <1>3, FS_Union
<1>6. Cardinality(A \cap T) \in Nat
  BY <1>1, FS_Subset, FS_CardinalityType
<1>7. Cardinality(Holders(a \o b, url)) <= Cardinality(A \cup T) /\ Cardinality(Holders(a \o b, url)) \in Nat
  BY <1>4, <1>5, FS_Subset, FS_CardinalityType
<1>8. Cardinality(A \cup T) <= Cardinality(A) + Cardinality(B)
  BY <1>1, <1>3, <1>5, <1>6
<1>9. Cardinality(Holders(a \o b, url)) <= Cardinality(A) + Cardinality(B)
  BY <1>1, <1>3, <1>5, <1>6, <1>7, <1>8
<1> QED BY <1>9 DEF A, B

-----------------------------------------------------------------------------
(* The peers that a tracker names *)

LEMMA NewPeersAre ==
  ASSUME NEW reply \in Seq(Urls), NEW url
  PROVE  /\ NewPeers(reply) \in Seq(Peer)
         /\ Holders(NewPeers(reply), url) = Named(reply, url)
<1>1. NewPeers(reply) \in [1 .. Len(reply) -> Peer]
  BY DEF NewPeers, Fresh, Peer
<1>2. NewPeers(reply) \in Seq(Peer)
  BY <1>1, Tuples
<1>3. \A i \in DOMAIN reply : NewPeers(reply)[i].url = reply[i]
  BY DEF NewPeers, Fresh
<1>4. DOMAIN NewPeers(reply) = DOMAIN reply
  BY DEF NewPeers
<1> QED BY <1>2, <1>3, <1>4 DEF Holders, Named

\* The lists that add_peer leaves, one for each number of addresses.
Adds(list, reply, n, g) ==
  g = [k \in 0 .. n |-> IF k = 0 THEN list ELSE add_peer(g[k - 1], reply[k])]

LEMMA AddsExist ==
  ASSUME NEW list, NEW reply \in Seq(Urls)
  PROVE  \E g : Adds(list, reply, Len(reply), g)
<1> DEFINE T == {n \in Nat : \E g : Adds(list, reply, n, g)}
<1>1. 0 \in T
  <2> DEFINE h == [k \in 0 .. 0 |-> list]
  <2>1. h = [k \in 0 .. 0 |-> IF k = 0 THEN list ELSE add_peer(h[k - 1], reply[k])]
    OBVIOUS
  <2> HIDE DEF h
  <2>2. Adds(list, reply, 0, h)
    BY <2>1 DEF Adds
  <2> QED BY <2>2
<1>2. ASSUME NEW n \in Nat, n \in T PROVE n + 1 \in T
  <2>1. PICK g : Adds(list, reply, n, g)
    BY <1>2
  <2> DEFINE h == [k \in 0 .. n + 1 |-> IF k = n + 1 THEN add_peer(g[n], reply[n + 1]) ELSE g[k]]
  <2>2. \A k \in 0 .. n : g[k] = IF k = 0 THEN list ELSE add_peer(g[k - 1], reply[k])
    BY <2>1 DEF Adds
  <2>3. /\ \A k \in 0 .. n : h[k] = g[k]
        /\ h[n + 1] = add_peer(g[n], reply[n + 1])
        /\ h = [k \in 0 .. n + 1 |-> h[k]]
    OBVIOUS
  <2> HIDE DEF h
  <2>4. ASSUME NEW k \in 0 .. n + 1
        PROVE  h[k] = IF k = 0 THEN list ELSE add_peer(h[k - 1], reply[k])
    <3>1. CASE k = n + 1
      <4>1. k # 0 /\ k - 1 = n /\ n \in 0 .. n
        BY <3>1
      <4>2. h[k - 1] = g[n]
        BY <2>3, <4>1
      <4> QED BY <2>3, <3>1, <4>1, <4>2
    <3>2. CASE k # n + 1
      <4>1. k \in 0 .. n /\ (k # 0 => k - 1 \in 0 .. n)
        BY <3>2
      <4> QED BY <2>2, <2>3, <4>1
    <3> QED BY <3>1, <3>2
  <2>5. Adds(list, reply, n + 1, h)
    BY <2>3, <2>4 DEF Adds
  <2> QED BY <2>5
<1>3. Nat \subseteq T
  <2> HIDE DEF T
  <2> QED BY <1>1, <1>2, Induction
<1> QED BY <1>3

LEMMA AddAllIs ==
  ASSUME NEW list, NEW reply \in Seq(Urls)
  PROVE  \A k \in 0 .. Len(reply) :
           AddAll(list, reply)[k]
             = IF k = 0 THEN list ELSE add_peer(AddAll(list, reply)[k - 1], reply[k])
<1>1. AddAll(list, reply) = CHOOSE g : Adds(list, reply, Len(reply), g)
  BY DEF AddAll, Adds
<1>2. Adds(list, reply, Len(reply), AddAll(list, reply))
  BY <1>1, AddsExist
<1> QED BY <1>2 DEF Adds

\* Each time that an address is named one of its peers leaves, while there is one.
LEMMA AddAllRemoves ==
  ASSUME NEW list \in Seq(Peer), NEW reply \in Seq(Urls), NEW url
  PROVE  \A k \in 0 .. Len(reply) :
           LET n == Cardinality(Holders(list, url))
               m == Cardinality({i \in 1 .. k : reply[i] = url})
           IN /\ AddAll(list, reply)[k] \in Seq(Peer)
              /\ m \in Nat
              /\ Cardinality(Holders(AddAll(list, reply)[k], url)) <= IF n <= m THEN 0 ELSE n - m
<1> DEFINE after == AddAll(list, reply)
           n == Cardinality(Holders(list, url))
           M(k) == {i \in 1 .. k : reply[i] = url}
           Good(k) == /\ after[k] \in Seq(Peer)
                      /\ IsFiniteSet(M(k)) /\ Cardinality(M(k)) \in Nat
                      /\ Cardinality(Holders(after[k], url))
                           <= IF n <= Cardinality(M(k)) THEN 0 ELSE n - Cardinality(M(k))
           T == {k \in Nat : k <= Len(reply) => Good(k)}
<1>1. \A k \in 0 .. Len(reply) : after[k] = IF k = 0 THEN list ELSE add_peer(after[k - 1], reply[k])
  BY AddAllIs
<1>2. n \in Nat
  BY HoldersAreFinite
<1> HIDE DEF after
<1>3. Good(0)
  <2>1. after[0] = list
    BY <1>1
  <2>2. M(0) = {}
    OBVIOUS
  <2>3. IsFiniteSet(M(0)) /\ Cardinality(M(0)) = 0
    BY <2>2, FS_EmptySet
  <2> HIDE DEF M
  <2> QED BY <1>2, <2>1, <2>3
<1>4. ASSUME NEW k \in Nat, k + 1 <= Len(reply), Good(k) PROVE Good(k + 1)
  <2>1. k + 1 \in 1 .. Len(reply) /\ k + 1 \in 0 .. Len(reply) /\ k + 1 # 0 /\ (k + 1) - 1 = k
    BY <1>4
  <2>2. after[k + 1] = add_peer(after[k], reply[k + 1])
    BY <1>1, <2>1
  <2> DEFINE c == Cardinality(Holders(after[k], url))
             d == Cardinality(Holders(after[k + 1], url))
  <2>3. /\ after[k + 1] \in Seq(Peer)
        /\ d <= IF url = reply[k + 1] /\ c # 0 THEN c - 1 ELSE c
    BY <1>4, <2>2, AddPeer
  <2>4. c \in Nat /\ d \in Nat
    BY <1>4, <2>3, HoldersAreFinite
  <2>5. CASE reply[k + 1] = url
    <3>1. M(k + 1) = M(k) \cup {k + 1} /\ k + 1 \notin M(k)
      BY <2>5
    <3> HIDE DEF M
    <3>2. IsFiniteSet(M(k + 1)) /\ Cardinality(M(k + 1)) = Cardinality(M(k)) + 1
      BY <1>4, <3>1, FS_AddElement
    <3> HIDE DEF c, d, n
    <3>3. c <= IF n <= Cardinality(M(k)) THEN 0 ELSE n - Cardinality(M(k))
      BY <1>4 DEF c
    <3>4. d <= IF n <= Cardinality(M(k + 1)) THEN 0 ELSE n - Cardinality(M(k + 1))
      BY <1>2, <1>4, <2>3, <2>4, <2>5, <3>2, <3>3
    <3> QED BY <1>4, <2>3, <3>2, <3>4 DEF d
  <2>6. CASE reply[k + 1] # url
    <3>1. M(k + 1) = M(k)
      BY <2>6
    <3> HIDE DEF M, c, d, n
    <3>3. c <= IF n <= Cardinality(M(k)) THEN 0 ELSE n - Cardinality(M(k))
      BY <1>4 DEF c
    <3>4. d <= IF n <= Cardinality(M(k + 1)) THEN 0 ELSE n - Cardinality(M(k + 1))
      BY <1>2, <1>4, <2>3, <2>4, <2>6, <3>1, <3>3
    <3> QED BY <1>4, <2>3, <3>1, <3>4 DEF d
  <2> QED BY <2>5, <2>6
<1>5. 0 \in T /\ \A k \in Nat : k \in T => k + 1 \in T
  <2> HIDE DEF Good
  <2>1. \A k \in Nat : k + 1 <= Len(reply) => k <= Len(reply)
    OBVIOUS
  <2> QED BY <1>3, <1>4, <2>1
<1>6. Nat \subseteq T
  <2> HIDE DEF T
  <2> QED BY <1>5, Induction
<1>7. \A k \in 0 .. Len(reply) : Good(k)
  <2> HIDE DEF Good
  <2> QED BY <1>6
<1> QED BY <1>7 DEF after

-----------------------------------------------------------------------------
(* The partition *)

\* A list whose peers come from others of a list, each from another, has no more with
\* an address.
LEMMA FromOthers ==
  ASSUME NEW a \in Seq(Peer), NEW b \in Seq(Peer), NEW url,
         NEW f \in [1 .. Len(a) -> 1 .. Len(b)],
         \A i, j \in 1 .. Len(a) : f[i] = f[j] => i = j,
         \A i \in 1 .. Len(a) : a[i].url = b[f[i]].url
  PROVE  Cardinality(Holders(a, url)) <= Cardinality(Holders(b, url))
<1> DEFINE S == Holders(b, url)
<1>1. S \subseteq Holders(b, url)
  OBVIOUS
<1>2. \A i \in 1 .. Len(a) : a[i].url = url => f[i] \in S
  BY DEF Holders
<1> HIDE DEF S
<1>3. Cardinality(Holders(a, url)) <= Cardinality(S)
  BY <1>1, <1>2, Embedded
<1> QED BY <1>3 DEF S

LEMMA Parted ==
  ASSUME NEW list \in Seq(Peer), NEW parted \in Partitions(list), NEW url
  PROVE  /\ parted \in Seq(Peer)
         /\ Cardinality(Holders(parted, url)) <= Cardinality(Holders(list, url))
<1> DEFINE N == 1 .. Len(list)
<1>1. PICK f \in Bijection(N, N) :
        parted = [i \in N |-> IF 0 < Count(list) /\ Count(list) < i
                              THEN Stopped(list[f[i]]) ELSE list[f[i]]]
  BY DEF Partitions
<1>2. f \in [N -> N] /\ \A i, j \in N : f[i] = f[j] => i = j
  <2> HIDE DEF N
  <2> QED BY DEF Bijection, Injection, IsInjective
<1>3. \A p \in Peer : Stopped(p) \in Peer /\ Stopped(p).url = p.url
  BY DEF Stopped, Peer
<1>4. \A i \in N : list[f[i]] \in Peer
  BY <1>2
<1>5. /\ parted \in [N -> Peer]
      /\ \A i \in N : parted[i].url = list[f[i]].url
  <2> HIDE DEF N
  <2> QED BY <1>1, <1>3, <1>4
<1>6. parted \in Seq(Peer) /\ Len(parted) = Len(list)
  BY <1>5, Tuples
<1>7. Cardinality(Holders(parted, url)) <= Cardinality(Holders(list, url))
  BY <1>2, <1>5, <1>6, FromOthers
<1> QED BY <1>6, <1>7

LEMMA SuffixHolders ==
  ASSUME NEW list \in Seq(Peer), NEW n \in 0 .. Len(list), NEW url
  PROVE  /\ SubSeq(list, n + 1, Len(list)) \in Seq(Peer)
         /\ Cardinality(Holders(SubSeq(list, n + 1, Len(list)), url))
              <= Cardinality(Holders(list, url))
<1> DEFINE a == SubSeq(list, n + 1, Len(list))
           f == [i \in 1 .. Len(a) |-> n + i]
<1>1. /\ a \in Seq(Peer) /\ Len(a) = Len(list) - n
      /\ \A i \in 1 .. Len(a) : a[i] = list[n + i]
  OBVIOUS
<1>2. \A i \in 1 .. Len(a) : n + i \in 1 .. Len(list)
  BY <1>1
<1> HIDE DEF a
<1>3. /\ f \in [1 .. Len(a) -> 1 .. Len(list)]
      /\ \A i, j \in 1 .. Len(a) : f[i] = f[j] => i = j
      /\ \A i \in 1 .. Len(a) : f[i] = n + i
  BY <1>1, <1>2
<1> HIDE DEF f
<1>4. \A i \in 1 .. Len(a) : a[i].url = list[f[i]].url
  BY <1>1, <1>3
<1>5. Cardinality(Holders(a, url)) <= Cardinality(Holders(list, url))
  BY <1>1, <1>3, <1>4, FromOthers
<1> QED BY <1>1, <1>5 DEF a

-----------------------------------------------------------------------------
(* The invariant *)

LostPeer == [by : {"accept", "disconnect", "partition", "replace", "erase", "stop"},
             idle : BOOLEAN, url : Urls]

LEMMA LostType ==
  ASSUME NEW peers, peers \subseteq Peer,
         NEW by \in {"accept", "disconnect", "partition", "replace", "erase", "stop"}
  PROVE  Lost(peers, by) \subseteq LostPeer
BY DEF Lost, Peer, LostPeer

\* Few peers for each address of a list.
Few(list) == \A url \in Urls : Cardinality(Holders(list, url)) <= Times[url]

LEMMA FewFrom ==
  ASSUME NEW a \in Seq(Peer), NEW b \in Seq(Peer), Few(b),
         \A url \in Urls : Cardinality(Holders(a, url)) <= Cardinality(Holders(b, url))
  PROVE  Few(a)
<1>1. \A url \in Urls : /\ Cardinality(Holders(a, url)) \in Nat
                        /\ Cardinality(Holders(b, url)) \in Nat
                        /\ Times[url] \in Nat
  BY HoldersAreFinite, PeerListAssumption
<1> QED BY <1>1 DEF Few

LEMMA PeersStart ==
  ASSUME PeersInv, NEW reply \in Replies, start(reply)
  PROVE  PeersInv'
<1>1. reply \in Seq(Urls)
  BY PeerListAssumption
<1>2. m_peers' \in Seq(Peer) /\ FewPerUrl'
  <2>1. CASE m_stopped
    <3>1. m_peers' = <<>>
      BY <2>1 DEF start
    <3>2. \A url \in Urls : Holders(m_peers', url) = {}
      BY <3>1 DEF Holders
    <3>3. \A url \in Urls : Cardinality(Holders(m_peers', url)) = 0
      BY <3>2, FS_EmptySet
    <3> QED BY <3>1, <3>3, PeerListAssumption DEF FewPerUrl
  <2>2. CASE ~m_stopped
    <3>1. m_peers' = NewPeers(reply)
      BY <2>2 DEF start
    <3>2. m_peers' \in Seq(Peer) /\ \A url : Holders(m_peers', url) = Named(reply, url)
      BY <1>1, <3>1, NewPeersAre
    <3> QED BY <3>2, PeerListAssumption DEF FewPerUrl
  <2> QED BY <2>1, <2>2
<1>3. PeersTypeOK'
  BY <1>2 DEF start, PeersInv, PeersTypeOK
<1> QED BY <1>2, <1>3 DEF PeersInv

LEMMA PeersAccept ==
  ASSUME PeersInv, NEW url \in Urls, accept_peer(url)
  PROVE  PeersInv'
<1> DEFINE a == add_peer(m_peers, url)
           new == Fresh(url, TRUE)
<1>1. m_peers \in Seq(Peer) /\ Few(m_peers)
  BY DEF PeersInv, PeersTypeOK, FewPerUrl, Few
<1>2. a \in Seq(Peer) /\ Replaced(m_peers, url) \subseteq Peer
  BY <1>1, AddPeer
<1>3. new \in Peer /\ new.url = url
  BY DEF Fresh, Peer
<1>4. m_peers' = Append(a, new)
  BY DEF accept_peer
<1> HIDE DEF a, new
<1>5. m_peers' = a \o <<new>> /\ <<new>> \in Seq(Peer)
  BY <1>2, <1>3, <1>4
<1>6. m_peers' \in Seq(Peer)
  BY <1>2, <1>5
<1>7. ASSUME NEW other \in Urls
      PROVE  Cardinality(Holders(m_peers', other)) <= Times[other]
  <2> DEFINE n == Cardinality(Holders(m_peers, other))
             c == Cardinality(Holders(a, other))
             d == Cardinality(Holders(<<new>>, other))
  <2>1. /\ n \in Nat /\ c \in Nat /\ d \in Nat /\ Cardinality(Holders(m_peers', other)) \in Nat
        /\ Times[other] \in Nat \ {0}
    BY <1>1, <1>2, <1>5, <1>6, HoldersAreFinite, PeerListAssumption
  <2>2. c <= IF other = url /\ n # 0 THEN n - 1 ELSE n
    BY <1>1, AddPeer DEF a
  <2>3. d = IF other = url THEN 1 ELSE 0
    <3>1. CASE other = url
      <4>1. Holders(<<new>>, other) = {1}
        BY <1>3, <3>1 DEF Holders
      <4>2. Cardinality({1}) = 1
        BY FS_Singleton
      <4> QED BY <3>1, <4>1, <4>2
    <3>2. CASE other # url
      <4>1. Holders(<<new>>, other) = {}
        BY <1>3, <3>2 DEF Holders
      <4> QED BY <3>2, <4>1, FS_EmptySet
    <3> QED BY <3>1, <3>2
  <2>4. Cardinality(Holders(m_peers', other)) <= c + d
    BY <1>2, <1>5, ConcatHolders
  <2>5. n <= Times[other]
    BY <1>1 DEF Few
  <2> HIDE DEF n, c, d
  <2> QED BY <2>1, <2>2, <2>3, <2>4, <2>5
<1>8. lost' \subseteq LostPeer
  BY <1>2, LostType DEF accept_peer
<1>9. admitted' \in 0 .. MaxAccept
  BY PeerListAssumption DEF accept_peer, PeersInv, PeersTypeOK
<1>10. PeersTypeOK'
  BY <1>6, <1>8, <1>9 DEF accept_peer, PeersInv, PeersTypeOK, LostPeer
<1> QED BY <1>7, <1>10 DEF PeersInv, FewPerUrl

LEMMA PeersLeave ==
  ASSUME PeersInv, NEW i \in DOMAIN m_peers, disconnected(i)
  PROVE  PeersInv'
<1>1. m_peers \in Seq(Peer) /\ Few(m_peers) /\ i \in 1 .. Len(m_peers)
  BY DEF PeersInv, PeersTypeOK, FewPerUrl, Few
<1>2. m_peers' = RemoveAt(m_peers, i) /\ m_peers' \in Seq(Peer)
  BY <1>1, PeerRemoved DEF disconnected
<1>3. ASSUME NEW url \in Urls
      PROVE  Cardinality(Holders(m_peers', url)) <= Cardinality(Holders(m_peers, url))
  <2>1. Cardinality(Holders(m_peers', url)) <= Cardinality(Holders(m_peers, url) \ {i})
    BY <1>1, <1>2, FewerHolders
  <2>2. Cardinality(Holders(m_peers, url) \ {i}) <= Cardinality(Holders(m_peers, url))
    BY <1>1, HoldersAreFinite, FS_Subset
  <2>3. /\ Cardinality(Holders(m_peers', url)) \in Nat /\ Cardinality(Holders(m_peers, url)) \in Nat
        /\ Cardinality(Holders(m_peers, url) \ {i}) \in Nat
    BY <1>1, <1>2, HoldersAreFinite, FS_Subset, FS_CardinalityType
  <2> QED BY <2>1, <2>2, <2>3
<1>4. Few(m_peers')
  BY <1>1, <1>2, <1>3, FewFrom
<1>5. lost' \subseteq LostPeer
  <2>1. {m_peers[i]} \subseteq Peer
    BY <1>1
  <2> QED BY <2>1, LostType DEF disconnected
<1>6. PeersTypeOK'
  BY <1>2, <1>5 DEF disconnected, PeersInv, PeersTypeOK, LostPeer
<1> QED BY <1>4, <1>6 DEF PeersInv, FewPerUrl, Few

\* Steps that leave each peer where it is.
LEMMA PeersStay ==
  ASSUME PeersInv, NEW list \in Seq(Peer), Len(list) = Len(m_peers),
         \A i \in 1 .. Len(m_peers) : list[i].url = m_peers[i].url
  PROVE  Few(list)
<1>1. m_peers \in Seq(Peer) /\ Few(m_peers)
  BY DEF PeersInv, PeersTypeOK, FewPerUrl, Few
<1>2. \A url \in Urls : Cardinality(Holders(list, url)) = Cardinality(Holders(m_peers, url))
  BY <1>1, SameUrls
<1> QED BY <1>1, <1>2 DEF Few

LEMMA PeersAge ==
  ASSUME PeersInv, NEW i \in DOMAIN m_peers, two_minutes(i) \/ update_activity(i)
  PROVE  PeersInv'
<1>1. m_peers \in Seq(Peer) /\ i \in 1 .. Len(m_peers)
  BY DEF PeersInv, PeersTypeOK
<1>2. PICK b \in BOOLEAN : m_peers' = [m_peers EXCEPT ![i].idle = b]
  BY DEF two_minutes, update_activity
<1>3. \A p \in Peer : [p EXCEPT !.idle = b] \in Peer /\ [p EXCEPT !.idle = b].url = p.url
  BY DEF Peer
<1>4. \A j \in 1 .. Len(m_peers) : m_peers[j] \in Peer
  BY <1>1
<1>5. m_peers' = [m_peers EXCEPT ![i] = [m_peers[i] EXCEPT !.idle = b]]
  BY <1>2
<1>6. m_peers' \in Seq(Peer) /\ Len(m_peers') = Len(m_peers)
  <2>1. m_peers' \in [1 .. Len(m_peers) -> Peer]
    BY <1>1, <1>3, <1>4, <1>5
  <2> QED BY <1>1, <2>1, Tuples
<1>7. \A j \in 1 .. Len(m_peers) : m_peers'[j].url = m_peers[j].url
  BY <1>1, <1>3, <1>4, <1>5
<1>8. Few(m_peers')
  BY <1>6, <1>7, PeersStay
<1>9. PeersTypeOK'
  BY <1>6 DEF two_minutes, update_activity, PeersInv, PeersTypeOK
<1> QED BY <1>8, <1>9 DEF PeersInv, FewPerUrl, Few

LEMMA PeersStop ==
  ASSUME PeersInv, stop
  PROVE  PeersInv'
<1>1. m_peers \in Seq(Peer) /\ \A i \in 1 .. Len(m_peers) : m_peers[i] \in Peer
  BY DEF PeersInv, PeersTypeOK
<1>2. \A p \in Peer : Stopped(p) \in Peer /\ Stopped(p).url = p.url
  BY DEF Stopped, Peer
<1>3. m_peers' = [i \in 1 .. Len(m_peers) |-> Stopped(m_peers[i])]
  BY <1>1 DEF stop
<1>4. m_peers' \in [1 .. Len(m_peers) -> Peer]
  BY <1>1, <1>2, <1>3
<1>5. m_peers' \in Seq(Peer) /\ Len(m_peers') = Len(m_peers)
  BY <1>1, <1>4, Tuples
<1>6. \A i \in 1 .. Len(m_peers) : m_peers'[i].url = m_peers[i].url
  BY <1>1, <1>2, <1>3
<1>7. Few(m_peers')
  BY <1>5, <1>6, PeersStay
<1>8. lost' \subseteq LostPeer
  <2>1. ToSet(m_peers) \subseteq Peer
    BY <1>1 DEF ToSet
  <2> QED BY <2>1, LostType DEF stop
<1>9. PeersTypeOK'
  BY <1>5, <1>8 DEF stop, PeersInv, PeersTypeOK, LostPeer
<1> QED BY <1>7, <1>9 DEF PeersInv, FewPerUrl, Few

LEMMA PeersThrow ==
  ASSUME PeersInv, retry_peers_throws
  PROVE  PeersInv'
<1>1. m_peers \in Seq(Peer) /\ Few(m_peers) /\ m_peers' \in Partitions(m_peers)
  BY DEF PeersInv, PeersTypeOK, FewPerUrl, Few, retry_peers_throws
<1>2. /\ m_peers' \in Seq(Peer)
      /\ \A url \in Urls : Cardinality(Holders(m_peers', url)) <= Cardinality(Holders(m_peers, url))
  BY <1>1, Parted
<1>3. Few(m_peers')
  BY <1>1, <1>2, FewFrom
<1>4. PeersTypeOK'
  BY <1>2 DEF retry_peers_throws, PeersInv, PeersTypeOK
<1> QED BY <1>3, <1>4 DEF PeersInv, FewPerUrl, Few

LEMMA PeersRetry ==
  ASSUME PeersInv, NEW reply \in Replies, retry_peers(reply)
  PROVE  PeersInv'
<1>1. m_peers \in Seq(Peer) /\ Few(m_peers) /\ reply \in Seq(Urls)
  BY PeerListAssumption DEF PeersInv, PeersTypeOK, FewPerUrl, Few
<1>2. PICK parted \in Partitions(m_peers) :
        LET n == Count(m_peers)
            after == AddAll(parted, reply)
            kept == after[Len(reply)]
            replaced == UNION {Replaced(after[k - 1], reply[k]) : k \in DOMAIN reply}
            stopped == IF n = 0 THEN {} ELSE {p \in ToSet(m_peers) : ~Inactive(p)}
        IN IF n <= Len(kept)
           THEN /\ m_peers' = SubSeq(kept, n + 1, Len(kept)) \o NewPeers(reply)
                /\ run' = run
                /\ lost' = Lost(replaced, "replace") \cup Lost(stopped, "partition")
                           \cup Lost({kept[i] : i \in 1 .. n}, "erase")
           ELSE /\ m_peers' = <<>>
                /\ run' = "undefined"
                /\ lost' = {}
  BY DEF retry_peers
<1> DEFINE n == Count(m_peers)
           after == AddAll(parted, reply)
           kept == after[Len(reply)]
           rest == SubSeq(kept, n + 1, Len(kept))
           replaced == UNION {Replaced(after[k - 1], reply[k]) : k \in DOMAIN reply}
           stopped == IF n = 0 THEN {} ELSE {p \in ToSet(m_peers) : ~Inactive(p)}
<1>3. /\ parted \in Seq(Peer)
      /\ \A url : Cardinality(Holders(parted, url)) <= Cardinality(Holders(m_peers, url))
  BY <1>1, Parted
<1>4. Len(reply) \in 0 .. Len(reply) /\ DOMAIN reply = 1 .. Len(reply)
  BY <1>1
<1>5. \A k \in 0 .. Len(reply) : after[k] \in Seq(Peer)
  BY <1>1, <1>3, AddAllRemoves
<1>6. kept \in Seq(Peer)
  BY <1>4, <1>5
<1>7. n \in Nat
  <2>1. IsFiniteSet(1 .. Len(m_peers))
    BY FS_Interval, <1>1
  <2>2. {i \in DOMAIN m_peers : Inactive(m_peers[i])} \subseteq 1 .. Len(m_peers)
    BY <1>1
  <2>3. IsFiniteSet({i \in DOMAIN m_peers : Inactive(m_peers[i])})
    BY <2>1, <2>2, FS_Subset
  <2> QED BY <2>3, FS_CardinalityType DEF Count
<1>8. \/ /\ n <= Len(kept)
         /\ m_peers' = rest \o NewPeers(reply)
         /\ run' = run
         /\ lost' = Lost(replaced, "replace") \cup Lost(stopped, "partition")
                    \cup Lost({kept[i] : i \in 1 .. n}, "erase")
      \/ /\ m_peers' = <<>>
         /\ run' = "undefined"
         /\ lost' = {}
  BY <1>2
<1>9. CASE n <= Len(kept) /\ m_peers' = rest \o NewPeers(reply) /\ run' = run
           /\ lost' = Lost(replaced, "replace") \cup Lost(stopped, "partition")
                      \cup Lost({kept[i] : i \in 1 .. n}, "erase")
  <2>1. n \in 0 .. Len(kept)
    BY <1>6, <1>7, <1>9
  <2>2. rest \in Seq(Peer) /\ NewPeers(reply) \in Seq(Peer)
    <3> HIDE DEF kept, n
    <3> QED BY <1>1, <1>6, <2>1, SuffixHolders, NewPeersAre
  <2>3. m_peers' \in Seq(Peer)
    BY <1>9, <2>2, Concat
  <2>4. ASSUME NEW url \in Urls
        PROVE  Cardinality(Holders(m_peers', url)) <= Times[url]
    <3> DEFINE m == Cardinality({i \in 1 .. Len(reply) : reply[i] = url})
               c == Cardinality(Holders(m_peers, url))
               d == Cardinality(Holders(parted, url))
               e == Cardinality(Holders(kept, url))
               f == Cardinality(Holders(rest, url))
               g == Cardinality(Holders(m_peers', url))
    <3>1. m \in Nat /\ e <= IF d <= m THEN 0 ELSE d - m
      <4>1. \A k \in 0 .. Len(reply) :
              LET M == Cardinality({i \in 1 .. k : reply[i] = url})
              IN M \in Nat /\ Cardinality(Holders(after[k], url)) <= IF d <= M THEN 0 ELSE d - M
        BY <1>1, <1>3, AddAllRemoves
      <4> HIDE DEF after, d
      <4> QED BY <1>4, <4>1
    <3>2. d <= c /\ c <= Times[url] /\ Times[url] \in Nat
      BY <1>1, <1>3, PeerListAssumption DEF Few
    <3>3. f <= e
      <4> HIDE DEF kept, n
      <4> QED BY <1>6, <2>1, SuffixHolders
    <3>4. Holders(NewPeers(reply), url) = Named(reply, url)
      BY <1>1, NewPeersAre
    <3>5. Named(reply, url) = {i \in 1 .. Len(reply) : reply[i] = url}
      BY <1>4 DEF Named
    <3>6. m <= Times[url]
      BY <3>5, PeerListAssumption
    <3>7. g <= f + m
      <4> HIDE DEF rest
      <4> QED BY <1>9, <2>2, <3>4, <3>5, ConcatHolders
    <3>8. c \in Nat /\ d \in Nat /\ e \in Nat /\ f \in Nat /\ g \in Nat
      <4> HIDE DEF kept, rest
      <4> QED BY <1>1, <1>3, <1>6, <2>2, <2>3, HoldersAreFinite
    <3> HIDE DEF c, d, e, f, g, m
    <3>9. g <= Times[url]
      BY <3>1, <3>2, <3>3, <3>6, <3>7, <3>8
    <3> QED BY <3>9 DEF g
  <2>5. replaced \subseteq Peer /\ stopped \subseteq Peer /\ {kept[i] : i \in 1 .. n} \subseteq Peer
    <3>1. ASSUME NEW k \in DOMAIN reply PROVE Replaced(after[k - 1], reply[k]) \subseteq Peer
      <4>1. k - 1 \in 0 .. Len(reply)
        BY <1>1, <1>4
      <4> HIDE DEF after
      <4> QED BY <1>5, <4>1, AddPeer
    <3>2. replaced \subseteq Peer
      <4> HIDE DEF after
      <4> QED BY <3>1
    <3>3. ToSet(m_peers) \subseteq Peer
      BY <1>1 DEF ToSet
    <3>4. {kept[i] : i \in 1 .. n} \subseteq Peer
      <4> HIDE DEF kept, n
      <4> QED BY <1>6, <2>1
    <3> QED BY <3>2, <3>3, <3>4
  <2>6. lost' \subseteq LostPeer
    <3> HIDE DEF replaced, stopped, kept, n
    <3>1. /\ Lost(replaced, "replace") \subseteq LostPeer
          /\ Lost(stopped, "partition") \subseteq LostPeer
          /\ Lost({kept[i] : i \in 1 .. n}, "erase") \subseteq LostPeer
      BY <2>5, LostType
    <3> QED BY <1>9, <3>1
  <2>7. PeersTypeOK'
    BY <1>9, <2>3, <2>6 DEF retry_peers, PeersInv, PeersTypeOK, LostPeer
  <2> QED BY <2>4, <2>7 DEF PeersInv, FewPerUrl
<1>10. CASE m_peers' = <<>> /\ run' = "undefined" /\ lost' = {}
  <2>1. \A url \in Urls : Holders(m_peers', url) = {}
    BY <1>10 DEF Holders
  <2>2. \A url \in Urls : Cardinality(Holders(m_peers', url)) = 0
    BY <2>1, FS_EmptySet
  <2>3. FewPerUrl'
    BY <2>2, PeerListAssumption DEF FewPerUrl
  <2>4. PeersTypeOK'
    BY <1>10 DEF retry_peers, PeersInv, PeersTypeOK
  <2> QED BY <2>3, <2>4 DEF PeersInv
<1> QED
  <2> HIDE DEF kept, rest, replaced, stopped, n
  <2> QED BY <1>8, <1>9, <1>10

LEMMA PeersFirst == PeersInit => PeersInv
<1> SUFFICES ASSUME PeersInit PROVE PeersInv
  OBVIOUS
<1>1. m_peers = <<>>
  BY DEF PeersInit
<1>2. \A url \in Urls : Holders(m_peers, url) = {}
  BY <1>1 DEF Holders
<1>3. \A url \in Urls : Cardinality(Holders(m_peers, url)) = 0
  BY <1>2, FS_EmptySet
<1>4. FewPerUrl
  BY <1>3, PeerListAssumption DEF FewPerUrl
<1>5. PeersTypeOK
  <2>1. <<>> \in Seq(Peer) /\ 0 \in 0 .. MaxAccept
    BY PeerListAssumption
  <2> QED BY <2>1 DEF PeersInit, PeersTypeOK
<1> QED BY <1>4, <1>5 DEF PeersInv

LEMMA PeersSteps == PeersInv /\ [PeersNext]_peers_vars => PeersInv'
<1> SUFFICES ASSUME PeersInv, [PeersNext]_peers_vars PROVE PeersInv'
  OBVIOUS
<1>1. CASE \E reply \in Replies : start(reply) \/ retry_peers(reply)
  BY <1>1, PeersStart, PeersRetry
<1>2. CASE \E url \in Urls : accept_peer(url)
  BY <1>2, PeersAccept
<1>3. CASE \E i \in DOMAIN m_peers : disconnected(i) \/ update_activity(i) \/ two_minutes(i)
  BY <1>3, PeersLeave, PeersAge
<1>4. CASE retry_peers_throws \/ stop
  BY <1>4, PeersThrow, PeersStop
<1>5. CASE start_throws \/ set_stopped \/ run_end \/ UNCHANGED peers_vars
  BY <1>5 DEF start_throws, set_stopped, run_end, peers_vars, PeersInv, PeersTypeOK, FewPerUrl
<1> QED BY <1>1, <1>2, <1>3, <1>4, <1>5 DEF PeersNext, Remote, Retry

\* Whatever trackers answer and remotes do, and in whatever order partition leaves the
\* peers (start, retry_peers, add_peer, disconnected, stop): m_peers holds for each
\* address no more peers than the tracker that names it most often gives it, and one
\* if no answer names it twice.
THEOREM PeersAreFew == PeersSpec => []PeersInv
<1> QED BY PeersFirst, PeersSteps, PTL DEF PeersSpec

=============================================================================
