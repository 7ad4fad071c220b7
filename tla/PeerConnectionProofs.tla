------------------------- MODULE PeerConnectionProofs -------------------------
(***************************************************************************)
(* What holds of a PeerConnection for any number of endpoints and messages:*)
(* Inv, whichever thread writes, and the order of the messages as long as  *)
(* one thread writes.  The inductive invariant says, as long as no thread  *)
(* has acted on a stale look at m_msg, where each message is: sent, in     *)
(* m_msg while it is being sent or the connection is made, in m_send_queue,*)
(* or in the hands of a thread that is in write().                         *)
(***************************************************************************)
EXTENDS PeerConnection, SequenceTheorems, TLAPS

Places(s) == 1 .. Len(s)

\* The thread is in write().
Holds(t) == looked[t].saw # "none"

\* What is made of the connection: nothing is sent or read before, and a message is
\* set while it is made.
Connection ==
  /\ m_connected => op = "none"
  /\ ~m_connected =>
       /\ writes = <<>> /\ reads = 0 /\ sent = <<>> /\ after_write = "none"
       /\ ~Holds("writer") /\ written.notify = 0 /\ ~stale
       /\ op \in {"none", "accepted"} => m_msg = Empty /\ m_send_queue = <<>>
       /\ op \in {"none", "accepted", "resolve"} => left = Endpoints
  /\ op \in {"resolve", "connect", "failed"} => m_msg # Empty

Alone == written.notify = 0

\* The torrent thread writes between its handlers, and it alone clears m_msg.
Looking ==
  /\ Holds("torrent") => after_write = "none"
  /\ looked["torrent"].saw = "message" => m_msg # Empty
  /\ \A t \in Threads : Holds(t) => looked[t].msg # Empty
  /\ Alone => ~stale /\ ~Holds("writer")
  /\ Alone /\ looked["torrent"].saw = "empty" => m_msg = Empty

\* Reading starts after one message, and was not started before.
Reading ==
  /\ reads <= 1
  /\ \A i, j \in Places(writes) : writes[i].start_read /\ writes[j].start_read => i = j
  /\ \A i \in Places(writes) : writes[i].start_read => reads = 0

\* Without a stale look, one async_write or handler of one is under way, none when
\* m_msg is empty, and takes what m_msg is.
Exclusive ==
  ~stale =>
    /\ Len(writes) <= 1
    /\ writes # <<>> => /\ writes[1].takes = {m_msg} /\ m_msg # Empty
                        /\ after_write = "none"
    /\ after_write # "none" => m_msg # Empty

\* ... and each message is in one place: sent, being sent, waiting, or not yet put.
Flying == op \in {"resolve", "connect"} \/ writes # <<>>
Others == 1 .. written.all \ (ToSet(sent) \cup ToSet(m_send_queue))
Distinct ==
  ~stale =>
    /\ IsInjective(sent) /\ IsInjective(m_send_queue)
    /\ ToSet(sent) \cap ToSet(m_send_queue) = {}
    /\ ToSet(sent) \cup ToSet(m_send_queue) \subseteq 1 .. written.all
    /\ \A t \in Threads : Holds(t) => looked[t].msg \in Others
    /\ Holds("torrent") /\ Holds("writer") => looked["torrent"].msg # looked["writer"].msg
    /\ Flying => m_msg \in Others /\ \A t \in Threads : Holds(t) => looked[t].msg # m_msg

\* The handler of a write that will send the next finds one.
Waiting ==
  /\ after_write = "next" => m_send_queue # <<>>
  /\ Alone /\ after_write = "clear" => m_send_queue = <<>>

\* The message m_send_queue stands behind, and those written before one being written.
First == IF after_write = "none" THEN Len(sent) + 1 ELSE Len(sent)
Before == IF Holds("torrent") THEN written.all - 1 ELSE written.all

\* As long as one thread writes, what was sent, the message under way and the queue
\* are the messages in order.
Ordered ==
  Alone =>
    /\ \A i \in Places(sent) : sent[i] = i
    /\ ~m_stopped =>
        /\ Holds("torrent") => looked["torrent"].msg = written.all
        /\ m_msg = Empty => Len(sent) = Before /\ m_send_queue = <<>>
        /\ m_msg # Empty =>
             /\ m_msg = First /\ Before = First + Len(m_send_queue)
             /\ \A i \in Places(m_send_queue) : m_send_queue[i] = First + i

Responding == \E result \in {"data", "eof", "error"} : handle_response(result)

IndInv == /\ TypeOK /\ Connection /\ Looking /\ Reading
          /\ Exclusive /\ Distinct /\ Waiting /\ Ordered

-----------------------------------------------------------------------------
(* Sequences *)

\* What Append does, to the places of a sequence and to its elements.
Longer(s, t, e) ==
  /\ Len(t) = Len(s) + 1
  /\ \A i \in 1 .. Len(t) : \/ i \in 1 .. Len(s) /\ t[i] = s[i]
                            \/ i = Len(s) + 1 /\ t[i] = e

Added(s, t, e) ==
  /\ ToSet(t) = ToSet(s) \cup {e}
  /\ IsInjective(s) /\ e \notin ToSet(s) => IsInjective(t)

LEMMA Appended ==
  ASSUME NEW S, NEW s \in Seq(S), NEW e \in S
  PROVE  Append(s, e) \in Seq(S) /\ Longer(s, Append(s, e), e) /\ Added(s, Append(s, e), e)
<1> DEFINE t == Append(s, e)
<1>1. /\ t \in Seq(S) /\ Len(t) = Len(s) + 1 /\ Len(s) \in Nat
      /\ \A i \in 1 .. Len(s) : t[i] = s[i]
      /\ t[Len(s) + 1] = e
      /\ DOMAIN s = 1 .. Len(s) /\ DOMAIN t = 1 .. Len(t)
  BY AppendProperties, LenProperties
<1> HIDE DEF t
<1>2. \A i \in 1 .. Len(t) : \/ i \in 1 .. Len(s) /\ t[i] = s[i]
                             \/ i = Len(s) + 1 /\ t[i] = e
  BY <1>1
<1>3. ToSet(t) = ToSet(s) \cup {e}
  BY <1>1, <1>2 DEF ToSet
<1>4. IsInjective(s) /\ e \notin ToSet(s) => IsInjective(t)
  BY <1>1, <1>2 DEF ToSet, IsInjective
<1>5. QED BY <1>1, <1>2, <1>3, <1>4 DEF Longer, Added, t

\* The async_writes, as send leaves those under way and as it adds one.
Writes == [takes : SUBSET Messages, start_read : BOOLEAN]

SameReads(w) ==
  /\ Len(w) = Len(writes)
  /\ \A i \in 1 .. Len(writes) : w[i].start_read = writes[i].start_read

Started(start, m) ==
  /\ Len(writes') = Len(writes) + 1
  /\ \A i \in 1 .. Len(writes') :
       \/ i \in 1 .. Len(writes) /\ writes'[i].start_read = writes[i].start_read
       \/ i = Len(writes) + 1 /\ writes'[i].start_read = start /\ writes'[i].takes = {m}

LEMMA Viewing ==
  ASSUME TypeOK, NEW m \in Nat
  PROVE  /\ Under(m) \in Seq(Writes) /\ SameReads(Under(m))
         /\ writes = <<>> => Under(m) = <<>>
<1>1. writes \in Seq(Writes) /\ DOMAIN writes = 1 .. Len(writes) /\ Len(writes) \in Nat
  BY LenProperties DEF TypeOK, Writes
<1> DEFINE more == {m, Torn} \ {Empty}
<1>2. more \subseteq Messages
  BY DEF Messages
<1> HIDE DEF more
<1>3. \A i \in 1 .. Len(writes) : /\ writes[i] \in Writes
                                 /\ [writes[i] EXCEPT !.takes = @ \cup more] \in Writes
                                 /\ [writes[i] EXCEPT !.takes = @ \cup more].start_read = writes[i].start_read
  <2> TAKE i \in 1 .. Len(writes)
  <2>1. writes[i] \in Writes
    BY <1>1, ElementOfSeq
  <2>2. QED BY <1>2, <2>1 DEF Writes
<1>4. Under(m) = [i \in 1 .. Len(writes) |-> [writes[i] EXCEPT !.takes = @ \cup more]]
  BY <1>1 DEF Under, more
<1>5. Under(m) \in Seq(Writes) /\ Len(Under(m)) = Len(writes)
  <2> DEFINE e(i) == [writes[i] EXCEPT !.takes = @ \cup more]
  <2>1. \A i \in 1 .. Len(writes) : e(i) \in Writes
    BY <1>3
  <2>2. Under(m) = [i \in 1 .. Len(writes) |-> e(i)]
    BY <1>4
  <2> HIDE DEF e
  <2>3. Under(m) \in [1 .. Len(writes) -> Writes]
    BY <2>1, <2>2
  <2>4. QED BY <1>1, <2>3, SeqDef, LenProperties
<1>6. SameReads(Under(m))
  BY <1>3, <1>4, <1>5 DEF SameReads
<1>7. QED BY <1>1, <1>5, <1>6, EmptySeq

LEMMA Sending ==
  ASSUME TypeOK, NEW m \in Nat, NEW start \in BOOLEAN, NEW under \in Seq(Writes),
         SameReads(under), send(under, m, start)
  PROVE  /\ writes' \in Seq(Writes)
         /\ m_stopped => writes' = under
         /\ ~m_stopped => Started(start, m)
<1> DEFINE w == [takes |-> {m}, start_read |-> start]
<1>1. w \in Writes /\ w.start_read = start /\ w.takes = {m}
  BY DEF Writes, Messages
<1>2. CASE m_stopped
  BY <1>2 DEF send
<1>3. CASE ~m_stopped
  <2>1. writes' = Append(under, w)
    BY <1>3 DEF send
  <2> HIDE DEF w
  <2>2. writes' \in Seq(Writes) /\ Longer(under, writes', w)
    BY <1>1, <2>1, Appended
  <2>3. Started(start, m)
    BY <1>1, <2>2 DEF Longer, Started, SameReads
  <2>4. QED BY <1>3, <2>2, <2>3
<1>4. QED BY <1>2, <1>3

LEMMA Queueing ==
  ASSUME TypeOK, NEW m \in Nat, m_send_queue' = Append(m_send_queue, m)
  PROVE  /\ m_send_queue' \in Seq(Nat) /\ Longer(m_send_queue, m_send_queue', m)
         /\ Added(m_send_queue, m_send_queue', m)
<1>1. m_send_queue \in Seq(Nat)
  BY DEF TypeOK
<1>2. QED BY <1>1, Appended

\* What Tail does, to the places of a sequence and to its elements.
Shorter(s, t, e) ==
  /\ Len(s) = Len(t) + 1 /\ e = s[1]
  /\ \A i \in 1 .. Len(t) : t[i] = s[i + 1]

Removed(s, t, e) ==
  /\ ToSet(s) = ToSet(t) \cup {e}
  /\ IsInjective(s) => IsInjective(t) /\ e \notin ToSet(t)

LEMMA Taken ==
  ASSUME NEW S, NEW s \in Seq(S), s # <<>>
  PROVE  /\ Tail(s) \in Seq(S) /\ Head(s) \in S /\ Shorter(s, Tail(s), Head(s))
         /\ Removed(s, Tail(s), Head(s))
<1> DEFINE t == Tail(s)
           e == Head(s)
<1>1. /\ t \in Seq(S) /\ Len(s) = Len(t) + 1 /\ Len(t) \in Nat /\ e = s[1] /\ e \in S
      /\ \A i \in 1 .. Len(t) : t[i] = s[i + 1]
      /\ DOMAIN s = 1 .. Len(s) /\ DOMAIN t = 1 .. Len(t)
  BY HeadTailProperties, EmptySeq, LenProperties
<1> HIDE DEF t, e
<1>2. \A j \in 1 .. Len(s) : j = 1 \/ (j - 1 \in 1 .. Len(t) /\ t[j - 1] = s[j])
  BY <1>1
<1>3. ToSet(s) = ToSet(t) \cup {e}
  <2>1. ToSet(s) \subseteq ToSet(t) \cup {e}
    BY <1>1, <1>2 DEF ToSet
  <2>2. ToSet(t) \subseteq ToSet(s)
    BY <1>1 DEF ToSet
  <2>3. e \in ToSet(s)
    BY <1>1 DEF ToSet
  <2>4. QED BY <2>1, <2>2, <2>3
<1>4. IsInjective(s) => IsInjective(t) /\ e \notin ToSet(t)
  <2> SUFFICES ASSUME IsInjective(s) PROVE IsInjective(t) /\ e \notin ToSet(t)
    OBVIOUS
  <2>1. \A i, j \in 1 .. Len(s) : s[i] = s[j] => i = j
    BY <1>1 DEF IsInjective
  <2>2. \A i \in 1 .. Len(t) : i + 1 \in 1 .. Len(s) /\ i + 1 # 1 /\ 1 \in 1 .. Len(s)
    BY <1>1
  <2>3. IsInjective(t)
    BY <1>1, <2>1, <2>2 DEF IsInjective
  <2>4. e \notin ToSet(t)
    BY <1>1, <2>1, <2>2 DEF ToSet
  <2>5. QED BY <2>3, <2>4
<1>5. QED BY <1>1, <1>3, <1>4 DEF Shorter, Removed, t, e

Measured(s) == Len(s) \in Nat /\ (s = <<>> <=> Len(s) = 0)

LEMMA Lengths == ASSUME NEW S, NEW s \in Seq(S) PROVE Measured(s)
BY EmptySeq, LenProperties DEF Measured

\* What a completion does with the async_writes.
Ended(s, t, i) ==
  /\ Len(s) = Len(t) + 1
  /\ \A j \in 1 .. Len(t) : \E k \in 1 .. Len(s) : t[j] = s[k] /\ k # i /\ (j < i => k = j) /\ (j >= i => k = j + 1)

LEMMA Completed ==
  ASSUME NEW S, NEW s \in Seq(S), NEW i \in 1 .. Len(s)
  PROVE  RemoveAt(s, i) \in Seq(S) /\ Ended(s, RemoveAt(s, i), i)
<1> DEFINE a == SubSeq(s, 1, i - 1)
           b == SubSeq(s, i + 1, Len(s))
           t == a \o b
<1>0. Len(s) \in Nat /\ i \in Nat /\ i >= 1 /\ i <= Len(s) /\ RemoveAt(s, i) = t
  BY LenProperties DEF RemoveAt
<1>1. /\ a \in Seq(S) /\ Len(a) = i - 1
      /\ \A j \in 1 .. i - 1 : a[j] = s[j]
  BY <1>0, SubSeqProperties
<1>2. /\ b \in Seq(S) /\ Len(b) = Len(s) - i
      /\ \A j \in 1 .. Len(s) - i : b[j] = s[i + j]
  BY <1>0, SubSeqProperties
<1> HIDE DEF a, b
<1>3. /\ t \in Seq(S) /\ Len(t) = Len(s) - 1
      /\ \A j \in 1 .. Len(t) : t[j] = IF j <= i - 1 THEN a[j] ELSE b[j - (i - 1)]
  BY <1>0, <1>1, <1>2, ConcatProperties
<1> HIDE DEF t
<1>4. ASSUME NEW j \in 1 .. Len(t)
      PROVE  \E k \in 1 .. Len(s) : t[j] = s[k] /\ k # i /\ (j < i => k = j) /\ (j >= i => k = j + 1)
  <2>1. CASE j < i
    <3>1. t[j] = s[j]
      BY <1>0, <1>1, <1>3, <2>1
    <3>2. QED BY <1>0, <1>3, <2>1, <3>1
  <2>2. CASE j >= i
    <3>1. j - (i - 1) \in 1 .. Len(s) - i /\ i + (j - (i - 1)) = j + 1 /\ j + 1 \in 1 .. Len(s)
      BY <1>0, <1>3, <2>2
    <3>2. t[j] = s[j + 1]
      BY <1>0, <1>2, <1>3, <2>2, <3>1
    <3>3. QED BY <1>0, <2>2, <3>1, <3>2
  <2>3. QED BY <1>0, <1>3, <2>1, <2>2
<1>5. QED BY <1>0, <1>3, <1>4 DEF Ended

AllMeasured == Measured(writes) /\ Measured(sent) /\ Measured(m_send_queue)

\* A new connection.
LEMMA InitInv == Init => IndInv
<1> SUFFICES ASSUME Init PROVE IndInv
  OBVIOUS
<1>0. /\ writes = <<>> /\ sent = <<>> /\ m_send_queue = <<>>
      /\ Len(writes) = 0 /\ Len(sent) = 0 /\ Len(m_send_queue) = 0
      /\ ToSet(sent) = {} /\ ToSet(m_send_queue) = {} /\ IsInjective(sent) /\ IsInjective(m_send_queue)
      /\ <<>> \in Seq(Nat) /\ <<>> \in Seq(Messages) /\ <<>> \in Seq(Writes)
  BY EmptySeq DEF Init, ToSet, IsInjective
<1>1. /\ m_msg = 0 /\ m_connected = FALSE /\ op \in {"none", "accepted"} /\ left = Endpoints
      /\ after_write = "none" /\ reads = 0 /\ m_stopped = FALSE /\ stale = FALSE
      /\ looked = [t \in Threads |-> [saw |-> "none", msg |-> 0]]
      /\ written = [all |-> 0, notify |-> 0]
  BY DEF Init, connection, Empty, NotWriting
<1>2. \A t \in Threads : looked[t].saw = "none"
  BY <1>1
<1>3. Holds("torrent") = FALSE /\ Holds("writer") = FALSE /\ \A t \in Threads : ~Holds(t)
  BY <1>2 DEF Holds, Threads
<1>4. TypeOK
  <2>1. left \in 0 .. Endpoints
    BY <1>1, PeerConnectionAssumption DEF PeerConnectionAssumption
  <2>2. looked \in [Threads -> [saw : {"none", "empty", "message"}, msg : Nat]]
    BY <1>1
  <2>3. written \in [all : Nat, notify : Nat]
    BY <1>1
  <2>4. QED BY <1>0, <1>1, <2>1, <2>2, <2>3 DEF TypeOK, Writes
<1>5. Connection /\ Looking /\ Waiting
  BY <1>0, <1>1, <1>2, <1>3 DEF Connection, Looking, Waiting, Threads, Empty
<1>6. Reading /\ Exclusive /\ Distinct
  BY <1>0, <1>1, <1>3 DEF Reading, Exclusive, Distinct, Places, Flying
<1>7. Ordered
  BY <1>0, <1>1, <1>3 DEF Ordered, Places, Before, Empty
<1>8. QED BY <1>4, <1>5, <1>6, <1>7 DEF IndInv

\* What a thread is in write() with, after a look of thread t.
LEMMA begin_writeKeeps == ASSUME NEW t \in Threads, IndInv, begin_write(t) PROVE IndInv'
<1> USE DEF begin_write, connection, Empty
<1>0. TypeOK /\ Connection /\ Looking /\ Reading /\ Exclusive /\ Distinct /\ Waiting /\ Ordered
  BY DEF IndInv
<1> DEFINE m == written.all + 1
           saw == IF m_msg = 0 THEN "empty" ELSE "message"
<1>a. m \in Nat \ {0} /\ m = written.all + 1 /\ written.all \in Nat /\ written.notify \in Nat
  BY <1>0 DEF TypeOK
<1>b. /\ UNCHANGED <<m_msg, m_send_queue, m_connected, op, left, writes, after_write, reads, m_stopped, sent, stale>>
      /\ looked[t].saw = "none"
      /\ written'.all = m /\ written' \in [all : Nat, notify : Nat]
      /\ written'.notify = IF t = "writer" THEN written.notify + 1 ELSE written.notify
  BY <1>a
<1>c. /\ looked' = [looked EXCEPT ![t] = [saw |-> saw, msg |-> m]]
      /\ looked' \in [Threads -> [saw : {"none", "empty", "message"}, msg : Nat]]
      /\ saw # "none"
  BY <1>0, <1>a DEF TypeOK
<1>d. /\ t = "torrent" => after_write = "none"
      /\ t = "writer" => m_connected
  BY DEF MayWrite, Idle
<1>e. t \in {"torrent", "writer"}
  BY DEF Threads
<1>f. /\ looked'[t].saw = saw /\ looked'[t].msg = m
      /\ \A s \in Threads : s # t => looked'[s] = looked[s]
  BY <1>0, <1>c DEF TypeOK
<1> HIDE DEF begin_write, m
<1>g. /\ Holds(t)' /\ ~Holds(t)
      /\ \A s \in Threads : s # t => (Holds(s)' <=> Holds(s))
  BY <1>b, <1>c, <1>f DEF Holds
<1>h. Alone' => Alone /\ t = "torrent"
  BY <1>a, <1>b, <1>e DEF Alone
<1>1. TypeOK'
  BY <1>0, <1>b, <1>c DEF TypeOK
<1>2. Connection'
  <2>1. ~m_connected => ~Holds("writer")' /\ written'.notify = 0
    BY <1>0, <1>b, <1>d, <1>e, <1>g DEF Connection, Threads
  <2>2. QED BY <1>0, <1>b, <2>1 DEF Connection
<1>3. Looking'
  <2>1. \A s \in Threads : Holds(s)' => looked'[s].msg # 0
    BY <1>0, <1>a, <1>f, <1>g DEF Looking
  <2>2. (saw = "empty" /\ m_msg = 0) \/ (saw = "message" /\ m_msg # 0)
    OBVIOUS
  <2> HIDE DEF saw
  <2>3. CASE t = "torrent"
    <3>1. /\ after_write = "none" /\ looked'["torrent"].saw = saw
          /\ Holds("writer")' <=> Holds("writer")
      BY <1>d, <1>f, <1>g, <2>3 DEF Threads
    <3>2. QED BY <1>0, <1>b, <1>h, <2>1, <2>2, <2>3, <3>1 DEF Looking
  <2>4. CASE t = "writer"
    <3>1. looked'["torrent"] = looked["torrent"] /\ (Holds("torrent")' <=> Holds("torrent")) /\ ~Alone'
      BY <1>f, <1>g, <1>h, <2>4 DEF Threads
    <3>2. QED BY <1>0, <1>b, <2>1, <3>1 DEF Looking
  <2>5. QED BY <1>e, <2>3, <2>4
<1>4. Reading'
  BY <1>0, <1>b DEF Reading, Places
<1>5. Exclusive'
  BY <1>0, <1>b DEF Exclusive
<1>6. Distinct'
  <2> SUFFICES ASSUME ~stale PROVE
        /\ ToSet(sent) \cup ToSet(m_send_queue) \subseteq 1 .. m
        /\ \A s \in Threads : Holds(s)' => looked'[s].msg \in Others'
        /\ Holds("torrent")' /\ Holds("writer")' => looked'["torrent"].msg # looked'["writer"].msg
        /\ Flying => m_msg \in Others' /\ \A s \in Threads : Holds(s)' => looked'[s].msg # m_msg
    BY <1>0, <1>b DEF Distinct, Flying
  <2>1. 1 .. m = (1 .. written.all) \cup {m} /\ m \notin 1 .. written.all
    BY <1>a
  <2>2. Others' = Others \cup {m} /\ m \notin Others
    BY <1>0, <1>b, <2>1 DEF Others, Distinct
  <2>3. QED BY <1>0, <1>b, <1>e, <1>f, <1>g, <2>1, <2>2 DEF Distinct, Threads
<1>7. Waiting'
  BY <1>0, <1>b, <1>h DEF Waiting
<1>8. Ordered'
  <2> SUFFICES ASSUME Alone' PROVE Ordered'
    BY DEF Ordered
  <2>1. t = "torrent" /\ Alone /\ Before' = Before /\ First' = First
    BY <1>a, <1>b, <1>g, <1>h DEF Before, First
  <2>2. QED BY <1>0, <1>b, <1>f, <2>1 DEF Ordered, Places
<1>9. QED BY <1>1, <1>2, <1>3, <1>4, <1>5, <1>6, <1>7, <1>8 DEF IndInv

\* A thread acts on its look: the message waits ...
LEMMA end_write_laterKeeps ==
  ASSUME NEW t \in Threads, IndInv, end_write(t), looked[t].saw = "message" PROVE IndInv'
<1> USE DEF end_write, write_later, connection, Empty
<1>0. TypeOK /\ Connection /\ Looking /\ Reading /\ Exclusive /\ Distinct /\ Waiting /\ Ordered
  BY DEF IndInv
<1> DEFINE m == looked[t].msg
<1>a. m \in Nat /\ written.all \in Nat /\ t \in {"torrent", "writer"}
  BY <1>0 DEF TypeOK, Threads
<1>b. /\ UNCHANGED <<m_msg, m_connected, op, left, writes, after_write, reads, m_stopped, sent,
                     written, stale>>
      /\ m_send_queue' = Append(m_send_queue, m) /\ m = looked[t].msg
      /\ looked' = [looked EXCEPT ![t] = NotWriting]
  OBVIOUS
<1> HIDE DEF end_write, m
<1>c. /\ m_send_queue' \in Seq(Nat) /\ Longer(m_send_queue, m_send_queue', m)
      /\ Added(m_send_queue, m_send_queue', m)
  BY <1>0, <1>a, <1>b, Queueing
<1>d. /\ looked' \in [Threads -> [saw : {"none", "empty", "message"}, msg : Nat]]
      /\ looked'[t].saw = "none" /\ \A s \in Threads : s # t => looked'[s] = looked[s]
  BY <1>0, <1>b DEF TypeOK, NotWriting
<1>e. Holds(t) /\ ~Holds(t)' /\ \A s \in Threads : s # t => (Holds(s)' <=> Holds(s))
  BY <1>d DEF Holds
<1>1. TypeOK'
  BY <1>0, <1>b, <1>c, <1>d DEF TypeOK
<1>m. Measured(m_send_queue) /\ Measured(m_send_queue') /\ m_send_queue' # <<>>
  BY <1>0, <1>1, <1>c, Lengths DEF TypeOK, Measured, Longer
<1>2. Connection'
  <2>1. ~m_connected => m_msg # 0
    BY <1>0, <1>a, <1>e DEF Connection, Looking
  <2>2. ~m_connected => ~Holds("writer")'
    BY <1>0, <1>e, <1>a DEF Connection, Threads
  <2>3. QED BY <1>0, <1>b, <2>1, <2>2 DEF Connection
<1>3. Looking'
  <2>1. Holds("torrent")' => Holds("torrent") /\ looked'["torrent"] = looked["torrent"]
    BY <1>a, <1>d, <1>e DEF Threads
  <2>2. Holds("writer")' => Holds("writer")
    BY <1>a, <1>d, <1>e DEF Threads
  <2>3. looked'["torrent"].saw # "none" => Holds("torrent")'
    BY DEF Holds
  <2>4. \A s \in Threads : Holds(s)' => looked'[s].msg # 0
    BY <1>0, <1>d, <1>e DEF Looking
  <2>5. QED BY <1>0, <1>b, <2>1, <2>2, <2>3, <2>4 DEF Looking, Alone
<1>4. Reading'
  BY <1>0, <1>b DEF Reading, Places
<1>5. Exclusive'
  BY <1>0, <1>b DEF Exclusive
<1>6. Distinct'
  <2> SUFFICES ASSUME ~stale PROVE
        /\ IsInjective(m_send_queue')
        /\ ToSet(sent) \cap ToSet(m_send_queue') = {}
        /\ ToSet(sent) \cup ToSet(m_send_queue') \subseteq 1 .. written.all
        /\ \A s \in Threads : Holds(s)' => looked'[s].msg \in Others'
        /\ Holds("torrent")' /\ Holds("writer")' => looked'["torrent"].msg # looked'["writer"].msg
        /\ Flying => m_msg \in Others' /\ \A s \in Threads : Holds(s)' => looked'[s].msg # m_msg
    BY <1>0, <1>b DEF Distinct, Flying
  <2>1. m \in Others /\ Others' = Others \ {m}
    BY <1>0, <1>b, <1>c, <1>e DEF Others, Distinct, Added
  <2>2. IsInjective(m_send_queue') /\ ToSet(m_send_queue') = ToSet(m_send_queue) \cup {m}
    BY <1>0, <1>c, <2>1 DEF Added, Distinct, Others
  <2>3. ToSet(sent) \cap ToSet(m_send_queue') = {} /\ ToSet(sent) \cup ToSet(m_send_queue') \subseteq 1 .. written.all
    BY <1>0, <2>1, <2>2 DEF Distinct, Others
  <2>4. \A s \in Threads : Holds(s)' => s # t /\ Holds(s) /\ looked'[s] = looked[s] /\ looked[s].msg # m
    <3>1. Holds("torrent") /\ Holds("writer") => looked["torrent"].msg # looked["writer"].msg
      BY <1>0 DEF Distinct
    <3>2. QED BY <1>a, <1>b, <1>d, <1>e, <3>1 DEF Threads
  <2>5. Flying => m_msg \in Others /\ m_msg # m /\ \A s \in Threads : Holds(s) => looked[s].msg # m_msg
    BY <1>0, <1>b, <1>e DEF Distinct
  <2>6. \A s \in Threads : Holds(s)' => looked'[s].msg \in Others'
    BY <1>0, <2>1, <2>4 DEF Distinct
  <2>7. Holds("torrent")' /\ Holds("writer")' => FALSE
    BY <1>a, <1>e
  <2>8. QED BY <2>1, <2>2, <2>3, <2>4, <2>5, <2>6, <2>7
<1>7. Waiting'
  <2>1. Alone => t = "torrent" /\ after_write = "none"
    BY <1>0, <1>a, <1>e DEF Looking
  <2>2. QED BY <1>0, <1>b, <1>m, <2>1 DEF Waiting, Alone
<1>8. Ordered'
  <2> SUFFICES ASSUME Alone, ~m_stopped PROVE
        /\ ~Holds("torrent")' /\ m_msg # 0 /\ m_msg = First' /\ Before' = First' + Len(m_send_queue')
        /\ \A i \in 1 .. Len(m_send_queue') : m_send_queue'[i] = First' + i
    BY <1>0, <1>b DEF Ordered, Alone, Places
  <2>1. t = "torrent" /\ m_msg # 0
    BY <1>0, <1>a, <1>e DEF Looking
  <2>2. First' = First /\ Before' = Before + 1 /\ m = Before + 1 /\ Before \in Nat /\ First \in Nat
    <3>1. Before' = written.all /\ Before = written.all - 1 /\ ~Holds("torrent")'
      BY <1>b, <1>e, <2>1 DEF Before
    <3>2. m = written.all
      BY <1>0, <1>b, <1>e, <2>1 DEF Ordered
    <3>3. First' = First /\ First \in Nat
      <4>1. sent \in Seq(Messages)
        BY <1>0 DEF TypeOK
      <4>2. Len(sent) \in Nat
        BY <4>1, Lengths DEF Measured
      <4>3. after_write # "none" => FALSE
        BY <1>0, <1>e, <2>1 DEF Looking
      <4>4. QED BY <1>b, <4>2, <4>3 DEF First
    <3>4. Before = First + Len(m_send_queue)
      BY <1>0, <2>1 DEF Ordered
    <3>5. QED BY <1>a, <1>m, <3>1, <3>2, <3>3, <3>4 DEF Measured
  <2>3. m_msg = First /\ Before = First + Len(m_send_queue)
        /\ \A i \in 1 .. Len(m_send_queue) : m_send_queue[i] = First + i
    BY <1>0, <2>1 DEF Ordered, Places
  <2>4. Before' = First' + Len(m_send_queue')
    BY <1>c, <1>m, <2>2, <2>3 DEF Longer, Measured
  <2>5. \A i \in 1 .. Len(m_send_queue') : m_send_queue'[i] = First + i
    <3>1. m = First + (Len(m_send_queue) + 1)
      BY <1>m, <2>2, <2>3 DEF Measured
    <3>2. QED BY <1>c, <2>3, <3>1 DEF Longer
  <2>6. QED BY <1>e, <2>1, <2>2, <2>3, <2>4, <2>5
<1>9. QED BY <1>1, <1>2, <1>3, <1>4, <1>5, <1>6, <1>7, <1>8 DEF IndInv

\* ... or becomes m_msg: it is sent, unless the peer was stopped, or the connection is
\* made first.
LEMMA end_write_nowKeeps ==
  ASSUME NEW t \in Threads, IndInv, end_write(t), looked[t].saw = "empty" PROVE IndInv'
<1> USE DEF end_write, write_now, connection, Empty
<1>0. TypeOK /\ Connection /\ Looking /\ Reading /\ Exclusive /\ Distinct /\ Waiting /\ Ordered
  BY DEF IndInv
<1> DEFINE m == looked[t].msg
           start == op = "accepted" /\ ~m_stopped
<1>a. m \in Nat /\ written.all \in Nat /\ t \in {"torrent", "writer"}
  BY <1>0 DEF TypeOK, Threads
<1>b. /\ UNCHANGED <<m_send_queue, after_write, reads, m_stopped, sent, written>>
      /\ m_msg' = m /\ stale' = (stale \/ m_msg # 0)
      /\ looked' = [looked EXCEPT ![t] = NotWriting]
  OBVIOUS
<1>w. /\ start => m_connected' = TRUE /\ op' = "none" /\ left' = left /\ send(Under(m), m, TRUE)
      /\ ~start /\ m_connected => /\ UNCHANGED <<m_connected, op, left>>
                                  /\ send(Under(m), m, FALSE)
      /\ ~start /\ ~m_connected => /\ UNCHANGED <<m_connected, left>>
                                   /\ op' = "resolve" /\ writes' = Under(m)
  OBVIOUS
<1>n. m = looked[t].msg /\ start = (op = "accepted" /\ ~m_stopped)
  OBVIOUS
<1> HIDE DEF end_write, write_now, m, start
<1>c. Holds(t) /\ m # 0
  BY <1>0, <1>n DEF Holds, Looking
<1>d. /\ looked' \in [Threads -> [saw : {"none", "empty", "message"}, msg : Nat]]
      /\ looked'[t].saw = "none" /\ \A s \in Threads : s # t => looked'[s] = looked[s]
  BY <1>0, <1>b DEF TypeOK, NotWriting
<1>e. ~Holds(t)' /\ \A s \in Threads : s # t => (Holds(s)' <=> Holds(s))
  BY <1>d DEF Holds
<1>u. /\ Under(m) \in Seq(Writes) /\ SameReads(Under(m))
      /\ writes = <<>> => Under(m) = <<>>
  BY <1>0, <1>a, Viewing
<1>f. /\ writes' \in Seq(Writes)
      /\ ~m_stopped /\ m_connected' => Started(start, m)
      /\ m_stopped \/ ~m_connected' => writes' = Under(m)
  <2>1. CASE start
    <3>1. send(Under(m), m, TRUE) /\ m_connected' = TRUE /\ ~m_stopped /\ start = TRUE
      BY <1>w, <1>n, <2>1
    <3>2. writes' \in Seq(Writes) /\ (~m_stopped => Started(TRUE, m))
      BY <1>0, <1>a, <1>u, <3>1, Sending
    <3>3. QED BY <3>1, <3>2
  <2>2. CASE ~start /\ m_connected
    <3>1. send(Under(m), m, FALSE) /\ m_connected' = m_connected /\ start = FALSE
      BY <1>w, <2>2, <1>n
    <3>2. /\ writes' \in Seq(Writes)
          /\ m_stopped => writes' = Under(m)
          /\ ~m_stopped => Started(FALSE, m)
      BY <1>0, <1>a, <1>u, <3>1, Sending
    <3>3. QED BY <2>2, <3>1, <3>2
  <2>3. CASE ~start /\ ~m_connected
    BY <1>u, <1>w, <2>3
  <2>4. QED BY <2>1, <2>2, <2>3
<1>g. ~m_connected => /\ t = "torrent" /\ m_msg = 0 /\ op \in {"none", "accepted"} /\ m_send_queue = <<>>
                      /\ left = Endpoints /\ written.notify = 0 /\ ~stale /\ after_write = "none"
                      /\ writes = <<>> /\ reads = 0 /\ sent = <<>> /\ ~Holds("writer")
  <2> SUFFICES ASSUME ~m_connected PROVE
         /\ t = "torrent" /\ m_msg = 0 /\ op \in {"none", "accepted"} /\ m_send_queue = <<>>
         /\ left = Endpoints /\ written.notify = 0 /\ ~stale /\ after_write = "none"
         /\ writes = <<>> /\ reads = 0 /\ sent = <<>> /\ ~Holds("writer")
    OBVIOUS
  <2>1. /\ t = "torrent" /\ written.notify = 0 /\ ~stale /\ after_write = "none" /\ writes = <<>> /\ reads = 0
        /\ sent = <<>> /\ ~Holds("writer")
    BY <1>0, <1>a, <1>c DEF Connection
  <2>2. m_msg = 0
    BY <1>0, <2>1 DEF Looking, Alone
  <2>3. QED BY <1>0, <2>1, <2>2 DEF Connection, TypeOK
<1>h. ~stale' => /\ ~stale /\ m_msg = 0 /\ writes = <<>> /\ after_write = "none"
  BY <1>0, <1>b DEF Exclusive
<1>i. op' = IF m_connected' THEN "none" ELSE "resolve"
  <2>1. CASE start
    BY <1>w, <2>1
  <2>2. CASE ~start /\ m_connected
    BY <1>0, <1>w, <2>2 DEF Connection
  <2>3. CASE ~start /\ ~m_connected
    BY <1>w, <2>3
  <2>4. QED BY <2>1, <2>2, <2>3
<1>1. TypeOK'
  <2>1. /\ writes' \in Seq([takes : SUBSET Messages, start_read : BOOLEAN])
        /\ m_connected' \in BOOLEAN /\ left' \in 0 .. Endpoints /\ stale' \in BOOLEAN
    BY <1>0, <1>b, <1>f, <1>w DEF TypeOK, Writes
  <2>2. QED BY <1>0, <1>a, <1>b, <1>d, <1>i, <2>1 DEF TypeOK
<1>m. Measured(writes) /\ Measured(writes') /\ Measured(sent)
  BY <1>0, <1>1, Lengths DEF TypeOK
<1>2. Connection'
  <2>1. ~m_connected' => ~m_connected /\ left' = left /\ ~stale' /\ writes' = <<>>
    <3> SUFFICES ASSUME ~m_connected' PROVE ~m_connected /\ left' = left /\ ~stale' /\ writes' = <<>>
      OBVIOUS
    <3>0. ~start /\ ~m_connected
      <4>1. CASE start
        BY <1>w, <4>1
      <4>2. CASE ~start /\ m_connected
        BY <1>w, <4>2
      <4>3. QED BY <4>1, <4>2
    <3>1. ~m_connected /\ left' = left
      BY <1>w, <3>0
    <3>2. QED BY <1>b, <1>f, <1>g, <1>u, <3>1
  <2>2. ~m_connected' => ~Holds("writer")'
    BY <1>a, <1>e, <1>g, <2>1 DEF Threads
  <2>3. QED BY <1>b, <1>c, <1>g, <1>i, <2>1, <2>2 DEF Connection
<1>3. Looking'
  <2>1. Holds("torrent")' => Holds("torrent") /\ looked'["torrent"] = looked["torrent"] /\ t = "writer"
    BY <1>a, <1>d, <1>e DEF Threads
  <2>2. Holds("writer")' => Holds("writer")
    BY <1>a, <1>d, <1>e DEF Threads
  <2>3. looked'["torrent"].saw # "none" => Holds("torrent")'
    BY DEF Holds
  <2>4. Alone => t = "torrent" /\ m_msg = 0 /\ ~stale /\ ~Holds("writer") /\ ~Holds("torrent")'
    BY <1>0, <1>a, <1>c, <1>e DEF Looking
  <2>5. \A s \in Threads : Holds(s)' => looked'[s].msg # 0
    BY <1>0, <1>a, <1>d, <1>e DEF Looking, Threads
  <2>6. QED BY <1>0, <1>b, <1>c, <2>1, <2>2, <2>3, <2>4, <2>5 DEF Looking, Alone
<1>4. Reading'
  <2>1. CASE ~m_stopped /\ m_connected'
    <3>1. Started(start, m)
      BY <1>f, <2>1
    <3>2. start => ~m_connected
      BY <1>0, <1>n DEF Connection
    <3>3. start => Len(writes) = 0 /\ reads = 0
      BY <1>g, <1>m, <3>2 DEF Measured
    <3>4. QED BY <1>0, <1>b, <1>m, <3>1, <3>3 DEF Reading, Places, Started, Measured
  <2>2. CASE m_stopped \/ ~m_connected'
    BY <1>0, <1>b, <1>f, <1>u, <2>2 DEF Reading, Places, SameReads
  <2>3. QED BY <2>1, <2>2
<1>5. Exclusive'
  <2> SUFFICES ASSUME ~stale' PROVE /\ Len(writes') <= 1
                                    /\ writes' # <<>> => writes'[1].takes = {m}
    BY <1>b, <1>c, <1>h DEF Exclusive
  <2>1. writes = <<>> /\ Len(writes) = 0
    BY <1>h, <1>m DEF Measured
  <2>2. CASE ~m_stopped /\ m_connected'
    BY <1>f, <2>1, <2>2 DEF Started
  <2>3. CASE m_stopped \/ ~m_connected'
    BY <1>f, <1>m, <1>u, <2>1, <2>3 DEF Measured
  <2>4. QED BY <2>2, <2>3
<1>6. Distinct'
  <2> SUFFICES ASSUME ~stale' PROVE
        /\ IsInjective(sent) /\ IsInjective(m_send_queue)
        /\ ToSet(sent) \cap ToSet(m_send_queue) = {}
        /\ ToSet(sent) \cup ToSet(m_send_queue) \subseteq 1 .. written.all
        /\ \A s \in Threads : Holds(s)' => looked'[s].msg \in Others
        /\ Holds("torrent")' /\ Holds("writer")' => looked'["torrent"].msg # looked'["writer"].msg
        /\ m \in Others /\ \A s \in Threads : Holds(s)' => looked'[s].msg # m
    <3>1. Others' = Others
      BY <1>b DEF Others
    <3>2. QED BY <1>b, <3>1 DEF Distinct
  <2>1. ~stale
    BY <1>h
  <2>2. m \in Others
    BY <1>0, <1>c, <1>n, <2>1 DEF Distinct
  <2>3. \A s \in Threads : Holds(s)' => s # t /\ Holds(s) /\ looked'[s] = looked[s] /\ looked[s].msg # m
    <3>1. Holds("torrent") /\ Holds("writer") => looked["torrent"].msg # looked["writer"].msg
      BY <1>0, <2>1 DEF Distinct
    <3>2. QED BY <1>a, <1>n, <1>c, <1>d, <1>e, <3>1 DEF Threads
  <2>4. QED BY <1>0, <1>a, <1>e, <2>1, <2>2, <2>3 DEF Distinct
<1>7. Waiting'
  BY <1>0, <1>b DEF Waiting, Alone
<1>8. Ordered'
  <2> SUFFICES ASSUME Alone, ~m_stopped PROVE
        /\ ~Holds("torrent")' /\ m = First' /\ Before' = First' + Len(m_send_queue)
        /\ \A i \in 1 .. Len(m_send_queue) : m_send_queue[i] = First' + i
    BY <1>0, <1>b, <1>c DEF Ordered, Alone, Places
  <2>1. t = "torrent" /\ m_msg = 0 /\ after_write = "none"
    BY <1>0, <1>a, <1>c DEF Looking
  <2>2. Len(sent) = Before /\ m_send_queue = <<>> /\ m = written.all /\ Before = written.all - 1
    BY <1>0, <1>c, <1>n, <2>1 DEF Ordered, Before
  <2>3. First' = written.all /\ Before' = written.all /\ Len(m_send_queue) = 0
    BY <1>a, <1>b, <1>e, <2>1, <2>2, EmptySeq DEF First, Before
  <2>4. QED BY <1>a, <1>e, <2>1, <2>2, <2>3
<1>9. QED BY <1>1, <1>2, <1>3, <1>4, <1>5, <1>6, <1>7, <1>8 DEF IndInv

\* Steps that write no message and leave the async_writes alone.
LEMMA ResolvingKeeps == IndInv /\ Resolving => IndInv'
<1> SUFFICES ASSUME IndInv, Resolving PROVE IndInv'
  OBVIOUS
<1> USE DEF Resolving, handle_resolve, Ready, Idle, connection, Empty
<1>0. TypeOK /\ Connection /\ Looking /\ Reading /\ Exclusive /\ Distinct /\ Waiting /\ Ordered
  BY DEF IndInv
<1>b. /\ UNCHANGED <<m_msg, m_send_queue, m_connected, writes, after_write, reads, m_stopped, sent,
                     looked, written, stale>>
      /\ op = "resolve" /\ op' \in {"connect", "failed"} /\ left' \in {left, left - 1}
      /\ op' = "connect" \/ left' = left
  OBVIOUS
<1>c. ~m_connected /\ left = Endpoints
  BY <1>0 DEF Connection
<1> HIDE DEF Resolving
<1>1. TypeOK'
  BY <1>0, <1>b, <1>c, PeerConnectionAssumption DEF TypeOK
<1>2. Connection'
  BY <1>0, <1>b, <1>c DEF Connection, Holds
<1>3. Looking'
  BY <1>0, <1>b DEF Looking, Holds, Alone
<1>4. Reading' /\ Exclusive' /\ Waiting'
  BY <1>0, <1>b DEF Reading, Exclusive, Waiting, Places, Alone
<1>5. Distinct'
  BY <1>0, <1>b DEF Distinct, Flying, Others, Holds
<1>6. Ordered'
  BY <1>0, <1>b DEF Ordered, Alone, Places, First, Before, Holds
<1>7. QED BY <1>1, <1>2, <1>3, <1>4, <1>5, <1>6 DEF IndInv

LEMMA ConnectingKeeps == IndInv /\ Connecting => IndInv'
<1> SUFFICES ASSUME IndInv, Connecting PROVE IndInv'
  OBVIOUS
<1> USE DEF Connecting, handle_connect, Ready, Idle, connection, Empty
<1>0. TypeOK /\ Connection /\ Looking /\ Reading /\ Exclusive /\ Distinct /\ Waiting /\ Ordered
  BY DEF IndInv
<1>b. /\ UNCHANGED <<m_msg, m_send_queue, after_write, reads, m_stopped, sent, looked, written, stale>>
      /\ op = "connect" /\ ~m_stopped /\ after_write = "none"
  OBVIOUS
<1>c. /\ ~m_connected /\ writes = <<>> /\ reads = 0 /\ sent = <<>> /\ m_msg # 0 /\ m_msg \in Nat
      /\ written.notify = 0 /\ ~stale /\ ~Holds("writer")
  BY <1>0, <1>b DEF Connection, TypeOK
<1>1. PICK ok \in BOOLEAN : handle_connect(ok)
  OBVIOUS
<1> HIDE DEF Connecting
<1>2. CASE ok
  <2>1. m_connected' = TRUE /\ op' = "none" /\ left' = left /\ send(writes, m_msg, TRUE)
    BY <1>1, <1>2
  <2>2. writes \in Seq(Writes) /\ SameReads(writes) /\ TRUE \in BOOLEAN
    BY <1>0 DEF TypeOK, Writes, SameReads
  <2>3. writes' \in Seq(Writes) /\ Started(TRUE, m_msg)
    BY <1>0, <1>b, <1>c, <2>1, <2>2, Sending
  <2> HIDE DEF handle_connect
  <2>4. TypeOK'
    BY <1>0, <1>b, <2>1, <2>3 DEF TypeOK, Writes
  <2>m. Measured(writes) /\ Measured(writes') /\ Measured(sent) /\ Len(writes) = 0 /\ Len(sent) = 0
    BY <1>0, <1>c, <2>4, Lengths DEF TypeOK, Measured
  <2>5. Len(writes') = 1 /\ writes'[1].takes = {m_msg} /\ writes'[1].start_read = TRUE
    BY <2>3, <2>m DEF Started
  <2>6. Connection'
    BY <2>1 DEF Connection
  <2>7. Looking'
    BY <1>0, <1>b DEF Looking, Holds, Alone
  <2>8. Reading' /\ Exclusive' /\ Waiting'
    BY <1>0, <1>b, <1>c, <2>5 DEF Reading, Exclusive, Waiting, Places, Alone
  <2>9. Distinct'
    BY <1>0, <1>b, <2>5 DEF Distinct, Flying, Others, Holds
  <2>10. Ordered'
    BY <1>0, <1>b DEF Ordered, Alone, Places, First, Before, Holds
  <2>11. QED BY <2>4, <2>6, <2>7, <2>8, <2>9, <2>10 DEF IndInv
<1>3. CASE ~ok
  <2>1. op' = next_endpoint.op /\ left' = next_endpoint.left /\ UNCHANGED <<m_connected, writes>>
    BY <1>1, <1>3
  <2>2. op' \in {"connect", "failed"} /\ left' \in 0 .. Endpoints
    BY <1>0, <2>1, PeerConnectionAssumption DEF TypeOK, next_endpoint
  <2> HIDE DEF handle_connect
  <2>3. TypeOK'
    BY <1>0, <1>b, <2>1, <2>2 DEF TypeOK
  <2>4. Connection'
    BY <1>0, <1>b, <1>c, <2>1, <2>2 DEF Connection, Holds
  <2>5. Looking'
    BY <1>0, <1>b DEF Looking, Holds, Alone
  <2>6. Reading' /\ Exclusive' /\ Waiting'
    BY <1>0, <1>b, <2>1 DEF Reading, Exclusive, Waiting, Places, Alone
  <2>7. Distinct'
    BY <1>0, <1>b, <2>1, <2>2 DEF Distinct, Flying, Others, Holds
  <2>8. Ordered'
    BY <1>0, <1>b DEF Ordered, Alone, Places, First, Before, Holds
  <2>9. QED BY <2>3, <2>4, <2>5, <2>6, <2>7, <2>8 DEF IndInv
<1>4. QED BY <1>2, <1>3

\* An async_write has taken what m_msg was when it began, if no look was stale.
LEMMA CompletingKeeps == IndInv /\ Completing => IndInv'
<1> SUFFICES ASSUME IndInv, Completing PROVE IndInv'
  OBVIOUS
<1> USE DEF Completing, write_completed, Ready, Idle, connection, Empty
<1>0. TypeOK /\ Connection /\ Looking /\ Reading /\ Exclusive /\ Distinct /\ Waiting /\ Ordered
  BY DEF IndInv
<1>1. PICK i \in DOMAIN writes : write_completed(i)
  OBVIOUS
<1> HIDE DEF Completing
<1>2. PICK m \in writes[i].takes : sent' = Append(sent, m)
  BY <1>1
<1>b. /\ UNCHANGED <<m_msg, m_send_queue, m_connected, op, left, m_stopped, looked, written, stale>>
      /\ writes' = RemoveAt(writes, i) /\ ~m_stopped
      /\ after_write = "none" /\ looked["torrent"].saw = "none"
      /\ reads' = IF writes[i].start_read THEN reads + 1 ELSE reads
      /\ after_write' = IF m_send_queue = <<>> THEN "clear" ELSE "next"
  BY <1>1
<1> HIDE DEF write_completed, Ready, Idle
<1>c. writes \in Seq(Writes) /\ i \in 1 .. Len(writes) /\ sent \in Seq(Messages)
  BY <1>0, LenProperties DEF TypeOK, Writes
<1>d. writes[i] \in Writes /\ m \in Messages
  <2>1. writes[i] \in Writes
    BY <1>c, ElementOfSeq
  <2>2. QED BY <1>2, <2>1 DEF Writes
<1>e. writes' \in Seq(Writes) /\ Ended(writes, writes', i)
  BY <1>b, <1>c, Completed
<1>f. sent' \in Seq(Messages) /\ Longer(sent, sent', m) /\ Added(sent, sent', m)
  BY <1>2, <1>c, <1>d, Appended
<1>g. m_connected /\ op = "none" /\ ~Holds("torrent")
  <2>1. writes # <<>>
    BY <1>c, EmptySeq
  <2>2. QED BY <1>0, <1>b, <2>1 DEF Connection, Holds
<1>3. TypeOK'
  <2>1. reads' \in Nat /\ after_write' \in {"clear", "next"}
    BY <1>0, <1>b DEF TypeOK
  <2>2. QED BY <1>0, <1>b, <1>e, <1>f, <2>1 DEF TypeOK, Writes
<1>m. /\ Measured(writes) /\ Measured(writes') /\ Measured(sent) /\ Measured(sent')
      /\ Measured(m_send_queue)
  BY <1>0, <1>3, Lengths DEF TypeOK
<1>4. Connection'
  BY <1>b, <1>g DEF Connection
<1>5. Looking'
  BY <1>0, <1>b, <1>g DEF Looking, Holds, Alone
<1>6. Reading'
  <2>1. /\ reads <= 1 /\ reads \in Nat
        /\ \A j, k \in 1 .. Len(writes) : writes[j].start_read /\ writes[k].start_read => j = k
        /\ \A j \in 1 .. Len(writes) : writes[j].start_read => reads = 0
    BY <1>0 DEF Reading, Places, TypeOK
  <2>2. reads' <= 1
    BY <1>b, <1>c, <2>1
  <2>3. \A j, k \in 1 .. Len(writes') : writes'[j].start_read /\ writes'[k].start_read => j = k
    <3> SUFFICES ASSUME NEW j \in 1 .. Len(writes'), NEW k \in 1 .. Len(writes'),
                        writes'[j].start_read, writes'[k].start_read PROVE j = k
      OBVIOUS
    <3>1. PICK a \in 1 .. Len(writes) : /\ writes'[j] = writes[a] /\ (j < i => a = j) /\ (j >= i => a = j + 1)
      BY <1>e DEF Ended
    <3>2. PICK b \in 1 .. Len(writes) : /\ writes'[k] = writes[b] /\ (k < i => b = k) /\ (k >= i => b = k + 1)
      BY <1>e DEF Ended
    <3>3. a = b
      BY <2>1, <3>1, <3>2
    <3>4. i \in Nat /\ j \in Nat /\ k \in Nat
      BY <1>c, <1>m DEF Measured
    <3>5. QED BY <3>1, <3>2, <3>3, <3>4
  <2>4. \A j \in 1 .. Len(writes') : writes'[j].start_read => reads' = 0
    <3> SUFFICES ASSUME NEW j \in 1 .. Len(writes'), writes'[j].start_read PROVE reads' = 0
      OBVIOUS
    <3>1. PICK a \in 1 .. Len(writes) : writes'[j] = writes[a] /\ a # i
      BY <1>e DEF Ended
    <3>2. ~writes[i].start_read /\ reads = 0
      BY <1>c, <2>1, <3>1
    <3>3. QED BY <1>b, <3>2
  <2>5. QED BY <2>2, <2>3, <2>4 DEF Reading, Places
<1>7. ASSUME ~stale PROVE m = m_msg /\ m_msg # 0 /\ writes' = <<>> /\ writes # <<>>
  <2>0. /\ Len(writes) \in Nat /\ (writes = <<>> <=> Len(writes) = 0)
        /\ Len(writes') \in Nat /\ (writes' = <<>> <=> Len(writes') = 0)
    BY <1>m DEF Measured
  <2>a. Len(writes) <= 1
    BY <1>0, <1>7 DEF Exclusive
  <2>1. Len(writes) = 1 /\ i = 1 /\ writes # <<>>
    <3> DEFINE n == Len(writes)
    <3>1. n \in Nat /\ n <= 1 /\ i \in 1 .. n
      BY <1>c, <2>0, <2>a
    <3> HIDE DEF n
    <3>2. n = 1 /\ i = 1
      BY <3>1
    <3>3. Len(writes) = 1
      BY <3>2 DEF n
    <3>4. QED BY <2>0, <3>2, <3>3
  <2>2. writes[i].takes = {m_msg} /\ m_msg # 0
    BY <1>0, <1>7, <2>1 DEF Exclusive
  <2>3. m \in {m_msg}
    BY <1>2, <2>2
  <2>b. Len(writes) = Len(writes') + 1
    BY <1>e DEF Ended
  <2>4. writes' = <<>>
    BY <2>0, <2>1, <2>b
  <2>5. QED BY <2>1, <2>2, <2>3, <2>4
<1>8. Exclusive'
  BY <1>b, <1>m, <1>7 DEF Exclusive, Measured
<1>9. Distinct'
  <2> SUFFICES ASSUME ~stale PROVE
        /\ IsInjective(sent') /\ IsInjective(m_send_queue)
        /\ ToSet(sent') \cap ToSet(m_send_queue) = {}
        /\ ToSet(sent') \cup ToSet(m_send_queue) \subseteq 1 .. written.all
        /\ \A t \in Threads : Holds(t) => looked[t].msg \in Others'
        /\ Holds("torrent") /\ Holds("writer") => looked["torrent"].msg # looked["writer"].msg
        /\ ~Flying'
    <3>1. \A t \in Threads : Holds(t)' <=> Holds(t)
      BY <1>b DEF Holds
    <3>2. (Holds("torrent")' <=> Holds("torrent")) /\ (Holds("writer")' <=> Holds("writer"))
      BY <1>b DEF Holds
    <3>3. QED BY <1>b, <3>1, <3>2 DEF Distinct
  <2>1. m = m_msg /\ Flying /\ ~Flying'
    BY <1>b, <1>g, <1>7 DEF Flying
  <2>2. m \in Others /\ \A t \in Threads : Holds(t) => looked[t].msg # m
    BY <1>0, <2>1 DEF Distinct
  <2>3. ToSet(sent') = ToSet(sent) \cup {m} /\ Others' = Others \ {m}
    BY <1>b, <1>f DEF Added, Others
  <2>4. IsInjective(sent')
    BY <1>0, <1>f, <2>2 DEF Added, Distinct, Others
  <2>5. QED BY <1>0, <2>1, <2>2, <2>3, <2>4 DEF Distinct, Others
<1>10. Waiting'
  BY <1>b DEF Waiting
<1>11. Ordered'
  <2> SUFFICES ASSUME Alone PROVE
        /\ \A j \in 1 .. Len(sent') : sent'[j] = j
        /\ m_msg # 0 /\ m_msg = First' /\ Before = First' + Len(m_send_queue)
        /\ \A j \in 1 .. Len(m_send_queue) : m_send_queue[j] = First' + j
    <3>1. Before' = Before /\ ~Holds("torrent")'
      BY <1>b, <1>g DEF Before, Holds
    <3>2. QED BY <1>b, <3>1 DEF Ordered, Alone, Places
  <2>1. ~stale
    BY <1>0 DEF Looking
  <2>2. m = m_msg /\ m_msg # 0 /\ First = Len(sent) + 1 /\ First' = Len(sent') /\ First' = First
    <3>1. First = Len(sent) + 1 /\ First' = Len(sent')
      BY <1>b DEF First
    <3>2. QED BY <1>f, <1>7, <2>1, <3>1 DEF Longer
  <2>3. /\ \A j \in 1 .. Len(sent) : sent[j] = j
        /\ m_msg = First /\ Before = First + Len(m_send_queue)
        /\ \A j \in 1 .. Len(m_send_queue) : m_send_queue[j] = First + j
    BY <1>0, <1>b, <2>2 DEF Ordered, Places
  <2>4. \A j \in 1 .. Len(sent') : sent'[j] = j
    BY <1>f, <2>2, <2>3 DEF Longer
  <2>5. QED BY <2>2, <2>3, <2>4
<1>12. QED BY <1>3, <1>4, <1>5, <1>6, <1>8, <1>9, <1>10, <1>11 DEF IndInv

LEMMA send_nextKeeps == IndInv /\ send_next => IndInv'
<1> SUFFICES ASSUME IndInv, send_next PROVE IndInv'
  OBVIOUS
<1> USE DEF send_next, connection, Empty
<1>0. TypeOK /\ Connection /\ Looking /\ Reading /\ Exclusive /\ Distinct /\ Waiting /\ Ordered
  BY DEF IndInv
<1> DEFINE m == Head(m_send_queue)
<1>a. m_send_queue # <<>> /\ m_send_queue \in Seq(Nat)
  BY <1>0 DEF TypeOK, Waiting
<1>b. /\ UNCHANGED <<m_connected, op, left, reads, m_stopped, sent, looked, written, stale>>
      /\ m_msg' = m /\ m_send_queue' = Tail(m_send_queue) /\ send(Under(m), m, FALSE)
      /\ after_write = "next" /\ after_write' = "none"
  OBVIOUS
<1>c. /\ m_send_queue' \in Seq(Nat) /\ m \in Nat /\ Shorter(m_send_queue, m_send_queue', m)
      /\ Removed(m_send_queue, m_send_queue', m)
  BY <1>a, Taken
<1> HIDE DEF send_next, m
<1>d. m_connected /\ op = "none" /\ ~Holds("torrent")
  BY <1>0, <1>b DEF Connection, Looking
<1>u. /\ Under(m) \in Seq(Writes) /\ SameReads(Under(m))
      /\ writes = <<>> => Under(m) = <<>>
  BY <1>0, <1>c, Viewing
<1>e. /\ writes' \in Seq(Writes)
      /\ m_stopped => writes' = Under(m)
      /\ ~m_stopped => Started(FALSE, m)
  BY <1>0, <1>b, <1>c, <1>u, Sending
<1>1. TypeOK'
  BY <1>0, <1>b, <1>c, <1>e DEF TypeOK, Writes
<1>m. /\ Measured(writes) /\ Measured(writes') /\ Measured(sent)
      /\ Measured(m_send_queue) /\ Measured(m_send_queue')
  BY <1>0, <1>1, Lengths DEF TypeOK
<1>2. Connection'
  BY <1>b, <1>d DEF Connection
<1>h. ~Holds("torrent")' /\ (Holds("writer")' <=> Holds("writer")) /\ (Alone' <=> Alone)
      /\ \A t \in Threads : Holds(t)' <=> Holds(t)
  BY <1>b, <1>d DEF Holds, Alone
<1>3. Looking'
  <2>1. looked["torrent"].saw = "none"
    BY <1>d DEF Holds
  <2>2. QED BY <1>0, <1>b, <1>h, <2>1 DEF Looking
<1>4. Reading'
  <2>1. CASE m_stopped
    BY <1>0, <1>b, <1>e, <1>u, <2>1 DEF Reading, Places, SameReads
  <2>2. CASE ~m_stopped
    BY <1>0, <1>b, <1>e, <1>m, <2>2 DEF Reading, Places, Started, Measured
  <2>3. QED BY <2>1, <2>2
<1>f. ASSUME ~stale PROVE /\ writes = <<>> /\ Len(writes) = 0
                          /\ m \in ToSet(m_send_queue) /\ m # 0 /\ m \in 1 .. written.all
  <2>1. writes = <<>> /\ Len(writes) = 0
    BY <1>0, <1>b, <1>f, <1>m DEF Exclusive, Measured
  <2>2. m \in ToSet(m_send_queue) /\ m \in 1 .. written.all
    BY <1>0, <1>c, <1>f DEF Removed, Distinct
  <2>3. QED BY <2>1, <2>2
<1>5. Exclusive'
  <2> SUFFICES ASSUME ~stale PROVE /\ Len(writes') <= 1 /\ m # 0
                                   /\ writes' # <<>> => writes'[1].takes = {m}
    BY <1>b DEF Exclusive
  <2>1. CASE ~m_stopped
    BY <1>e, <1>f, <2>1 DEF Started
  <2>2. CASE m_stopped
    BY <1>e, <1>f, <1>m, <1>u, <2>2 DEF Measured
  <2>3. QED BY <2>1, <2>2
<1>6. Distinct'
  <2> SUFFICES ASSUME ~stale PROVE
        /\ IsInjective(sent) /\ IsInjective(m_send_queue')
        /\ ToSet(sent) \cap ToSet(m_send_queue') = {}
        /\ ToSet(sent) \cup ToSet(m_send_queue') \subseteq 1 .. written.all
        /\ \A t \in Threads : Holds(t) => looked[t].msg \in Others' /\ looked[t].msg # m
        /\ m \in Others'
    BY <1>b, <1>h DEF Distinct
  <2>1. /\ ToSet(m_send_queue) = ToSet(m_send_queue') \cup {m} /\ m \notin ToSet(m_send_queue')
        /\ IsInjective(m_send_queue')
    BY <1>0, <1>c DEF Removed, Distinct
  <2>2. m \notin ToSet(sent) /\ m \in 1 .. written.all
    BY <1>0, <2>1, <1>f DEF Distinct
  <2>3. Others' = Others \cup {m} /\ m \notin Others
    BY <1>b, <2>1, <2>2 DEF Others
  <2>4. QED BY <1>0, <2>1, <2>2, <2>3 DEF Distinct
<1>7. Waiting'
  BY <1>b DEF Waiting
<1>8. Ordered'
  <2> SUFFICES ASSUME Alone, ~m_stopped PROVE
        /\ m # 0 /\ m = First' /\ Before = First' + Len(m_send_queue')
        /\ \A i \in 1 .. Len(m_send_queue') : m_send_queue'[i] = First' + i
    <3>1. Before' = Before
      BY <1>b, <1>h, <1>d DEF Before
    <3>2. QED BY <1>0, <1>b, <1>h, <3>1 DEF Ordered, Places
  <2>1. ~stale /\ m_msg # 0
    BY <1>0, <1>b DEF Looking, Exclusive
  <2>2. First = Len(sent) /\ First' = Len(sent) + 1 /\ First \in Nat
    BY <1>b, <1>m DEF First, Measured
  <2>3. /\ Before = First + Len(m_send_queue)
        /\ \A i \in 1 .. Len(m_send_queue) : m_send_queue[i] = First + i
    BY <1>0, <2>1 DEF Ordered, Places
  <2>4. /\ Len(m_send_queue) = Len(m_send_queue') + 1 /\ Len(m_send_queue') \in Nat
        /\ m = m_send_queue[1]
        /\ \A i \in 1 .. Len(m_send_queue') : m_send_queue'[i] = m_send_queue[i + 1]
    BY <1>c, <1>m DEF Shorter, Measured
  <2>5. m = First'
    <3>1. 1 \in 1 .. Len(m_send_queue)
      BY <2>4
    <3>2. QED BY <2>2, <2>3, <2>4, <3>1
  <2>6. Before = First' + Len(m_send_queue')
    BY <2>2, <2>3, <2>4
  <2>7. \A i \in 1 .. Len(m_send_queue') : m_send_queue'[i] = First' + i
    <3> TAKE i \in 1 .. Len(m_send_queue')
    <3>1. i + 1 \in 1 .. Len(m_send_queue) /\ m_send_queue'[i] = m_send_queue[i + 1] /\ i \in Nat
      BY <2>4
    <3>2. QED BY <2>2, <2>3, <3>1
  <2>8. QED BY <1>f, <2>1, <2>5, <2>6, <2>7
<1>9. QED BY <1>1, <1>2, <1>3, <1>4, <1>5, <1>6, <1>7, <1>8 DEF IndInv

LEMMA clearKeeps == IndInv /\ clear => IndInv'
<1> SUFFICES ASSUME IndInv, clear PROVE IndInv'
  OBVIOUS
<1> USE DEF clear, connection, Empty
<1>0. TypeOK /\ Connection /\ Looking /\ Reading /\ Exclusive /\ Distinct /\ Waiting /\ Ordered
  BY DEF IndInv
<1>b. /\ UNCHANGED <<m_send_queue, m_connected, op, left, reads, m_stopped, sent, looked, written, stale>>
      /\ m_msg' = 0 /\ writes' = Under(0) /\ after_write = "clear" /\ after_write' = "none"
  OBVIOUS
<1> HIDE DEF clear
<1>u. /\ writes' \in Seq(Writes) /\ SameReads(writes')
      /\ writes = <<>> => writes' = <<>>
  BY <1>0, <1>b, Viewing
<1>d. m_connected /\ op = "none" /\ ~Holds("torrent")
  BY <1>0, <1>b DEF Connection, Looking
<1>h. /\ ~Holds("torrent")' /\ looked["torrent"].saw = "none"
      /\ (Holds("writer")' <=> Holds("writer")) /\ (Alone' <=> Alone)
      /\ \A t \in Threads : Holds(t)' <=> Holds(t)
  BY <1>b, <1>d DEF Holds, Alone
<1>1. TypeOK'
  BY <1>0, <1>b, <1>u DEF TypeOK, Writes
<1>m. Measured(writes) /\ Measured(writes') /\ Measured(m_send_queue)
  BY <1>0, <1>1, Lengths DEF TypeOK
<1>2. Connection'
  BY <1>b, <1>d DEF Connection
<1>3. Looking'
  BY <1>0, <1>b, <1>h DEF Looking
<1>4. Reading'
  BY <1>0, <1>b, <1>u DEF Reading, Places, SameReads
<1>5. ASSUME ~stale PROVE writes = <<>> /\ writes' = <<>> /\ Len(writes') = 0
  BY <1>0, <1>b, <1>m, <1>u, <1>5 DEF Exclusive, Measured
<1>6. Exclusive'
  BY <1>b, <1>5 DEF Exclusive
<1>7. Distinct'
  <2>1. ~stale => ~Flying'
    BY <1>b, <1>d, <1>5 DEF Flying
  <2>2. Others' = Others
    BY <1>b DEF Others
  <2>3. QED BY <1>0, <1>b, <1>h, <2>1, <2>2 DEF Distinct
<1>8. Waiting'
  BY <1>b DEF Waiting
<1>9. Ordered'
  <2> SUFFICES ASSUME Alone, ~m_stopped PROVE Len(sent) = Before /\ m_send_queue = <<>>
    <3>1. Before' = Before
      BY <1>b, <1>d, <1>h DEF Before
    <3>2. QED BY <1>0, <1>b, <1>h, <3>1 DEF Ordered, Places
  <2>1. ~stale /\ m_msg # 0 /\ m_send_queue = <<>>
    BY <1>0, <1>b DEF Looking, Exclusive, Waiting
  <2>2. First = Len(sent) /\ Before = First + Len(m_send_queue) /\ Len(m_send_queue) = 0
    BY <1>0, <1>b, <2>1, <1>m DEF First, Ordered, Measured
  <2>3. sent \in Seq(Messages)
    BY <1>0 DEF TypeOK
  <2>4. Len(sent) \in Nat
    BY <2>3, LenProperties
  <2>5. QED BY <2>1, <2>2, <2>4
<1>10. QED BY <1>1, <1>2, <1>3, <1>4, <1>6, <1>7, <1>8, <1>9 DEF IndInv

\* Reading, and the end.
LEMMA RespondingKeeps == IndInv /\ (Responding \/ stop) => IndInv'
<1> SUFFICES ASSUME IndInv, Responding \/ stop PROVE IndInv'
  OBVIOUS
<1> USE DEF Responding, handle_response, stop, Ready, Idle, connection, Empty
<1>0. TypeOK /\ Connection /\ Looking /\ Reading /\ Exclusive /\ Distinct /\ Waiting /\ Ordered
  BY DEF IndInv
<1>b. /\ UNCHANGED <<m_msg, m_send_queue, m_connected, op, left, writes, after_write, sent, looked,
                     written, stale>>
      /\ ~m_stopped /\ m_stopped' \in BOOLEAN
      /\ reads' = reads \/ (reads > 0 /\ reads' = reads - 1)
  OBVIOUS
<1> HIDE DEF Responding, stop
<1>c. reads' \in Nat /\ reads' <= reads /\ reads \in Nat
  BY <1>0, <1>b DEF TypeOK
<1>1. TypeOK'
  BY <1>0, <1>b, <1>c DEF TypeOK
<1>2. Connection'
  BY <1>0, <1>b, <1>c DEF Connection, Holds
<1>3. Looking'
  BY <1>0, <1>b DEF Looking, Holds, Alone
<1>4. Reading'
  BY <1>0, <1>b, <1>c DEF Reading, Places
<1>5. Exclusive' /\ Waiting'
  BY <1>0, <1>b DEF Exclusive, Waiting, Alone
<1>6. Distinct'
  BY <1>0, <1>b DEF Distinct, Flying, Others, Holds
<1>7. Ordered'
  BY <1>0, <1>b DEF Ordered, Alone, Places, First, Before, Holds
<1>8. QED BY <1>1, <1>2, <1>3, <1>4, <1>5, <1>6, <1>7 DEF IndInv

-----------------------------------------------------------------------------

LEMMA end_writeKeeps == ASSUME NEW t \in Threads, IndInv, end_write(t) PROVE IndInv'
<1>1. looked[t].saw \in {"empty", "message"}
  <2>1. looked[t] \in [saw : {"none", "empty", "message"}, msg : Nat]
    BY DEF IndInv, TypeOK
  <2>2. QED BY <2>1 DEF end_write
<1>2. QED BY <1>1, end_write_nowKeeps, end_write_laterKeeps

\* Every step keeps the invariant, which implies the properties.
LEMMA NextInv == IndInv /\ [Next]_vars => IndInv'
<1> SUFFICES ASSUME IndInv, [Next]_vars PROVE IndInv'
  OBVIOUS
<1>1. CASE UNCHANGED vars
  BY <1>1
   DEF vars, connection, IndInv, TypeOK, Connection, Looking, Reading, Places, Exclusive,
       Distinct, Flying, Others, Waiting, Alone, Ordered, First, Before, Holds
<1>2. CASE Next
  <2>1. ASSUME NEW t \in Threads, begin_write(t) \/ end_write(t) PROVE IndInv'
    BY <2>1, begin_writeKeeps, end_writeKeeps
  <2>2. QED BY <1>2, <2>1, ResolvingKeeps, ConnectingKeeps, CompletingKeeps, send_nextKeeps,
               clearKeeps, RespondingKeeps DEF Next, Handler, Responding
<1>3. QED BY <1>1, <1>2

LEMMA IndInvImplies == IndInv => Inv /\ SentInOrder
<1> SUFFICES ASSUME IndInv PROVE Inv /\ SentInOrder
  OBVIOUS
<1>1. sent \in Seq(Messages)
  BY DEF IndInv, TypeOK
<1>2. DOMAIN sent = 1 .. Len(sent) /\ sent = [i \in DOMAIN sent |-> sent[i]]
  BY <1>1, LenProperties
<1>3. Inv
  <2>1. ASSUME ~stale PROVE \A i \in DOMAIN sent : sent[i] # Torn
    <3>1. ToSet(sent) \subseteq 1 .. written.all /\ written.all \in Nat
      BY <2>1 DEF IndInv, Distinct, TypeOK
    <3>2. \A i \in DOMAIN sent : sent[i] \in 1 .. written.all
      BY <3>1 DEF ToSet
    <3>3. \A n \in 1 .. written.all : n # Torn
      BY <3>1 DEF Torn
    <3>4. QED BY <3>2, <3>3
  <2>2. ~stale => OneWriter /\ IsInjective(sent)
    BY DEF IndInv, Exclusive, Distinct, OneWriter
  <2>3. QED BY <2>1, <2>2 DEF IndInv, Reading, Inv, OneReader, SentOnce
<1>4. SentInOrder
  BY <1>2 DEF IndInv, Ordered, Alone, Places, SentInOrder
<1>5. QED BY <1>3, <1>4

\* Whichever thread writes, the connection is read by one chain of handlers, and unless
\* a thread acts on a stale look at m_msg, one async_write at a time is under way, and
\* each takes one message whole, none twice.
THEOREM ConnectionInvariance == Spec => []Inv
BY InitInv, NextInv, IndInvImplies, PTL DEF Spec

\* As long as the torrent thread alone writes, messages leave in the order of the
\* calls to write(), for any number of endpoints and messages.
THEOREM MessagesInOrder == Spec => []SentInOrder
BY InitInv, NextInv, IndInvImplies, PTL DEF Spec

=============================================================================
