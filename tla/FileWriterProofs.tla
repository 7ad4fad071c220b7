-------------------------- MODULE FileWriterProofs --------------------------
(* Proofs about FileWriter, for every set of pieces and every bound.         *)
EXTENDS FileWriter, TLAPS, SequenceTheorems

\* There is a piece to start with.
LEMMA SomePiece == Some \in Pieces
BY FileWriterAssumption DEF Some

\* The places of the threads, as the actions name them.
LEMMA InitInv == Init => TypeOK /\ FileInv
<1> SUFFICES ASSUME Init PROVE TypeOK /\ FileInv
  OBVIOUS
<1>1. TypeOK
  <2>1. writer = [pc |-> "new", piece |-> Some] /\ torrent = [pc |-> "idle", piece |-> Some]
    BY DEF Init
  <2>2. /\ queue \in Seq(Pieces) /\ handled \in Seq(Pieces)
    BY EmptySeq, Zenon DEF Init
  <2>3. /\ queue_mutex \in {"free", "writer"}
        /\ file_mutex \in Holders /\ torrent_mutex \in Holders
        /\ piece_mutex \in [Pieces -> {"free", "torrent"}]
        /\ data \in [Pieces -> {"partial", "good", "bad", "none"}]
        /\ main \in {"running", "notify", "join", "joined"}
        /\ stop \in BOOLEAN /\ adds \in Nat /\ reads \in Nat
        /\ written \subseteq Pieces /\ disk \subseteq Pieces
    BY DEF Init, Holders
  <2>4. QED BY <2>1, <2>2, <2>3, SomePiece DEF TypeOK
<1>2. FileInv
  BY DEF Init, FileInv, Writing
<1>3. QED BY <1>1, <1>2

LEMMA GotoType ==
  ASSUME TypeOK, NEW pc \in {"loop", "wait", "block", "asleep", "woken", "take",
                             "ended"} \cup Handling,
         Goto(pc)
  PROVE  /\ writer'.pc = pc /\ writer'.piece = writer.piece
         /\ writer' \in [pc : {"new", "loop", "wait", "block", "asleep", "woken",
                               "take", "ended"} \cup Handling,
                         piece : Pieces]
BY DEF TypeOK, Goto

\* Giving a piece to the writer, or waking it, changes where it is only if it
\* slept.
LEMMA NotifiedType ==
  ASSUME TypeOK
  PROVE  /\ Notified \in [pc : {"new", "loop", "wait", "block", "asleep", "woken",
                                "take", "ended"} \cup Handling,
                          piece : Pieces]
         /\ Notified = writer \/ (writer.pc = "asleep" /\ Notified.pc = "woken")
         /\ Notified.piece = writer.piece
BY DEF TypeOK, Notified

LEMMA TorrentStep ==
  ASSUME TypeOK, FileInv, Call \/ TorrentThread
  PROVE  TypeOK' /\ FileInv'
<1> USE DEF locks, pieces, counts
<1>1. ASSUME NEW p \in Pieces, set_block(p)
      PROVE  TypeOK' /\ FileInv'
  BY <1>1 DEF set_block, TypeOK, FileInv, Holders
<1>2. ASSUME NEW verdict \in {"good", "bad"}, set_last_block(verdict)
      PROVE  TypeOK' /\ FileInv'
  <2>1. torrent' = [torrent EXCEPT !.pc = "add"] /\ torrent.pc = "set"
        /\ torrent.piece \in Pieces
    BY <1>2 DEF set_last_block, TypeOK
  <2>2. data' \in [Pieces -> {"partial", "good", "bad", "none"}]
    BY <1>2, <2>1 DEF set_last_block, TypeOK
  <2>3. QED BY <1>2, <2>1, <2>2 DEF set_last_block, TypeOK, FileInv
<1>3. CASE add
  <2>1. torrent' = [torrent EXCEPT !.pc = "idle"] /\ torrent.pc = "add"
        /\ torrent.piece \in Pieces
    BY <1>3 DEF add, TypeOK
  <2>2. queue' \in Seq(Pieces) /\ queue' # <<>>
    BY <1>3, <2>1, AppendProperties DEF add, TypeOK
  <2>3. writer' = Notified
    BY <1>3 DEF add
  <2>4. TypeOK'
    BY <1>3, <2>1, <2>2, <2>3, NotifiedType DEF add, TypeOK, Holders
  <2>5. FileInv'
    BY <1>3, <2>1, <2>2, <2>3, NotifiedType DEF add, FileInv, TypeOK, Writing
  <2>6. QED BY <2>4, <2>5
<1>4. ASSUME NEW p \in Pieces, get_block(p)
      PROVE  TypeOK' /\ FileInv'
  BY <1>4 DEF get_block, TypeOK, FileInv
<1>5. CASE get_from_memory
  BY <1>5 DEF get_from_memory, TypeOK, FileInv
<1>6. CASE get_from_disk
  BY <1>6 DEF get_from_disk, TypeOK, FileInv
<1>7. CASE read_block
  BY <1>7 DEF read_block, TypeOK, FileInv, Holders
<1>8. CASE read_done
  BY <1>8 DEF read_done, TypeOK, FileInv, Holders
<1>9. QED
  BY <1>1, <1>2, <1>3, <1>4, <1>5, <1>6, <1>7, <1>8 DEF Call, TorrentThread

LEMMA MainStep ==
  ASSUME TypeOK, FileInv, set_stop \/ MainThread
  PROVE  TypeOK' /\ FileInv'
<1> USE DEF locks, pieces, counts
<1>1. CASE set_stop
  BY <1>1 DEF set_stop, TypeOK, FileInv
<1>2. CASE notify_stop
  <2>1. writer' = Notified
    BY <1>2 DEF notify_stop
  <2>2. TypeOK'
    BY <1>2, <2>1, NotifiedType DEF notify_stop, TypeOK
  <2>3. FileInv'
    BY <1>2, <2>1, NotifiedType DEF notify_stop, FileInv, Writing
  <2>4. QED BY <2>2, <2>3
<1>3. CASE join
  BY <1>3 DEF join, TypeOK, FileInv
<1>4. QED BY <1>1, <1>2, <1>3 DEF MainThread

LEMMA WriterStep ==
  ASSUME TypeOK, FileInv, WriterThread \/ spurious_wake
  PROVE  TypeOK' /\ FileInv'
<1> USE DEF locks, pieces, counts, At
<1>0. writer.piece \in Pieces /\ queue \in Seq(Pieces) /\ handled \in Seq(Pieces)
  BY DEF TypeOK
<1>1. CASE run
  <2>1. writer'.pc = "loop" /\ stop' = FALSE /\ writer.pc = "new"
        /\ UNCHANGED <<queue, locks, pieces, torrent, main, handled, counts>>
    BY <1>1, GotoType DEF run
  <2>2. TypeOK'
    BY <1>1, <2>1, GotoType DEF run, TypeOK
  <2>3. FileInv'
    BY <2>1 DEF FileInv, Writing
  <2>4. QED BY <2>2, <2>3
<1>2. CASE loop
  BY <1>2, GotoType DEF loop, TypeOK, FileInv, Writing
<1>3. CASE wait
  BY <1>3, GotoType DEF wait, TypeOK, FileInv, Writing
<1>4. CASE block
  BY <1>4, GotoType DEF block, TypeOK, FileInv, Writing
<1>5. CASE wake \/ spurious_wake
  BY <1>5, GotoType DEF wake, spurious_wake, TypeOK, FileInv, Writing
<1>6. CASE take
  <2>1. CASE stop
    BY <1>6, <2>1, GotoType DEF take, TypeOK, FileInv, Writing
  <2>2. CASE ~stop
    <3>1. queue # <<>>
      BY <1>6, <2>2 DEF take, FileInv
    <3>2. Head(queue) \in Pieces /\ Tail(queue) \in Seq(Pieces)
      BY <1>0, <3>1, HeadTailProperties
    <3>3. writer' = [pc |-> "file", piece |-> Head(queue)] /\ queue' = Tail(queue)
      BY <1>6, <2>2 DEF take, front
    <3>4. QED BY <1>6, <3>2, <3>3 DEF take, TypeOK, FileInv, Writing, Handling
  <2>3. QED BY <2>1, <2>2
<1>7. CASE lock_file
  BY <1>7, GotoType DEF lock_file, TypeOK, FileInv, Writing, Handling, Holders
<1>8. CASE hash
  BY <1>8, GotoType DEF hash, TypeOK, FileInv, Writing, Handling
<1>9. CASE reset_piece
  BY <1>9, GotoType DEF reset_piece, TypeOK, FileInv, Writing, Handling, Holders
<1>10. ASSUME Leave
       PROVE  /\ handled' \in Seq(Pieces) /\ file_mutex' = "free" /\ writer'.pc = "loop"
              /\ writer' \in [pc : {"new", "loop", "wait", "block", "asleep", "woken",
                                    "take", "ended"} \cup Handling,
                              piece : Pieces]
  BY <1>0, <1>10, GotoType, AppendProperties DEF Leave
<1>11. CASE reset
  BY <1>0, <1>10, <1>11 DEF reset, TypeOK, FileInv, Writing, Holders
<1>12. CASE writePiece
  BY <1>0, <1>12, GotoType DEF writePiece, TypeOK, FileInv, Writing, Handling
<1>13. CASE write_failed
  BY <1>10, <1>13 DEF write_failed, TypeOK, FileInv, Writing, Holders
<1>14. CASE set_flag
  BY <1>0, <1>14, GotoType DEF set_flag, TypeOK, FileInv, Writing, Handling
<1>15. CASE set_piece_written
  BY <1>0, <1>15, GotoType DEF set_piece_written, TypeOK, FileInv, Writing, Handling
<1>16. CASE check_done
  BY <1>10, <1>16 DEF check_done, TypeOK, FileInv, Writing, Holders
<1>17. QED
  BY <1>1, <1>2, <1>3, <1>4, <1>5, <1>6, <1>7, <1>8, <1>9, <1>11, <1>12, <1>13,
     <1>14, <1>15, <1>16 DEF WriterThread

-----------------------------------------------------------------------------
(* Theorems *)

\* The variables have their types, and the files are used under m_file_mutex.
THEOREM FileInvariance == Spec => []IndInv
<1>1. Init => TypeOK /\ FileInv
  BY InitInv
<1>2. (TypeOK /\ FileInv) /\ [Next]_vars => (TypeOK /\ FileInv)'
  <2>1. CASE UNCHANGED vars
    BY <2>1 DEF vars, locks, pieces, counts, TypeOK, FileInv
  <2>2. CASE Next
    BY <2>2, TorrentStep, MainStep, WriterStep DEF Next
  <2>3. QED BY <2>1, <2>2
<1>3. QED BY <1>1, <1>2, PTL DEF Spec, IndInv

\* A block is read back of a piece that was written, and never while the
\* writer uses the files.
THEOREM ReadBack == Spec => []ReadsWholePieces
<1>1. IndInv => ReadsWholePieces
  BY DEF IndInv, FileInv, ReadsWholePieces
<1>2. QED BY <1>1, FileInvariance, PTL

-----------------------------------------------------------------------------
(* The FileWriter implements WriteQueue *)

\* Taking the front of the queue in hand, and giving a piece to it.
LEMMA InHandQueue ==
  ASSUME NEW S, NEW q \in Seq(S), NEW p \in S
  PROVE  /\ q # <<>> => <<Head(q)>> \o Tail(q) = <<>> \o q
         /\ <<p>> \o q # <<>>
         /\ Head(<<p>> \o q) = p
         /\ Tail(<<p>> \o q) = <<>> \o q
         /\ <<p>> \o Append(q, p) = Append(<<p>> \o q, p)
<1>1. <<p>> \in Seq(S)
  OBVIOUS
<1>2. <<p>> \o q # <<>> /\ Head(<<p>> \o q) = p /\ Tail(<<p>> \o q) = q
  BY <1>1
<1>3. <<>> \o q = q
  OBVIOUS
<1>4. q # <<>> => <<Head(q)>> \o Tail(q) = q
  OBVIOUS
<1>5. <<p>> \o Append(q, p) = Append(<<p>> \o q, p)
  BY <1>1
<1>6. QED BY <1>2, <1>3, <1>4, <1>5

\* A step that neither adds a piece nor finishes one.
LEMMA QueueStutter ==
  ASSUME InHand' \o queue' = InHand \o queue, UNCHANGED handled
  PROVE  UNCHANGED Queue!wqvars
BY DEF Queue!wqvars

\* The writer is done with its piece, whether written, reset or failed.
LEMMA HandleStep ==
  ASSUME TypeOK, Leave, UNCHANGED queue, writer.pc \in Handling
  PROVE  Queue!Handle
<1>1. writer.piece \in Pieces /\ queue \in Seq(Pieces)
  BY DEF TypeOK
<1>2. InHand = <<writer.piece>> /\ InHand' = <<>>
  <2>1. writer'.pc = "loop"
    BY GotoType DEF Leave
  <2>2. QED BY <2>1 DEF InHand, Handling, Writing
<1>3. <<writer.piece>> \o queue # <<>> /\ Head(<<writer.piece>> \o queue) = writer.piece
      /\ Tail(<<writer.piece>> \o queue) = <<>> \o queue
  BY <1>1, InHandQueue
<1>4. handled' = Append(handled, writer.piece)
  BY DEF Leave
<1>5. QED BY <1>2, <1>3, <1>4 DEF Queue!Handle

LEMMA GiveStep ==
  ASSUME TypeOK, add
  PROVE  Queue!Give(torrent.piece)
<1>1. torrent.piece \in Pieces /\ queue \in Seq(Pieces) /\ writer.piece \in Pieces
  BY DEF TypeOK
<1>2. queue' = Append(queue, torrent.piece) /\ writer' = Notified /\ handled' = handled
  BY DEF add
<1>3. InHand' = InHand
  BY <1>2, NotifiedType DEF InHand, Handling, Writing
<1>4. InHand \in Seq(Pieces)
  BY <1>1 DEF InHand
<1>5. InHand \o Append(queue, torrent.piece) = Append(InHand \o queue, torrent.piece)
  BY <1>1, <1>4
<1>6. QED BY <1>2, <1>3, <1>5 DEF Queue!Give

LEMMA QueueStep ==
  ASSUME TypeOK, FileInv, [Next]_vars
  PROVE  [Queue!WQNext]_(Queue!wqvars)
<1> USE DEF At, locks, pieces, counts
<1>1. CASE UNCHANGED vars
  BY <1>1, QueueStutter DEF vars, InHand
<1>2. CASE Call \/ set_stop \/ join \/ get_from_memory \/ get_from_disk \/ read_block
           \/ read_done \/ \E verdict \in {"good", "bad"} : set_last_block(verdict)
  <2>1. UNCHANGED <<queue, writer, handled>>
    BY <1>2 DEF Call, set_block, get_block, set_stop, join, get_from_memory,
                get_from_disk, read_block, read_done, set_last_block
  <2>2. QED BY <2>1, QueueStutter DEF InHand
<1>3. CASE add
  BY <1>3, GiveStep DEF Queue!WQNext, TypeOK
<1>4. CASE notify_stop
  <2>1. UNCHANGED <<queue, handled>> /\ writer' = Notified
    BY <1>4 DEF notify_stop
  <2>2. InHand' = InHand
    BY <2>1, NotifiedType DEF InHand, Handling, Writing
  <2>3. QED BY <2>1, <2>2, QueueStutter
<1>5. CASE run \/ loop \/ wait \/ block \/ wake \/ spurious_wake
  <2>1. writer.pc \notin Handling /\ writer'.pc \notin Handling
        /\ UNCHANGED <<queue, handled>>
    BY <1>5, GotoType DEF run, loop, wait, block, wake, spurious_wake, Handling, Writing
  <2>2. QED BY <2>1, QueueStutter DEF InHand
<1>6. CASE take
  <2>1. CASE stop
    BY <1>6, <2>1, GotoType, QueueStutter DEF take, InHand, Handling, Writing
  <2>2. CASE ~stop
    <3>1. queue # <<>> /\ queue \in Seq(Pieces) /\ Pieces # {}
      BY <1>6, <2>2, FileWriterAssumption DEF take, FileInv, TypeOK
    <3>2. writer' = [pc |-> "file", piece |-> Head(queue)] /\ queue' = Tail(queue)
          /\ handled' = handled
      BY <1>6, <2>2 DEF take, front
    <3>3. InHand = <<>> /\ InHand' = <<Head(queue)>>
      BY <1>6, <3>2 DEF take, InHand, Handling, Writing
    <3>4. <<Head(queue)>> \o Tail(queue) = <<>> \o queue
      BY <3>1, InHandQueue
    <3>5. QED BY <3>2, <3>3, <3>4, QueueStutter
  <2>3. QED BY <2>1, <2>2
<1>7. CASE lock_file \/ hash \/ reset_piece \/ writePiece \/ set_flag \/ set_piece_written
  <2>1. writer.pc \in Handling /\ writer'.pc \in Handling
        /\ writer'.piece = writer.piece /\ UNCHANGED <<queue, handled>>
    BY <1>7, GotoType DEF lock_file, hash, reset_piece, writePiece, set_flag,
                          set_piece_written, Handling, Writing
  <2>2. QED BY <2>1, QueueStutter DEF InHand
<1>8. CASE reset \/ write_failed \/ check_done
  <2>1. Leave /\ UNCHANGED queue /\ writer.pc \in Handling
    BY <1>8 DEF reset, write_failed, check_done, Handling, Writing
  <2>2. QED BY <2>1, HandleStep DEF Queue!WQNext
<1>9. QED
  BY <1>1, <1>2, <1>3, <1>4, <1>5, <1>6, <1>7, <1>8
     DEF Next, TorrentThread, MainThread, WriterThread

\* Pieces given to the FileWriter are handled in order, each once.
THEOREM WritesInOrder == Spec => InOrder
<1>1. Init => Queue!WQInit
  BY DEF Init, Queue!WQInit, InHand, Handling, Writing
<1>2. (TypeOK /\ FileInv) /\ [Next]_vars => [Queue!WQNext]_(Queue!wqvars)
  BY QueueStep
<1>3. QED
  BY <1>1, <1>2, FileInvariance, PTL DEF Spec, IndInv, InOrder, Queue!WQSpec

=============================================================================
