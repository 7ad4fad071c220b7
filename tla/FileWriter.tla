----------------------------- MODULE FileWriter -----------------------------
(***************************************************************************)
(* The FileWriter singleton and its thread, at the grain of its mutexes    *)
(* and its condition variable.                                             *)
(*                                                                         *)
(* Three threads meet here: the writer thread (FileWriter::run), a torrent *)
(* thread, which adds pieces and reads blocks back for remotes, and the    *)
(* main thread, which owns the FileWriterThread and stops it.  A step      *)
(* takes at most one mutex; a mutex that is taken and released without     *)
(* another one being taken meanwhile is held within a single step.         *)
(***************************************************************************)
EXTENDS Sequences, Naturals, Functions

CONSTANTS
  Pieces,   \* the pieces of a torrent, each with its Piece object
  MaxAdds,  \* bound: pieces added
  MaxReads  \* bound: blocks read back

ASSUME FileWriterAssumption ==
  Pieces # {} /\ MaxAdds \in Nat /\ MaxReads \in Nat

VARIABLES
  queue,         \* m_queue
  stop,          \* m_stop
  queue_mutex,   \* the holder of m_queue_mutex, between steps
  file_mutex,    \* of m_file_mutex
  torrent_mutex, \* of Torrent::m_mutex
  piece_mutex,   \* of each Piece::m_mutex
  data,          \* what m_data of each piece holds
  written,       \* the pieces with m_piece_written
  disk,          \* the pieces whose bytes are in the file
  writer,        \* the writer thread: where it is, and its piece
  torrent,       \* the torrent thread: likewise
  main,          \* the main thread
  handled,       \* history: the pieces taken care of
  adds, reads    \* how much of the bounds has been used

locks == <<queue_mutex, file_mutex, torrent_mutex, piece_mutex>>
pieces == <<data, written, disk>>
counts == <<adds, reads>>
vars == <<queue, stop, locks, pieces, writer, torrent, main, handled, counts>>

\* Any piece: a thread that has none in hand.
Some == CHOOSE p \in Pieces : TRUE

Init == /\ queue = <<>>
        /\ stop = FALSE
        /\ queue_mutex = "free" /\ file_mutex = "free" /\ torrent_mutex = "free"
        /\ piece_mutex = [p \in Pieces |-> "free"]
        /\ data = [p \in Pieces |-> "partial"]
        /\ written = {}
        /\ disk = {}
        /\ writer = [pc |-> "new", piece |-> Some]
        /\ torrent = [pc |-> "idle", piece |-> Some]
        /\ main = "running"
        /\ handled = <<>>
        /\ adds = 0 /\ reads = 0

-----------------------------------------------------------------------------
(* The torrent thread *)

\* Torrent::set_block takes Torrent::m_mutex ...
set_block(p) ==
  /\ torrent.pc = "idle"
  /\ adds < MaxAdds
  /\ torrent_mutex = "free"
  /\ torrent_mutex' = "torrent"
  /\ torrent' = [pc |-> "set", piece |-> p]
  /\ adds' = adds + 1
  /\ UNCHANGED <<queue, stop, queue_mutex, file_mutex, piece_mutex, pieces,
                 writer, main, handled, reads>>

\* ... and Piece::set_block the mutex of the piece, for its last block, or for
\* one that is there already: then nothing is stored.
set_last_block(verdict) ==
  LET p == torrent.piece
  IN /\ torrent.pc = "set"
     /\ piece_mutex[p] = "free"
     /\ data' = IF data[p] = "partial" THEN [data EXCEPT ![p] = verdict] ELSE data
     /\ torrent' = [torrent EXCEPT !.pc = "add"]
     /\ UNCHANGED <<queue, stop, locks, written, disk, writer, main, handled, counts>>

\* notify_one wakes the writer if it sleeps in its wait.
Notified == IF writer.pc = "asleep" THEN [writer EXCEPT !.pc = "woken"] ELSE writer

\* Mutant: the piece is queued without waking the writer.
add_silently ==
  /\ torrent.pc = "add"
  /\ queue_mutex = "free"
  /\ queue' = Append(queue, torrent.piece)
  /\ torrent_mutex' = "free"
  /\ torrent' = [torrent EXCEPT !.pc = "idle"]
  /\ UNCHANGED <<stop, queue_mutex, file_mutex, piece_mutex, pieces, writer, main,
                 handled, counts>>

\* FileWriter::add, called with Torrent::m_mutex held.
add ==
  /\ torrent.pc = "add"
  /\ queue_mutex = "free"
  /\ queue' = Append(queue, torrent.piece)
  /\ writer' = Notified
  /\ torrent_mutex' = "free"
  /\ torrent' = [torrent EXCEPT !.pc = "idle"]
  /\ UNCHANGED <<stop, queue_mutex, file_mutex, piece_mutex, pieces, main, handled,
                 counts>>

\* Piece::get_block takes the mutex of the piece and keeps it to its end.
get_block(p) ==
  /\ torrent.pc = "idle"
  /\ reads < MaxReads
  /\ piece_mutex[p] = "free"
  /\ piece_mutex' = [piece_mutex EXCEPT ![p] = "torrent"]
  /\ torrent' = [pc |-> "get", piece |-> p]
  /\ reads' = reads + 1
  /\ UNCHANGED <<queue, stop, queue_mutex, file_mutex, torrent_mutex, pieces,
                 writer, main, handled, adds>>

\* The block is missing or still in memory ...
get_from_memory ==
  /\ torrent.pc = "get"
  /\ torrent.piece \notin written
  /\ piece_mutex' = [piece_mutex EXCEPT ![torrent.piece] = "free"]
  /\ torrent' = [torrent EXCEPT !.pc = "idle"]
  /\ UNCHANGED <<queue, stop, queue_mutex, file_mutex, torrent_mutex, pieces,
                 writer, main, handled, counts>>

\* ... or it is read from the file.
get_from_disk ==
  /\ torrent.pc = "get"
  /\ torrent.piece \in written
  /\ torrent' = [torrent EXCEPT !.pc = "read_block"]
  /\ UNCHANGED <<queue, stop, locks, pieces, writer, main, handled, counts>>

\* Mutant: the file is read without m_file_mutex.
read_unlocked ==
  /\ torrent.pc = "read_block"
  /\ torrent' = [torrent EXCEPT !.pc = "reading"]
  /\ UNCHANGED <<queue, stop, locks, pieces, writer, main, handled, counts>>

\* FileWriter::read_block
read_block ==
  /\ torrent.pc = "read_block"
  /\ file_mutex = "free"
  /\ file_mutex' = "torrent"
  /\ torrent' = [torrent EXCEPT !.pc = "reading"]
  /\ UNCHANGED <<queue, stop, queue_mutex, torrent_mutex, piece_mutex, pieces,
                 writer, main, handled, counts>>

read_done ==
  /\ torrent.pc = "reading"
  /\ file_mutex' = "free"
  /\ piece_mutex' = [piece_mutex EXCEPT ![torrent.piece] = "free"]
  /\ torrent' = [torrent EXCEPT !.pc = "idle"]
  /\ UNCHANGED <<queue, stop, queue_mutex, torrent_mutex, pieces, writer, main,
                 handled, counts>>

-----------------------------------------------------------------------------
(* The main thread: ~FileWriterThread *)

\* FileWriter::stop sets m_stop without m_queue_mutex ...
set_stop ==
  /\ main = "running"
  /\ stop' = TRUE
  /\ main' = "notify"
  /\ UNCHANGED <<queue, locks, pieces, writer, torrent, handled, counts>>

\* ... and notifies.
notify_stop ==
  /\ main = "notify"
  /\ writer' = Notified
  /\ main' = "join"
  /\ UNCHANGED <<queue, stop, locks, pieces, torrent, handled, counts>>

join ==
  /\ main = "join"
  /\ writer.pc = "ended"
  /\ main' = "joined"
  /\ UNCHANGED <<queue, stop, locks, pieces, writer, torrent, handled, counts>>

-----------------------------------------------------------------------------
(* The writer thread *)

\* The step of the writer from one place to another.
At(pc) == writer.pc = pc
Goto(pc) == writer' = [writer EXCEPT !.pc = pc]

\* The start of FileWriter::run.
run ==
  /\ At("new") /\ Goto("loop")
  /\ stop' = FALSE
  /\ UNCHANGED <<queue, locks, pieces, torrent, main, handled, counts>>

\* Mutant: the loop does not look at m_stop.
loop_forever ==
  /\ At("loop") /\ Goto("wait")
  /\ queue_mutex = "free"
  /\ queue_mutex' = "writer"
  /\ UNCHANGED <<queue, stop, file_mutex, torrent_mutex, piece_mutex, pieces,
                 torrent, main, handled, counts>>

\* while (!m_stop), and m_queue_mutex for the wait.
loop ==
  /\ At("loop")
  /\ IF stop
     THEN Goto("ended") /\ UNCHANGED queue_mutex
     ELSE queue_mutex = "free" /\ queue_mutex' = "writer" /\ Goto("wait")
  /\ UNCHANGED <<queue, stop, file_mutex, torrent_mutex, piece_mutex, pieces,
                 torrent, main, handled, counts>>

\* The predicate of the wait.
wait ==
  /\ At("wait")
  /\ Goto(IF queue # <<>> \/ stop THEN "take" ELSE "block")
  /\ UNCHANGED <<queue, stop, locks, pieces, torrent, main, handled, counts>>

\* It was false: m_queue_mutex is released and the thread sleeps.
block ==
  /\ At("block") /\ Goto("asleep")
  /\ queue_mutex' = "free"
  /\ UNCHANGED <<queue, stop, file_mutex, torrent_mutex, piece_mutex, pieces,
                 torrent, main, handled, counts>>

\* A condition variable may wake its thread without a notification.
spurious_wake ==
  /\ At("asleep") /\ Goto("woken")
  /\ UNCHANGED <<queue, stop, locks, pieces, torrent, main, handled, counts>>

wake ==
  /\ At("woken") /\ Goto("wait")
  /\ queue_mutex = "free"
  /\ queue_mutex' = "writer"
  /\ UNCHANGED <<queue, stop, file_mutex, torrent_mutex, piece_mutex, pieces,
                 torrent, main, handled, counts>>

\* Mutant: the last piece added is taken first.
newest == queue[Len(queue)]

\* The piece to write next.
front == Head(queue)

\* The end of the scope of m_queue_mutex: stop, or take the front.
take ==
  /\ At("take")
  /\ queue_mutex' = "free"
  /\ IF stop
     THEN Goto("loop") /\ UNCHANGED queue
     ELSE /\ writer' = [pc |-> "file", piece |-> front]
          /\ queue' = Tail(queue)
  /\ UNCHANGED <<stop, file_mutex, torrent_mutex, piece_mutex, pieces, torrent,
                 main, handled, counts>>

\* Mutant: the scope of the lock ends at once.
lock_briefly ==
  /\ At("file") /\ Goto("hash")
  /\ file_mutex = "free"
  /\ UNCHANGED <<queue, stop, locks, pieces, torrent, main, handled, counts>>

\* m_file_mutex is held from here to the end of write_next_piece.
lock_file ==
  /\ At("file") /\ Goto("hash")
  /\ file_mutex = "free"
  /\ file_mutex' = "writer"
  /\ UNCHANGED <<queue, stop, queue_mutex, torrent_mutex, piece_mutex, pieces,
                 torrent, main, handled, counts>>

\* The hash of Piece::data(), which takes the mutex of the piece.
hash ==
  /\ At("hash")
  /\ piece_mutex[writer.piece] = "free"
  /\ Goto(IF data[writer.piece] = "good" THEN "write" ELSE "reset")
  /\ UNCHANGED <<queue, stop, locks, pieces, torrent, main, handled, counts>>

\* The scope of m_file_mutex ends.
Leave == /\ file_mutex' = "free"
         /\ Goto("loop")
         /\ handled' = Append(handled, writer.piece)

\* Torrent::reset_piece takes Torrent::m_mutex, then the one of the piece.
reset_piece ==
  /\ At("reset") /\ Goto("clear")
  /\ torrent_mutex = "free"
  /\ torrent_mutex' = "writer"
  /\ UNCHANGED <<queue, stop, queue_mutex, file_mutex, piece_mutex, pieces,
                 torrent, main, handled, counts>>

reset ==
  /\ At("clear") /\ Leave
  /\ piece_mutex[writer.piece] = "free"
  /\ data' = [data EXCEPT ![writer.piece] = "partial"]
  /\ written' = written \ {writer.piece}
  /\ torrent_mutex' = "free"
  /\ UNCHANGED <<queue, stop, queue_mutex, piece_mutex, disk, torrent, main, counts>>

\* TorrentDestination::writePiece reads Piece::data() again.
writePiece ==
  /\ At("write") /\ Goto("flag")
  /\ piece_mutex[writer.piece] = "free"
  /\ disk' = disk \cup {writer.piece}
  /\ UNCHANGED <<queue, stop, locks, data, written, torrent, main, handled, counts>>

\* Any of its file operations may fail; the exception is logged.
write_failed ==
  /\ At("write") /\ Leave
  /\ UNCHANGED <<queue, stop, queue_mutex, torrent_mutex, piece_mutex, pieces,
                 torrent, main, counts>>

\* Piece::set_piece_written sets its flag before it takes the mutex.
set_flag ==
  /\ At("flag") /\ Goto("free")
  /\ written' = written \cup {writer.piece}
  /\ UNCHANGED <<queue, stop, locks, data, disk, torrent, main, handled, counts>>

set_piece_written ==
  /\ At("free") /\ Goto("done")
  /\ piece_mutex[writer.piece] = "free"
  /\ data' = [data EXCEPT ![writer.piece] = "none"]
  /\ UNCHANGED <<queue, stop, locks, written, disk, torrent, main, handled, counts>>

\* Torrent::done() takes Torrent::m_mutex.
check_done ==
  /\ At("done") /\ Leave
  /\ torrent_mutex = "free"
  /\ UNCHANGED <<queue, stop, queue_mutex, torrent_mutex, piece_mutex, pieces,
                 torrent, main, counts>>

-----------------------------------------------------------------------------
Call == \E p \in Pieces : set_block(p) \/ get_block(p)

TorrentThread == \/ \E verdict \in {"good", "bad"} : set_last_block(verdict)
                 \/ add
                 \/ get_from_memory \/ get_from_disk \/ read_block \/ read_done

MainThread == notify_stop \/ join

WriterThread == \/ run \/ loop \/ wait \/ block \/ wake \/ take \/ lock_file
                \/ hash \/ reset_piece \/ reset \/ writePiece \/ write_failed
                \/ set_flag \/ set_piece_written \/ check_done

Next == Call \/ TorrentThread \/ set_stop \/ MainThread \/ WriterThread \/ spurious_wake

Spec == Init /\ [][Next]_vars

\* A thread that can go on does; no mutex is contended for ever, since what
\* the torrent and main threads call is bounded.  Whether a remote asks for a
\* block, a piece completes or the program ends is up to the environment.
FairSpec == /\ Spec
            /\ WF_vars(TorrentThread)
            /\ WF_vars(MainThread)
            /\ WF_vars(WriterThread)

-----------------------------------------------------------------------------
(* Properties *)

Holders == {"free", "writer", "torrent"}

\* Where the writer has a piece in hand, and where it has the files too.
Writing == {"hash", "reset", "clear", "write", "flag", "free", "done"}
Handling == Writing \cup {"file"}

TypeOK ==
  /\ queue \in Seq(Pieces) /\ handled \in Seq(Pieces)
  /\ stop \in BOOLEAN
  /\ queue_mutex \in {"free", "writer"}
  /\ file_mutex \in Holders /\ torrent_mutex \in Holders
  /\ piece_mutex \in [Pieces -> {"free", "torrent"}]
  /\ data \in [Pieces -> {"partial", "good", "bad", "none"}]
  /\ written \subseteq Pieces /\ disk \subseteq Pieces
  /\ writer \in [pc : {"new", "loop", "wait", "block", "asleep", "woken", "take",
                       "ended"} \cup Handling,
                 piece : Pieces]
  /\ torrent \in [pc : {"idle", "set", "add", "get", "read_block", "reading"},
                  piece : Pieces]
  /\ main \in {"running", "notify", "join", "joined"}
  /\ adds \in Nat /\ reads \in Nat

\* m_file_mutex is held just where the files are used, only the writer's own
\* reset clears m_stop, and the flag of a piece follows its write.
FileInv ==
  /\ file_mutex = "writer" <=> writer.pc \in Writing
  /\ file_mutex = "torrent" <=> torrent.pc = "reading"
  /\ writer.pc = "take" => queue # <<>> \/ stop
  /\ written \subseteq disk
  /\ writer.pc = "flag" => writer.piece \in disk
  /\ torrent.pc \in {"read_block", "reading"} => torrent.piece \in disk

\* Both together: an invariant that every step preserves.
IndInv == TypeOK /\ FileInv

\* A block is read back while the writer does not touch the files, and of a
\* piece whose bytes were written before (read_block, m_piece_written).
ReadsWholePieces ==
  torrent.pc = "reading" => torrent.piece \in disk /\ writer.pc \notin Writing

\* The FileWriter as a queue: a piece taken but not dealt with is pending.
InHand == IF writer.pc \in Handling THEN <<writer.piece>> ELSE <<>>

Queue == INSTANCE WriteQueue WITH pending <- InHand \o queue

\* Pieces are handled in the order of add(), each once, whatever is read,
\* stopped or notified meanwhile.
InOrder == Queue!WQSpec

\* get_block keeps the mutex of a piece and waits for m_file_mutex, which the
\* writer keeps while it waits for that mutex: neither goes on (see ReadReturns).
Deadlocked == /\ torrent.pc = "read_block" /\ file_mutex = "writer"
              /\ writer.pc \in {"hash", "clear", "free"}
              /\ writer.piece = torrent.piece

\* The writer never sleeps through a piece added: add() notifies under the
\* mutex that the wait gives up.  Nothing but that deadlock keeps it from one.
AddedIsHandled == queue # <<>> ~> (queue = <<>> \/ stop \/ Deadlocked)

\* stop() while a piece is written ends the thread when that is done.
StopFinishes ==
  (stop /\ writer.pc \in Handling) ~> (writer.pc = "ended" \/ Deadlocked)

-----------------------------------------------------------------------------
(* What comments of the program say, and the model refutes *)

\* read_block can block until the writer is done with its current work, and
\* returns then (file_writer.hpp).
ReadReturns == torrent.pc = "read_block" ~> torrent.pc = "idle"

\* stop() makes the thread end, so that joining it does not hang
\* (file_writer.hpp).
JoinReturns == main = "join" ~> main = "joined"

=============================================================================
