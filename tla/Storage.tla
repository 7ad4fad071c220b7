------------------------------- MODULE Storage -------------------------------
(***************************************************************************)
(* The files of one torrent across starts and crashes of the program: how  *)
(* TorrentDestination makes, fills and publishes them file operation by    *)
(* file operation, and what Torrent::verify_existing_file makes of them    *)
(* when the program starts again.                                          *)
(*                                                                         *)
(* A torrent is in one file or in several, which a piece may span.  While  *)
(* it is downloaded the path tmpfile() exists: it is the file itself, or   *)
(* the marker of a torrent with several files.                             *)
(***************************************************************************)
EXTENDS Naturals, FiniteSetsExt

CONSTANTS
  NumPieces,   \* m_pieces.size()
  NumFiles,    \* m_files.size(), 1 for a torrent in one file
  FilesOf,     \* the files a piece has bytes in
  SingleFile,  \* is_single_file()
  ByteBits,    \* the bits in a byte of m_client_pieces
  MaxCrashes,  \* bound: crashes, or stops with a piece in the writer's hands
  MaxFails     \* bound: file operations that fail

Pieces == 0 .. NumPieces - 1
Files == 1 .. NumFiles
Parts == {part \in Pieces \X Files : part[2] \in FilesOf[part[1]]}

ASSUME StorageAssumption ==
  /\ NumPieces \in Nat \ {0} /\ NumFiles \in Nat \ {0} /\ ByteBits \in Nat \ {0}
  /\ FilesOf \in [Pieces -> (SUBSET Files) \ {{}}]
  /\ SingleFile \in BOOLEAN /\ (SingleFile => NumFiles = 1)
  /\ MaxCrashes \in Nat /\ MaxFails \in Nat

VARIABLES
  marker,   \* the path with the extension of a download exists
  named,    \* m_name exists: the file, or the directory
  size,     \* of each file: "none", "zero" or "full"
  good,     \* the parts of pieces whose right bytes are on disk
  resumed,  \* m_tmpfile is m_name
  client,   \* the ones of m_client_pieces
  width,    \* its size in bits
  written,  \* the pieces with m_piece_written
  writer,   \* where the writer is, its piece and the file it works on
  used      \* how much of each bound has been used

disk == <<marker, named, size, good>>
memory == <<resumed, client, width, written>>
vars == <<disk, memory, writer, used>>

\* Where the program is when there is no piece to write.
Off(pc) == [pc |-> pc, piece |-> 0, file |-> 1]

Init == /\ marker = FALSE /\ named = FALSE
        /\ size = [f \in Files |-> "none"]
        /\ good = {}
        /\ resumed = FALSE
        /\ client = {} /\ width = 0
        /\ written = {}
        /\ writer = Off("down")
        /\ used = [crashes |-> 0, fails |-> 0]

-----------------------------------------------------------------------------
(* Start: Torrent::verify_existing_file *)

\* Mutant: the first file of a piece is enough.
verified_in_part == {p \in Pieces : /\ size[Min(FilesOf[p])] = "full"
                                    /\ <<p, Min(FilesOf[p])>> \in good}

\* The pieces whose hash is the right one (verify_piece_single_file,
\* verify_piece_multi_file).
verified == {p \in Pieces : \A f \in FilesOf[p] : size[f] = "full" /\ <<p, f>> \in good}

\* Reading a piece throws, which inside for_each ends the program: in a file
\* with no bytes an offset behind its end does not fit into the unsigned tail,
\* or the stream hits the end.  A file that is missing is not read.
Throws(p) ==
  IF SingleFile
  THEN p > 0 /\ size[1] = "zero"
  ELSE \E f \in FilesOf[p] : /\ size[f] = "zero"
                             /\ \A g \in FilesOf[p] : g < f => size[g] = "full"

\* Whole bytes for n bits.
RoundUp(n) == ByteBits * ((n + ByteBits - 1) \div ByteBits)

\* m_client_pieces starts empty and grows to hold each bit that is set.
WidthFor(set) == IF set = {} THEN 0 ELSE RoundUp(Max(set) + 1)

Exists == named \/ marker

\* The constructor throws: it has the file twice, or a file under its final
\* name that is not all right.
Refuses == SingleFile /\ named /\ (marker \/ verified # Pieces)

start ==
  /\ writer.pc = "down"
  /\ resumed' = named
  /\ IF Exists /\ (Refuses \/ \E p \in Pieces : Throws(p))
     THEN /\ writer' = Off(IF SingleFile /\ named THEN "refused" ELSE "terminated")
          /\ UNCHANGED <<client, width, written>>
     ELSE LET found == IF Exists THEN verified ELSE {}
          IN /\ writer' = Off("idle")
             /\ client' = found /\ written' = found
             /\ width' = WidthFor(found)
  /\ UNCHANGED <<disk, used>>

\* What is in memory is gone, pieces queued for the writer included.
crash ==
  /\ writer.pc \notin {"down", "refused", "terminated"}
  /\ used.crashes < MaxCrashes
  /\ used' = [used EXCEPT !.crashes = @ + 1]
  /\ resumed' = FALSE /\ client' = {} /\ width' = 0 /\ written' = {}
  /\ writer' = Off("down")
  /\ UNCHANGED disk

-----------------------------------------------------------------------------
(* A piece is downloaded and written *)

\* The bits of m_client_pieces once a remote has sent its bitfield
\* (init_client_pieces): the size stays what it is unless it is 0.
init_client_pieces == IF width = 0 THEN RoundUp(NumPieces) ELSE width

\* relevant_pieces of a remote that has everything: operator- is as long as
\* the shorter of the two.
relevant_pieces == {p \in Pieces \ client : p < init_client_pieces}

\* Piece p is requested, received and verified (see Download).
receive(p) ==
  /\ writer.pc = "idle"
  /\ p \in relevant_pieces
  /\ width' = init_client_pieces
  /\ client' = client \cup {p}
  /\ writer' = [pc |-> "allocate", piece |-> p, file |-> 1]
  /\ UNCHANGED <<disk, resumed, written, used>>

At(pc) == writer.pc = pc
Goto(pc) == writer' = [writer EXCEPT !.pc = pc]

\* ofstream for writing: a file that is there loses its bytes.
Truncate(f) == /\ size' = [size EXCEPT ![f] = "zero"]
               /\ good' = {part \in good : part[2] # f}

tmpfile_exists == IF resumed THEN named ELSE marker

\* allocate: nothing to do once tmpfile() exists, otherwise it is created.
allocate ==
  /\ At("allocate")
  /\ IF tmpfile_exists
     THEN Goto("verify") /\ UNCHANGED disk
     ELSE /\ marker' = TRUE
          /\ Goto(IF SingleFile THEN "resize" ELSE "mkdir")
          /\ IF SingleFile THEN Truncate(1) ELSE UNCHANGED <<size, good>>
          /\ UNCHANGED named
  /\ UNCHANGED <<memory, used>>

create_directory ==
  /\ At("mkdir") /\ Goto("create")
  /\ named' = TRUE
  /\ UNCHANGED <<marker, size, good, memory, used>>

create_file ==
  /\ At("create") /\ Goto("resize")
  /\ Truncate(writer.file)
  /\ UNCHANGED <<marker, named, memory, used>>

\* resize_file fills the file with zeros; then comes the next one.
resize_file ==
  /\ At("resize")
  /\ size' = [size EXCEPT ![writer.file] = "full"]
  /\ writer' = IF writer.file < NumFiles
               THEN [writer EXCEPT !.pc = "create", !.file = @ + 1]
               ELSE [writer EXCEPT !.pc = "verify"]
  /\ UNCHANGED <<marker, named, good, memory, used>>

\* verifyFileSize throws unless each file is as long as it should be; the
\* piece is dropped.
verifyFileSize ==
  /\ At("verify")
  /\ writer' = IF \A f \in Files : size[f] = "full"
               THEN [writer EXCEPT !.pc = "write", !.file = Min(FilesOf[writer.piece])]
               ELSE Off("idle")
  /\ UNCHANGED <<disk, memory, used>>

\* writePiece, file by file.
writePiece ==
  LET more == {f \in FilesOf[writer.piece] : f > writer.file}
  IN /\ At("write")
     /\ good' = good \cup {<<writer.piece, writer.file>>}
     /\ writer' = IF more = {}
                  THEN [writer EXCEPT !.pc = "mark"]
                  ELSE [writer EXCEPT !.file = Min(more)]
     /\ UNCHANGED <<marker, named, size, memory, used>>

\* Any file operation may fail: the exception is logged, the piece dropped.
write_failed ==
  /\ writer.pc \in {"allocate", "mkdir", "create", "resize", "write"}
  /\ used.fails < MaxFails
  /\ used' = [used EXCEPT !.fails = @ + 1]
  /\ writer' = Off("idle")
  /\ UNCHANGED <<disk, memory>>

\* Mutant: done() is asked before the flag is set.
set_piece_written_late ==
  /\ At("mark")
  /\ written' = written \cup {writer.piece}
  /\ writer' = IF client = Pieces /\ written = Pieces
               THEN [writer EXCEPT !.pc = "complete"]
               ELSE Off("idle")
  /\ UNCHANGED <<disk, resumed, client, width, used>>

\* Mutant: pieces received but not written count as done.
set_piece_written_early ==
  /\ At("mark")
  /\ written' = written \cup {writer.piece}
  /\ writer' = IF client = Pieces
               THEN [writer EXCEPT !.pc = "complete"]
               ELSE Off("idle")
  /\ UNCHANGED <<disk, resumed, client, width, used>>

\* set_piece_written, and what done() says then.
set_piece_written ==
  /\ At("mark")
  /\ written' = written \cup {writer.piece}
  /\ writer' = IF client = Pieces /\ written' = Pieces
               THEN [writer EXCEPT !.pc = "complete"]
               ELSE Off("idle")
  /\ UNCHANGED <<disk, resumed, client, width, used>>

\* torrentComplete renames the file, or removes the marker.
torrentComplete ==
  /\ At("complete")
  /\ marker' = FALSE /\ named' = TRUE
  /\ writer' = Off("idle")
  /\ UNCHANGED <<size, good, memory, used>>

-----------------------------------------------------------------------------
Writer == \/ allocate \/ create_directory \/ create_file \/ resize_file
          \/ verifyFileSize \/ writePiece \/ set_piece_written \/ torrentComplete

Download == \E p \in Pieces : receive(p)

Next == start \/ crash \/ Download \/ Writer \/ write_failed

Spec == Init /\ [][Next]_vars

\* The program is started again, remotes send what is asked of them, and the
\* writer keeps running.
FairSpec == Spec /\ WF_vars(start) /\ WF_vars(Download) /\ WF_vars(Writer)

-----------------------------------------------------------------------------
(* Properties *)

TypeOK ==
  /\ marker \in BOOLEAN /\ named \in BOOLEAN /\ resumed \in BOOLEAN
  /\ size \in [Files -> {"none", "zero", "full"}]
  /\ good \subseteq Parts
  /\ client \subseteq Pieces /\ written \subseteq Pieces
  /\ width \in Nat
  /\ writer \in [pc : {"down", "refused", "terminated", "idle", "allocate", "mkdir",
                       "create", "resize", "verify", "write", "mark", "complete"},
                 piece : Pieces, file : Files]
  /\ used \in [crashes : Nat, fails : Nat]

AllocatedAll == \A f \in Files : size[f] = "full"

WholePieces == {p \in Pieces : \A f \in FilesOf[p] : <<p, f>> \in good}

\* A piece the program takes as written is on disk whole, in each of its
\* files, whether it was written since the start or found there.
WrittenIsWhole == written \subseteq WholePieces /\ written \subseteq client

\* The torrent is there under its own name, and not as a download.
Published == named /\ ~marker

\* The files as a Store: whatever crashes, failures and starts come between, no
\* file is created over one that has pieces in it, and what is published is
\* complete and stays (allocate, torrentComplete, verify_existing_file).
Durable == INSTANCE Store WITH stored <- WholePieces, published <- Published

PiecesAreDurable == Durable!STSpec

\* When crashes and failures are over, a download goes on and ends, provided
\* that its files were all made before, that m_client_pieces has a bit for each
\* piece and that a piece is missing (see AllocateMakesSpace, RelevantIsComplete
\* and SuffixMeansTransfer for the other cases).
Running == writer.pc \notin {"down", "refused", "terminated"}

CanResume == /\ used.crashes = MaxCrashes /\ used.fails = MaxFails
             /\ writer.pc = "idle" /\ AllocatedAll
             /\ Pieces \subseteq 0 .. width - 1
             /\ written = client /\ written # Pieces

ResumesToTheEnd == CanResume ~> Published

-----------------------------------------------------------------------------
(* The inductive invariant behind the safety properties *)

Busy == {"allocate", "mkdir", "create", "resize", "verify", "write", "mark"}

\* Files are created only as long as none has a piece: before tmpfile() exists,
\* and right after it was made.
CreatedBeforeWritten ==
  /\ ~marker /\ ~named => good = {}
  /\ resumed => named
  /\ Running /\ ~tmpfile_exists => good = {} \/ written = Pieces
  /\ writer.pc \in {"mkdir", "create", "resize"} => marker /\ ~resumed /\ good = {}
  /\ writer.pc \in {"verify", "write", "mark", "complete"} => tmpfile_exists

\* A torrent that is published is whole, and the program knows.
PublishedIsWhole ==
  /\ writer.pc \in {"write", "mark", "complete"} => AllocatedAll
  /\ Published => /\ WholePieces = Pieces /\ AllocatedAll
                  /\ Running => written = Pieces

\* The writer has a piece that is not written, and is done with the files of it
\* before the one it works on.
WriterHasPiece ==
  /\ writer.pc \in Busy => writer.piece \in client \ written
  /\ writer.pc = "write" => writer.file \in FilesOf[writer.piece]
  /\ writer.pc \in {"write", "mark"} =>
       \A f \in FilesOf[writer.piece] :
         f < writer.file \/ writer.pc = "mark" => <<writer.piece, f>> \in good
  /\ writer.pc = "complete" => written = Pieces

IndInv == TypeOK /\ WrittenIsWhole /\ CreatedBeforeWritten /\ PublishedIsWhole
                 /\ WriterHasPiece

-----------------------------------------------------------------------------
(* What comments of the program say, and the model refutes *)

\* relevant_pieces: what pieces we do not have that a remote has (torrent.hpp).
RelevantIsComplete == writer.pc = "idle" => relevant_pieces = Pieces \ client

\* allocate makes space on disk for the torrent (file_writer.cpp), so its files
\* are there when the piece is to be written.
AllocateMakesSpace == writer.pc = "verify" => AllocatedAll

\* With a file already there, a start scans it and marks the pieces that it
\* has (torrent.cpp).
StartScans == writer.pc # "terminated"

\* The suffix is that of a file during transfer, before completion
\* (torrent.hpp), so that nothing has it when all pieces are written.
SuffixMeansTransfer == (writer.pc = "idle" /\ written = Pieces) => ~marker

\* tmpfile() is the file to which a torrent is written during transfer, for a
\* multi torrent the directory (torrent.hpp); read_block reads blocks from it.
TmpfileHasPieces ==
  (written # {} /\ ~Published) => IF SingleFile THEN tmpfile_exists ELSE resumed

=============================================================================
