------------------------------- MODULE Layout --------------------------------
(***************************************************************************)
(* Where the bytes of a torrent are: pieces of one length, but for the     *)
(* last, laid over a sequence of files.  The writer, the scan at start and *)
(* the read of a block each walk this layout in a loop of their own, with  *)
(* a position that starts as a product of uint32_t.                        *)
(*                                                                         *)
(* A byte is its position in the torrent.  A position is below uint32_t    *)
(* or below int64_t, whichever type the code keeps it in.                  *)
(***************************************************************************)
EXTENDS Integers, Sequences, FiniteSetsExt

CONSTANTS
  uint32_t,       \* how many values the type has
  int64_t,        \* ... and how many that are not negative
  MaxFiles,       \* bound: the files of a torrent
  MaxLength,      \* bound: the length of a file
  MaxPieceLength  \* bound: the piece length

ASSUME LayoutAssumption ==
  /\ uint32_t \in Nat \ {0} /\ int64_t \in Nat \ {0}
  /\ MaxFiles \in Nat \ {0} /\ MaxLength \in Nat /\ MaxPieceLength \in Nat

VARIABLES
  files,           \* the lengths of the files, in order
  m_piece_length,  \* m_piece_length
  content,         \* file and offset -> the byte written there
  pieces_written   \* the pieces written

layout_vars == <<files, m_piece_length, content, pieces_written>>

\* No byte yet.
Zero == -1

\* What a variable of a type keeps of n.
narrow(n, type) == n % type
uint32(n) == narrow(n, uint32_t)

-----------------------------------------------------------------------------
(* Torrent *)

\* Where each file starts, and behind the last one the length of the torrent.
file_starts ==
  LET at[i \in 1 .. Len(files) + 1] == IF i = 1 THEN 0 ELSE at[i - 1] + files[i - 1]
  IN at

file_start(i) == file_starts[i]
length == file_start(Len(files) + 1)

\* The hashes in the torrent file say how many pieces there are.
num_pieces == (length + m_piece_length - 1) \div m_piece_length
PieceIds == 0 .. num_pieces - 1

piece_length(id) ==
  IF id = num_pieces - 1 /\ length % m_piece_length # 0
  THEN length % m_piece_length
  ELSE m_piece_length

Found(pos, i) == [file |-> i, offset |-> pos - file_start(i), left |-> file_start(i + 1) - pos]

\* The file position pos is in, with the bytes left from there; for a position
\* behind the last file it throws.
InTorrent(pos) == pos < length

file_at_pos(pos) == Found(pos, Min({i \in 1 .. Len(files) : pos < file_start(i + 1)}))

\* The loop over the files of the n bytes from pos on: the places they have.
\* The position is kept in a variable of that type.
Places(pos, n, type) ==
  LET walk[r \in 0 .. n] ==
        IF r = 0 THEN <<>>
        ELSE LET at == file_at_pos(narrow(pos + n - r, type))
                 len == Min({r, at.left})
             IN [j \in 1 .. len |-> <<at.file, at.offset + j - 1>>] \o walk[r - len]
  IN walk[n]

\* The loop gets to the end of the torrent and throws.
Leaves(pos, n, type) == \E j \in 0 .. n - 1 : ~InTorrent(narrow(pos + j, type))

-----------------------------------------------------------------------------
Lengths == UNION {[1 .. n -> 0 .. MaxLength] : n \in 1 .. MaxFiles}

LayoutInit ==
  /\ files \in Lengths
  /\ length \in 1 .. int64_t - 1
  /\ m_piece_length \in 1 .. MaxPieceLength
  /\ content = [i \in 1 .. Len(files) |-> [o \in 0 .. files[i] - 1 |-> Zero]]
  /\ pieces_written = {}

\* The bytes of piece id, as received and verified.
Bytes(id) == [j \in 1 .. piece_length(id) |-> id * m_piece_length + j - 1]

\* Mutant: the position does not advance over the files of the piece.
Target_first(id) ==
  LET pos == uint32(id * m_piece_length)
  IN [j \in 1 .. piece_length(id) |->
        <<file_at_pos(pos).file, file_at_pos(pos).offset + j - 1>>]

\* Where the writer puts them.
Target(id) == Places(uint32(id * m_piece_length), piece_length(id), int64_t)

write_piece(id) ==
  /\ ~Leaves(uint32(id * m_piece_length), piece_length(id), int64_t)
  /\ content' = [i \in DOMAIN content |-> [o \in DOMAIN content[i] |->
                LET hits == {j \in DOMAIN Target(id) : Target(id)[j] = <<i, o>>}
                IN IF hits = {} THEN content[i][o] ELSE Bytes(id)[Max(hits)]]]
  /\ pieces_written' = pieces_written \cup {id}
  /\ UNCHANGED <<files, m_piece_length>>

LayoutNext == \E id \in PieceIds : write_piece(id)

LayoutSpec == LayoutInit /\ [][LayoutNext]_layout_vars

-----------------------------------------------------------------------------
(* Reading *)

BytesAt(places) == [j \in DOMAIN places |-> content[places[j][1]][places[j][2]]]

\* Mutant: the scan leaves the last byte out.
scan_size_short(id) == Min({m_piece_length, length - id * m_piece_length}) - 1

\* verify_piece_multi_file reads m_piece_length bytes, or up to the end.
scan_size(id) == Min({m_piece_length, length - uint32(id * m_piece_length)})

verify_piece(id) ==
  BytesAt(Places(uint32(id * m_piece_length), scan_size(id), int64_t)) = Bytes(id)

\* Piece::get_block and FileWriter::read_block: n bytes from an offset in the
\* piece on; the position stays a uint32_t.
read_block(id, offset, n) ==
  BytesAt(Places(uint32(m_piece_length * id + offset), n, uint32_t))

-----------------------------------------------------------------------------
(* Properties *)

\* uint32_t holds where each piece starts.
StartsFit == (num_pieces - 1) * m_piece_length < uint32_t

\* Each byte that was written is at its own place: pieces neither overlap nor
\* leave a gap, at the borders of files and with files of no length too, as long
\* as no start wraps (see WritesAtOffset).
BytesInPlace ==
  StartsFit =>
    \A i \in 1 .. Len(files) : \A o \in 0 .. files[i] - 1 :
      content[i][o] = IF (file_start(i) + o) \div m_piece_length \in pieces_written
                      THEN file_start(i) + o ELSE Zero

\* The scan at the next start finds exactly the pieces that were written.
ScanFindsWritten == \A id \in PieceIds : verify_piece(id) <=> id \in pieces_written

\* A block of a written piece that a remote asks for has the right bytes.
BlocksReadBack ==
  \A id \in pieces_written : \A offset \in 0 .. piece_length(id) - 1 :
    \A n \in 1 .. piece_length(id) - offset :
      read_block(id, offset, n) = [j \in 1 .. n |-> Bytes(id)[offset + j]]

\* The other loops over the files read what the writer's wrote: the scan as long as
\* uint32_t holds where pieces start, blocks if it holds each position.
ReadsBack ==
  (StartsFit => ScanFindsWritten) /\ (length <= uint32_t => BlocksReadBack)

-----------------------------------------------------------------------------
(* What a comment of the program says, and the model refutes *)

\* The writer opens the file and writes the piece at the correct offset
\* (file_writer.cpp), for lengths that an int64_t holds as well.
WritesAtOffset ==
  \A id \in pieces_written : ~Leaves(uint32(id * m_piece_length), piece_length(id), int64_t) =>
    BytesAt(Places(id * m_piece_length, piece_length(id), int64_t)) = Bytes(id)

=============================================================================
