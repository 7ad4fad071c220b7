---------------------------- MODULE StorageProofs ----------------------------
(* Proofs about Storage, for every number of pieces and files, every layout *)
(* of pieces in files, and every number of crashes and failures; and about  *)
(* Layout, for files of any lengths and pieces of any length.               *)
EXTENDS Storage, Layout, TLAPS, WellFoundedInduction

-----------------------------------------------------------------------------
(* Arithmetic *)

\* The smallest of some files is one of them, and no smaller one is.
LEMMA MinOfFiles ==
  ASSUME NEW S, S \subseteq Nat, S # {}
  PROVE  Min(S) \in S /\ \A x \in S : Min(S) =< x
<1> DEFINE R == {ss \in Nat \X Nat : ss[1] < ss[2]}
<1>1. PICK x \in S : \A y \in S : ~(<<y, x>> \in R)
  <2>1. IsWellFoundedOn(R, Nat)
    BY NatLessThanWellFounded, Zenon DEF OpToRel
  <2> HIDE DEF R
  <2>2. QED BY <2>1, WFMin
<1>2. ASSUME NEW y \in S
      PROVE  x =< y
  <2>1. x \in Nat /\ y \in Nat
    OBVIOUS
  <2>2. <<y, x>> \in Nat \X Nat /\ <<y, x>>[1] = y /\ <<y, x>>[2] = x
    BY <2>1
  <2>3. ~(y < x)
    BY <1>1, <2>2
  <2>4. QED BY <2>1, <2>3
<1>3. QED BY <1>2 DEF Min

\* The largest piece of some is one of them.
LEMMA MaxOfPieces ==
  ASSUME NEW S, S \subseteq Pieces, S # {}
  PROVE  Max(S) \in S
<1> DEFINE T == {NumPieces - 1 - x : x \in S}
<1>1. NumPieces \in Nat \ {0}
  BY StorageAssumption
<1>2. T \subseteq Nat /\ T # {}
  BY <1>1 DEF Pieces
<1>3. Min(T) \in T /\ \A t \in T : Min(T) =< t
  BY <1>2, MinOfFiles
<1>4. PICK x \in S : Min(T) = NumPieces - 1 - x
  BY <1>3
<1>5. ASSUME NEW y \in S
      PROVE  x >= y
  <2>1. x \in Int /\ y \in Int /\ NumPieces - 1 - y \in T
    BY DEF Pieces
  <2>2. NumPieces - 1 - x =< NumPieces - 1 - y
    BY <1>3, <1>4, <2>1
  <2>3. QED BY <1>1, <2>1, <2>2
<1>6. QED BY <1>5 DEF Max

LEMMA RoundUpType ==
  ASSUME NEW n \in Nat
  PROVE  RoundUp(n) \in Nat
<1>1. ByteBits \in Nat \ {0}
  BY StorageAssumption
<1>2. (n + ByteBits - 1) \div ByteBits \in Nat
  BY <1>1
<1>3. QED BY <1>1, <1>2 DEF RoundUp

LEMMA WidthTypes ==
  /\ \A S \in SUBSET Pieces : WidthFor(S) \in Nat
  /\ width \in Nat => init_client_pieces \in Nat
<1>1. NumPieces \in Nat
  BY StorageAssumption
<1>2. ASSUME NEW S \in SUBSET Pieces, S # {}
      PROVE  Max(S) + 1 \in Nat
  <2>1. Max(S) \in Pieces
    BY <1>2, MaxOfPieces
  <2>2. QED BY <2>1 DEF Pieces
<1>3. QED BY <1>1, <1>2, RoundUpType DEF WidthFor, init_client_pieces

\* A piece has a file, and its first one is among them.
LEMMA FirstFile ==
  ASSUME NEW p \in Pieces
  PROVE  /\ FilesOf[p] \subseteq Files /\ FilesOf[p] # {} /\ FilesOf[p] \subseteq Nat
         /\ Min(FilesOf[p]) \in FilesOf[p]
         /\ \A f \in FilesOf[p] : ~(f < Min(FilesOf[p]))
<1>1. FilesOf[p] \subseteq Files /\ FilesOf[p] # {} /\ FilesOf[p] \subseteq Nat
  BY StorageAssumption DEF Files
<1>2. Min(FilesOf[p]) \in FilesOf[p] /\ \A f \in FilesOf[p] : Min(FilesOf[p]) =< f
  BY <1>1, MinOfFiles
<1>3. QED BY <1>1, <1>2

\* Without a part on disk there is no whole piece.
LEMMA NoParts ==
  ASSUME good = {}
  PROVE  WholePieces = {}
BY FirstFile DEF WholePieces

-----------------------------------------------------------------------------
(* The invariant *)

LEMMA InitInv == Init => IndInv
<1> SUFFICES ASSUME Init PROVE IndInv
  OBVIOUS
<1> USE DEF Init, Off
<1>1. 0 \in Pieces /\ 1 \in Files
  BY StorageAssumption DEF Pieces, Files
<1>2. TypeOK
  BY <1>1 DEF TypeOK
<1>3. WrittenIsWhole /\ CreatedBeforeWritten /\ PublishedIsWhole
  BY DEF WrittenIsWhole, CreatedBeforeWritten, PublishedIsWhole, Published, Running, AllocatedAll
<1>4. WriterHasPiece
  BY DEF WriterHasPiece, Busy
<1>5. QED BY <1>2, <1>3, <1>4 DEF IndInv

\* Where the program is without a piece to write is a place of the writer.
LEMMA OffType ==
  \A pc : Off(pc).pc = pc /\ Off(pc).piece \in Pieces /\ Off(pc).file \in Files
            /\ Off(pc) = [pc |-> pc, piece |-> Off(pc).piece, file |-> Off(pc).file]
<1>1. 0 \in Pieces /\ 1 \in Files
  BY StorageAssumption DEF Pieces, Files
<1>2. QED BY <1>1 DEF Off

LEMMA StartStep ==
  ASSUME IndInv, start
  PROVE  IndInv'
<1> USE DEF IndInv
<1> DEFINE found == IF Exists THEN verified ELSE {}
<1>1. verified \subseteq WholePieces /\ found \subseteq WholePieces /\ found \subseteq Pieces
  BY DEF verified, WholePieces
<1>2. UNCHANGED <<marker, named, size, good, used>> /\ resumed' = named
      /\ writer.pc = "down"
  BY DEF start, disk
<1>3. CASE Exists /\ (Refuses \/ \E p \in Pieces : Throws(p))
  <2>1. /\ UNCHANGED <<client, width, written>>
        /\ writer' = Off("refused") \/ writer' = Off("terminated")
    BY <1>3 DEF start
  <2>2. writer'.pc \in {"refused", "terminated"}
    BY <2>1, OffType
  <2>3. TypeOK'
    BY <1>2, <2>1, OffType DEF TypeOK
  <2>4. WrittenIsWhole' /\ PublishedIsWhole'
    BY <1>2, <2>1, <2>2
       DEF WrittenIsWhole, PublishedIsWhole, Published, Running, AllocatedAll, WholePieces
  <2>5. CreatedBeforeWritten' /\ WriterHasPiece'
    BY <1>2, <2>1, <2>2 DEF CreatedBeforeWritten, WriterHasPiece, Busy, Running
  <2>6. QED BY <2>3, <2>4, <2>5
<1>4. CASE ~(Exists /\ (Refuses \/ \E p \in Pieces : Throws(p)))
  <2>1. /\ writer' = Off("idle") /\ client' = found /\ written' = found
        /\ width' = WidthFor(found)
    BY <1>4 DEF start
  <2>2. writer'.pc = "idle"
    BY <2>1, OffType
  <2>3. TypeOK'
    BY <1>1, <1>2, <2>1, WidthTypes, OffType DEF TypeOK
  <2>4. WrittenIsWhole'
    BY <1>1, <1>2, <2>1 DEF WrittenIsWhole, WholePieces
  <2>8. PublishedIsWhole'
    <3>1. Published => found = Pieces
      BY FirstFile DEF Published, PublishedIsWhole, Exists, verified, WholePieces, AllocatedAll
    <3>2. WholePieces' = WholePieces /\ AllocatedAll' = AllocatedAll
          /\ Published' = Published
      BY <1>2 DEF WholePieces, AllocatedAll, Published
    <3>3. QED BY <2>1, <2>2, <3>1, <3>2 DEF PublishedIsWhole
  <2>5. WriterHasPiece'
    BY <2>2 DEF WriterHasPiece, Busy
  <2>6. CreatedBeforeWritten'
    BY <1>2, <2>2 DEF CreatedBeforeWritten, Running, tmpfile_exists
  <2>7. QED BY <2>3, <2>4, <2>5, <2>6, <2>8
<1>5. QED BY <1>3, <1>4

LEMMA CrashStep ==
  ASSUME IndInv, crash
  PROVE  IndInv'
<1> USE DEF IndInv
<1>1. /\ UNCHANGED <<marker, named, size, good>>
      /\ resumed' = FALSE /\ client' = {} /\ width' = 0 /\ written' = {}
      /\ writer' = Off("down")
  BY DEF crash, disk
<1>2. writer'.pc = "down"
  BY <1>1, OffType
<1>3. TypeOK'
  <2>1. used' \in [crashes : Nat, fails : Nat]
    BY DEF crash, TypeOK
  <2>2. writer' \in [pc : {"down"}, piece : Pieces, file : Files]
    BY <1>1, OffType
  <2>3. QED BY <1>1, <2>1, <2>2 DEF TypeOK
<1>4. WrittenIsWhole' /\ PublishedIsWhole'
  BY <1>1, <1>2
     DEF WrittenIsWhole, PublishedIsWhole, Published, Running, AllocatedAll, WholePieces
<1>5. CreatedBeforeWritten' /\ WriterHasPiece'
  BY <1>1, <1>2 DEF CreatedBeforeWritten, WriterHasPiece, Busy, Running
<1>6. QED BY <1>3, <1>4, <1>5

LEMMA ReceiveStep ==
  ASSUME IndInv, Download
  PROVE  IndInv'
<1> USE DEF IndInv
<1>1. PICK p \in Pieces : receive(p)
  BY DEF Download
<1>2. /\ UNCHANGED <<marker, named, size, good, resumed, written, used>>
      /\ writer.pc = "idle" /\ p \in Pieces \ client
      /\ client' = client \cup {p} /\ width' = init_client_pieces
      /\ writer' = [pc |-> "allocate", piece |-> p, file |-> 1]
  BY <1>1 DEF receive, disk, relevant_pieces
<1>3. TypeOK'
  <2>1. 1 \in Files
    BY StorageAssumption DEF Files
  <2>2. QED BY <1>2, <2>1, WidthTypes DEF TypeOK
<1>4. WrittenIsWhole' /\ PublishedIsWhole'
  BY <1>2 DEF WrittenIsWhole, PublishedIsWhole, Published, Running, AllocatedAll, WholePieces
<1>5. CreatedBeforeWritten'
  BY <1>2 DEF CreatedBeforeWritten, Running, tmpfile_exists
<1>6. WriterHasPiece'
  BY <1>2 DEF WriterHasPiece, WrittenIsWhole
<1>7. QED BY <1>3, <1>4, <1>5, <1>6

\* The writer goes on to another place, with the same piece and file.
LEMMA GotoFields ==
  ASSUME TypeOK, NEW pc, Goto(pc)
  PROVE  /\ writer'.pc = pc /\ writer'.piece = writer.piece /\ writer'.file = writer.file
         /\ writer' = [pc |-> pc, piece |-> writer.piece, file |-> writer.file]
         /\ writer.piece \in Pieces /\ writer.file \in Files
BY DEF TypeOK, Goto

\* Where a file is created there is nothing on disk to lose.
LEMMA AllocatesNothing ==
  ASSUME IndInv, At("allocate"), ~tmpfile_exists
  PROVE  good = {} /\ ~marker /\ ~resumed
<1>1. written # Pieces
  BY DEF IndInv, WriterHasPiece, Busy, At, TypeOK
<1>2. QED
  BY <1>1 DEF IndInv, CreatedBeforeWritten, Running, At, tmpfile_exists

\* A step of the writer that leaves the parts on disk as they are.
LEMMA SameParts ==
  ASSUME IndInv, UNCHANGED <<good, client, written>>
  PROVE  WrittenIsWhole' /\ WholePieces' = WholePieces
BY DEF IndInv, WrittenIsWhole, WholePieces

LEMMA AllocateStep ==
  ASSUME IndInv, allocate
  PROVE  IndInv'
<1> USE DEF IndInv
<1>1. UNCHANGED memory /\ UNCHANGED used /\ UNCHANGED named /\ At("allocate")
  BY DEF allocate, disk
<1>2. CASE tmpfile_exists
  <2>1. Goto("verify") /\ UNCHANGED <<marker, named, size, good>>
    BY <1>2 DEF allocate, disk
  <2>2. writer'.pc = "verify" /\ writer'.piece = writer.piece
    BY <2>1, GotoFields
  <2>3. TypeOK'
    BY <1>1, <2>1, GotoFields DEF TypeOK, memory
  <2>4. WrittenIsWhole' /\ PublishedIsWhole'
    BY <1>1, <2>1, <2>2, SameParts
       DEF PublishedIsWhole, Published, Running, AllocatedAll, At, memory
  <2>5. CreatedBeforeWritten'
    BY <1>1, <1>2, <2>1, <2>2 DEF CreatedBeforeWritten, Running, tmpfile_exists, memory
  <2>6. WriterHasPiece'
    BY <1>1, <2>2 DEF WriterHasPiece, Busy, At, memory
  <2>7. QED BY <2>3, <2>4, <2>5, <2>6
<1>3. CASE ~tmpfile_exists
  <2>1. good = {} /\ ~resumed
    BY <1>1, <1>3, AllocatesNothing
  <2>2. marker' = TRUE /\ good' = {}
    BY <1>3, <2>1 DEF allocate, Truncate
  <2>3. PICK pc \in {"mkdir", "resize"} : Goto(pc)
    BY <1>3 DEF allocate
  <2>4. writer'.pc = pc /\ writer'.piece = writer.piece
    BY <2>3, GotoFields
  <2>5. size' \in [Files -> {"none", "zero", "full"}]
    BY <1>3 DEF allocate, Truncate, TypeOK
  <2>6. TypeOK'
    BY <1>1, <2>2, <2>3, <2>5, GotoFields DEF TypeOK, memory
  <2>7. WrittenIsWhole' /\ PublishedIsWhole'
    BY <1>1, <2>1, <2>2, <2>4, SameParts DEF PublishedIsWhole, Published, memory
  <2>8. CreatedBeforeWritten'
    BY <1>1, <2>1, <2>2, <2>4 DEF CreatedBeforeWritten, Running, tmpfile_exists, memory
  <2>9. WriterHasPiece'
    BY <1>1, <2>4 DEF WriterHasPiece, Busy, At, memory
  <2>10. QED BY <2>6, <2>7, <2>8, <2>9
<1>4. QED BY <1>2, <1>3

\* Directory and files, which are created while nothing is on disk.
LEMMA CreateStep ==
  ASSUME IndInv, create_directory \/ create_file \/ resize_file
  PROVE  IndInv'
<1> USE DEF IndInv
<1>1. /\ UNCHANGED <<marker, resumed, client, width, written, used>>
      /\ writer.pc \in {"mkdir", "create", "resize"}
  BY DEF create_directory, create_file, resize_file, memory, At
<1>2. marker /\ ~resumed /\ good = {}
  BY <1>1 DEF CreatedBeforeWritten
<1>3. good' = {}
  BY <1>2 DEF create_directory, create_file, resize_file, Truncate
<1>4. /\ writer' \in [pc : {"create", "resize", "verify"}, piece : Pieces, file : Files]
      /\ writer'.piece = writer.piece
  <2>1. CASE resize_file
    <3>1. writer.file < NumFiles => writer.file + 1 \in Files
      BY StorageAssumption DEF TypeOK, Files
    <3>2. QED BY <2>1, <3>1 DEF resize_file, TypeOK
  <2>2. CASE create_directory \/ create_file
    BY <2>2, GotoFields DEF create_directory, create_file
  <2>3. QED BY <2>1, <2>2
<1>5. size' \in [Files -> {"none", "zero", "full"}] /\ named' \in BOOLEAN
  BY DEF create_directory, create_file, resize_file, Truncate, TypeOK
<1>6. TypeOK'
  BY <1>1, <1>3, <1>4, <1>5 DEF TypeOK
<1>7. WrittenIsWhole' /\ PublishedIsWhole'
  BY <1>1, <1>2, <1>3, <1>4, SameParts DEF PublishedIsWhole, Published
<1>8. CreatedBeforeWritten'
  BY <1>1, <1>2, <1>3, <1>4 DEF CreatedBeforeWritten, Running, tmpfile_exists
<1>9. WriterHasPiece'
  BY <1>1, <1>4 DEF WriterHasPiece, Busy
<1>10. QED BY <1>6, <1>7, <1>8, <1>9

LEMMA VerifyStep ==
  ASSUME IndInv, verifyFileSize
  PROVE  IndInv'
<1> USE DEF IndInv
<1>1. UNCHANGED <<marker, named, size, good, resumed, client, width, written, used>>
      /\ writer.pc = "verify" /\ writer.piece \in Pieces
  BY DEF verifyFileSize, disk, memory, At, TypeOK
<1>2. tmpfile_exists' /\ tmpfile_exists
  BY <1>1 DEF CreatedBeforeWritten, tmpfile_exists
<1>3. /\ WrittenIsWhole' /\ WholePieces' = WholePieces
      /\ AllocatedAll' = AllocatedAll /\ Published' = Published
  BY <1>1, SameParts DEF Published, AllocatedAll
<1>4. CASE writer' = [writer EXCEPT !.pc = "write", !.file = Min(FilesOf[writer.piece])]
  <2>1. /\ writer' = [pc |-> "write", piece |-> writer.piece,
                      file |-> Min(FilesOf[writer.piece])]
    BY <1>4 DEF TypeOK
  <2>2. TypeOK'
    BY <1>1, <2>1, FirstFile DEF TypeOK
  <2>3. CreatedBeforeWritten'
    BY <1>1, <1>2, <2>1 DEF CreatedBeforeWritten, Running
  <2>4. WriterHasPiece'
    BY <1>1, <2>1, FirstFile DEF WriterHasPiece, Busy
  <2>5. PublishedIsWhole'
    <3>1. AllocatedAll
      BY <2>1, OffType DEF verifyFileSize, AllocatedAll
    <3>2. QED BY <1>1, <1>3, <2>1, <3>1 DEF PublishedIsWhole, Running
  <2>6. QED BY <1>3, <2>2, <2>3, <2>4, <2>5
<1>5. CASE writer' = Off("idle")
  <2>1. TypeOK'
    BY <1>1, <1>5, OffType DEF TypeOK
  <2>2. CreatedBeforeWritten' /\ WriterHasPiece'
    BY <1>1, <1>2, <1>5, OffType DEF CreatedBeforeWritten, Running, WriterHasPiece, Busy
  <2>3. PublishedIsWhole'
    BY <1>1, <1>3, <1>5, OffType DEF PublishedIsWhole, Running
  <2>4. QED BY <1>3, <2>1, <2>2, <2>3
<1>6. QED BY <1>4, <1>5 DEF verifyFileSize

\* A part more on disk.
LEMMA WriteStep ==
  ASSUME IndInv, writePiece
  PROVE  IndInv' /\ WholePieces \subseteq WholePieces'
                 /\ WholePieces' \subseteq WholePieces \cup {writer.piece}
<1> USE DEF IndInv
<1> DEFINE more == {f \in FilesOf[writer.piece] : f > writer.file}
<1>1. UNCHANGED <<marker, named, size, resumed, client, width, written, used>>
      /\ writer.pc = "write" /\ good' = good \cup {<<writer.piece, writer.file>>}
  BY DEF writePiece, memory, At
<1>2. writer.piece \in client \ written /\ writer.piece \in Pieces
      /\ writer.file \in FilesOf[writer.piece] /\ writer.file \in Files
  BY <1>1 DEF WriterHasPiece, Busy, TypeOK
<1>3. FilesOf[writer.piece] \subseteq Files /\ FilesOf[writer.piece] \subseteq Nat
  BY <1>2, FirstFile
<1>4. tmpfile_exists' /\ tmpfile_exists
  BY <1>1 DEF CreatedBeforeWritten, tmpfile_exists
<1>5. ~Published
  BY <1>1, <1>2 DEF Published, PublishedIsWhole, Running
<1>6. /\ WholePieces \subseteq WholePieces'
      /\ WholePieces' \subseteq WholePieces \cup {writer.piece}
  <2>1. \A p \in Pieces \ {writer.piece} : \A f \in FilesOf[p] :
          <<p, f>> \in good' <=> <<p, f>> \in good
    BY <1>1
  <2>2. QED BY <1>1, <2>1 DEF WholePieces
<1>7. good' \subseteq Parts
  BY <1>1, <1>2 DEF Parts, TypeOK
<1>8. WrittenIsWhole'
  BY <1>1, <1>6 DEF WrittenIsWhole
<1>9. CASE more = {}
  <2>1. writer' = [pc |-> "mark", piece |-> writer.piece, file |-> writer.file]
    BY <1>9 DEF writePiece, TypeOK
  <2>2. \A f \in FilesOf[writer.piece] : <<writer.piece, f>> \in good'
    <3> SUFFICES ASSUME NEW f \in FilesOf[writer.piece]
                 PROVE  <<writer.piece, f>> \in good'
      OBVIOUS
    <3>1. f \in Nat /\ writer.file \in Nat /\ ~(f > writer.file)
      BY <1>2, <1>3, <1>9
    <3>2. f < writer.file \/ f = writer.file
      BY <3>1
    <3>3. QED BY <1>1, <3>2 DEF WriterHasPiece
  <2>3. TypeOK'
    BY <1>1, <1>2, <1>7, <2>1 DEF TypeOK
  <2>4. CreatedBeforeWritten' /\ PublishedIsWhole'
    BY <1>1, <1>4, <1>5, <2>1
       DEF CreatedBeforeWritten, PublishedIsWhole, Published, Running, AllocatedAll,
           tmpfile_exists
  <2>5. WriterHasPiece'
    BY <1>1, <1>2, <2>1, <2>2 DEF WriterHasPiece, Busy
  <2>6. QED BY <1>6, <1>8, <2>3, <2>4, <2>5
<1>10. CASE more # {}
  <2>1. /\ Min(more) \in more
        /\ \A f \in FilesOf[writer.piece] : f < Min(more) => ~(f > writer.file)
    <3>1. more \subseteq Nat
      BY <1>3
    <3>2. Min(more) \in more /\ \A f \in more : Min(more) =< f
      BY <1>10, <3>1, MinOfFiles
    <3>3. ASSUME NEW f \in FilesOf[writer.piece], f < Min(more), f > writer.file
          PROVE  FALSE
      <4>1. f \in more /\ f \in Nat /\ Min(more) \in Nat
        BY <1>3, <3>1, <3>2, <3>3
      <4>2. Min(more) =< f
        BY <3>2, <4>1
      <4>3. QED BY <3>3, <4>1, <4>2
    <3>4. QED BY <3>2, <3>3
  <2>2. writer' = [pc |-> "write", piece |-> writer.piece, file |-> Min(more)]
    BY <1>1, <1>10 DEF writePiece, TypeOK
  <2>3. TypeOK'
    BY <1>1, <1>2, <1>3, <1>7, <2>1, <2>2 DEF TypeOK
  <2>4. CreatedBeforeWritten' /\ PublishedIsWhole'
    BY <1>1, <1>4, <1>5, <2>2
       DEF CreatedBeforeWritten, PublishedIsWhole, Published, Running, AllocatedAll,
           tmpfile_exists
  <2>5. WriterHasPiece'
    <3>1. ASSUME NEW f \in FilesOf[writer.piece], f < Min(more)
          PROVE  <<writer.piece, f>> \in good'
      <4>1. f \in Nat /\ writer.file \in Nat /\ ~(f > writer.file)
        BY <1>2, <1>3, <2>1, <3>1
      <4>2. f < writer.file \/ f = writer.file
        BY <4>1
      <4>3. QED BY <1>1, <4>2 DEF WriterHasPiece
    <3>2. QED BY <1>1, <1>2, <2>1, <2>2, <3>1 DEF WriterHasPiece, Busy
  <2>6. QED BY <1>6, <1>8, <2>3, <2>4, <2>5
<1>11. QED BY <1>9, <1>10

LEMMA FailStep ==
  ASSUME IndInv, write_failed
  PROVE  IndInv'
<1> USE DEF IndInv
<1>1. /\ UNCHANGED <<marker, named, size, good, resumed, client, width, written>>
      /\ writer' = Off("idle") /\ writer.pc \in Busy
  BY DEF write_failed, disk, memory, Busy
<1>2. writer'.pc = "idle"
  BY <1>1, OffType
<1>3. used' \in [crashes : Nat, fails : Nat]
  BY DEF write_failed, TypeOK
<1>4. TypeOK'
  BY <1>1, <1>3, OffType DEF TypeOK
<1>5. WrittenIsWhole' /\ PublishedIsWhole'
  BY <1>1, <1>2, SameParts
     DEF PublishedIsWhole, Published, Running, AllocatedAll, Busy
<1>6. CreatedBeforeWritten' /\ WriterHasPiece'
  BY <1>1, <1>2 DEF CreatedBeforeWritten, Running, tmpfile_exists, WriterHasPiece, Busy
<1>7. QED BY <1>4, <1>5, <1>6

LEMMA MarkStep ==
  ASSUME IndInv, set_piece_written
  PROVE  IndInv'
<1> USE DEF IndInv
<1>1. /\ UNCHANGED <<marker, named, size, good, resumed, client, width, used>>
      /\ writer.pc = "mark" /\ written' = written \cup {writer.piece}
      /\ writer.piece \in client \ written /\ writer.piece \in Pieces
  BY DEF set_piece_written, disk, At, WriterHasPiece, Busy, TypeOK
<1>2. writer.piece \in WholePieces
  BY <1>1 DEF WriterHasPiece, WholePieces
<1>3. WrittenIsWhole' /\ WholePieces' = WholePieces
  BY <1>1, <1>2 DEF WrittenIsWhole, WholePieces
<1>4. PICK pc \in {"complete", "idle"} :
        /\ writer'.pc = pc /\ writer'.piece \in Pieces /\ writer'.file \in Files
        /\ writer' = [pc |-> pc, piece |-> writer'.piece, file |-> writer'.file]
        /\ pc = "complete" => written' = Pieces
  <2>1. CASE client = Pieces /\ written' = Pieces
    BY <2>1 DEF set_piece_written, TypeOK
  <2>2. CASE ~(client = Pieces /\ written' = Pieces)
    BY <2>2, OffType DEF set_piece_written
  <2>3. QED BY <2>1, <2>2
<1>5. TypeOK'
  BY <1>1, <1>4 DEF TypeOK
<1>6. ~Published /\ tmpfile_exists
  BY <1>1 DEF PublishedIsWhole, Running, CreatedBeforeWritten
<1>7. PublishedIsWhole' /\ CreatedBeforeWritten'
  BY <1>1, <1>4, <1>6
     DEF PublishedIsWhole, Published, Running, AllocatedAll, CreatedBeforeWritten,
         tmpfile_exists
<1>8. WriterHasPiece'
  BY <1>1, <1>4 DEF WriterHasPiece, Busy
<1>9. QED BY <1>3, <1>5, <1>7, <1>8

LEMMA CompleteStep ==
  ASSUME IndInv, torrentComplete
  PROVE  IndInv' /\ WholePieces = Pieces /\ WholePieces' = Pieces /\ Published'
<1> USE DEF IndInv
<1>1. /\ UNCHANGED <<size, good, resumed, client, width, written, used>>
      /\ writer.pc = "complete" /\ marker' = FALSE /\ named' = TRUE
      /\ writer' = Off("idle")
  BY DEF torrentComplete, memory, At
<1>2. writer'.pc = "idle"
  BY <1>1, OffType
<1>3. WrittenIsWhole' /\ WholePieces' = WholePieces
  BY <1>1, SameParts
<1>4. written = Pieces /\ AllocatedAll
  BY <1>1 DEF WriterHasPiece, PublishedIsWhole
<1>5. WholePieces = Pieces
  BY <1>4 DEF WrittenIsWhole, WholePieces
<1>6. TypeOK'
  <2>1. writer' \in [pc : {"idle"}, piece : Pieces, file : Files]
    BY <1>1, OffType
  <2>2. QED BY <1>1, <2>1 DEF TypeOK
<1>7. PublishedIsWhole' /\ Published'
  BY <1>1, <1>2, <1>3, <1>4, <1>5 DEF PublishedIsWhole, Published, Running, AllocatedAll
<1>8. CreatedBeforeWritten' /\ WriterHasPiece'
  BY <1>1, <1>2, <1>4 DEF CreatedBeforeWritten, Running, tmpfile_exists, WriterHasPiece, Busy
<1>9. QED BY <1>3, <1>5, <1>6, <1>7, <1>8

-----------------------------------------------------------------------------
(* Theorems *)

LEMMA NextInv ==
  ASSUME IndInv, [Next]_vars
  PROVE  IndInv'
<1>1. CASE UNCHANGED vars
  BY <1>1 DEF vars, disk, memory, IndInv, TypeOK, WrittenIsWhole, CreatedBeforeWritten,
              PublishedIsWhole, Published, Running, AllocatedAll, WriterHasPiece, Busy,
              tmpfile_exists, WholePieces
<1>2. CASE Next
  BY <1>2, StartStep, CrashStep, ReceiveStep, AllocateStep, CreateStep, VerifyStep,
     WriteStep, FailStep, MarkStep, CompleteStep DEF Next, Writer
<1>3. QED BY <1>1, <1>2

\* In every state the variables have their types and files, memory and writer
\* fit together.
THEOREM StorageInvariance == Spec => []IndInv
BY InitInv, NextInv, PTL DEF Spec

\* What the program takes as written is on disk, over all crashes and starts.
THEOREM WrittenPiecesAreWhole == Spec => []WrittenIsWhole
<1>1. IndInv => WrittenIsWhole
  BY DEF IndInv
<1>2. QED BY <1>1, StorageInvariance, PTL

\* A step keeps the pieces stored, adds the one that is being written, or
\* publishes them when they are all there.
LEMMA DurableStep ==
  ASSUME IndInv, [Next]_vars
  PROVE  [Durable!STNext]_(Durable!stvars)
<1>1. CASE UNCHANGED <<good, marker, named>>
  BY <1>1 DEF Durable!stvars, WholePieces, Published
<1>2. CASE allocate /\ ~tmpfile_exists
  <2>1. good = {} /\ ~marker /\ ~resumed /\ written # Pieces /\ Running
    BY <1>2, AllocatesNothing DEF allocate, At, Running, IndInv, WriterHasPiece, Busy, TypeOK
  <2>2. good' = {} /\ marker' = TRUE
    BY <1>2, <2>1 DEF allocate, Truncate
  <2>3. ~Published /\ ~Published'
    BY <2>1, <2>2 DEF IndInv, PublishedIsWhole, Published
  <2>4. WholePieces' = WholePieces
    BY <2>1, <2>2 DEF WholePieces
  <2>5. QED BY <2>3, <2>4 DEF Durable!stvars, Published
<1>3. CASE create_directory \/ create_file \/ resize_file
  <2>1. marker /\ good = {}
    BY <1>3 DEF create_directory, create_file, resize_file, At, IndInv, CreatedBeforeWritten
  <2>2. marker' /\ good' = {}
    BY <1>3, <2>1 DEF create_directory, create_file, resize_file, Truncate
  <2>3. WholePieces' = WholePieces
    BY <2>1, <2>2 DEF WholePieces
  <2>4. QED BY <2>1, <2>2, <2>3 DEF Durable!stvars, Published
<1>4. CASE writePiece
  <2>1. /\ WholePieces \subseteq WholePieces'
        /\ WholePieces' \subseteq WholePieces \cup {writer.piece}
    BY <1>4, WriteStep
  <2>2. UNCHANGED <<marker, named>> /\ writer.pc = "write"
    BY <1>4 DEF writePiece, At
  <2>3. writer.piece \in Pieces /\ ~Published
    BY <2>2 DEF IndInv, TypeOK, PublishedIsWhole, Running, WriterHasPiece, Busy
  <2>4. ~Published'
    BY <2>2, <2>3 DEF Published
  <2>5. CASE WholePieces' = WholePieces
    BY <2>3, <2>4, <2>5 DEF Durable!stvars, Published
  <2>6. CASE WholePieces' = WholePieces \cup {writer.piece}
    BY <2>3, <2>4, <2>6 DEF Durable!STNext, Durable!Save, Published
  <2>7. QED BY <2>1, <2>5, <2>6
<1>5. CASE torrentComplete
  BY <1>5, CompleteStep DEF Durable!STNext, Durable!Publish, Published
<1>6. QED
  BY <1>1, <1>2, <1>3, <1>4, <1>5
     DEF Next, Writer, Download, vars, disk, start, crash, receive, allocate,
         verifyFileSize, write_failed, set_piece_written

\* The files of a torrent are a Store.
THEOREM StorageIsDurable == Spec => PiecesAreDurable
<1>1. Init => Durable!STInit
  BY NoParts DEF Init, Durable!STInit, Published
<1>2. QED
  BY <1>1, DurableStep, StorageInvariance, PTL DEF Spec, PiecesAreDurable, Durable!STSpec

-----------------------------------------------------------------------------
(* Induction *)

LEMMA Induction ==
  ASSUME NEW T, 0 \in T, \A n \in Nat : n \in T => n + 1 \in T
  PROVE  Nat \subseteq T
<1>1. SUFFICES ASSUME Nat \ T # {} PROVE FALSE
  OBVIOUS
<1>2. PICK n \in Nat \ T : \A m \in Nat \ T : n =< m
  <2>1. Min(Nat \ T) \in Nat \ T /\ \A m \in Nat \ T : Min(Nat \ T) =< m
    BY <1>1, MinOfFiles
  <2> QED BY <2>1
<1>3. n # 0 /\ n - 1 \in Nat /\ n - 1 \in T
  BY <1>2
<1> QED BY <1>2, <1>3

-----------------------------------------------------------------------------
(* Where files start *)

LEMMA StartsExist ==
  ASSUME NEW s \in Seq(Nat)
  PROVE  \E g : g = [i \in 1 .. Len(s) + 1 |-> IF i = 1 THEN 0 ELSE g[i - 1] + s[i - 1]]
<1> DEFINE N == Len(s)
           To(n, g) == g = [i \in 1 .. n + 1 |-> IF i = 1 THEN 0 ELSE g[i - 1] + s[i - 1]]
           T == {n \in Nat : n <= N => \E g : To(n, g)}
<1>1. N \in Nat
  OBVIOUS
<1>2. 0 \in T
  <2>1. To(0, [i \in 1 .. 1 |-> 0])
    OBVIOUS
  <2> QED BY <2>1
<1>3. ASSUME NEW n \in Nat, n \in T PROVE n + 1 \in T
  <2> SUFFICES ASSUME n + 1 <= N PROVE \E g : To(n + 1, g)
    OBVIOUS
  <2>1. n <= N
    BY <1>1
  <2>2. PICK g : To(n, g)
    BY <1>3, <2>1
  <2> DEFINE h == [i \in 1 .. n + 2 |-> IF i = n + 2 THEN g[n + 1] + s[n + 1] ELSE g[i]]
  <2>3. /\ \A i \in 1 .. n + 1 : h[i] = g[i]
        /\ h[n + 2] = g[n + 1] + s[n + 1]
        /\ \A i \in 1 .. n + 1 : g[i] = IF i = 1 THEN 0 ELSE g[i - 1] + s[i - 1]
        /\ h = [i \in 1 .. n + 2 |-> h[i]]
    BY <2>2
  <2> HIDE DEF h
  <2>4. ASSUME NEW i \in 1 .. n + 2
        PROVE  h[i] = IF i = 1 THEN 0 ELSE h[i - 1] + s[i - 1]
    <3>1. CASE i = n + 2
      <4>1. i # 1 /\ i - 1 = n + 1 /\ n + 1 \in 1 .. n + 1
        BY <3>1
      <4>2. h[n + 1] = g[n + 1] /\ h[i] = g[n + 1] + s[n + 1]
        BY <2>3, <3>1, <4>1
      <4>3. h[i - 1] = g[n + 1] /\ s[i - 1] = s[n + 1]
        BY <4>1, <4>2
      <4> QED BY <4>1, <4>2, <4>3
    <3>2. CASE i # n + 2
      <4>1. i \in 1 .. n + 1 /\ (i # 1 => i - 1 \in 1 .. n + 1)
        BY <3>2
      <4> QED BY <2>3, <4>1
    <3> QED BY <3>1, <3>2
  <2>5. (n + 1) + 1 = n + 2
    OBVIOUS
  <2>6. To(n + 1, h)
    BY <2>3, <2>4, <2>5
  <2> QED BY <2>6
<1>4. Nat \subseteq T
  <2> HIDE DEF T
  <2> QED BY <1>2, <1>3, Induction
<1> QED BY <1>1, <1>4

LEMMA StartsAre ==
  ASSUME files \in Seq(Nat)
  PROVE  \A i \in 1 .. Len(files) + 1 :
           file_start(i) = IF i = 1 THEN 0 ELSE file_start(i - 1) + files[i - 1]
<1>1. \E g : g = [i \in 1 .. Len(files) + 1 |-> IF i = 1 THEN 0 ELSE g[i - 1] + files[i - 1]]
  BY StartsExist
<1>2. file_starts = [i \in 1 .. Len(files) + 1 |->
                       IF i = 1 THEN 0 ELSE file_starts[i - 1] + files[i - 1]]
  BY <1>1 DEF file_starts
<1> QED BY <1>2 DEF file_start

\* Files are one behind the other.
LEMMA FilesInOrder ==
  ASSUME files \in Seq(Nat)
  PROVE  /\ file_start(1) = 0
         /\ \A i \in 1 .. Len(files) : file_start(i + 1) = file_start(i) + files[i]
         /\ \A i \in 1 .. Len(files) + 1 : file_start(i) \in Nat
         /\ \A i \in 1 .. Len(files), k \in 1 .. Len(files) + 1 :
              i < k => file_start(i) + files[i] <= file_start(k)
<1> DEFINE N == Len(files)
<1>1. N \in Nat /\ \A i \in 1 .. N : files[i] \in Nat
  OBVIOUS
<1>2. file_start(1) = 0
  <2>1. 1 \in 1 .. N + 1
    BY <1>1
  <2> QED BY <2>1, StartsAre
<1>3. \A i \in 1 .. N : file_start(i + 1) = file_start(i) + files[i]
  <2> SUFFICES ASSUME NEW i \in 1 .. N PROVE file_start(i + 1) = file_start(i) + files[i]
    OBVIOUS
  <2>1. i + 1 \in 1 .. N + 1 /\ i + 1 # 1 /\ (i + 1) - 1 = i
    BY <1>1
  <2>2. file_start(i + 1) = IF i + 1 = 1 THEN 0 ELSE file_start((i + 1) - 1) + files[(i + 1) - 1]
    BY <2>1, StartsAre
  <2> QED BY <2>1, <2>2
<1> DEFINE Good(k) == /\ \A i \in 1 .. k : file_start(i) \in Nat
                      /\ \A i \in 1 .. N : i < k => file_start(i) + files[i] <= file_start(k)
           T == {k \in Nat : k <= N => Good(k + 1)}
<1> HIDE DEF N
<1>4. Good(0 + 1)
  <2>1. \A i \in 1 .. 1 : i = 1
    OBVIOUS
  <2> QED BY <1>2, <2>1
<1>5. ASSUME NEW k \in Nat, k \in T PROVE k + 1 \in T
  <2> SUFFICES ASSUME k + 1 <= N PROVE Good(k + 2)
    <3>1. (k + 1) + 1 = k + 2
      OBVIOUS
    <3> QED BY <3>1
  <2>1. Good(k + 1) /\ k + 1 \in 1 .. N
    BY <1>1, <1>5
  <2>2. file_start(k + 2) = file_start(k + 1) + files[k + 1] /\ files[k + 1] \in Nat
    <3>1. (k + 1) + 1 = k + 2
      OBVIOUS
    <3> QED BY <1>1, <1>3, <2>1, <3>1
  <2>3. \A i \in 1 .. k + 2 : file_start(i) \in Nat
    <3>1. k + 1 \in 1 .. k + 1 /\ \A i \in 1 .. k + 2 : i = k + 2 \/ i \in 1 .. k + 1
      OBVIOUS
    <3> QED BY <2>1, <2>2, <3>1
  <2>4. ASSUME NEW i \in 1 .. N, i < k + 2 PROVE file_start(i) + files[i] <= file_start(k + 2)
    <3>1. CASE i = k + 1
      <4>1. k + 1 \in 1 .. k + 2 /\ k + 2 \in 1 .. k + 2
        OBVIOUS
      <4> QED BY <2>2, <2>3, <3>1, <4>1
    <3>2. CASE i # k + 1
      <4>1. i < k + 1
        BY <2>4, <3>2, <1>1
      <4>2. file_start(i) + files[i] <= file_start(k + 1)
        BY <2>1, <4>1
      <4>3. file_start(i) \in Nat /\ files[i] \in Nat
        <5>1. i \in 1 .. k + 2
          BY <1>1, <2>4
        <5> QED BY <1>1, <2>3, <5>1
      <4>4. file_start(k + 1) \in Nat /\ file_start(k + 2) \in Nat
        <5>1. k + 1 \in 1 .. k + 2 /\ k + 2 \in 1 .. k + 2
          OBVIOUS
        <5> QED BY <2>3, <5>1
      <4> QED BY <2>2, <4>2, <4>3, <4>4
    <3> QED BY <3>1, <3>2
  <2> QED BY <2>3, <2>4
<1>6. Nat \subseteq T
  <2>1. 0 \in T
    BY <1>4
  <2> HIDE DEF T
  <2> QED BY <1>5, <2>1, Induction
<1>7. \A k \in 1 .. N + 1 : Good(k)
  <2> SUFFICES ASSUME NEW k \in 1 .. N + 1 PROVE Good(k)
    OBVIOUS
  <2>1. k - 1 \in Nat /\ k - 1 <= N /\ (k - 1) + 1 = k
    BY <1>1
  <2>2. k - 1 \in T
    BY <1>6, <2>1
  <2>3. Good((k - 1) + 1)
    BY <2>1, <2>2
  <2> HIDE DEF Good
  <2> QED BY <2>1, <2>3
<1>8. \A k \in 1 .. N + 1 : file_start(k) \in Nat
  <2>1. \A k \in 1 .. N + 1 : k \in 1 .. k
    BY <1>1
  <2> QED BY <1>7, <2>1
<1> QED BY <1>2, <1>3, <1>7, <1>8 DEF N

-----------------------------------------------------------------------------
(* The place of a position *)

\* A place of a byte that is in a file.
IsPlace(place, p) ==
  \E i \in 1 .. Len(files) : \E o \in 0 .. files[i] - 1 :
    place = <<i, o>> /\ file_start(i) + o = p

LEMMA OnePlace ==
  ASSUME files \in Seq(Nat),
         NEW i \in 1 .. Len(files), NEW o \in 0 .. files[i] - 1,
         NEW k \in 1 .. Len(files), NEW q \in 0 .. files[k] - 1,
         file_start(i) + o = file_start(k) + q
  PROVE  i = k /\ o = q
<1>1. /\ file_start(i) \in Nat /\ file_start(k) \in Nat
      /\ files[i] \in Nat /\ files[k] \in Nat /\ Len(files) \in Nat
      /\ (i < k => file_start(i) + files[i] <= file_start(k))
      /\ (k < i => file_start(k) + files[k] <= file_start(i))
  <2>1. /\ i \in 1 .. Len(files) + 1 /\ k \in 1 .. Len(files) + 1
        /\ files[i] \in Nat /\ files[k] \in Nat /\ Len(files) \in Nat
    OBVIOUS
  <2> QED BY <2>1, FilesInOrder
<1>2. i \in Nat /\ k \in Nat /\ o \in Nat /\ q \in Nat /\ o < files[i] /\ q < files[k]
  BY <1>1
<1> DEFINE s == file_start(i)
           t == file_start(k)
           m == files[i]
           n == files[k]
<1>3. /\ s \in Nat /\ t \in Nat /\ m \in Nat /\ n \in Nat /\ s + o = t + q /\ o < m /\ q < n
      /\ (i < k => s + m <= t) /\ (k < i => t + n <= s)
  BY <1>1, <1>2
<1>4. i = k
  <2> HIDE DEF s, t, m, n
  <2>1. ~ (i < k) /\ ~ (k < i)
    BY <1>2, <1>3
  <2>2. i \in Nat /\ k \in Nat
    BY <1>2
  <2> QED BY ONLY <2>1, <2>2
<1>5. o = q
  BY <1>1, <1>2, <1>4
<1> QED BY <1>4, <1>5

\* Where each byte is, and that it is in the torrent.
LEMMA PlaceInTorrent ==
  ASSUME files \in Seq(Nat), NEW i \in 1 .. Len(files), NEW o \in 0 .. files[i] - 1
  PROVE  file_start(i) + o \in Nat /\ file_start(i) + o < length
<1>1. /\ i \in 1 .. Len(files) + 1 /\ Len(files) + 1 \in 1 .. Len(files) + 1
      /\ files[i] \in Nat /\ o \in Nat /\ o < files[i] /\ i < Len(files) + 1
  OBVIOUS
<1>2. /\ file_start(i) \in Nat /\ file_start(Len(files) + 1) \in Nat
      /\ file_start(i) + files[i] <= file_start(Len(files) + 1)
  BY <1>1, FilesInOrder
<1> QED BY <1>1, <1>2 DEF length

\* file_at_pos finds the file that a position is in.
LEMMA FileAt ==
  ASSUME files \in Seq(Nat), NEW p \in Nat, p < length
  PROVE  \E i \in 1 .. Len(files) : \E o \in 0 .. files[i] - 1 :
           /\ file_start(i) + o = p
           /\ file_at_pos(p) = [file |-> i, offset |-> o, left |-> files[i] - o]
<1> DEFINE N == Len(files)
           S == {i \in 1 .. N : p < file_start(i + 1)}
<1>1. N \in Nat /\ \A i \in 1 .. N : files[i] \in Nat
  OBVIOUS
<1>2. /\ file_start(1) = 0
      /\ \A i \in 1 .. N : file_start(i + 1) = file_start(i) + files[i]
      /\ \A i \in 1 .. N + 1 : file_start(i) \in Nat
  BY FilesInOrder
<1>3. p < file_start(N + 1)
  BY DEF length
<1> HIDE DEF N
<1>4. N \in S
  <2>1. N # 0
    BY <1>2, <1>3
  <2> QED BY <1>1, <1>3, <2>1
<1>5. S \subseteq Nat /\ S # {}
  <2>1. \A i \in 1 .. N : i \in Nat
    BY <1>1
  <2> QED BY <1>4, <2>1
<1> DEFINE m == Min(S)
<1>6. m \in S /\ \A i \in S : m =< i
  <2> HIDE DEF S
  <2> QED BY <1>5, MinOfFiles
<1>7. file_at_pos(p) = Found(p, m)
  BY DEF file_at_pos, N
<1> HIDE DEF m
<1>8. m \in 1 .. N /\ p < file_start(m + 1)
  BY <1>6
<1>9. file_start(m) <= p
  <2>1. CASE m = 1
    BY <1>2, <2>1
  <2>2. CASE m # 1
    <3>1. m - 1 \in 1 .. N /\ (m - 1) + 1 = m /\ ~ (m =< m - 1)
      BY <1>1, <1>8, <2>2
    <3>2. ~ (p < file_start(m))
      BY <1>6, <3>1
    <3>3. m \in 1 .. N + 1
      BY <1>1, <1>8
    <3> QED BY <1>2, <3>2, <3>3
  <2> QED BY <2>1, <2>2
<1>10. /\ file_start(m) \in Nat /\ file_start(m + 1) = file_start(m) + files[m]
       /\ files[m] \in Nat
  <2>1. m \in 1 .. N + 1
    BY <1>1, <1>8
  <2> QED BY <1>1, <1>2, <1>8, <2>1
<1>11. /\ p - file_start(m) \in 0 .. files[m] - 1
       /\ file_start(m) + (p - file_start(m)) = p
       /\ file_start(m + 1) - p = files[m] - (p - file_start(m))
  BY <1>8, <1>9, <1>10
<1>12. file_at_pos(p) = [file |-> m, offset |-> p - file_start(m),
                         left |-> files[m] - (p - file_start(m))]
  BY <1>7, <1>11 DEF Found
<1> QED BY <1>8, <1>11, <1>12 DEF N

-----------------------------------------------------------------------------
(* The loop over the files *)

LEMMA Joined ==
  ASSUME NEW S, NEW a \in Seq(S), NEW b \in Seq(S)
  PROVE  /\ a \o b \in Seq(S) /\ Len(a \o b) = Len(a) + Len(b)
         /\ \A j \in 1 .. Len(a) : (a \o b)[j] = a[j]
         /\ \A j \in Len(a) + 1 .. Len(a) + Len(b) : (a \o b)[j] = b[j - Len(a)]
OBVIOUS

\* A function that a loop of n steps stands for.
Walked(n, len, part, g) ==
  g = [r \in 0 .. n |-> IF r = 0 THEN <<>> ELSE part[r] \o g[r - len[r]]]

LEMMA WalkExists ==
  ASSUME NEW n \in Nat, NEW len \in [1 .. n -> Nat \ {0}], \A r \in 1 .. n : len[r] <= r,
         NEW part
  PROVE  \E g : Walked(n, len, part, g)
<1> DEFINE More(r, rest) == part[r] \o rest
           To(m, g) == g = [r \in 0 .. m |-> IF r = 0 THEN <<>> ELSE More(r, g[r - len[r]])]
           T == {m \in Nat : m <= n => \E g : To(m, g)}
<1> HIDE DEF More
<1>1. 0 \in T
  <2>1. To(0, [r \in 0 .. 0 |-> <<>>])
    OBVIOUS
  <2> QED BY <2>1
<1>2. ASSUME NEW m \in Nat, m \in T PROVE m + 1 \in T
  <2> SUFFICES ASSUME m + 1 <= n PROVE \E g : To(m + 1, g)
    <3> HIDE DEF To
    <3> QED OBVIOUS
  <2>1. m <= n
    OBVIOUS
  <2>2. PICK g : To(m, g)
    BY <1>2, <2>1
  <2> DEFINE h == [r \in 0 .. m + 1 |->
                     IF r = m + 1 THEN More(m + 1, g[m + 1 - len[m + 1]]) ELSE g[r]]
  <2>3. /\ \A r \in 0 .. m : h[r] = g[r]
        /\ h[m + 1] = More(m + 1, g[m + 1 - len[m + 1]])
        /\ \A r \in 0 .. m : g[r] = IF r = 0 THEN <<>> ELSE More(r, g[r - len[r]])
        /\ h = [r \in 0 .. m + 1 |-> h[r]]
    BY <2>2
  <2> HIDE DEF h
  <2>4. \A r \in 1 .. m + 1 : r - len[r] \in 0 .. m
    <3> SUFFICES ASSUME NEW r \in 1 .. m + 1 PROVE r - len[r] \in 0 .. m
      OBVIOUS
    <3>1. r \in 1 .. n
      OBVIOUS
    <3>2. len[r] \in Nat \ {0} /\ len[r] <= r
      BY <3>1
    <3> QED BY <3>2
  <2>5. ASSUME NEW r \in 0 .. m + 1
        PROVE  h[r] = IF r = 0 THEN <<>> ELSE More(r, h[r - len[r]])
    <3>1. CASE r = m + 1
      <4>1. r # 0 /\ r \in 1 .. m + 1
        BY <3>1
      <4>2. h[r - len[r]] = g[r - len[r]]
        BY <2>3, <2>4, <4>1
      <4> QED BY <2>3, <3>1, <4>1, <4>2
    <3>2. CASE r = 0
      <4>1. 0 \in 0 .. m
        OBVIOUS
      <4>2. h[0] = g[0] /\ g[0] = <<>>
        BY <2>3, <4>1
      <4> QED BY <3>2, <4>2
    <3>3. CASE r # m + 1 /\ r # 0
      <4>1. r \in 0 .. m /\ r \in 1 .. m + 1
        BY <3>3
      <4>2. h[r - len[r]] = g[r - len[r]]
        BY <2>3, <2>4, <4>1
      <4> QED BY <2>3, <3>3, <4>1, <4>2
    <3> QED BY <3>1, <3>2, <3>3
  <2>6. To(m + 1, h)
    BY <2>3, <2>5
  <2> QED BY <2>6
<1>3. Nat \subseteq T
  <2> HIDE DEF T
  <2> QED BY <1>1, <1>2, Induction
<1>4. \E g : To(n, g)
  <2> HIDE DEF To
  <2> QED BY <1>3
<1> QED BY <1>4 DEF More, Walked

\* What is read or written of the rest of r bytes before the next file.
Rest(pos, n, r) == file_at_pos(pos + n - r)
Portion(pos, n, r) == Min({r, Rest(pos, n, r).left})

LEMMA Portions ==
  ASSUME files \in Seq(Nat), NEW pos \in Nat, NEW n \in Nat, pos + n <= length, length \in Nat,
         NEW r \in 1 .. n
  PROVE  \E i \in 1 .. Len(files) : \E o \in 0 .. files[i] - 1 :
           /\ file_start(i) + o = pos + n - r
           /\ Rest(pos, n, r).file = i /\ Rest(pos, n, r).offset = o
           /\ Portion(pos, n, r) \in 1 .. r
           /\ o + Portion(pos, n, r) <= files[i]
<1>1. pos + n - r \in Nat /\ pos + n - r < length
  OBVIOUS
<1>2. PICK i \in 1 .. Len(files) : \E o \in 0 .. files[i] - 1 :
        /\ file_start(i) + o = pos + n - r
        /\ file_at_pos(pos + n - r) = [file |-> i, offset |-> o, left |-> files[i] - o]
  BY <1>1, FileAt
<1> PICK o \in 0 .. files[i] - 1 :
       /\ file_start(i) + o = pos + n - r
       /\ file_at_pos(pos + n - r) = [file |-> i, offset |-> o, left |-> files[i] - o]
  BY <1>2
<1>3. files[i] \in Nat
  OBVIOUS
<1>4. /\ Rest(pos, n, r).file = i /\ Rest(pos, n, r).offset = o
      /\ Rest(pos, n, r).left = files[i] - o
  BY DEF Rest
<1> DEFINE left == Rest(pos, n, r).left
           len == Portion(pos, n, r)
<1>5. left \in Nat \ {0} /\ left = files[i] - o
  BY <1>3, <1>4
<1> HIDE DEF left
<1>6. {r, left} \subseteq Nat /\ {r, left} # {}
  BY <1>5
<1>7. Min({r, left}) \in {r, left} /\ \A x \in {r, left} : Min({r, left}) =< x
  BY <1>6, MinOfFiles
<1>8. len = Min({r, left})
  BY DEF Portion, left
<1> HIDE DEF len
<1>9. len \in 1 .. r /\ len <= left
  BY <1>5, <1>7, <1>8
<1>10. o + len <= files[i]
  BY <1>3, <1>5, <1>9
<1> QED BY <1>2, <1>4, <1>9, <1>10 DEF len

\* The loop takes each byte from its place.
LEMMA PlacesAre ==
  ASSUME files \in Seq(Nat), length \in Nat,
         NEW pos \in Nat, NEW n \in Nat, NEW type \in Nat \ {0},
         pos + n <= length, pos + n <= type
  PROVE  /\ Places(pos, n, type) \in Seq(Nat \X Nat) /\ Len(Places(pos, n, type)) = n
         /\ \A j \in 1 .. n : IsPlace(Places(pos, n, type)[j], pos + j - 1)
<1> DEFINE len == [r \in 1 .. n |-> Portion(pos, n, r)]
           part == [r \in 1 .. n |-> [j \in 1 .. Portion(pos, n, r) |->
                      <<Rest(pos, n, r).file, Rest(pos, n, r).offset + j - 1>>]]
           Walk(g) == g = [r \in 0 .. n |->
                             IF r = 0 THEN <<>>
                             ELSE LET at == file_at_pos(narrow(pos + n - r, type))
                                      l == Min({r, at.left})
                                  IN [j \in 1 .. l |-> <<at.file, at.offset + j - 1>>] \o g[r - l]]
           Steps(g) == Walked(n, len, part, g)
<1>1. \A r \in 1 .. n : narrow(pos + n - r, type) = pos + n - r
  <2> SUFFICES ASSUME NEW r \in 1 .. n PROVE narrow(pos + n - r, type) = pos + n - r
    OBVIOUS
  <2>1. pos + n - r \in Nat /\ pos + n - r < type
    OBVIOUS
  <2>2. \A q \in Nat : q < type => q % type = q
    OBVIOUS
  <2> QED BY <2>1, <2>2 DEF narrow
<1>2. \A g : Steps(g) <=> Walk(g)
  <2> SUFFICES ASSUME NEW g PROVE Steps(g) <=> Walk(g)
    OBVIOUS
  <2>1. ASSUME NEW r \in 0 .. n, r # 0
        PROVE  part[r] \o g[r - len[r]]
                 = LET at == file_at_pos(narrow(pos + n - r, type))
                       l == Min({r, at.left})
                   IN [j \in 1 .. l |-> <<at.file, at.offset + j - 1>>] \o g[r - l]
    <3>1. r \in 1 .. n
      BY <2>1
    <3>2. file_at_pos(narrow(pos + n - r, type)) = Rest(pos, n, r)
      BY <1>1, <3>1 DEF Rest
    <3> QED BY <3>1, <3>2 DEF Portion
  <2>2. [r \in 0 .. n |-> IF r = 0 THEN <<>> ELSE part[r] \o g[r - len[r]]]
        = [r \in 0 .. n |->
             IF r = 0 THEN <<>>
             ELSE LET at == file_at_pos(narrow(pos + n - r, type))
                      l == Min({r, at.left})
                  IN [j \in 1 .. l |-> <<at.file, at.offset + j - 1>>] \o g[r - l]]
    <3> HIDE DEF part, len
    <3> QED BY <2>1
  <2> QED BY <2>2 DEF Walked
<1>3. \A r \in 1 .. n : len[r] \in Nat \ {0} /\ len[r] <= r /\ len[r] \in 1 .. r
  <2> SUFFICES ASSUME NEW r \in 1 .. n
               PROVE  len[r] \in Nat \ {0} /\ len[r] <= r /\ len[r] \in 1 .. r
    OBVIOUS
  <2>1. Portion(pos, n, r) \in 1 .. r
    BY Portions
  <2>2. len[r] = Portion(pos, n, r)
    OBVIOUS
  <2> HIDE DEF len
  <2> QED BY <2>1, <2>2
<1>4. \E g : Steps(g)
  <2>1. len \in [1 .. n -> Nat \ {0}]
    BY <1>3
  <2> HIDE DEF len, part
  <2>2. \A r \in 1 .. n : len[r] <= r
    BY <1>3
  <2>3. \E g : Walked(n, len, part, g)
    <3>1. n \in Nat
      OBVIOUS
    <3> QED BY ONLY <2>1, <2>2, <3>1, WalkExists
  <2> QED BY <2>3
<1> DEFINE walk == CHOOSE g : Walk(g)
<1>5. Places(pos, n, type) = walk[n]
  BY DEF Places
<1>6. Walk(walk)
  <2> HIDE DEF Walk, Steps
  <2> QED BY <1>2, <1>4
<1>7. Steps(walk)
  <2> HIDE DEF Walk, Steps, walk
  <2> QED BY <1>2, <1>6
<1> HIDE DEF walk
<1> DEFINE Good(r) == /\ walk[r] \in Seq(Nat \X Nat) /\ Len(walk[r]) = r
                      /\ \A j \in 1 .. r : IsPlace(walk[r][j], pos + n - r + j - 1)
           Bad == {r \in 0 .. n : ~ Good(r)}
<1>8. walk[0] = <<>> /\ \A r \in 1 .. n : walk[r] = part[r] \o walk[r - len[r]]
  <2> HIDE DEF part, len
  <2>1. \A r \in 0 .. n : walk[r] = IF r = 0 THEN <<>> ELSE part[r] \o walk[r - len[r]]
    BY <1>7 DEF Walked
  <2>2. 0 \in 0 .. n /\ \A r \in 1 .. n : r \in 0 .. n /\ r # 0
    OBVIOUS
  <2> QED BY <2>1, <2>2
<1>9. Good(0)
  BY <1>8
<1>10. ASSUME NEW r \in 1 .. n, \A q \in 0 .. r - 1 : Good(q) PROVE Good(r)
  <2> DEFINE l == Portion(pos, n, r)
             a == part[r]
             b == walk[r - l]
  <2>0. PICK i \in 1 .. Len(files) : \E o \in 0 .. files[i] - 1 :
          /\ file_start(i) + o = pos + n - r
          /\ Rest(pos, n, r).file = i /\ Rest(pos, n, r).offset = o
          /\ l \in 1 .. r /\ o + l <= files[i]
    BY Portions
  <2>1. PICK o \in 0 .. files[i] - 1 :
          /\ file_start(i) + o = pos + n - r
          /\ Rest(pos, n, r).file = i /\ Rest(pos, n, r).offset = o
          /\ l \in 1 .. r /\ o + l <= files[i]
    BY <2>0
  <2>2. files[i] \in Nat /\ file_start(i) \in Nat /\ i \in Nat
    <3>1. i \in 1 .. Len(files) + 1 /\ files[i] \in Nat
      OBVIOUS
    <3> QED BY <3>1, FilesInOrder
  <2>3. a = [j \in 1 .. l |-> <<i, o + j - 1>>]
    BY <2>1
  <2>4. len[r] = l /\ r - l \in 0 .. r - 1
    BY <2>1
  <2>5. walk[r] = a \o b
    BY <1>8, <2>4
  <2> HIDE DEF a, l, part, len
  <2>6. /\ b \in Seq(Nat \X Nat) /\ Len(b) = r - l
        /\ \A j \in 1 .. r - l : IsPlace(b[j], pos + n - (r - l) + j - 1)
    BY <1>10, <2>4
  <2> HIDE DEF b, Good
  <2>7. a \in Seq(Nat \X Nat) /\ Len(a) = l
    <3>1. \A j \in 1 .. l : <<i, o + j - 1>> \in Nat \X Nat
      BY <2>1, <2>2
    <3> QED BY <2>1, <2>3, <3>1
  <2>8. \A j \in 1 .. l : IsPlace(a[j], pos + n - r + j - 1)
    <3> SUFFICES ASSUME NEW j \in 1 .. l PROVE IsPlace(a[j], pos + n - r + j - 1)
      OBVIOUS
    <3>1. a[j] = <<i, o + j - 1>>
      BY <2>3
    <3>2. o + j - 1 \in 0 .. files[i] - 1 /\ file_start(i) + (o + j - 1) = pos + n - r + j - 1
      <4>1. j \in Nat /\ j >= 1 /\ j <= l /\ l \in Nat /\ o \in Nat /\ o + l <= files[i]
        BY <2>1, <2>2
      <4>2. o + j - 1 \in 0 .. files[i] - 1
        BY <2>2, <4>1
      <4>3. file_start(i) + o = pos + n - r /\ r \in Nat /\ pos \in Nat /\ n \in Nat
        BY <2>1
      <4> DEFINE t == file_start(i)
      <4>4. t \in Nat /\ t + o = pos + n - r
        BY <2>2, <4>3
      <4> HIDE DEF t
      <4>5. t + (o + j - 1) = pos + n - r + j - 1
        BY <4>1, <4>3, <4>4
      <4> QED BY <4>2, <4>5 DEF t
    <3> QED BY <3>1, <3>2 DEF IsPlace
  <2>9. /\ walk[r] \in Seq(Nat \X Nat) /\ Len(walk[r]) = r
        /\ \A j \in 1 .. l : walk[r][j] = a[j]
        /\ \A j \in l + 1 .. r : walk[r][j] = b[j - l]
    <3>1. l \in 1 .. r /\ r \in Nat /\ l + (r - l) = r
      BY <2>1
    <3> DEFINE w == walk[r]
    <3>2. w = a \o b
      BY <2>5
    <3> HIDE DEF w
    <3>3. /\ w \in Seq(Nat \X Nat) /\ Len(w) = Len(a) + Len(b)
          /\ \A j \in 1 .. Len(a) : w[j] = a[j]
          /\ \A j \in Len(a) + 1 .. Len(a) + Len(b) : w[j] = b[j - Len(a)]
      BY <2>6, <2>7, <3>2, Joined
    <3>4. Len(a) = l /\ Len(b) = r - l
      BY <2>6, <2>7
    <3> QED BY <3>1, <3>3, <3>4 DEF w
  <2>10. ASSUME NEW j \in 1 .. r PROVE IsPlace(walk[r][j], pos + n - r + j - 1)
    <3>1. CASE j <= l
      <4>1. j \in 1 .. l
        BY <2>1, <3>1
      <4> QED BY <2>8, <2>9, <4>1
    <3>2. CASE l < j
      <4>1. /\ j \in l + 1 .. r /\ j - l \in 1 .. r - l
            /\ pos + n - (r - l) + (j - l) - 1 = pos + n - r + j - 1
        BY <2>1, <3>2
      <4>2. IsPlace(b[j - l], pos + n - (r - l) + (j - l) - 1)
        BY <2>6, <4>1
      <4>3. walk[r][j] = b[j - l]
        BY <2>9, <4>1
      <4> QED BY <4>1, <4>2, <4>3
    <3> QED BY <2>1, <3>1, <3>2
  <2> QED BY <2>9, <2>10 DEF Good
<1>11. Bad = {}
  <2> HIDE DEF Good
  <2> SUFFICES ASSUME Bad # {} PROVE FALSE
    OBVIOUS
  <2>1. Bad \subseteq Nat
    OBVIOUS
  <2>2. PICK r \in Bad : \A q \in Bad : r =< q
    <3> HIDE DEF Bad
    <3> QED BY <2>1, MinOfFiles
  <2>3. r \in 0 .. n /\ ~ Good(r) /\ r # 0
    BY <1>9
  <2>4. \A q \in 0 .. r - 1 : Good(q)
    <3> SUFFICES ASSUME NEW q \in 0 .. r - 1 PROVE Good(q)
      OBVIOUS
    <3>1. q \in 0 .. n /\ ~ (r =< q)
      BY <2>3
    <3> QED BY <2>2, <3>1
  <2>5. r \in 1 .. n
    BY <2>3
  <2> QED BY <1>10, <2>3, <2>4, <2>5
<1>12. Good(n)
  <2>1. n \in 0 .. n
    OBVIOUS
  <2> HIDE DEF Good
  <2> QED BY <1>11, <2>1
<1>13. \A j \in 1 .. n : pos + n - n + j - 1 = pos + j - 1
  OBVIOUS
<1> QED BY <1>5, <1>12, <1>13

-----------------------------------------------------------------------------
(* Pieces *)

LEMMA Multiples ==
  ASSUME NEW P \in Nat \ {0}, NEW a \in Nat, NEW b \in Nat, a < b
  PROVE  a * P + P <= b * P /\ a * P \in Nat /\ b * P \in Nat
<1>1. a * P + P <= b * P
  BY SMTT(30)
<1> QED BY <1>1

LEMMA Quotient ==
  ASSUME NEW P \in Nat \ {0}, NEW p \in Nat, NEW q \in Nat
  PROVE  p \div P = q <=> q * P <= p /\ p < q * P + P
<1> DEFINE d == p \div P
           m == p % P
<1>1. d \in Nat /\ m \in 0 .. P - 1 /\ p = P * d + m
  OBVIOUS
<1>2. P * d = d * P
  BY <1>1
<1>3. d * P \in Nat /\ q * P \in Nat
  BY <1>1
<1> HIDE DEF d, m
<1>4. d * P <= p /\ p < d * P + P
  <2> DEFINE x == d * P
  <2>1. x \in Nat /\ p = x + m
    BY <1>1, <1>2, <1>3
  <2> HIDE DEF x
  <2>2. x <= p /\ p < x + P
    BY <1>1, <2>1
  <2> QED BY <2>2 DEF x
<1>5. ASSUME d # q PROVE ~ (q * P <= p /\ p < q * P + P)
  <2>1. CASE d < q
    <3>1. d * P + P <= q * P
      BY <1>1, <2>1, Multiples
    <3> QED BY <1>3, <1>4, <3>1
  <2>2. CASE q < d
    <3>1. q * P + P <= d * P
      BY <1>1, <2>2, Multiples
    <3> QED BY <1>3, <1>4, <3>1
  <2> QED BY <1>1, <1>5, <2>1, <2>2
<1>6. d = q => q * P <= p /\ p < q * P + P
  BY <1>4
<1>7. d = q <=> q * P <= p /\ p < q * P + P
  BY <1>5, <1>6
<1> QED BY <1>7 DEF d

LEMMA MinOfTwo ==
  ASSUME NEW a \in Nat, NEW b \in Nat
  PROVE  Min({a, b}) = IF a <= b THEN a ELSE b
<1>1. {a, b} \subseteq Nat /\ {a, b} # {}
  OBVIOUS
<1>2. Min({a, b}) \in {a, b} /\ \A x \in {a, b} : Min({a, b}) =< x
  BY <1>1, MinOfFiles
<1> QED BY <1>2

\* The pieces are as long as the code says, one behind the other, and together the
\* torrent.
LEMMA PiecesAre ==
  ASSUME length \in Nat \ {0}, m_piece_length \in Nat \ {0}
  PROVE  /\ num_pieces \in Nat \ {0} /\ (num_pieces - 1) * m_piece_length < length
         /\ \A id \in PieceIds :
              /\ id * m_piece_length \in Nat /\ piece_length(id) \in Nat \ {0}
              /\ id * m_piece_length + piece_length(id) <= length
              /\ id * m_piece_length <= (num_pieces - 1) * m_piece_length
              /\ piece_length(id) = Min({m_piece_length, length - id * m_piece_length})
              /\ \A p \in Nat : p < length =>
                   (p \div m_piece_length = id
                      <=> id * m_piece_length <= p /\ p < id * m_piece_length + piece_length(id))
<1> DEFINE P == m_piece_length
           L == length
           N == num_pieces
           q == L \div P
           s == L % P
<1>1. /\ P \in Nat \ {0} /\ L \in Nat \ {0} /\ L + P - 1 \in Nat
      /\ N = (L + P - 1) \div P
  BY DEF num_pieces
<1> HIDE DEF P, L, N
<1>2. q \in Nat /\ s \in 0 .. P - 1 /\ L = P * q + s /\ P * q = q * P /\ q * P \in Nat
  BY <1>1
<1>3. N \in Nat
  BY <1>1
<1>4. N * P \in Nat /\ N * P <= L + P - 1 /\ L + P - 1 < N * P + P
  <2>1. N * P <= L + P - 1 /\ L + P - 1 < N * P + P
    BY <1>1, <1>3, Quotient
  <2> QED BY <1>1, <1>3, <2>1
<1>5. N # 0
  <2>1. 0 * P = 0
    BY <1>1
  <2> QED BY <1>1, <1>4, <2>1
<1>6. /\ N - 1 \in Nat /\ (N - 1) * P \in Nat /\ (N - 1) * P + P = N * P
      /\ (N - 1) * P < L /\ L <= N * P
  <2>1. N - 1 \in Nat
    BY <1>3, <1>5
  <2>2. (N - 1) * P + P = N * P /\ (N - 1) * P \in Nat
    BY <1>1, <2>1, <1>3
  <2> QED BY <1>1, <1>4, <2>1, <2>2
<1> HIDE DEF q, s
<1> DEFINE last == IF s # 0 THEN s ELSE P
<1>7. (N - 1) * P + last = L /\ last \in 1 .. P
  <2>1. CASE s # 0
    <3>1. L # N * P
      <4> SUFFICES ASSUME L = N * P PROVE FALSE
        OBVIOUS
      <4>1. L \div P = N
        BY <1>1, <1>3, <1>4, Quotient
      <4>2. q = N
        BY <4>1 DEF q
      <4> QED BY <1>2, <1>4, <2>1, <4>2
    <3>2. L \div P = N - 1
      <4>1. (N - 1) * P <= L /\ L < (N - 1) * P + P
        BY <1>1, <1>4, <1>6, <3>1
      <4> QED BY <1>1, <1>6, <4>1, Quotient
    <3>3. q = N - 1
      BY <3>2 DEF q
    <3>4. L = (N - 1) * P + s
      BY <1>2, <3>3
    <3>5. last = s /\ last \in 1 .. P
      BY <1>1, <1>2, <2>1
    <3> QED BY <3>4, <3>5
  <2>2. CASE s = 0
    <3>1. L = q * P
      BY <1>2, <2>2
    <3>2. ~ (q < N - 1)
      <4> SUFFICES ASSUME q < N - 1 PROVE FALSE
        OBVIOUS
      <4>1. q * P + P <= (N - 1) * P
        BY <1>1, <1>2, <1>6, Multiples
      <4> QED BY <1>1, <1>2, <1>6, <3>1, <4>1
    <3>3. ~ (N < q)
      <4> SUFFICES ASSUME N < q PROVE FALSE
        OBVIOUS
      <4>1. N * P + P <= q * P
        BY <1>1, <1>2, <1>3, Multiples
      <4> QED BY <1>1, <1>2, <1>4, <1>6, <3>1, <4>1
    <3>4. q # N - 1
      BY <1>1, <1>6, <3>1
    <3>5. q = N
      BY <1>2, <1>3, <1>6, <3>2, <3>3, <3>4
    <3>6. L = (N - 1) * P + P
      BY <1>6, <3>1, <3>5
    <3>7. last = P /\ last \in 1 .. P
      BY <1>1, <2>2
    <3> QED BY <3>6, <3>7
  <2> QED BY <2>1, <2>2
<1>8. \A id \in PieceIds : /\ id \in Nat /\ id <= N - 1
                           /\ piece_length(id) = IF id = N - 1 THEN last ELSE P
  BY <1>6 DEF PieceIds, piece_length, N, L, P, s
<1> HIDE DEF last
<1>9. ASSUME NEW id \in PieceIds
      PROVE  /\ id * P \in Nat /\ piece_length(id) \in Nat \ {0}
             /\ id * P + piece_length(id) <= L
             /\ id * P <= (N - 1) * P
             /\ piece_length(id) = Min({P, L - id * P})
             /\ \A p \in Nat : p < L => (p \div P = id
                                          <=> id * P <= p /\ p < id * P + piece_length(id))
  <2> DEFINE x == id * P
             n == piece_length(id)
  <2>1. /\ id \in Nat /\ id <= N - 1 /\ x \in Nat
        /\ n = IF id = N - 1 THEN last ELSE P
    BY <1>1, <1>8
  <2>2. \A p \in Nat : p \div P = id <=> x <= p /\ p < x + P
    BY <1>1, <2>1, Quotient
  <2>3. CASE id = N - 1
    <3>1. x + last = L /\ n = last /\ x = (N - 1) * P
      BY <1>7, <2>1, <2>3
    <3> HIDE DEF x, n
    <3>2. L - x = last /\ last \in 1 .. P
      BY <1>7, <2>1, <3>1
    <3>3. Min({P, L - x}) = last
      BY <1>1, <3>2, MinOfTwo
    <3>4. \A p \in Nat : p < L => (p \div P = id <=> x <= p /\ p < x + n)
      BY <1>1, <2>1, <2>2, <3>1, <3>2
    <3>5. n \in Nat \ {0} /\ x + n <= L /\ x <= (N - 1) * P
      BY <1>1, <1>6, <2>1, <3>1, <3>2
    <3> QED BY <2>1, <3>1, <3>3, <3>4, <3>5 DEF x, n
  <2>4. CASE id # N - 1
    <3>1. id < N - 1
      BY <1>6, <2>1, <2>4
    <3>2. x + P <= (N - 1) * P
      BY <1>1, <1>6, <2>1, <3>1, Multiples
    <3>3. n = P
      BY <2>1, <2>4
    <3> HIDE DEF x, n
    <3>4. x + P <= L /\ P <= L - x /\ L - x \in Nat
      BY <1>1, <1>6, <2>1, <3>2
    <3>5. Min({P, L - x}) = P
      BY <1>1, <3>4, MinOfTwo
    <3>6. n \in Nat \ {0} /\ x + n <= L /\ x <= (N - 1) * P
      BY <1>1, <1>6, <2>1, <3>2, <3>3, <3>4
    <3>7. \A p \in Nat : p < L => (p \div P = id <=> x <= p /\ p < x + n)
      BY <2>2, <3>3
    <3> QED BY <2>1, <3>3, <3>5, <3>6, <3>7 DEF x, n
  <2> QED BY <2>3, <2>4
<1> QED BY <1>3, <1>5, <1>6, <1>9 DEF N, P, L

-----------------------------------------------------------------------------
(* Each byte in its place *)

LayoutType ==
  /\ files \in Seq(Nat) /\ m_piece_length \in Nat \ {0} /\ length \in 1 .. int64_t - 1
  /\ content = [i \in 1 .. Len(files) |-> [o \in 0 .. files[i] - 1 |-> content[i][o]]]
  /\ pieces_written \subseteq PieceIds

LayoutInv == LayoutType /\ BytesInPlace

\* What the algorithms may rely on.
LEMMA LayoutFacts ==
  ASSUME LayoutType
  PROVE  /\ files \in Seq(Nat) /\ length \in Nat \ {0} /\ m_piece_length \in Nat \ {0}
         /\ int64_t \in Nat \ {0} /\ length < int64_t /\ uint32_t \in Nat \ {0}
BY LayoutAssumption DEF LayoutType

LEMMA Narrow ==
  ASSUME NEW type \in Nat \ {0}, NEW n \in Nat, n < type
  PROVE  narrow(n, type) = n
BY DEF narrow

\* Where the writer and the scan have the bytes of a piece.
LEMMA PieceAt ==
  ASSUME LayoutType, StartsFit, NEW id \in PieceIds
  PROVE  /\ uint32(id * m_piece_length) = id * m_piece_length
         /\ scan_size(id) = piece_length(id)
         /\ Target(id) \in Seq(Nat \X Nat) /\ Len(Target(id)) = piece_length(id)
         /\ \A j \in 1 .. piece_length(id) : IsPlace(Target(id)[j], id * m_piece_length + j - 1)
<1> DEFINE x == id * m_piece_length
           n == piece_length(id)
<1>1. /\ x \in Nat /\ n \in Nat \ {0} /\ x + n <= length
      /\ x <= (num_pieces - 1) * m_piece_length
      /\ n = Min({m_piece_length, length - x})
      /\ num_pieces \in Nat \ {0}
  BY LayoutFacts, PiecesAre
<1>2. x < uint32_t
  <2> DEFINE y == (num_pieces - 1) * m_piece_length
  <2>1. y < uint32_t /\ y \in Int /\ uint32_t \in Nat
    BY <1>1, LayoutFacts DEF StartsFit
  <2>2. x \in Nat /\ x <= y
    BY <1>1
  <2> HIDE DEF x, y
  <2> QED BY <2>1, <2>2
<1>3. uint32(x) = x
  <2> HIDE DEF x
  <2> QED BY <1>1, <1>2, LayoutFacts, Narrow DEF uint32
<1>4. scan_size(id) = n
  BY <1>1, <1>3 DEF scan_size
<1>5. Target(id) = Places(x, n, int64_t)
  BY <1>3 DEF Target
<1>6. x + n <= int64_t
  <2> HIDE DEF x, n
  <2> QED BY <1>1, LayoutFacts
<1>7. /\ Places(x, n, int64_t) \in Seq(Nat \X Nat) /\ Len(Places(x, n, int64_t)) = n
      /\ \A j \in 1 .. n : IsPlace(Places(x, n, int64_t)[j], x + j - 1)
  <2> HIDE DEF x, n
  <2>1. n \in Nat /\ length \in Nat
    BY <1>1, LayoutFacts
  <2> QED BY <1>1, <1>6, <2>1, LayoutFacts, PlacesAre
<1> QED BY <1>3, <1>4, <1>5, <1>7

\* The bytes of a piece that belong at a place: one, or none.
LEMMA Hits ==
  ASSUME LayoutType, StartsFit, NEW id \in PieceIds,
         NEW i \in 1 .. Len(files), NEW o \in 0 .. files[i] - 1
  PROVE  LET p == file_start(i) + o
         IN {j \in DOMAIN Target(id) : Target(id)[j] = <<i, o>>}
              = IF p \div m_piece_length = id THEN {p - id * m_piece_length + 1} ELSE {}
<1> DEFINE p == file_start(i) + o
           x == id * m_piece_length
           n == piece_length(id)
           t == Target(id)
           hits == {j \in DOMAIN t : t[j] = <<i, o>>}
<1>1. /\ x \in Nat /\ n \in Nat \ {0}
      /\ \A q \in Nat : q < length => (q \div m_piece_length = id <=> x <= q /\ q < x + n)
  BY LayoutFacts, PiecesAre
<1>2. /\ DOMAIN t = 1 .. n
      /\ \A j \in 1 .. n : IsPlace(t[j], x + j - 1)
  <2>1. t \in Seq(Nat \X Nat) /\ Len(t) = n /\ \A j \in 1 .. n : IsPlace(t[j], x + j - 1)
    BY PieceAt
  <2> HIDE DEF t, n
  <2> QED BY <2>1
<1>3. p \in Nat /\ p < length
  BY LayoutFacts, PlaceInTorrent
<1> HIDE DEF x, n, t
<1>4. ASSUME NEW j \in 1 .. n PROVE t[j] = <<i, o>> <=> x + j - 1 = p
  <2>1. PICK k \in 1 .. Len(files) : \E q \in 0 .. files[k] - 1 :
          t[j] = <<k, q>> /\ file_start(k) + q = x + j - 1
    BY <1>2 DEF IsPlace
  <2>2. PICK q \in 0 .. files[k] - 1 : t[j] = <<k, q>> /\ file_start(k) + q = x + j - 1
    BY <2>1
  <2>3. ASSUME t[j] = <<i, o>> PROVE x + j - 1 = p
    <3>1. k = i /\ q = o
      BY <2>2, <2>3
    <3> QED BY <2>2, <3>1
  <2>4. ASSUME x + j - 1 = p PROVE t[j] = <<i, o>>
    <3>1. file_start(k) + q = file_start(i) + o
      BY <2>2, <2>4
    <3>2. files \in Seq(Nat)
      BY LayoutFacts
    <3>3. k = i /\ q = o
      BY <3>1, <3>2, OnePlace
    <3> QED BY <2>2, <3>3
  <2> QED BY <2>3, <2>4
<1> HIDE DEF p
<1>5. CASE p \div m_piece_length = id
  <2>1. x <= p /\ p < x + n
    BY <1>1, <1>3, <1>5
  <2>2. p - x + 1 \in 1 .. n /\ \A j \in 1 .. n : x + j - 1 = p <=> j = p - x + 1
    BY <1>1, <1>3, <2>1
  <2>3. hits = {p - x + 1}
    BY <1>2, <1>4, <2>2
  <2> QED BY <1>5, <2>3 DEF p, t, x
<1>6. CASE p \div m_piece_length # id
  <2>1. \A j \in 1 .. n : x + j - 1 # p
    BY <1>1, <1>3, <1>6
  <2>2. hits = {}
    BY <1>2, <1>4, <2>1
  <2> QED BY <1>6, <2>2 DEF p, t, x
<1> QED BY <1>5, <1>6

LEMMA BytesPut ==
  ASSUME LayoutType, StartsFit, NEW id \in PieceIds, write_piece(id),
         NEW i \in 1 .. Len(files), NEW o \in 0 .. files[i] - 1
  PROVE  LET p == file_start(i) + o
         IN content'[i][o] = IF p \div m_piece_length = id THEN p ELSE content[i][o]
<1> DEFINE p == file_start(i) + o
           x == id * m_piece_length
           n == piece_length(id)
           hits == {j \in DOMAIN Target(id) : Target(id)[j] = <<i, o>>}
<1>1. /\ x \in Nat /\ n \in Nat \ {0}
      /\ \A q \in Nat : q < length => (q \div m_piece_length = id <=> x <= q /\ q < x + n)
  BY LayoutFacts, PiecesAre
<1>2. p \in Nat /\ p < length
  BY LayoutFacts, PlaceInTorrent
<1>3. DOMAIN content = 1 .. Len(files) /\ DOMAIN content[i] = 0 .. files[i] - 1
  <2>1. content = [k \in 1 .. Len(files) |-> [q \in 0 .. files[k] - 1 |-> content[k][q]]]
    BY DEF LayoutType
  <2> QED BY <2>1
<1>4. content'[i][o] = IF hits = {} THEN content[i][o] ELSE Bytes(id)[Max(hits)]
  BY <1>3 DEF write_piece
<1>5. hits = IF p \div m_piece_length = id THEN {p - x + 1} ELSE {}
  BY Hits
<1> HIDE DEF hits, p, x, n
<1>6. CASE p \div m_piece_length = id
  <2>1. hits = {p - x + 1} /\ x <= p /\ p < x + n
    BY <1>1, <1>2, <1>5, <1>6
  <2>2. p - x + 1 \in 1 .. n
    BY <1>1, <1>2, <2>1
  <2>3. Max(hits) = p - x + 1
    BY <2>1, <2>2 DEF Max
  <2>4. Bytes(id)[p - x + 1] = x + (p - x + 1) - 1
    BY <2>2 DEF Bytes, n, x
  <2>5. x + (p - x + 1) - 1 = p
    BY <1>1, <1>2
  <2> QED BY <1>4, <1>6, <2>1, <2>3, <2>4, <2>5 DEF p
<1>7. CASE p \div m_piece_length # id
  BY <1>4, <1>5, <1>7 DEF p
<1> QED BY <1>6, <1>7

LEMMA WriteLayout ==
  ASSUME LayoutInv, NEW id \in PieceIds, write_piece(id)
  PROVE  LayoutInv'
<1>1. files' = files /\ m_piece_length' = m_piece_length
  BY DEF write_piece
<1>2. file_starts' = file_starts
  BY <1>1 DEF file_starts
<1>3. length' = length /\ \A i : file_start(i)' = file_start(i)
  BY <1>1, <1>2 DEF length, file_start
<1>4. PieceIds' = PieceIds /\ StartsFit' = StartsFit
  BY <1>1, <1>3 DEF PieceIds, num_pieces, StartsFit
<1>5. LayoutType'
  <2>1. content' = [i \in 1 .. Len(files) |-> [o \in 0 .. files[i] - 1 |-> content'[i][o]]]
    <3>1. content = [k \in 1 .. Len(files) |-> [q \in 0 .. files[k] - 1 |-> content[k][q]]]
      BY DEF LayoutInv, LayoutType
    <3>2. DOMAIN content = 1 .. Len(files) /\ \A i \in 1 .. Len(files) : DOMAIN content[i] = 0 .. files[i] - 1
      BY <3>1
    <3> QED BY <3>2 DEF write_piece
  <2>2. pieces_written' \subseteq PieceIds
    BY DEF write_piece, LayoutInv, LayoutType
  <2> QED BY <1>1, <1>3, <1>4, <2>1, <2>2 DEF LayoutInv, LayoutType
<1>6. BytesInPlace'
  <2> SUFFICES ASSUME StartsFit, NEW i \in 1 .. Len(files), NEW o \in 0 .. files[i] - 1
               PROVE  content'[i][o] = IF (file_start(i) + o) \div m_piece_length \in pieces_written'
                                       THEN file_start(i) + o ELSE Zero
    BY <1>1, <1>3, <1>4 DEF BytesInPlace
  <2> DEFINE p == file_start(i) + o
  <2>1. content'[i][o] = IF p \div m_piece_length = id THEN p ELSE content[i][o]
    BY BytesPut DEF LayoutInv
  <2>2. content[i][o] = IF p \div m_piece_length \in pieces_written THEN p ELSE Zero
    BY DEF LayoutInv, BytesInPlace
  <2>3. pieces_written' = pieces_written \cup {id}
    BY DEF write_piece
  <2> HIDE DEF p
  <2>4. content'[i][o] = IF p \div m_piece_length \in pieces_written' THEN p ELSE Zero
    BY <2>1, <2>2, <2>3
  <2> QED BY <2>4 DEF p
<1> QED BY <1>5, <1>6 DEF LayoutInv

-----------------------------------------------------------------------------
(* What the other loops read *)

\* Places of n bytes in a row, of a piece from an offset on.
ArePlaces(places, id, offset, n) ==
  /\ places \in Seq(Nat \X Nat) /\ Len(places) = n
  /\ \A j \in 1 .. n : IsPlace(places[j], id * m_piece_length + offset + j - 1)

\* A loop over places of bytes of one piece reads these bytes, if it was written.
LEMMA BytesRead ==
  ASSUME LayoutInv, StartsFit, NEW id \in PieceIds,
         NEW offset \in Nat, NEW n \in Nat, offset + n <= piece_length(id),
         NEW places, ArePlaces(places, id, offset, n)
  PROVE  BytesAt(places)
           = [j \in 1 .. n |-> IF id \in pieces_written THEN Bytes(id)[offset + j] ELSE Zero]
<1> DEFINE x == id * m_piece_length
           len == piece_length(id)
<1>1. /\ x \in Nat /\ len \in Nat \ {0} /\ x + len <= length /\ length \in Nat
      /\ \A q \in Nat : q < length => (q \div m_piece_length = id <=> x <= q /\ q < x + len)
  BY LayoutFacts, PiecesAre DEF LayoutInv
<1>2. DOMAIN places = 1 .. n
  BY DEF ArePlaces
<1>3. ASSUME NEW j \in 1 .. n
      PROVE  content[places[j][1]][places[j][2]]
               = IF id \in pieces_written THEN Bytes(id)[offset + j] ELSE Zero
  <2> DEFINE p == x + offset + j - 1
  <2>1. IsPlace(places[j], p)
    BY DEF ArePlaces
  <2>2. PICK i \in 1 .. Len(files) : \E o \in 0 .. files[i] - 1 :
          places[j] = <<i, o>> /\ file_start(i) + o = p
    BY <2>1 DEF IsPlace
  <2>3. PICK o \in 0 .. files[i] - 1 : places[j] = <<i, o>> /\ file_start(i) + o = p
    BY <2>2
  <2>4. content[i][o] = IF (file_start(i) + o) \div m_piece_length \in pieces_written
                        THEN file_start(i) + o ELSE Zero
    BY DEF LayoutInv, BytesInPlace
  <2>5. content[i][o] = IF p \div m_piece_length \in pieces_written THEN p ELSE Zero
    BY <2>3, <2>4
  <2>6. offset + n <= len
    OBVIOUS
  <2>7. offset + j \in 1 .. len /\ p = x + (offset + j) - 1 /\ p \in Nat
        /\ x <= p /\ p < x + len /\ p < length
    <3> HIDE DEF x, len
    <3> QED BY <1>1, <2>6
  <2> HIDE DEF p
  <2>8. p \div m_piece_length = id
    BY <1>1, <2>7
  <2>9. Bytes(id)[offset + j] = p
    BY <2>7 DEF Bytes
  <2> QED BY <2>3, <2>5, <2>8, <2>9
<1> QED BY <1>2, <1>3 DEF BytesAt

LEMMA ScanFinds ==
  ASSUME LayoutInv, StartsFit
  PROVE  ScanFindsWritten
<1> SUFFICES ASSUME NEW id \in PieceIds
             PROVE  verify_piece(id) <=> id \in pieces_written
  BY DEF ScanFindsWritten
<1> DEFINE x == id * m_piece_length
           n == piece_length(id)
           t == Target(id)
           bytes == BytesAt(t)
<1>1. /\ uint32(x) = x /\ scan_size(id) = n
      /\ t \in Seq(Nat \X Nat) /\ Len(t) = n
      /\ \A j \in 1 .. n : IsPlace(t[j], x + j - 1)
  BY PieceAt DEF LayoutInv
<1>2. x \in Nat /\ n \in Nat \ {0}
  BY LayoutFacts, PiecesAre DEF LayoutInv
<1>3. verify_piece(id) <=> bytes = Bytes(id)
  BY <1>1 DEF verify_piece, Target
<1>4. \A j \in 1 .. n : IsPlace(t[j], x + 0 + j - 1)
  <2>1. \A j \in 1 .. n : x + 0 + j - 1 = x + j - 1
    BY <1>2
  <2> HIDE DEF x, n, t
  <2> QED BY <1>1, <2>1
<1>5. 0 \in Nat /\ n \in Nat /\ 0 + n <= n
  BY <1>2
<1>6. bytes = [j \in 1 .. n |-> IF id \in pieces_written THEN Bytes(id)[0 + j] ELSE Zero]
  <2> HIDE DEF t
  <2>1. ArePlaces(t, id, 0, n)
    BY <1>1, <1>4 DEF ArePlaces
  <2> QED BY <1>5, <2>1, BytesRead
<1>7. Bytes(id) = [j \in 1 .. n |-> x + j - 1]
  BY DEF Bytes
<1> HIDE DEF x, n, bytes
<1>8. 1 \in 1 .. n /\ \A j \in 1 .. n : 0 + j = j
  BY <1>2
<1>9. CASE id \in pieces_written
  <2>1. bytes = Bytes(id)
    BY <1>6, <1>7, <1>8, <1>9
  <2> QED BY <1>3, <1>9, <2>1
<1>10. CASE id \notin pieces_written
  <2>1. bytes[1] = -1
    BY <1>6, <1>8, <1>10 DEF Zero
  <2>2. Bytes(id)[1] = x + 1 - 1
    BY <1>7, <1>8
  <2>3. bytes # Bytes(id)
    BY <1>2, <2>1, <2>2
  <2> QED BY <1>3, <1>10, <2>3
<1> QED BY <1>9, <1>10

LEMMA BlocksRead ==
  ASSUME LayoutInv, StartsFit, length <= uint32_t
  PROVE  BlocksReadBack
<1> SUFFICES ASSUME NEW id \in pieces_written, NEW offset \in 0 .. piece_length(id) - 1,
                    NEW n \in 1 .. piece_length(id) - offset
             PROVE  read_block(id, offset, n) = [j \in 1 .. n |-> Bytes(id)[offset + j]]
  BY DEF BlocksReadBack
<1> DEFINE x == id * m_piece_length
           len == piece_length(id)
           pos == x + offset
           t == Places(pos, n, uint32_t)
<1>1. id \in PieceIds
  BY DEF LayoutInv, LayoutType
<1>2. /\ files \in Seq(Nat) /\ length \in Nat /\ uint32_t \in Nat \ {0}
      /\ m_piece_length \in Nat \ {0}
  BY LayoutFacts DEF LayoutInv
<1>3. x \in Nat /\ len \in Nat \ {0} /\ x + len <= length
  BY <1>1, LayoutFacts, PiecesAre DEF LayoutInv
<1>4. m_piece_length * id = x
  <2>1. id \in Nat
    <3>1. num_pieces \in Nat
      BY LayoutFacts, PiecesAre DEF LayoutInv
    <3> QED BY <1>1, <3>1 DEF PieceIds
  <2> QED BY <1>2, <2>1
<1>5. /\ offset \in Nat /\ n \in Nat /\ offset + n <= len
      /\ pos \in Nat /\ pos + n <= length /\ pos < length
  <2>1. offset \in 0 .. len - 1 /\ n \in 1 .. len - offset
    OBVIOUS
  <2> HIDE DEF x, len
  <2> QED BY <1>2, <1>3, <2>1
<1>6. uint32(m_piece_length * id + offset) = pos
  <2>1. m_piece_length * id + offset = pos
    BY <1>4
  <2> HIDE DEF pos
  <2>2. pos < uint32_t
    BY <1>2, <1>5
  <2> QED BY <1>2, <1>5, <2>1, <2>2, Narrow DEF uint32
<1>7. /\ t \in Seq(Nat \X Nat) /\ Len(t) = n
      /\ \A j \in 1 .. n : IsPlace(t[j], pos + j - 1)
  <2> HIDE DEF pos
  <2>1. pos + n <= uint32_t
    BY <1>2, <1>5
  <2> QED BY <1>2, <1>5, <2>1, PlacesAre
<1>8. read_block(id, offset, n) = BytesAt(t)
  <2> HIDE DEF pos
  <2> QED BY <1>6 DEF read_block
<1>9. BytesAt(t) = [j \in 1 .. n |-> IF id \in pieces_written THEN Bytes(id)[offset + j] ELSE Zero]
  <2> HIDE DEF t
  <2>1. ArePlaces(t, id, offset, n)
    BY <1>7 DEF ArePlaces
  <2> QED BY <1>1, <1>5, <2>1, BytesRead
<1> QED BY <1>8, <1>9

\* A torrent that uint32_t holds has pieces that start where it can say.
LEMMA ReadsBackHolds ==
  ASSUME LayoutInv
  PROVE  ReadsBack
<1>1. length <= uint32_t => StartsFit
  <2> DEFINE y == (num_pieces - 1) * m_piece_length
  <2>1. y < length /\ y \in Int /\ length \in Nat /\ uint32_t \in Nat
    BY LayoutFacts, PiecesAre DEF LayoutInv
  <2>2. length <= uint32_t => y < uint32_t
    <3> HIDE DEF y
    <3> QED BY <2>1
  <2> QED BY <2>2 DEF StartsFit
<1> QED BY <1>1, ScanFinds, BlocksRead DEF ReadsBack

LEMMA LayoutInitInv ==
  ASSUME LayoutInit
  PROVE  LayoutInv
<1>1. files \in Seq(Nat)
  <2>1. PICK n \in 1 .. MaxFiles : files \in [1 .. n -> 0 .. MaxLength]
    BY DEF LayoutInit, Lengths
  <2> QED BY <2>1, LayoutAssumption
<1>2. /\ content = [i \in 1 .. Len(files) |-> [o \in 0 .. files[i] - 1 |-> Zero]]
      /\ pieces_written = {} /\ length \in 1 .. int64_t - 1
      /\ m_piece_length \in 1 .. MaxPieceLength
  BY DEF LayoutInit
<1>3. \A i \in 1 .. Len(files) : \A o \in 0 .. files[i] - 1 : content[i][o] = Zero
  BY <1>2
<1>4. m_piece_length \in Nat \ {0}
  BY <1>2, LayoutAssumption
<1>5. content = [i \in 1 .. Len(files) |-> [o \in 0 .. files[i] - 1 |-> content[i][o]]]
  BY <1>2
<1>6. LayoutType
  BY <1>1, <1>2, <1>4, <1>5 DEF LayoutType
<1>7. BytesInPlace
  BY <1>2, <1>3 DEF BytesInPlace
<1> QED BY <1>6, <1>7 DEF LayoutInv

LEMMA LayoutStutters ==
  ASSUME LayoutInv, UNCHANGED layout_vars
  PROVE  LayoutInv'
<1>1. /\ files' = files /\ m_piece_length' = m_piece_length
      /\ content' = content /\ pieces_written' = pieces_written
  BY DEF layout_vars
<1>2. file_starts' = file_starts
  BY <1>1 DEF file_starts
<1>3. length' = length /\ \A i : file_start(i)' = file_start(i)
  BY <1>1, <1>2 DEF length, file_start
<1>4. PieceIds' = PieceIds /\ StartsFit' = StartsFit
  BY <1>1, <1>3 DEF PieceIds, num_pieces, StartsFit
<1> QED BY <1>1, <1>3, <1>4 DEF LayoutInv, LayoutType, BytesInPlace

LEMMA LayoutInvariant == LayoutSpec => []LayoutInv
<1>1. LayoutInit => LayoutInv
  BY LayoutInitInv
<1>2. LayoutInv /\ [LayoutNext]_layout_vars => LayoutInv'
  BY WriteLayout, LayoutStutters DEF LayoutNext
<1> QED BY <1>1, <1>2, PTL DEF LayoutSpec

\* For any files, also of no length, any piece length and any order of the pieces:
\* each byte the writer put down is where it belongs, and no byte anywhere else.
THEOREM BytesStayInPlace == LayoutSpec => []BytesInPlace
<1>1. LayoutInv => BytesInPlace
  BY DEF LayoutInv
<1> QED BY <1>1, LayoutInvariant, PTL

\* ... and the loops of the scan and of the reader go through the places of the writer's.
THEOREM LoopsAgree == LayoutSpec => []ReadsBack
<1>1. LayoutInv => ReadsBack
  BY ReadsBackHolds
<1> QED BY <1>1, LayoutInvariant, PTL
=============================================================================
