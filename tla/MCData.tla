------------------------------- MODULE MCData -------------------------------
(* Instances for TLC of the modules that work on data alone: one of them takes
   steps, and the others stay where they start. *)
EXTENDS Layout

CONSTANTS
  ByteBits, MaxBytes,
  MaxWords, RECURSION_LIMIT, MAX_STRING_LENGTH,
  Base

VARIABLES
  part,
  m_bytes,
  text, words,
  at, response, wire, cut, buffer, searched, eofbit, encoding, needs, resp

\* Characters, strings, and a key with its value.
Words == {<<c>> : c \in {"i", "e", "l", "d", "-", "0", "1"}}
         \cup {<<"0", ":">>, <<"1", ":">>, <<"0", ":", "0", ":">>}

\* A chunk may look like a blank line or like the size of another.
Chunks == {<<"x">>, <<"CR", "LF">>, <<"1", "0", "x">>}
Bodies == UNION {[1 .. n -> Chunks] : n \in 0 .. 2}

B == INSTANCE Bitfield
E == INSTANCE Bencode
H == INSTANCE HttpClient

ASSUME DataAssumption == B!BitfieldAssumption

bitfield == m_bytes
bencode == <<text, words>>
http == <<at, response, wire, cut, buffer, searched, eofbit, encoding, needs, resp>>

\* Where the layout stays while another module takes steps: a torrent of one byte.
OneByte ==
  /\ files = <<1>> /\ m_piece_length = 1 /\ pieces_written = {} /\ content = <<[o \in {0} |-> Zero]>>

Init ==
  /\ part \in {"bitfield", "layout", "bencode", "http"}
  /\ B!BitfieldInit /\ E!Init /\ H!Init
  /\ IF part = "layout" THEN LayoutInit ELSE OneByte

Next ==
  /\ UNCHANGED part
  /\ \/ part = "bitfield" /\ B!BitfieldNext /\ UNCHANGED <<layout_vars, bencode, http>>
     \/ part = "layout" /\ LayoutNext /\ UNCHANGED <<bitfield, bencode, http>>
     \/ part = "bencode" /\ E!Next /\ UNCHANGED <<bitfield, layout_vars, http>>
     \/ part = "http" /\ H!Next /\ UNCHANGED <<bitfield, layout_vars, bencode>>

Spec == Init /\ [][Next]_<<part, bitfield, layout_vars, bencode, http>>

\* Every Bitfield operation, against operations on sets of positions.
BitfieldAgreesWithSets == part = "bitfield" => B!BitfieldAgreesWithSets

\* Bencode, both ways, and with its end cut off.
EncodedIsDecoded == part = "bencode" => E!EncodedIsDecoded
CutIsRefused == part = "bencode" => E!CutIsRefused

\* HTTP responses in any cuts.
ReturnsTheBody == part = "http" => H!ReturnsTheBody

=============================================================================
