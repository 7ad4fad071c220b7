------------------------------ MODULE PeerWire -------------------------------
(***************************************************************************)
(* What a remote sends, as this client cuts it into messages.              *)
(*                                                                         *)
(* The remote's messages are one stream of bytes, which the network hands  *)
(* over in portions of any size.  PeerConnection::handle_response puts a   *)
(* portion behind the bytes that it has and calls Message::parse until     *)
(* that consumes nothing; it then reads on.  An incoming connection is     *)
(* read first by PeerAcceptor::listen, which looks for the handshake.      *)
(***************************************************************************)
EXTENDS Integers, SequencesExt

CONSTANTS
  Scripts,  \* what remotes may send that this client connects to: sequences of
            \* kinds of messages
  Incoming  \* what remotes may send that connect through PeerAcceptor

\* MIN_BT_MSG_LENGTH: a handshake.
HandshakeLength == 68

\* The bytes of a message: four for its length, then an id and its payload.  The
\* data of a piece of text starts with the text that a handshake starts with.
Size == [handshake      |-> HandshakeLength,
         keepalive      |-> 4,
         choke          |-> 5,
         unchoke        |-> 5,
         interested     |-> 5,
         not_interested |-> 5,
         have           |-> 9,
         bitfield       |-> 6,
         request        |-> 17,
         piece          |-> 16,
         piece_of_text  |-> 85,
         cancel         |-> 17,
         port           |-> 7,
         too_large      |-> 20]

Unhandled == {"cancel", "port"}

\* BT_START, and where it is in a message.
TextLength == 20
TextAt == [handshake |-> 0, piece_of_text |-> 13]

\* A remote shakes hands, then may say what it has, then goes on.
ASSUME PeerWireAssumption ==
  /\ \A s \in Scripts \cup Incoming :
       /\ s \in Seq(DOMAIN Size) /\ s # <<>>
       /\ \A i \in DOMAIN s : s[i] = "handshake" <=> i = 1
       /\ \A i \in DOMAIN s : s[i] = "bitfield" => i = 2

VARIABLES
  script,    \* the messages of this remote
  received,  \* bytes that came in
  consumed,  \* bytes taken out of response_ again
  handled,   \* the messages whose handlers were called, by their number
  accepted,  \* history: the bytes that the acceptor read
  pc         \* "accepting", "reading", "parsing", "closed" or "lost"

vars == <<script, received, consumed, handled, accepted, pc>>

\* Where message i starts, counted from 0.
Start[i \in 1 .. Len(script) + 1] ==
  IF i = 1 THEN 0 ELSE Start[i - 1] + Size[script[i - 1]]
Total == Start[Len(script) + 1]

Messages == 1 .. Len(script)

\* The message that starts where the next byte is taken from, if one does.
Here == {i \in Messages : Start[i] = consumed}

\* The bytes in response_, or in the buffer of the acceptor.
Buffered == received - consumed

Init == /\ \/ script \in Scripts /\ pc = "reading"
           \/ script \in Incoming /\ pc = "accepting"
        /\ received = 0 /\ consumed = 0
        /\ handled = <<>>
        /\ accepted = 0

-----------------------------------------------------------------------------
\* One read: any part of what the remote has sent, but at least a byte, or,
\* of the acceptor, a handshake.
Portion(n) ==
  /\ n > 0
  /\ pc = "accepting" => n >= HandshakeLength

\* Mutant: a portion replaces what was left of the last one.
read_over(n) ==
  /\ pc = "reading"
  /\ Portion(n)
  /\ received' = received + n
  /\ consumed' = received
  /\ pc' = "parsing"
  /\ UNCHANGED <<script, handled, accepted>>

\* A portion of n bytes reaches handle_response.
read(n) ==
  /\ pc = "reading"
  /\ Portion(n)
  /\ received' = received + n
  /\ pc' = "parsing"
  /\ UNCHANGED <<script, consumed, handled, accepted>>

Texts == {Start[i] + TextAt[script[i]] : i \in {i \in Messages : script[i] \in DOMAIN TextAt}}

\* HandshakeMsg::parse of a buffer that ends at `end': the bytes it takes, 0 to wait
\* for the rest of a bitfield, or -1 for no handshake.  Whatever is in front of
\* the text is skipped.  A bitfield that follows belongs to the handshake, and nothing
\* else may follow in the buffer.
HandshakeMsg_parse(end) ==
  LET found == {t \in Texts : t >= consumed /\ t + TextLength <= end}
      size == end - Min(found)
  IN IF end - consumed < HandshakeLength \/ found = {} \/ size < HandshakeLength THEN -1
     ELSE IF size = HandshakeLength THEN HandshakeLength
     ELSE IF size < HandshakeLength + 5 \/ 0 \notin found \/ script[2] # "bitfield" THEN -1
     ELSE IF end < Start[3] THEN 0
     ELSE Start[3]

\* The handlers of the first n messages from message i on were called.
Handle(i, n) == handled' = handled \o [j \in 1 .. n |-> i + j - 1]

\* Where no message starts the rest of the stream has no meaning any more.
Border(n) == \E i \in 1 .. Len(script) + 1 : Start[i] = n

\* Mutant: one message for each read.
Consume_once(n) ==
  /\ consumed' = consumed + n
  /\ pc' = IF Border(consumed + n) THEN "reading" ELSE "lost"

\* n bytes are consumed; handle_response goes on with the rest, if there is one.
Consume(n) ==
  /\ consumed' = consumed + n
  /\ pc' = IF ~Border(consumed + n) THEN "lost"
           ELSE IF n = 0 \/ consumed + n = received THEN "reading"
           ELSE "parsing"

\* The length is too large, or what should be one is not: the connection is
\* stopped and the torrent told (Torrent::disconnected).
Close == pc' = "closed" /\ UNCHANGED <<consumed, handled>>

\* Message::parse of the handshake.  As a length its first bytes are too large.
parse_handshake ==
  /\ pc = "parsing"
  /\ Here = {1}
  /\ LET taken == HandshakeMsg_parse(received)
     IN IF taken >= 0
        THEN /\ Consume(taken)
             /\ Handle(1, IF taken = 0 THEN 0 ELSE IF taken = HandshakeLength THEN 1 ELSE 2)
        ELSE IF Buffered >= 4
        THEN Close
        ELSE Consume(0) /\ UNCHANGED handled
  /\ UNCHANGED <<script, received, accepted>>

\* Whether all of message i is there: len + 4 bytes.
Complete(i) == Buffered >= Size[script[i]]

\* Message::parse of any other message.  A handshake that is found in the data of one
\* has not the info hash: its bytes are skipped, from the start of the buffer.  A
\* message that is not supported takes all that is in the buffer with it.
parse ==
  /\ pc = "parsing"
  /\ \E i \in Here \ {1} :
       IF HandshakeMsg_parse(received) > 0
       THEN Consume(HandshakeLength) /\ UNCHANGED handled
       ELSE IF Buffered < 4
       THEN Consume(0) /\ UNCHANGED handled
       ELSE IF script[i] = "too_large"
       THEN Close
       ELSE IF ~Complete(i)
       THEN Consume(0) /\ UNCHANGED handled
       ELSE IF script[i] \in Unhandled
       THEN Consume(Buffered) /\ UNCHANGED handled
       ELSE Consume(Size[script[i]]) /\ Handle(i, 1)
  /\ UNCHANGED <<script, received, accepted>>

\* PeerAcceptor::listen: with a handshake the connection becomes a Peer, and
\* the buffer is gone; the answer to it is the handshake that add_peer sends.
listen(n) ==
  /\ pc = "accepting"
  /\ Portion(n)
  /\ received' = n /\ accepted' = n
  /\ IF HandshakeMsg_parse(n) = -1
     THEN pc' = "closed" /\ UNCHANGED <<consumed, handled>>
     ELSE /\ consumed' = n
          /\ handled' = <<1>>
          /\ pc' = IF Border(n) THEN "reading" ELSE "lost"
  /\ UNCHANGED script

Next == \/ \E n \in 1 .. Total - received : read(n) \/ listen(n)
        \/ parse_handshake \/ parse

Spec == Init /\ [][Next]_vars

\* The remote sends what it has to, and the torrent thread handles it.
FairSpec == Spec /\ WF_vars(Next)

-----------------------------------------------------------------------------
(* Properties *)

TypeOK == /\ script \in Scripts \cup Incoming
          /\ received \in 0 .. Total /\ {consumed, accepted} \subseteq 0 .. received
          /\ handled \in Seq(Messages)
          /\ pc \in {"accepting", "reading", "parsing", "closed", "lost"}

\* The handlers are called for the messages in their order, for each once and
\* when it is complete, wherever the network cuts the stream.
HandledInOrder ==
  \A j \in DOMAIN handled :
    /\ j > 1 => handled[j - 1] < handled[j]
    /\ Start[handled[j] + 1] <= received

\* The client waits for data only if no message in its buffer is complete: else
\* it would answer one message late, or never.  A handshake that has more behind
\* it waits for the end of the bitfield.
WaitsForMore ==
  pc = "reading" =>
    \A i \in Messages :
      Start[i] >= consumed =>
        received < IF i = 1 /\ received > HandshakeLength THEN Start[3] ELSE Start[i + 1]

\* The buffer of a connection: messages are handled in order, and read() waits for
\* nothing that is there.
Inv == TypeOK /\ HandledInOrder /\ WaitsForMore

\* The network cut the handshake in two, which is taken for a corrupt length.
HandshakeCut == pc = "closed" /\ consumed = 0
AcceptorHasMore == accepted > HandshakeLength

\* A read ended where a handshake would end, had it started in the data of a piece.
TextTaken == pc = "lost" /\ \E t \in Texts \ {0} : received = t + HandshakeLength

\* Each message is handled in the end, up to the first that is too large or that
\* is not supported (see LoopHandlesAll), unless the network cut the handshake or
\* put another message than the bitfield behind it (see ClosedForLength), or the
\* acceptor had more than the handshake in its buffer (see CallerHasRest), or a piece
\* was cut where it looks like a handshake.
AllHandled ==
  <>(\/ HandshakeCut \/ AcceptorHasMore \/ TextTaken
     \/ \A i \in Messages :
          \/ i \in ToSet(handled)
          \/ \E k \in 1 .. i : script[k] \in Unhandled \cup {"too_large"})

-----------------------------------------------------------------------------
(* What comments of the program say, and the model refutes *)

\* The buffer may hold zero, one or more messages, which the loop goes through
\* (peer.cpp): a message that can be handled is, unless the client still waits
\* for it.
LoopHandlesAll ==
  \A i \in Messages : (pc # "closed" /\ consumed >= Start[i + 1])
                         => script[i] \in Unhandled \/ i \in ToSet(handled)

\* A connection is closed for a length that is too large, of corrupt data
\* (messages.cpp).
ClosedForLength ==
  pc = "closed" => \E i \in Here : script[i] = "too_large"

\* HandshakeMsg::parse consumes the parsed part, the caller deals with the rest
\* (messages.cpp): so does the acceptor.
CallerHasRest ==
  [][pc = "accepting" /\ pc' # "closed"
       => consumed' <= HandshakeMsg_parse(received')]_vars

=============================================================================
