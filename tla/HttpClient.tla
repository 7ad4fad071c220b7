----------------------------- MODULE HttpClient -----------------------------
(***************************************************************************)
(* Net::httpGet and request (net.cpp): a response, sent in any cuts, is    *)
(* read line by line from the buffer of the reads, its body to the end of  *)
(* the connection or chunk by chunk.                                       *)
(*                                                                         *)
(* A byte is a carriage return, a line feed, a digit of a chunk size or    *)
(* another; a status line and a header line are one byte each.             *)
(***************************************************************************)
EXTENDS Integers, SequencesExt

CONSTANTS
  Base,   \* of chunk sizes
  Bodies  \* bound: the bodies, each a sequence of chunks

VARIABLES
  at,        \* what the client does
  response,  \* what the server answers with
  wire,      \* its bytes that the client has not read
  cut,       \* whether the connection was lost before they were sent
  buffer,    \* the streambuf
  searched,  \* how much of it read_until has searched without a match
  eofbit,    \* whether response_stream has met the end of the buffer
  encoding,  \* the header read
  needs,     \* the chunk that is awaited, in bytes
  resp       \* the content that was read

vars == <<at, response, wire, cut, buffer, searched, eofbit, encoding, needs, resp>>

CR == "CR"
LF == "LF"
EOL == <<CR, LF>>

\* Statuses that are accepted are alike: with or without a location.
Statuses == {"accepted", "refused", "invalid"}
Headers == {"location", "chunked", "other encoding", "date"}

-----------------------------------------------------------------------------
(* The server *)

RECURSIVE size_line(_)
size_line(n) ==
  (IF n < Base THEN <<>> ELSE size_line(n \div Base)) \o <<ToString(n % Base)>>

chunk(c) == size_line(Len(c)) \o EOL \o c \o EOL

Chunked(r) == "chunked" \in ToSet(r.headers)
Lines(r) == FlattenSeq([k \in DOMAIN r.headers |-> <<r.headers[k]>> \o EOL])
Whole(r) == FlattenSeq(r.body)
Sent(r) ==
  <<r.status>> \o EOL \o Lines(r) \o EOL
  \o IF Chunked(r)
       THEN FlattenSeq([k \in DOMAIN r.body |-> chunk(r.body[k])]) \o <<"0">> \o EOL \o EOL
       ELSE Whole(r)

Responses ==
  [status : Statuses, headers : UNION {[1 .. n -> Headers] : n \in 0 .. 1}, body : Bodies]
  \cup [status : {"accepted"}, headers : {<<"date", h>> : h \in Headers}, body : Bodies]

Start(r) ==
  /\ response' = r /\ wire' = Sent(r)
  /\ at' = "status" /\ cut' = FALSE /\ buffer' = <<>> /\ searched' = 0
  /\ eofbit' = FALSE
  /\ encoding' = "" /\ needs' = 0 /\ resp' = <<>>

Idle == [status |-> "invalid", headers |-> <<>>, body |-> <<>>]
Init ==
  /\ at = "request" /\ response = Idle /\ wire = <<>> /\ cut = FALSE /\ buffer = <<>>
  /\ searched = 0 /\ eofbit = FALSE /\ encoding = "" /\ needs = 0 /\ resp = <<>>

httpGet == at = "request" /\ \E r \in Responses : Start(r)

-----------------------------------------------------------------------------
(* Reads *)

\* "\r\n" and "\n"; a blank line.  MatchMarkers says of a part without a marker that
\* it is searched to its end, and so finds no blank line that two reads have cut.
HasLine == LF \in ToSet(buffer)
Finds(marker) ==
  \E k \in searched .. Len(buffer) - Len(marker) : SubSeq(buffer, k + 1, k + Len(marker)) = marker
HasBlank == Finds(EOL \o EOL) \/ Finds(<<LF, LF>>)

\* Whether the buffer has what the read is for.
Met ==
  CASE at = "status" -> HasLine
    [] at \in {"headers", "blank"} -> HasBlank
    [] at = "chunk" -> Len(buffer) >= needs
    [] OTHER -> FALSE

Awaits == at \in {"status", "headers", "blank", "chunk", "rest"} /\ ~Met
Eof == Awaits /\ wire = <<>>

\* A read takes what is there, however the server's bytes were cut.
receive ==
  /\ Awaits
  /\ \E n \in 1 .. Len(wire) : /\ buffer' = buffer \o SubSeq(wire, 1, n)
                               /\ wire' = SubSeq(wire, n + 1, Len(wire))
  /\ searched' = IF at \in {"headers", "blank"} THEN Len(buffer) ELSE 0
  /\ UNCHANGED <<at, response, cut, eofbit, encoding, needs, resp>>

\* The connection is lost.
close ==
  /\ wire # <<>> /\ at \notin {"returned", "threw"}
  /\ wire' = <<>> /\ cut' = TRUE
  /\ UNCHANGED <<at, response, buffer, searched, eofbit, encoding, needs, resp>>

\* getline: of a buffer without a line feed it takes all, and the stream then
\* fails for good.
LineEnd == IF HasLine THEN SelectInSeq(buffer, LAMBDA b : b = LF) ELSE Len(buffer) + 1
line == IF eofbit THEN <<>> ELSE SubSeq(buffer, 1, LineEnd - 1)
getline ==
  /\ buffer' = IF eofbit THEN buffer ELSE SubSeq(buffer, LineEnd + 1, Len(buffer))
  /\ eofbit' = (eofbit \/ ~HasLine)
  /\ searched' = 0

-----------------------------------------------------------------------------
(* request *)

Throw == at' = "threw"

status_line ==
  /\ at = "status" /\ Met
  /\ getline
  /\ IF line[1] = "accepted" THEN at' = "headers" ELSE Throw
  /\ UNCHANGED <<response, wire, cut, encoding, needs, resp>>

\* The end of the connection is as good as a blank line.
read_headers ==
  /\ at = "headers" /\ (Met \/ Eof)
  /\ at' = "lines" /\ searched' = 0
  /\ UNCHANGED <<response, wire, cut, buffer, eofbit, encoding, needs, resp>>

header ==
  /\ at = "lines" /\ line \notin {<<>>, <<CR>>}
  /\ getline
  /\ encoding' = IF line[1] = "chunked" THEN "chunked" ELSE encoding
  /\ at' = CASE line[1] = "location" -> "request"
             [] line[1] = "other encoding" -> "threw"
             [] OTHER -> "lines"
  /\ UNCHANGED <<response, wire, cut, needs, resp>>

headers_end ==
  /\ at = "lines" /\ line \in {<<>>, <<CR>>}
  /\ getline
  /\ at' = IF encoding = "chunked" THEN "size" ELSE "rest"
  /\ UNCHANGED <<response, wire, cut, encoding, needs, resp>>

\* Nothing is in the buffer: it is filled up to a blank line.
read_size ==
  /\ at = "size" /\ buffer = <<>>
  /\ at' = "blank"
  /\ UNCHANGED <<response, wire, cut, buffer, searched, eofbit, encoding, needs, resp>>

\* std::stol takes the digits that the line starts with.
Digits == {ToString(d) : d \in 0 .. Base - 1}
Value(d) == CHOOSE n \in 0 .. Base - 1 : ToString(n) = d
digits == SelectInSeq(line \o <<CR>>, LAMBDA b : b \notin Digits) - 1
chunk_len == FoldLeft(LAMBDA n, d : Base * n + Value(d), 0, SubSeq(line, 1, digits))

\* The line is what the buffer has of it.
chunk_size ==
  /\ (at = "size" /\ buffer # <<>>) \/ (at = "blank" /\ Met)
  /\ getline
  /\ CASE digits = 0 -> Throw /\ UNCHANGED needs
       [] digits > 0 /\ chunk_len = 0 -> at' = "returned" /\ UNCHANGED needs
       [] OTHER -> at' = "chunk" /\ needs' = chunk_len + Len(EOL)
  /\ UNCHANGED <<response, wire, cut, encoding, resp>>

\* As many bytes are copied, although the connection may have ended before them.
Garbage == "garbage"
Copied(n) == [k \in 1 .. n |-> IF k <= Len(buffer) THEN buffer[k] ELSE Garbage]

chunk_data ==
  /\ at = "chunk" /\ (Met \/ Eof)
  /\ resp' = resp \o Copied(needs - Len(EOL))
  /\ buffer' = SubSeq(buffer, needs + 1, Len(buffer))
  /\ at' = "size"
  /\ UNCHANGED <<response, wire, cut, searched, eofbit, encoding, needs>>

\* Without chunks the body ends with the connection, whatever ended it.
rest ==
  /\ at = "rest" /\ Eof
  /\ resp' = buffer /\ buffer' = <<>>
  /\ at' = "returned"
  /\ UNCHANGED <<response, wire, cut, searched, eofbit, encoding, needs>>

\* Mutant: a missing chunk size is the end of the body, like a missing header.
read_throws_tolerated ==
  /\ at \in {"status", "blank"} /\ Eof
  /\ at' = IF at = "status" THEN "threw" ELSE "returned"
  /\ UNCHANGED <<response, wire, cut, buffer, searched, eofbit, encoding, needs, resp>>

\* read_until: the connection ended before a status line or a chunk size.
read_throws ==
  /\ at \in {"status", "blank"} /\ Eof
  /\ Throw
  /\ UNCHANGED <<response, wire, cut, buffer, searched, eofbit, encoding, needs, resp>>

client ==
  \/ httpGet \/ receive \/ status_line \/ read_headers \/ header \/ headers_end
  \/ read_size \/ chunk_size \/ chunk_data \/ rest \/ read_throws

Next == client \/ close

-----------------------------------------------------------------------------
(* Properties *)

\* What is returned is the body.  A body in chunks is whole, in whatever cuts it came
\* and wherever the connection was lost: a size that was cut leads to an exception.
\* Without chunks a loss of the connection is not noticed, but nothing else is missing.
ReturnsTheBody ==
  at = "returned" =>
    IF encoding = "chunked" THEN resp = Whole(response)
    ELSE IsPrefix(resp, Whole(response)) /\ (cut \/ resp = Whole(response))

-----------------------------------------------------------------------------
(* What the model refutes *)

\* A response in chunks that was sent in full is read: not when a read ends within
\* the line of a size.
ChunksAreRead ==
  at = "threw" => cut \/ response.status # "accepted" \/ "other encoding" \in ToSet(response.headers)

=============================================================================
