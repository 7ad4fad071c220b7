# zit in TLA+

[zit](../src/README.md) is a BitTorrent client in C++.  This directory holds TLA+
specifications of its components, written from the code in `src/src`, the TLC
configurations that check them, and proofs for TLAPS of what matters most.  All
line numbers are of the files in `src/src`.

    tlc -config Download.cfg MCDownload.tla           # a run
    tlapm DownloadProofs.tla                          # a module of proofs

`PROJECT.json` lists the runs, what each definition models, a mutant of the code
for each property that is checked, the findings and the hazards.

## 1. The system

### Threads

| thread | runs | touches |
|---|---|---|
| torrent thread, one for each torrent (`main.cpp` 187) | `Torrent::start`, `Torrent::run`: the sockets of its own peers, and any handler of the `io_context` that all torrents share (timers of every torrent, the acceptor, what it accepted) | all of `Torrent`, `Peer`, `Piece`, of its own torrent and, in those handlers, of others |
| writer thread (`FileWriterThread`) | `FileWriter::run`, `write_next_piece` | the queue, the files, `Piece`, `Torrent::done`, `reset_piece`, `last_piece_written` |
| main thread | constructs the torrents (and scans their files), waits, joins; its signal handler calls `set_stopped` | `m_stopped`, `FileWriter::stop` |

Locks: `Torrent::m_mutex` (pieces), `Torrent::m_peers_mutex` (peers),
`Piece::m_mutex` (blocks), `FileWriter::m_queue_mutex` and `m_file_mutex`.

### Components

| component | state | operations | interacts with | what makes it correct |
|---|---|---|---|---|
| Piece bookkeeping (`piece.*`, `torrent.cpp` 1236-1325) | blocks requested and done, the data, `m_piece_written`; `m_client_pieces`, `m_active_pieces` | `set_block`, `next_offset`, `retry_blocks`, `reset`, `set_piece_written`, `active_piece`, `done` | peers, writer | map, bit and object agree; no piece is forgotten; written means on disk |
| Request pipeline (`peer.cpp` 371-592, 695) | choking, interest, `m_pending_requests`, remote pieces | `request_next_block`, `set_choking`, `have`, `set_block`, `request`; `retry_pieces` | pieces, connection | slots are neither lost nor leaked; the download completes |
| FileWriter (`file_writer.*`) | queue, `m_stop`, two mutexes | `add`, `run`, `stop`, `read_block`, `write_next_piece` | pieces, files | order, no lost wakeup, mutual exclusion, no deadlock, it ends |
| Files and start (`file_writer.cpp` 79-245, `torrent.cpp` 254-395) | files, marker, size of `m_client_pieces` | `allocate`, `verifyFileSize`, `writePiece`, `torrentComplete`, `verify_existing_file` | writer, pieces | crashes lose nothing; only complete torrents are published; a download goes on |
| Layout (`torrent.cpp` 245-325, 1282, `file_writer.cpp` 48, 207) | none | `file_at_pos`, `piece_length`, three loops over files | files | each byte at its own place, found again |
| Bitfield | bytes | get, assign, `fill`, `next`, `count`, `-`, `+` | pieces, peers | as sets of positions |
| Framing (`messages.cpp`, `peer.cpp` 237, 306) | bytes not yet parsed | `Message::parse`, `HandshakeMsg::parse`, read loops | connection, peers | each message handled once, in order, however the stream is cut |
| PeerConnection (`peer.cpp` 80-282) | `m_msg`, `m_send_queue`, `m_connected`, pending operations | `write`, `send`, `handle_resolve`, `handle_connect`, `stop` | peers, writer thread | one write at a time, in order, nothing stays behind |
| Peer list and run loop (`torrent.cpp` 418, 945-1045, 1160-1232) | `m_peers`, `m_stopped`, timers | `start`, `add_peer`, `retry_peers`, `disconnected`, `stop`, `run` | trackers, acceptor | one peer for an address; working peers stay; it ends |
| Trackers (`torrent.cpp` 486-943, `retry.hpp`) | UDP connection ids, shared by all torrents | `tracker_request`, `http_tracker_request`, `UDPTrackerRequest` | peer list, network | tiers in order, errors do not win over answers, a request ends |
| Interest and choking (`peer.cpp` 330-592, 695, `torrent.cpp` 1308) | `m_am_interested`, `m_am_choking`, `m_interested`, `m_choking` at both ends of a connection | `set_interested`, `set_am_choking`, `set_am_interested`, `report_bitfield`, `request` | peers of other clients, writer | both ends agree; requests are served; clients complete from each other |
| Acceptor (`peer.cpp` 285-369) | the map of acceptors by port, the connection it reads from | `start`, `accept`, `listen`; `Torrent::get` | all torrents | a remote reaches the torrent it asks for |
| Program (`main.cpp` 120-230) | threads, the shared `io_context`, timers, exceptions | constructing, starting, joining, the signal handler | everything above | handlers run once and under locks; timers survive exceptions; it ends |
| HTTP client (`net.cpp` 149-463) | the buffer of a response | `httpGet`, `request` | trackers | the body, whole, in any cuts |
| Bencode (`bencode.hpp`) | none | `encode`, `decode` | torrent files, trackers | decodes what it encodes; refuses what is cut |
| Url, SHA-1, configuration, command line, logging | see section 7 | | | |

### What is hard to test here

Two threads meet at pieces of which several objects may exist; retries race late
answers; one mutex is held while another is waited for, in two orders; the
program may stop between any two file operations; the network cuts the stream
anywhere; `retry_peers` changes a vector that it has iterators of; objects for
UDP trackers are shared by threads without a lock; the timers of one torrent are
handled, and their exceptions met, by the thread of another; two clients change
their minds about interest while each other's messages are on the way.  The list, with the lines and
the properties that cover each, is under `hazards` in `PROJECT.json`.

## 2. Modules

| module | models | extends or uses |
|---|---|---|
| `Download` | pieces, request pipeline and writer of one torrent, as steps between mutexes | implements `Store` as long as no retry was early |
| `MCDownload`, `DownloadProofs` | instances; theorems | `Download` |
| `WriteQueue` | abstract: what the FileWriter promises | |
| `FileWriter`, `FileWriterProofs` | every mutex, the condition variable and stop; theorems | implements `WriteQueue` |
| `Store` | abstract: what a torrent promises of its pieces, as files over crashes and as a download | |
| `Storage`, `MCStorage` | files and starts; instances | implements `Store` |
| `Layout` | positions of bytes | |
| `StorageProofs` | theorems about `Storage` and `Layout` | both |
| `Bitfield` | the class, against sets; theorem in `PeerProofs` | |
| `Bencode` | decoder and encoder, over texts | |
| `HttpClient` | reading of a response in any cuts | |
| `MCData` | instance of `Layout` and of the three modules above: one of them takes steps, the others stay where they start | `Layout`, `B == INSTANCE Bitfield`, `E`, `H` |
| `PeerWire`, `MCPeerWire` | framing; scripts of remotes | |
| `PeerConnection`, `PeerConnectionProofs` | connecting and sending; theorems | |
| `PeerList`, `MCPeerList` | the peers of a torrent | |
| `PeerProofs` | theorems about `PeerWire`, `Bitfield` and `PeerList`, which share the lemmas on induction | all three |
| `Tracker`, `MCTracker`, `TrackerProofs` | tracker requests of several threads; instance; theorems | |
| `Swarm`, `MCSwarm`, `SwarmProofs` | several clients that download from each other, both ends of each connection; instance; theorems | |
| `Program`, `MCProgram`, `ProgramProofs` | threads, timers, acceptors and ends of all torrents; instance; theorems | |

Names are those of the code where TLA+ allows it: action `set_block` is
`Torrent::set_block` or `Piece::set_block`, variable `client` is
`m_client_pieces`, and `map` in `PROJECT.json` gives the lines of each.  An
operator whose comment starts with "Mutant" is a plausible bug in the operator
below it and is used by nothing else.

**Download.**  `heap` maps object identities to Piece objects, since the map of
active pieces, the queue and a running handler hold `shared_ptr`s and a reset
piece gets a new object.  `net` is the handler that the torrent thread is in:
`request_next_block` and `retry_pieces` take `m_mutex` for each piece they look
at, so that the writer may run in between (`next_piece`, `next_offset`).
`writer` is where `write_next_piece` is.  `peer[r].flight` counts requests whose
answers may still come.  `part` is the content of the file during transfer,
`full` that under the final name.  Bytes are right or wrong; time is the choice
of pieces that are stale (`retry_pieces`).

**FileWriter.**  The same thread at the grain of mutex operations, with the
torrent thread in `set_block` and `get_block` and the main thread in `stop` and
`join`.  A wait has the predicate, the release and sleep, a wakeup (possibly
spurious) and the mutex again as steps of their own.

**Storage.**  `size` and `good` say of each file and each part of a piece in a file
what is on disk; `memory` is lost by `crash`.  `receive` stands for `Download` up to
the hash check, and happens only for what `relevant_pieces` names.

**Layout, Bitfield, Bencode, HttpClient.**  `uint32_t` and `int64_t` are the numbers of
values of the types that positions are kept in, and `narrow` is what such a variable keeps;
`Places` is the loop over the files; a byte is the set of its ones; a text is a sequence of characters, and a
parse is the set of its results, `{}` where the code throws.  `HttpClient` has an
action for each `read_until`, `getline` and copy, since what the stream has met
(`eofbit`) and what the buffer holds depend on where the network cut the response, and
`searched` on what a read ended: a blank line that two reads cut is not found (`net.cpp` 119);
chunk sizes are numbers in base `Base`.  The state machines walk through all contents.

**PeerWire.**  Real sizes of messages; a read delivers any number of bytes.  A script
is what the remote sends, on a connection that this client made (`Scripts`) or
that an acceptor took (`Incoming`); `accepted` is how much the acceptor had read
when it dropped its buffer.  The handlers are those of `Download`.  "lost" is a
buffer that starts in the middle of a message.  Payloads are not there, but for a piece
whose data has the text that a handshake starts with (`piece_of_text`, `Texts`):
`HandshakeMsg_parse` searches the whole buffer for it, as the code does.

**PeerConnection.**  `writes` are the `async_write`s under way, `after_write` the
handler of a completed one between its look at `m_send_queue` and what it does.  Both
threads go through `write` in two steps, the look at `m_msg` (`begin_write`, kept in
`looked`) and what follows from it (`end_write`).  `async_write` is given a view of
`m_msg` (`peer.cpp` 173): `takes` is the set of what may go out, the message, and once
another is put into `m_msg` also that one or a mix of both (`Torn`).

**PeerList.**  `retry_peers` is one action: `partition`, the stops, the reply of the
trackers, `add_peer` for each, `erase` and `insert`, with the iterator of the
partition as a count.  `partition` may leave either part in any order.  A reply may name an
address more than once (`Times`), and `add_peer` takes out the first peer that has it and no
other: the invariant bounds the peers of an address by the most that a reply names it
(`FewPerUrl`), and `ErasesInactive` says which addresses are left.  `lost` records what the
step did to peers that worked.

**Tracker.**  `req` holds the local variables of `tracker_request` of each thread,
`requests` the map of `udp_tracker_request`; `minute` makes a connection id old.

**Swarm.**  A client dials what its tracker names (`Dials`), and each connection has
`dialing[c]`, the `Peer` of the one that dialed, `listening[c]`, that of the one that
accepted, and a stream of messages each way.  The two ends differ in the code: the
handshake of the dialing end is read by the acceptor, which never gets
interested (`messages.cpp` 204).  A piece is one block, received, then checked and written by
the writer thread, which tells the remotes (`last_piece_written`).  A block is read from
memory while its piece is not written, then from the file.  That file is gone once
`torrentComplete` was called (`completed`; of several files the marker), so that the read throws and ends the
torrent thread (`request_throws`, `over`), but not of a client that had the torrent at its start.  `trouble` counts
corrupt blocks, broken connections and calls of `retry_peers` on connections in use.

**Program.**  `thread[t]` is what the thread named `t` is at and of which torrent:
after a poll it may be in a handler of any.  `timer` is unset, set or handled; `start`
and `retry_peers` keep `m_peers_mutex` (`lock`) while they ask the trackers, so that each is
split there, and other threads wait in between.  An exception ends the thread that polled
(the `_throws` actions).  The answer of the trackers in `start` replaces `m_peers`
(`torrent.cpp` 952) and frees what an acceptor has added since: `remote` is "freed", and what
is sent to it is undefined, so that `handle_freed` chooses between handling it, an exception and
the end of the program.  `accept_other` is a program that connects and may stay silent.

## 3. Runs

| run | question | instance |
|---|---|---|
| `download` | do map, bits, objects, queue and files agree, whatever fails? | 2 pieces (2 blocks and 1) in one file, 2 interchangeable peers, 5 objects, the scenarios below |
| `download_completes` | does a download end? | the same pieces in several files, 1 seed, 1 corrupt block, choke and lost connection |
| `file_writer` | exclusion, order, wakeups, reading back and stop | 2 pieces, 3 `add`s, 2 `get_block`s |
| `file_writer_read` | does `read_block` return? (it does not, section 4) | 1 `add`, 1 `get_block` |
| `storage_multi` | do pieces survive, and does a download go on, over several files? | 4 pieces over 2 files, one of them in both; 2 crashes, 2 failures |
| `data` | are the bit operations those of sets? do writer, scan and reader agree on where bytes are? does bencode decode what it encodes, and nothing that is cut? is an HTTP body whole in all cuts? | up to 3 bytes of 3 bits with all arguments; up to 3 files of 0 to 3 bytes, pieces of 1 to 4, 8 values of `uint32_t` and 64 of `int64_t`; texts of up to 5 words, and values of two levels; bodies of up to 2 chunks |
| `peer_wire` | is every message handled once, in order? | handshake, bitfield or not, two messages of any kinds, or one of them a piece that holds the text of a handshake; all ways to cut the stream |
| `peer_connection` | order and completeness of what is sent | 2 endpoints, 4 writes, 2 more by the writer thread |
| `peer_list` | few peers for an address; reconnection; which peers are dropped | 2 addresses, one of which a reply may name twice, all replies that name the first, 2 incoming connections, failing trackers |
| `tracker` | order of tiers, errors against answers, end of requests | torrent 1: a tier of 2 HTTP trackers, then a UDP tracker; torrent 2: the same UDP tracker; 1 request by each, for any event (started as unspecified) |
| `swarm` | do the ends of connections agree, are requests served, do all complete? | 3 clients in a chain: one has all, the one in the middle downloads and uploads; 2 pieces in a single file, 1 pending request, 1 trouble |
| `program` | do timers, remotes and the end survive sharing and exceptions? | 2 torrents on one port and one `io_context`, 1 remote, and others that connect and may stay silent; 1 exception |

**Scenarios.**  `Download` with all disturbances at once has too many states, so
`MCScenario`, a state constraint of `MCDownload`, keeps to behaviours in which one of
four groups of them happens: an early retry and a corrupt block; a corrupt block, a
failed write, a choke, a lost connection and an upload; an early retry, a failed write and a
lost connection; an early retry with two peers.  In the second the remotes may have
any bitfield, in the others they are seeds.  The groups overlap and each is explored
exhaustively.  `DownloadProofs` covers what they leave out.

**Why these bounds.**  Two pieces, one with two blocks, is the least in which a
piece is partial, a torrent incomplete, and one piece can be reset while another
completes; a budget of one for each disturbance lets it happen at any place.
Five objects are as many as `shared_ptr`s can hold at once, so that none is missing.
Four disturbances of `Storage` give a crash inside the recovery from a crash, and its
pieces need more than one byte (`ByteBits` bits each) and do not fill the last, so that
`m_client_pieces` can be shorter than the torrent.  In `Layout` a piece may
lie in one file, end at a border, and span three files with an empty one; with 8
values of `uint32_t` the last layouts wrap, which the code does at 4 GiB.
Two messages after the handshake give every kind before every other; a third
would only repeat.  Two endpoints and two tiers give "another one" and "the last one".
Two addresses are enough for `retry_peers` to erase the peer of one because `add_peer` took
out that of the other; a reply that names one twice gives lists in which `add_peer` has
to choose; and replies that all name one address are what `Reconnects` asks of the environment.
Four writes before and during connecting fill the queue behind a write, and the two of the
writer thread come between any of them.
Five words make a dictionary or a list with a nested one, and every text that lacks its
end; `RECURSION_LIMIT` is 2 so that texts go beyond it.  The client in the middle of `Swarm` may
have none, one or both pieces when it is asked, since no client says so later; two slots
(`MaxSlots`) are one more than a client asks for of its own, as `retry_pieces` does; with
`SingleFile = FALSE` the same properties hold.  Two
torrents give a thread that handles the timers of the other, a lock that the
other holds, and an acceptor that finds its port taken; one exception, at any handler,
leaves one thread to go on.

`CHECK_DEADLOCK FALSE` is given where the system may stop: a torrent is
complete, the program is stopped, or all budgets are used.

**Fairness.**  `Torrent::run` polls each `io_service` and the timers in each turn,
and sleeps 10 ms at most: a message or timer that is due is handled
(`SF` where the thread may be busy with another handler).  The writer thread and
its file operations go on (`WF`).  A lock is given to its waiters in the end, because
each holder goes on and the calls that contend are bounded.  Asynchronous
operations complete, `udpRequest` ends with its timeout.  The `io_context` gives
handlers in the order in which they became ready, so that a timer or a connection
is handled in the end by some thread that polls (`SF` for each handler, of `Program`; that
another program that connects says anything is not assumed).  That remotes answer,
unchoke and can be reached again, that trackers name them again (`Swarm`), and that the program is started after a crash, is
an assumption on the environment; nothing is assumed of the budgets.

**Where promises end.**  Some properties hold up to a boundary that TLC found, and
name it, so that a reader sees how far the code can be relied on:

| property | boundary |
|---|---|
| `PublishedStays`, `PiecesAreKept` | as long as no retry was early |
| `DownloadCompletes` | unless a block was corrupt: a piece that was reset is asked for again only when a remote unchokes this client or announces a piece |
| `StopFinishes` | a stop while the writer has a piece in hand: an earlier one may be lost (`JoinReturns`) |
| `AddedIsHandled`, `StopFinishes` | unless `Deadlocked`: the writer and a `get_block` wait for each other |
| `ResumesToTheEnd` | from states with `CanResume`, so not with an `m_client_pieces` that a scan made too short |
| `BytesInPlace`, `ReadsBack` | layouts whose positions do not wrap |
| `AllHandled` | but for `HandshakeCut`, `AcceptorHasMore`, `TextTaken` (a read ended 68 bytes after the text of a handshake in a piece) and messages behind an unsupported or too large one |
| `SentInOrder`, `AllSent` | while only the torrent thread writes to the connection |
| `Inv` of `PeerConnection`: one `async_write` at a time, of whole messages, none twice | as long as no thread puts a message over one that is sent, after a look at `m_msg` that was stale (`stale`) |
| `ErasesInactive` | replies that name no inactive peer: otherwise `add_peer` removes elements before the iterator that `erase` is given |
| `ConnectedHasId` in `Inv` of `Tracker` | unless another thread uses the same UDP tracker |
| `HttpTiersAreTried` | tiers of HTTP trackers only |
| `Served` | while some thread polls and an acceptor listens that does not wait for a silent one (`OtherIsSilent`); not a remote whose `Peer` was added while its torrent was in `start`, and freed there |
| `TimersGoOn` | while some thread polls |
| `RequestsAreServed` | but for pieces that were reported before they were checked, and reset since; and the thread of a client that has downloaded the torrent ends at the first request after its completion |
| `AllComplete` | but for clients that have so ended, and those that dial one (`Ended`) |
| `AllEnd` | threads are taken to come out of their handlers, which one in `get_block` does not if it waits for the writer (`ReadReturns`, section 4) |
| `ReturnsTheBody` | a body without chunks may end where the connection was lost |

## 4. Where the code does otherwise than it says

The run `file_writer_read` expects a violation, the one finding of `PROJECT.json`:
`FileWriter::read_block` (`file_writer.hpp` 77) "can block until the writer thread is
done", but `Piece::get_block` keeps `Piece::m_mutex` while it waits for `m_file_mutex`,
and `write_next_piece` takes them in the other order: both wait for ever.

Each module ends with properties that state what other comments or messages of
the program say, and that the model refutes.  To see how, put the name as the only
`INVARIANT` or `PROPERTY` into the configuration given here.  A name with `!` is
that of an instance in `MCData`, which gets a definition first, such as
`P == part = "bitfield" => B!MinusIsDifference`.

| property | configuration | the code says | but |
|---|---|---|---|
| `DoneOnlyByLastBlock` | `Download.cfg` | `set_block` is true for the last remaining block (`piece.hpp` 53) | also for a duplicate (`piece.cpp` 83): the piece is queued again |
| `DoneIsOnDisk` | `Download.cfg` | `done()`: all pieces are on disk (`torrent.hpp` 352) | a piece queued twice is reset when the hash of its second turn fails, and, fetched anew, is written after the rename: `allocate` makes a new file of zeros and `torrentComplete` puts it over the complete one |
| `ClientIsOnDisk` | `Download.cfg` | `client_pieces()` are on disk (`torrent.hpp` 312) | set before the hash is checked (`torrent.cpp` 1323) |
| `KeepsSeeding` | `Download.cfg` | "Continuing to seed" (`main.cpp` 176) | blocks are read from `tmpfile()`, which is gone (`file_writer.cpp` 48): the first block a remote asks for ends the torrent thread |
| `PendingWithinMax` | `Download.cfg` | a maximum for each peer (`global_config.hpp` 69) | `retry_pieces` asks each for at least one more (`torrent.cpp` 1140) |
| `JoinReturns` | `FileWriter.cfg` | stop, or the destructor would hang (`file_writer.hpp` 53) | `run` resets `m_stop`, and `stop` notifies without the mutex: a stop can be lost |
| `B!MinusIsDifference` | `Data.cfg` | subtracts (`bitfield.hpp` 105) | cut to the shorter operand (`bitfield.cpp` 149) |
| `RelevantIsComplete` | `StorageMulti.cfg` | what we do not have (`torrent.hpp` 328) | so that after a restart pieces at the end are never asked for |
| `AllocateMakesSpace` | `StorageMulti.cfg` | allocates space (`file_writer.cpp` 98) | not when `tmpfile()` is there from a crash in `allocate` (127) |
| `StartScans` | `StorageMulti.cfg` | a start scans what is there (`torrent.cpp` 225) | a short file throws inside a parallel loop: the program ends at each start |
| `SuffixMeansTransfer` | `StorageMulti.cfg` | the suffix is used during transfer (`torrent.hpp` 223) | it stays after a crash between the last write and the rename |
| `TmpfileHasPieces` | `StorageMulti.cfg` | the torrent is written to `tmpfile()` (`torrent.hpp` 211) | for several files it is a marker beside them |
| `WritesAtOffset` | `Data.cfg` | pieces are written at their offset (`file_writer.cpp` 292) | a product of two `uint32_t` wraps (213) |
| `E!ReencodingKeeps` | `Data.cfg` | the info hash is that of `encode(decode(info))` (`torrent.cpp` 223) | other texts decode too: unsorted or repeated keys, `-0`, leading zeros |
| `H!ChunksAreRead` | `Data.cfg` | a response in chunks is read until the chunk of size 0 (`net.cpp` 259) | a read that ends inside the line of a size: the rest of the line is not waited for, and an exception follows |
| `LoopHandlesAll` | `PeerWire.cfg` | none, one or more messages (`peer.cpp` 243) | CANCEL, PORT and unknown ones consume all of the buffer (`messages.cpp` 309); a piece may be taken for a handshake (138) |
| `ClosedForLength` | `PeerWire.cfg` | closed for corrupt lengths (`messages.cpp` 124) | and for a handshake in two parts (221) |
| `CallerHasRest` | `PeerWire.cfg` | the caller has the rest (`messages.cpp` 178) | `listen` drops it (`peer.cpp` 336) |
| `QueuedBehindSend` | `PeerConnection.cfg` | queued while sending (`peer.cpp` 95) | queued for ever after all endpoints failed (230) |
| `SentOnceByBoth` | `PeerConnection.cfg` | queued if something is being sent (`peer.cpp` 95) | the writer thread may have looked before (`peer.cpp` 96): two `async_write`s at a time, each with a view of one `m_msg`, send one message twice or a mix |
| `EmptyMeansDone` | `PeerConnection.cfg` | empty means done (`peer.cpp` 193) | a message of the writer thread may stay behind (188) |
| `StopsInactive`, `DiscardsActive` | `PeerList.cfg` | inactive peers are stopped, active ones kept (`torrent.cpp` 1203, 1214) | the range is that of the active ones; `add_peer` removes the active one with the address |
| `ErasesFound` | `PeerList.cfg` | as many are erased as are inactive (`torrent.cpp` 1210) | when the reply names an inactive one, `add_peer` takes it out first, and an active one is erased in its place, or what is behind the vector |
| `TiersAreTried` | `Tracker.cfg`, with `<<{h1, u1}>>` as the tiers of `t1` in `MCTiers` | each tier in order (`torrent.cpp` 874) | the failure of a UDP tracker leaves its tier (893) |
| `OwnPeers` | `Tracker.cfg` | peers of this torrent (`torrent.hpp` 459) | of another torrent with the same UDP tracker (`torrent.cpp` 842) |
| `AnnounceIsConnected` | `Tracker.cfg` | no announce without a connection (`torrent.cpp` 602) | another thread resets the id in between (739) |
| `ReportedIsThere` | `Swarm.cfg` | `client_pieces()`, which BITFIELD sends, are on disk (`torrent.hpp` 312) | also those that are not checked yet: a remote asks for them, and is not answered once they are reset |
| `KeepsSeeding` of `Swarm` | `Swarm.cfg` | as above | as above: a client that dials it may never complete |
| `CompleteIsNotInterested` | `Swarm.cfg` | "completed. Notifying peers" (`torrent.cpp` 1308) | the torrent thread may have decided to be interested just before, and say so after the writer thread said that it is not |
| `AcceptorsStay` | `Program.cfg` | acceptors stay alive indefinitely (`peer.hpp` 114) | an exception in a handler of one loses it |
| `StartsWithoutPeers` | `Program.cfg` | "Local peer vector not empty" is an error (`torrent.cpp` 948) | it is thrown when the acceptor of another torrent was faster than `start` |
| `PeersStayAlive` | `Program.cfg` | "copy shared_ptrs to keep peers alive" (`torrent.cpp` 1017) | one that was accepted while `start` waits for the trackers is freed by their answer (952), while it is connected |
| `ServedInTurn` | `Program.cfg` | the loop of `listen` serves one remote after the other (`peer.cpp` 323) | it reads a handshake before it accepts the next: a silent remote holds up all (333) |
| `PeersUnderLock` | `Program.cfg` | `m_peers_mutex` guards `m_peers` (`torrent.hpp`) | `add_peer` of an accepted remote does not take it |

## 5. Proofs

For every value of the constants that satisfies the assumptions of the module:

| module | theorems |
|---|---|
| `DownloadProofs` | `Invariance`, `TypeCorrectness`, `ClientPiecesAreComplete`, `WrittenPiecesAreOnDisk`, `NoPieceIsForgotten`, `FirstCompletion`, `PendingAreOutstanding`, `PublishedIsKept`, `DownloadIsAStore` (implements `Store`) |
| `FileWriterProofs` | `FileInvariance`, `ReadBack`, `WritesInOrder` (implements `WriteQueue`) |
| `StorageProofs` | `StorageInvariance`, `WrittenPiecesAreWhole`, `StorageIsDurable` (implements `Store`), `BytesStayInPlace`, `LoopsAgree` |
| `PeerConnectionProofs` | `ConnectionInvariance`, `MessagesInOrder` |
| `PeerProofs` | `FramingIsRight`, `BitfieldsAgree`, `PeersAreFew` |
| `SwarmProofs` | `ConnectionsAgree`, `BothEndsAgree`, `RequestsServed` |
| `TrackerProofs` | `HttpTiersTried`, `AnswersAreKept`, `TrackerInvariance` |
| `ProgramProofs` | `ProgramInvariance`, `LocksAreReleased`, `TimersAreHandledOnce` |

**Download.**  `ClientIffComplete` alone is not inductive: `reset_piece` and
`set_piece_written` act on the object in the hands of the writer, and it matters
whether that is the active one of its id.  `IndInv` adds that the map is keyed by
the id of its objects (`ActiveById`), that only active objects hold right bytes
(`DataIsActive`: an object that left the map was reset, so a stale queue entry
fails the hash check), what the writer may rely on at each place
(`WriterHasData`), and that `done()` stays true until `torrentComplete`
(`StillDone`).  `DataIsActive` makes `reset_piece` harmless for pieces that are
written; `StillDone` is what `FirstCompletion` needs.  One lemma for each action of
the writer and the torrent thread, and the rest in one.

**Published.**  After the first completion nothing may be written again, or the file of
zeros that `allocate` makes replaces the complete one.  That fails after an early retry
(`DoneIsOnDisk`, section 4), so the second invariant, `Settled`, says what holds while
none was early (`Quiet`): a block is under way from one remote once, and only while the
active object waits for it (`OnTheWay`, `Asking`), a piece comes to the writer once
(`QueuedOnce`, `InHand`), and of a complete torrent nothing is left for the writer
(`Kept`).  It rests on `IndInv`, and the theorem cites `Invariance`.

**Download as a Store.**  `PiecesAreKept` maps `piece_written()` of all pieces and the first
completion to `Store`, step by step: only `mark_written` adds a piece, `torrentComplete`
publishes when all are there, and everything else is a stutter.  The step that could break it
is `reset_piece`, which resets by id: with `InHand` the object in the hands of the writer is
the active one and not written.  After an early retry a second copy in the queue does reset
a written piece, so that the condition `used.late = 0` is needed (TLC finds the counterexample
without it).  `Storage` and `Download` thus implement the same abstract `Store`, one for what is on
disk and one for what the program keeps in memory.

**Pending.**  `m_pending_requests` and the answers that may still come change in different
handlers, and a request is counted for each of its copies: the invariant compares the
counter with the size of the set of outstanding copies (`Outstanding`), to which a request
adds one element and an answer or a loss takes one away.  That is inductive by itself.

**FileWriter.**  The invariant ties each mutex to the places where it is held, and
the flag of a piece to its write.  For `WriteQueue` the mapping puts the piece in
hand before the queue; `take` is then a stutter and `Leave` the step `Handle`.

**Storage.**  A file is created only while no piece is stored
(`CreatedBeforeWritten`), what is published is whole (`PublishedIsWhole`), and the
writer knows how far it is in a piece (`WriterHasPiece`).

**Layout.**  Files are one behind the other (`FilesInOrder`), so that a position below the
length has one place (`OnePlace`) and `file_at_pos` finds it (`FileAt`).  The loop is a
recursive function of what is left to do, with steps of different sizes: that it exists
(`WalkExists`), and that its places are those of the positions in a row (`PlacesAre`), are
inductions over numbers.  Pieces are where `\div` says (`Quotient`, `PiecesAre`), so that a
write touches the bytes of its piece and no others (`BytesPut`).  With that `BytesInPlace` is
inductive together with the type, and the scan and the reader, which use the same loop from
other positions, follow from it in each state (`BytesRead`).  The theorems hold for any two types:
`StartsFit` and the length are compared with their numbers of values, and the case in which
a start wraps is excluded there, as in the property (`WritesAtOffset`, section 4).

**PeerConnection.**  What can go wrong with `m_msg` starts with a thread that puts a message
there after a look that another has made untrue, which the history `stale` records.  Until then
one `async_write` or its handler is under way, and what it may take is `m_msg` alone
(`Exclusive`), since `m_msg` is replaced only when none is; and each message is in one place:
sent, in `m_msg`, in the queue, or in the hands of a thread (`Distinct`).  That a
look at an empty `m_msg` is not stale unless the other thread has filled it rests on who may do what in
between: only handlers of the torrent thread clear it (`Looking`, `Waiting`).  While the torrent thread writes
alone the messages in these places are, in order, those from 1 to the last one written
(`Ordered`), and nothing is stale (`Alone`).  `Reading` counts the chains of reads, which does not
need any of this.

**PeerWire.**  `Inv` says what was received when a handler is called; the inductive
invariant says that these bytes are consumed (`HandledAreConsumed`), from which the order
follows: the message that starts where the next byte is taken from is later than all that
were handled.  For that `Start` has to be shown to exist, to be made of the sizes and to
increase, each by an induction over numbers for a set (`Induction`, from `WFMin` of the
library).  `Handshake` says what `HandshakeMsg::parse` may answer: never more bytes
than there are.

**Bitfield.**  Everything rests on positions: each is one offset of one byte (`Positions`), and
their order is that of the bytes, then of the offsets (`Ordered`), which are the only facts
taken from `\div` and `%`.  `fill` is first shown to put into each byte the offsets that
belong to it (`FilledBytes`), whether it takes a mask or the whole byte.  `count` is compared
byte by byte with the ones up to there (`OnesOfOneMore`); that function is also what shows that
the recursive one exists.  The theorem holds for any width of a byte, so nothing of it depends
on there being 8 bits; the bound `MaxBytes` is any number.  That a bitfield is a sequence of
at most `MaxBytes` bytes is the invariant, and all parts of `BitfieldAgreesWithSets` follow from it.

**PeerList.**  `FewPerUrl` counts the peers of an address.  `partition` and the erased or kept
suffix add none (`Holders` of a sequence in another order, of a part of one); each `add_peer` takes
away one holder of its address, if there is one, and comes with one new peer: after a reply
that names the address `n` times, either all earlier ones are gone and `n` are there, or there
are no more than before.  That is an induction over the reply, again over numbers for
a set (`AddAllRemoves`).  Where the range of the erase ends behind the vector, what follows is
undefined and no handler of the thread runs any more.

**Swarm.**  Whether a REQUEST is served depends on what both ends know, on what is on its way
between them in each direction, and on when it was sent.  The invariant looks at one connection
and one direction at a time (`IndInv`): a request is under way once, from an end that was unchoked
and that had said that it is interested before it, in the same stream, and it is answered by
one PIECE.  A stream is changed by putting a message behind it or taking the first one
away, and a lemma says what either does to each part.  That the read of a block does not throw
at a client that had all pieces when it started needs that its writer never gets one
(`SeedsStay`): a block is on its way only for a piece whose bit is not set (`OnTheWay`).

**Tracker.**  Each record in `req` is looked at by itself (`Fine`): the tiers that are left are
the last ones of the torrent (`Known`), those before them were tried unless they have a UDP
tracker or the torrent stops (`Tried`), and the tier in hand has lost just
the trackers that were asked.  Each action moves one record by one of a few lemmas.
`TiersInOrder` needs `DisjointTiers`, no tracker in two tiers, which is an assumption of
`TrackerInvariance` alone.

**Program.**  `Inv` is inductive as it stands: `NotStarted` is what makes it so, since
`start` sets timers and the acceptor without asking whether they are in use.  The end of the
program that a freed `Peer` may bring leaves no mutex and no timer behind (`HandleFreedKeeps`).

The assumptions are those of the modules: sizes are positive, names are distinct,
bounds are natural numbers.  No assumption is made on the bounds otherwise, so
that a budget of disturbances of any size is covered.

## 6. Checked only by TLC

Liveness (`DownloadCompletes`, `CompleteIsSettled`, `AddedIsHandled`,
`StopFinishes`, `ResumesToTheEnd`, `AllHandled`, `AllSent`, `Reconnects`,
`RequestEnds`, `AllComplete`, `TimersGoOn`, `Served`, `AllEnd`): fairness
and ENABLED are outside of the proof system.

`ErasesInactive` has no proof yet.

The rest of the run `data`: `decode` and `encode` recurse over data of any depth, and
the prover cannot instantiate the induction that this needs, and `HttpClient` reads the line
of a size with a RECURSIVE operator.  `BitfieldAgreesWithSets` is proved as
`BitfieldsAgree` about `Bitfield` itself; the run reaches it through an instance.

## 7. Not modelled

- Sizes of several requests that travel together: `Swarm` has one block to a piece, `Download`
  the blocks and one client.
- Data races as such, on `m_msg` and `m_send_queue`, too, of which only the orders of the looks and the
  writes are modelled, and on the UDP objects: loops of the torrent
  thread over `m_active_pieces` are one step, and `PeersUnderLock` shows where `m_peers` is
  changed without its mutex, not what that does to the vector.  `m_torrent_written_callback`,
  set while its thread runs, is left out.
- Payloads other than a text that looks like a handshake: extra bits of a bitfield, the other
  members of a torrent file.
- HTTPS and the TLS library, the resolver, and a redirection that leads back to itself.
- Starts of a torrent of one file are covered by `StorageProofs` and not by a run: the constants of
  `storage_multi` are those in which pieces span files.
- Url, SHA-1, logging, configuration, the command line: no state of their own.  Settings are
  constants (`MaxPending`) or fixed (`VERIFY_PIECES_ON_STARTUP` on).

## 8. What could follow

- `Download` with `PeerConnection`: requests that `retry_pieces` makes at a
  stopped peer are marked and never sent.
- A proof of `ErasesInactive`: an induction over the reply, as for `PeersAreFew`.
- Proofs about `Bencode` and `HttpClient` would need induction over data, which a prover with
  higher-order lemmas can do.
