------------------------------- MODULE Program -------------------------------
(***************************************************************************)
(* The threads of the program: one for each torrent, which starts it and   *)
(* then polls the peers of the torrent and the one io_context that all     *)
(* torrents share.  The timers of every torrent, the acceptor and the      *)
(* connections that it accepted have their handlers there, and whichever   *)
(* thread polls next runs one, to its end.                                 *)
(*                                                                         *)
(* An exception leaves run() and ends the thread that polled, not that of  *)
(* the torrent whose handler it was.                                       *)
(***************************************************************************)
EXTENDS Naturals, FiniteSets

CONSTANTS
  Torrents,   \* each has a thread, named after it
  Remotes,    \* those that connect to the listening port
  wants,      \* remotes -> the torrent whose info hash they send
  None,
  MaxThrown   \* bound: exceptions

ASSUME ProgramAssumption ==
  /\ wants \in [Remotes -> Torrents]
  /\ None \notin Torrents \cup Remotes
  /\ MaxThrown \in Nat

VARIABLES
  thread,     \* what the thread of each torrent is at, and of which torrent
  lock,       \* m_peers_mutex of each torrent: the thread that holds it
  m_peers,    \* whether m_peers of a torrent has a peer, before it is started
  timer,      \* the timers of each torrent
  acceptors,  \* m_acceptors, by the thread that inserted the entry
  remote,     \* the connection of each remote
  m_stopped,  \* m_stopped of each torrent
  thrown      \* how much of the bound has been used

vars == <<thread, lock, m_peers, timer, acceptors, remote, m_stopped, thrown>>

Kinds == {"pieces", "peers"}
Timers == Torrents \X Kinds

At(t, place) == thread[t].at = place
Go(t, place, u) == thread' = [thread EXCEPT ![t] = [at |-> place, of |-> u]]

\* An exception that reaches the lambda of main: it is printed.
Throw(t) ==
  /\ thrown < MaxThrown
  /\ thrown' = thrown + 1
  /\ Go(t, "over", None)

Locks(t, u) == lock[u] = None /\ lock' = [lock EXCEPT ![u] = t]
Unlocks(u) == lock' = [lock EXCEPT ![u] = None]

Init ==
  /\ thread = [t \in Torrents |-> [at |-> "new", of |-> None]]
  /\ lock = [t \in Torrents |-> None]
  /\ m_peers = [t \in Torrents |-> FALSE]
  /\ timer = [h \in Timers |-> "unset"]
  /\ acceptors = [t \in Torrents |-> [at |-> "none", conn |-> None]]
  /\ remote = [r \in Remotes |-> "connecting"]
  /\ m_stopped = [t \in Torrents |-> FALSE]
  /\ thrown = 0

-----------------------------------------------------------------------------
(* Torrent::start *)

\* Under the lock, which is kept to the end of start.
start(t) ==
  /\ At(t, "new") /\ ~m_peers[t]
  /\ Locks(t, t)
  /\ Go(t, "start", t)
  /\ UNCHANGED <<m_peers, timer, acceptors, remote, m_stopped, thrown>>

\* "Local peer vector not empty"
start_not_empty(t) ==
  /\ At(t, "new") /\ m_peers[t]
  /\ lock[t] = None
  /\ Go(t, "over", None)
  /\ UNCHANGED <<lock, m_peers, timer, acceptors, remote, m_stopped, thrown>>

\* Its timers are set, and run follows.
Scheduled(t) ==
  /\ timer' = [timer EXCEPT ![<<t, "pieces">>] = "set", ![<<t, "peers">>] = "set"]
  /\ Unlocks(t)
  /\ Go(t, "run", None)

\* tracker_request has an answer: what it names replaces m_peers, and so frees the
\* Peers that the acceptor has added since start was called, whose connections go on.
\* The handshakes are sent; PeerAcceptor::m_acceptors has the port, or acceptOnPort is
\* to insert it.
start_done(t) ==
  /\ At(t, "start")
  /\ remote' = [r \in Remotes |-> IF wants[r] = t /\ remote[r] = "peer" THEN "freed"
                                  ELSE remote[r]]
  /\ IF \E u \in Torrents : acceptors[u].at # "none"
       THEN Scheduled(t)
       ELSE Go(t, "insert", t) /\ UNCHANGED <<lock, timer>>
  /\ UNCHANGED <<m_peers, acceptors, m_stopped, thrown>>

start_throws(t) ==
  /\ At(t, "start")
  /\ Throw(t)
  /\ Unlocks(t)
  /\ UNCHANGED <<m_peers, timer, acceptors, remote, m_stopped>>

\* try_emplace inserts the entry that it did not find, although another thread
\* may have done so since.
acceptOnPort(t) ==
  /\ At(t, "insert")
  /\ acceptors' = [acceptors EXCEPT ![t].at = "spawned"]
  /\ Scheduled(t)
  /\ UNCHANGED <<m_peers, remote, m_stopped, thrown>>

-----------------------------------------------------------------------------
(* Torrent::run *)

\* Mutant: the loop goes on while any torrent does.
run_done_all(t) ==
  /\ At(t, "run")
  /\ \A u \in Torrents : m_stopped[u] /\ timer[<<u, "peers">>] = "unset"
  /\ Go(t, "over", None)
  /\ UNCHANGED <<lock, m_peers, timer, acceptors, remote, m_stopped, thrown>>

\* m_io_context has work as long as a timer or an acceptor is there.
run_done(t) ==
  /\ At(t, "run") /\ m_stopped[t]
  /\ Go(t, "over", None)
  /\ UNCHANGED <<lock, m_peers, timer, acceptors, remote, m_stopped, thrown>>

\* A handler of one of its own peers throws; a turn of the loop starts with the
\* peers, copied under the lock.
Polls(t) == At(t, "run") /\ ~m_stopped[t] /\ lock[t] = None

peer_throws(t) ==
  /\ Polls(t)
  /\ Throw(t)
  /\ UNCHANGED <<lock, m_peers, timer, acceptors, remote, m_stopped>>

\* poll_one takes the handler of a timer, which has expired by then.
poll_timer(t, u, kind) ==
  /\ Polls(t)
  /\ timer[<<u, kind>>] = "set"
  /\ timer' = [timer EXCEPT ![<<u, kind>>] = "handled"]
  /\ Go(t, kind, u)
  /\ UNCHANGED <<lock, m_peers, acceptors, remote, m_stopped, thrown>>

-----------------------------------------------------------------------------
(* retry_pieces and retry_peers of torrent u, on thread t *)

\* Each returns at once when the torrent was stopped, and schedules nothing.
retry_stopped(t, u) ==
  /\ thread[t] \in [at : Kinds, of : {u}]
  /\ m_stopped[u]
  /\ timer' = [timer EXCEPT ![<<u, thread[t].at>>] = "unset"]
  /\ Go(t, "run", None)
  /\ UNCHANGED <<lock, m_peers, acceptors, remote, m_stopped, thrown>>

\* retry_pieces needs the lock when there is something to retry.
retry_pieces(t, u) ==
  /\ thread[t] = [at |-> "pieces", of |-> u]
  /\ lock[u] = None
  /\ timer' = [timer EXCEPT ![<<u, "pieces">>] = "set"]
  /\ Go(t, "run", None)
  /\ UNCHANGED <<lock, m_peers, acceptors, remote, m_stopped, thrown>>

\* retry_peers keeps it while the trackers are asked.
retry_peers(t, u) ==
  /\ thread[t] = [at |-> "peers", of |-> u] /\ ~m_stopped[u]
  /\ Locks(t, u)
  /\ Go(t, "request", u)
  /\ UNCHANGED <<m_peers, timer, acceptors, remote, m_stopped, thrown>>

retry_peers_done(t, u) ==
  /\ thread[t] = [at |-> "request", of |-> u]
  /\ timer' = [timer EXCEPT ![<<u, "peers">>] = "set"]
  /\ Unlocks(u)
  /\ Go(t, "run", None)
  /\ UNCHANGED <<m_peers, acceptors, remote, m_stopped, thrown>>

\* Mutant: what was thrown skips the schedule.
retry_peers_throws_unscheduled(t, u) ==
  /\ thread[t] = [at |-> "request", of |-> u]
  /\ Throw(t)
  /\ Unlocks(u)
  /\ UNCHANGED <<m_peers, timer, acceptors, remote, m_stopped>>

\* The ScopeGuard schedules the next call.
retry_peers_throws(t, u) ==
  /\ thread[t] = [at |-> "request", of |-> u]
  /\ Throw(t)
  /\ timer' = [timer EXCEPT ![<<u, "peers">>] = "set"]
  /\ Unlocks(u)
  /\ UNCHANGED <<m_peers, acceptors, remote, m_stopped>>

-----------------------------------------------------------------------------
(* PeerAcceptor::listen, a coroutine, for the acceptor a, on thread t *)

Acceptor(a, place, r) == acceptors' = [acceptors EXCEPT ![a] = [at |-> place, conn |-> r]]
Listening == {a \in Torrents : acceptors[a].at \in {"accepting", "reading"}}

listen(t, a) ==
  /\ Polls(t)
  /\ acceptors[a].at = "spawned" /\ Listening = {}
  /\ Acceptor(a, "accepting", None)
  /\ UNCHANGED <<thread, lock, m_peers, timer, remote, m_stopped, thrown>>

\* The address is in use, by another acceptor or another program: the completion
\* handler throws the exception again, and the entry of the map stays.
listen_throws(t, a) ==
  /\ Polls(t)
  /\ acceptors[a].at = "spawned"
  /\ IF Listening = {} THEN Throw(t) ELSE Go(t, "over", None) /\ UNCHANGED thrown
  /\ Acceptor(a, "gone", None)
  /\ UNCHANGED <<lock, m_peers, timer, remote, m_stopped>>

accept(t, a, r) ==
  /\ Polls(t)
  /\ acceptors[a].at = "accepting" /\ remote[r] = "connecting"
  /\ Acceptor(a, "reading", r)
  /\ remote' = [remote EXCEPT ![r] = "accepted"]
  /\ UNCHANGED <<thread, lock, m_peers, timer, m_stopped, thrown>>

\* The remote closed the connection, which is a system_error, or its handshake
\* is invalid or for no torrent here.
accept_fails(t, a, r) ==
  /\ Polls(t)
  /\ acceptors[a] = [at |-> "reading", conn |-> r] /\ remote[r] = "failed"
  /\ Acceptor(a, "accepting", None)
  /\ remote' = [remote EXCEPT ![r] = "over"]
  /\ UNCHANGED <<thread, lock, m_peers, timer, m_stopped, thrown>>

\* Others that connect, which have no torrent of this program: one is accepted, and
\* some time later it closes the connection or sends what is invalid, or never.
accept_other(t, a) ==
  /\ Polls(t)
  /\ acceptors[a].at = "accepting"
  /\ Acceptor(a, "reading", None)
  /\ UNCHANGED <<thread, lock, m_peers, timer, remote, m_stopped, thrown>>

other_fails(t, a) ==
  /\ Polls(t)
  /\ acceptors[a] = [at |-> "reading", conn |-> None]
  /\ Acceptor(a, "accepting", None)
  /\ UNCHANGED <<thread, lock, m_peers, timer, remote, m_stopped, thrown>>

\* add_peer, without the lock; the socket stays with the shared io_context.
add_peer(t, a, r) ==
  /\ Polls(t)
  /\ acceptors[a] = [at |-> "reading", conn |-> r] /\ remote[r] = "sent"
  /\ Acceptor(a, "accepting", None)
  /\ remote' = [remote EXCEPT ![r] = "peer"]
  /\ m_peers' = [m_peers EXCEPT ![wants[r]] = @ \/ At(wants[r], "new")]
  /\ UNCHANGED <<thread, lock, timer, m_stopped, thrown>>

\* Mutant: the connection belongs to the thread of the torrent.
handle_response_own(t, r) ==
  /\ Polls(t) /\ t = wants[r]
  /\ remote[r] = "peer"
  /\ remote' = [remote EXCEPT ![r] = "over"]
  /\ Throw(t) \/ UNCHANGED <<thread, thrown>>
  /\ UNCHANGED <<lock, m_peers, timer, acceptors, m_stopped>>

\* A message of an accepted connection: it is handled, or what handles it throws.
handle_response(t, r) ==
  /\ Polls(t)
  /\ remote[r] = "peer"
  /\ remote' = [remote EXCEPT ![r] = "over"]
  /\ Throw(t) \/ UNCHANGED <<thread, thrown>>
  /\ UNCHANGED <<lock, m_peers, timer, acceptors, m_stopped>>

\* A message for a Peer that was freed is undefined: it is handled, or what handles
\* it throws, or the program ends there.
handle_freed(t, r) ==
  /\ Polls(t)
  /\ remote[r] = "freed"
  /\ remote' = [remote EXCEPT ![r] = "over"]
  /\ \/ Throw(t) /\ UNCHANGED <<lock, timer>>
     \/ UNCHANGED <<thread, lock, timer, thrown>>
     \/ /\ thread' = [u \in Torrents |-> [at |-> "over", of |-> None]]
        /\ lock' = [u \in Torrents |-> None]
        /\ timer' = [h \in Timers |-> "unset"]
        /\ UNCHANGED thrown
  /\ UNCHANGED <<m_peers, acceptors, m_stopped>>

-----------------------------------------------------------------------------
(* The remotes, and the signal *)

\* A remote that was accepted sends its handshake, or something else.
Remote(r, next) ==
  /\ remote[r] = "accepted"
  /\ remote' = [remote EXCEPT ![r] = next]
  /\ UNCHANGED <<thread, lock, m_peers, timer, acceptors, m_stopped, thrown>>

send_handshake(r) == Remote(r, "sent")
send_other(r) == Remote(r, "failed")

\* The handler of SIGINT and SIGTERM goes through the torrents.
set_stopped(t) ==
  /\ ~m_stopped[t]
  /\ m_stopped' = [m_stopped EXCEPT ![t] = TRUE]
  /\ UNCHANGED <<thread, lock, m_peers, timer, acceptors, remote, thrown>>

Stopping == \E t \in Torrents : m_stopped[t]

-----------------------------------------------------------------------------

\* A thread on its own, and with a handler; what fails is no part of what must
\* happen.
Starts(t) == start(t) \/ start_not_empty(t) \/ start_done(t) \/ acceptOnPort(t)

Handles(t, u) ==
  retry_stopped(t, u) \/ retry_pieces(t, u) \/ retry_peers(t, u) \/ retry_peers_done(t, u)

Accepts(t, a) ==
  \/ listen(t, a) \/ listen_throws(t, a)
  \/ \E r \in Remotes : accept(t, a, r) \/ accept_fails(t, a, r) \/ add_peer(t, a, r)

Next ==
  \/ \E t \in Torrents :
       \/ Starts(t) \/ start_throws(t) \/ run_done(t) \/ peer_throws(t) \/ set_stopped(t)
       \/ \E u \in Torrents :
            \/ Handles(t, u) \/ retry_peers_throws(t, u) \/ Accepts(t, u)
            \/ accept_other(t, u) \/ other_fails(t, u)
            \/ \E kind \in Kinds : poll_timer(t, u, kind)
       \/ \E r \in Remotes : handle_response(t, r) \/ handle_freed(t, r)
  \/ \E r \in Remotes : send_handshake(r) \/ send_other(r)

Spec == Init /\ [][Next]_vars

Runs(t) == Starts(t) \/ run_done(t) \/ \E u \in Torrents : Handles(t, u)

\* Threads go on, a lock is given to each that waits for it in the end, trackers
\* answer; poll_one takes handlers in the order in which they became ready, and
\* connections are accepted in the order in which they were made.
FairSpec ==
  /\ Spec
  /\ \A t \in Torrents : SF_vars(Runs(t))
  /\ WF_vars(Stopping /\ \E t \in Torrents : set_stopped(t))
  /\ \A u \in Torrents, kind \in Kinds : SF_vars(\E t \in Torrents : poll_timer(t, u, kind))
  /\ SF_vars(\E t \in Torrents : \/ \E a \in Torrents : Accepts(t, a)
                                \/ \E r \in Remotes : handle_response(t, r))

-----------------------------------------------------------------------------
(* Properties *)

Places == {"new", "start", "insert", "run", "pieces", "peers", "request", "over"}

TypeOK ==
  /\ thread \in [Torrents -> [at : Places, of : Torrents \cup {None}]]
  /\ lock \in [Torrents -> Torrents \cup {None}]
  /\ m_peers \in [Torrents -> BOOLEAN]
  /\ timer \in [Timers -> {"unset", "set", "handled"}]
  /\ acceptors \in [Torrents -> [at : {"none", "spawned", "accepting", "reading", "gone"},
                                 conn : Remotes \cup {None}]]
  /\ remote \in [Remotes -> {"connecting", "accepted", "sent", "failed", "peer", "freed", "over"}]
  /\ m_stopped \in [Torrents -> BOOLEAN]
  /\ thrown \in 0 .. MaxThrown

\* m_peers_mutex of u is held by the thread that is in start or retry_peers of u,
\* and by no thread that has ended.
HeldInside ==
  \A t, u \in Torrents :
    lock[u] = t <=> thread[t] \in [at : {"start", "insert", "request"}, of : {u}]

\* A handler of a timer runs on one thread at a time, although any thread may
\* take it: the timer is set again at the end, however the handler ends.
Handling(t, u, kind) ==
  /\ thread[t].of = u
  /\ thread[t].at \in IF kind = "peers" THEN {"peers", "request"} ELSE {"pieces"}
HandledOnce ==
  \A u \in Torrents, kind \in Kinds :
    /\ timer[<<u, kind>>] = "handled" <=> \E t \in Torrents : Handling(t, u, kind)
    /\ \A s, t \in Torrents : Handling(s, u, kind) /\ Handling(t, u, kind) => s = t

\* One acceptor reads from a connection.
AcceptedOnce ==
  \A r \in Remotes : remote[r] \in {"accepted", "sent", "failed"}
                       => \E a \in Torrents : acceptors[a].at = "reading" /\ acceptors[a].conn = r

\* A torrent that is not started has no timer and no acceptor: what start sets
\* is not in use on any other thread.
NotStarted ==
  \A t \in Torrents :
    thread[t].at \in {"new", "start", "insert"} =>
      /\ thread[t].at # "new" => thread[t].of = t
      /\ \A kind \in Kinds : timer[<<t, kind>>] = "unset"
      /\ acceptors[t].at = "none"

Inv == TypeOK /\ HeldInside /\ HandledOnce /\ AcceptedOnce /\ NotStarted

NobodyPolls == \A t \in Torrents : At(t, "over")

\* The timers that a torrent has set are handled again and again until it is
\* stopped, as long as any thread polls: whatever was thrown where, and even if
\* the torrent's own thread is gone.
TimersGoOn ==
  \A h \in Timers :
    \/ <>[](timer[h] = "unset")
    \/ <>(m_stopped[h[1]] \/ NobodyPolls)
    \/ []<><<timer[h] = "set" /\ timer'[h] = "handled">>_vars

\* A remote is accepted, its handshake read, itself added and its message handled,
\* whoever else connects, as long as any thread polls and there is an acceptor: but
\* not behind one that says nothing, since a handshake is read before the next is
\* accepted, and not if its Peer is freed in the start of its torrent.
Waits(r) == remote[r] \notin {"accepted", "freed", "over"}
OtherIsSilent == \E a \in Torrents : acceptors[a] = [at |-> "reading", conn |-> None]
Served ==
  \A r \in Remotes :
    \/ []<>(~Waits(r) \/ Listening = {} \/ NobodyPolls \/ Stopping)
    \/ <>[]OtherIsSilent

\* After a signal every thread ends, though it may be in a handler of another
\* torrent, or wait for a lock that the thread of another torrent holds.
AllEnd == Stopping ~> NobodyPolls

-----------------------------------------------------------------------------
(* What comments and messages of the program say, and the model refutes *)

\* "For now they are staying alive indefinitely" (peer.hpp): the acceptors.
AcceptorsStay == \A a \in Torrents : acceptors[a].at # "gone"

\* start has no peers yet: "Local peer vector not empty" (torrent.cpp) is thrown
\* when the acceptor, on another thread, was faster.
StartsWithoutPeers == [][\A t \in Torrents : ~start_not_empty(t)]_vars

\* "copy shared_ptrs to keep peers alive" (torrent.cpp): as long as they are polled.
PeersStayAlive == \A r \in Remotes : remote[r] # "freed"

\* One connection holds up no other, as "Invalid handshake" and the loop of listen
\* (peer.cpp) suggest: one that stays silent does.
ServedInTurn ==
  \A r \in Remotes : []<>(~Waits(r) \/ Listening = {} \/ NobodyPolls \/ Stopping)

\* m_peers_mutex guards m_peers (torrent.hpp).
PeersUnderLock ==
  [][\A r \in Remotes : remote[r] = "sent" /\ remote'[r] = "peer"
                          => lock[wants[r]] = None]_vars

=============================================================================
