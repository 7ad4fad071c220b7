------------------------------- MODULE PeerList -------------------------------
(***************************************************************************)
(* The peers of one torrent, from Torrent::start to the end of             *)
(* Torrent::run: those that a tracker named, those that connected to this  *)
(* client, and what becomes of them.                                       *)
(*                                                                         *)
(* The handlers of the torrent thread work on m_peers one after the other. *)
(* A Peer that was stopped has its io_service stopped: it handles nothing  *)
(* any more and sees no activity, whether it is in m_peers or not.         *)
(***************************************************************************)
EXTENDS Integers, SequencesExt

CONSTANTS
  Urls,      \* the addresses of remotes
  Replies,   \* what trackers may answer: sequences of addresses
  Times,     \* address -> how many times one answer names it at most: more than
             \* once if it has more than one peer id
  Failing,   \* whether tracker_request may throw
  MaxAccept  \* bound: connections made by remotes

\* Where a sequence of addresses names one of them.
Named(reply, url) == {i \in DOMAIN reply : reply[i] = url}

ASSUME PeerListAssumption ==
  /\ Times \in [Urls -> Nat \ {0}]
  /\ Replies \subseteq Seq(Urls)
  /\ \A reply \in Replies, url \in Urls : Cardinality(Named(reply, url)) <= Times[url]
  /\ Failing \in BOOLEAN /\ MaxAccept \in Nat

VARIABLES
  m_peers,    \* m_peers
  run,        \* the torrent thread: "new", "running", "ended" as it was told
              \* to, "threw", or "undefined"
  m_stopped,  \* m_stopped
  scheduled,  \* whether m_retry_peers_timer is set
  lost,       \* history: the peers that the last step stopped or destroyed,
              \* and by what
  admitted    \* how much of the bound has been used

peers_vars == <<m_peers, run, m_stopped, scheduled, lost, admitted>>

Fresh(url, listening) ==
  [url |-> url, listening |-> listening, idle |-> FALSE, stopped |-> FALSE]

\* No message of the remote for two minutes, on a connection it did not make.
Inactive(p) == p.idle /\ ~p.listening

Stopped(p) == [p EXCEPT !.stopped = TRUE]

\* Those of some peers that worked until `by' stopped or destroyed them.
Lost(peers, by) == {[by |-> by, idle |-> p.idle, url |-> p.url] :
                      p \in {q \in peers : ~q.stopped}}

\* The peers that handshake() is called for: to all that a tracker names.
NewPeers(reply) == [i \in DOMAIN reply |-> Fresh(reply[i], FALSE)]

\* Where a list has peers with an address.
Holders(list, url) == {i \in DOMAIN list : list[i].url = url}

PeersInit ==
  /\ m_peers = <<>>
  /\ run = "new"
  /\ m_stopped = FALSE
  /\ scheduled = FALSE
  /\ lost = {}
  /\ admitted = 0

-----------------------------------------------------------------------------
\* start: no tracker is asked once m_stopped is set.
start(reply) ==
  /\ run = "new"
  /\ m_peers' = IF m_stopped THEN <<>> ELSE NewPeers(reply)
  /\ run' = "running"
  /\ scheduled' = TRUE
  /\ lost' = {}
  /\ UNCHANGED <<m_stopped, admitted>>

\* The exception of tracker_request ends the thread.
start_throws ==
  /\ Failing /\ ~m_stopped
  /\ run = "new"
  /\ run' = "threw"
  /\ lost' = {}
  /\ UNCHANGED <<m_peers, m_stopped, scheduled, admitted>>

Running == run = "running" /\ ~m_stopped

\* Mutant: the Peer that has the address stays.
add_peer_kept(list, url) == list

\* add_peer: the first Peer that has the address already is stopped and leaves.
Replaced(list, url) ==
  IF Holders(list, url) = {} THEN {} ELSE {list[Min(Holders(list, url))]}

add_peer(list, url) ==
  IF Holders(list, url) = {} THEN list ELSE RemoveAt(list, Min(Holders(list, url)))

\* PeerAcceptor::listen adds a peer that has connected.
accept_peer(url) ==
  /\ Running
  /\ admitted < MaxAccept
  /\ admitted' = admitted + 1
  /\ m_peers' = Append(add_peer(m_peers, url), Fresh(url, TRUE))
  /\ lost' = Lost(Replaced(m_peers, url), "accept")
  /\ UNCHANGED <<run, m_stopped, scheduled>>

\* The remote closes the connection, or sends what closes it.
disconnected(i) ==
  /\ Running
  /\ ~m_peers[i].stopped
  /\ m_peers' = RemoveAt(m_peers, i)
  /\ lost' = Lost({m_peers[i]}, "disconnect")
  /\ UNCHANGED <<run, m_stopped, scheduled, admitted>>

\* A message comes in (update_activity) ...
update_activity(i) ==
  /\ Running
  /\ ~m_peers[i].stopped
  /\ m_peers' = [m_peers EXCEPT ![i].idle = FALSE]
  /\ lost' = {}
  /\ UNCHANGED <<run, m_stopped, scheduled, admitted>>

\* ... or two minutes pass without one.
two_minutes(i) ==
  /\ Running
  /\ m_peers' = [m_peers EXCEPT ![i].idle = TRUE]
  /\ lost' = {}
  /\ UNCHANGED <<run, m_stopped, scheduled, admitted>>

-----------------------------------------------------------------------------
(* retry_peers, every RETRY_PEERS_INTERVAL_SECONDS *)

Count(list) == Cardinality({i \in DOMAIN list : Inactive(list[i])})

\* Mutant: those come first that std::partition is not told of.
Partitions_last(list) ==
  LET order == {f \in Bijection(DOMAIN list, DOMAIN list) :
                  \A i \in DOMAIN list : Inactive(list[f[i]]) <=> i > Len(list) - Count(list)}
  IN {[i \in DOMAIN list |-> IF 0 < Count(list) /\ i <= Len(list) - Count(list)
                             THEN Stopped(list[f[i]]) ELSE list[f[i]]] : f \in order}

\* The inactive peers come first, in any order, as the others do; if there are
\* any, the others are stopped.
Partitions(list) ==
  LET order == {f \in Bijection(DOMAIN list, DOMAIN list) :
                  \A i \in DOMAIN list : Inactive(list[f[i]]) <=> i <= Count(list)}
  IN {[i \in DOMAIN list |-> IF 0 < Count(list) /\ Count(list) < i
                             THEN Stopped(list[f[i]]) ELSE list[f[i]]] : f \in order}

\* What add_peer leaves of a list for the first k peers that a tracker named.
AddAll(list, reply) ==
  LET after[k \in 0 .. Len(reply)] ==
        IF k = 0 THEN list ELSE add_peer(after[k - 1], reply[k])
  IN after

\* Mutant: the next call is not scheduled.
retry_peers_once(reply) ==
  /\ Running
  /\ scheduled
  /\ scheduled' = FALSE
  /\ m_peers' = AddAll(m_peers, reply)[Len(reply)] \o NewPeers(reply)
  /\ lost' = {}
  /\ UNCHANGED <<run, m_stopped, admitted>>

\* The first peers of the list, as many as were inactive, are erased at the
\* end, when add_peer may have taken some of them out.  Then others are erased;
\* with not enough of them left, the range ends behind the end of the vector.
retry_peers(reply) ==
  /\ Running
  /\ scheduled
  /\ \E parted \in Partitions(m_peers) :
       LET n == Count(m_peers)
           after == AddAll(parted, reply)
           kept == after[Len(reply)]
           replaced == UNION {Replaced(after[k - 1], reply[k]) : k \in DOMAIN reply}
           stopped == IF n = 0 THEN {} ELSE {p \in ToSet(m_peers) : ~Inactive(p)}
       IN IF n <= Len(kept)
          THEN /\ m_peers' = SubSeq(kept, n + 1, Len(kept)) \o NewPeers(reply)
               /\ run' = run
               /\ lost' = Lost(replaced, "replace") \cup Lost(stopped, "partition")
                          \cup Lost({kept[i] : i \in 1 .. n}, "erase")
          ELSE /\ m_peers' = <<>>
               /\ run' = "undefined"
               /\ lost' = {}
  /\ UNCHANGED <<m_stopped, scheduled, admitted>>

\* The exception of tracker_request leaves run() and ends the thread.
retry_peers_throws ==
  /\ Failing
  /\ Running
  /\ scheduled
  /\ m_peers' \in Partitions(m_peers)
  /\ run' = "threw"
  /\ lost' = {}
  /\ UNCHANGED <<m_stopped, scheduled, admitted>>

-----------------------------------------------------------------------------
\* The handler of SIGINT and SIGTERM sets m_stopped only.
set_stopped ==
  /\ ~m_stopped
  /\ m_stopped' = TRUE
  /\ lost' = {}
  /\ UNCHANGED <<m_peers, run, scheduled, admitted>>

\* Torrent::stop
stop ==
  /\ ~m_stopped
  /\ m_stopped' = TRUE
  /\ m_peers' = [i \in DOMAIN m_peers |-> Stopped(m_peers[i])]
  /\ lost' = Lost(ToSet(m_peers), "stop")
  /\ UNCHANGED <<run, scheduled, admitted>>

\* The loop of run ends; the timers keep m_io_context from stopping before.
run_end ==
  /\ run = "running"
  /\ m_stopped
  /\ run' = "ended"
  /\ lost' = {}
  /\ UNCHANGED <<m_peers, m_stopped, scheduled, admitted>>

Remote == \/ \E url \in Urls : accept_peer(url)
          \/ \E i \in DOMAIN m_peers : disconnected(i) \/ update_activity(i)

Retry == \E reply \in Replies : retry_peers(reply)

PeersNext ==
  \/ \E reply \in Replies : start(reply)
  \/ start_throws
  \/ Remote
  \/ \E i \in DOMAIN m_peers : two_minutes(i)
  \/ Retry \/ retry_peers_throws
  \/ set_stopped \/ stop \/ run_end

PeersSpec == PeersInit /\ [][PeersNext]_peers_vars

\* The torrent thread starts and polls its timers; time passes for the peers
\* that are stopped.
FairPeersSpec ==
  /\ PeersSpec
  /\ WF_peers_vars(\E reply \in Replies : start(reply))
  /\ WF_peers_vars(Retry)
  /\ WF_peers_vars(run_end)
  /\ \A url \in Urls :
       WF_peers_vars(\E i \in DOMAIN m_peers : /\ m_peers[i].url = url
                                               /\ m_peers[i].stopped /\ ~m_peers[i].idle
                                               /\ two_minutes(i))

-----------------------------------------------------------------------------
(* Properties *)

Peer == [url : Urls, listening : BOOLEAN, idle : BOOLEAN, stopped : BOOLEAN]

PeersTypeOK ==
  /\ m_peers \in Seq(Peer)
  /\ run \in {"new", "running", "ended", "threw", "undefined"}
  /\ m_stopped \in BOOLEAN /\ scheduled \in BOOLEAN
  /\ lost \subseteq [by : {"accept", "disconnect", "partition", "replace", "erase",
                           "stop"},
                     idle : BOOLEAN, url : Urls]
  /\ admitted \in 0 .. MaxAccept

\* Whoever connects and when, no address has more peers than one answer of a
\* tracker gives it, one if no answer names it twice (add_peer).
FewPerUrl == \A url \in Urls : Cardinality(Holders(m_peers, url)) <= Times[url]

\* m_peers between any two handlers of the torrent thread.
PeersInv == PeersTypeOK /\ FewPerUrl

HasPeer(url) == \E i \in DOMAIN m_peers : m_peers[i].url = url /\ ~m_peers[i].stopped

\* A remote that all trackers name is connected to again and again, although
\* retry_peers stops and drops peers.
Reconnects ==
  \A url \in Urls :
    (\A reply \in Replies : url \in ToSet(reply)) => (Running ~> HasPeer(url) \/ ~Running)

\* retry_peers leaves those that are not inactive and those that the trackers name,
\* and erases nothing else or behind the end of m_peers, unless they name an inactive
\* one: add_peer then takes it out of those that come first, and as many are erased as
\* there were before.
Addresses(peers) == {p.url : p \in peers}
Leaves(reply) == Addresses({p \in ToSet(m_peers) : ~Inactive(p)}) \cup ToSet(reply)
NamesInactive(reply) == Addresses({p \in ToSet(m_peers) : Inactive(p)}) \cap ToSet(reply) # {}
ErasesInactive ==
  [][\A reply \in Replies :
       retry_peers(reply) /\ ~NamesInactive(reply) =>
         run' = "running" /\ Addresses(ToSet(m_peers')) = Leaves(reply)]_peers_vars

-----------------------------------------------------------------------------
(* What comments of the program say, and the model refutes *)

\* retry_peers finds and disconnects inactive peers (torrent.cpp).
StopsInactive == \A p \in lost : p.by = "partition" => p.idle

\* As many are erased as were found to be inactive, and they are those (torrent.cpp).
ErasesFound ==
  [][\A reply \in Replies :
       retry_peers(reply) => Addresses(ToSet(m_peers')) = Leaves(reply)]_peers_vars

\* It connects to new peers, discarding those of a tracker that are active
\* (torrent.cpp).
DiscardsActive == \A p \in lost : p.by = "replace" => p.idle

=============================================================================
