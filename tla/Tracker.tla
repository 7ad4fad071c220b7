------------------------------- MODULE Tracker -------------------------------
(***************************************************************************)
(* Torrent::tracker_request: the tiers of trackers, over HTTP and UDP.     *)
(*                                                                         *)
(* A thread that calls it waits for each answer, so a request is a         *)
(* sequence of steps of its thread.  The torrent thread asks at the start  *)
(* and with retry_peers, the writer thread when a torrent is complete and  *)
(* whoever calls Torrent::stop when it stops: several threads may ask for  *)
(* one torrent.  All threads of the program share the map of               *)
(* udp_tracker_request, which keeps a UDPTrackerRequest for each URL.      *)
(***************************************************************************)
EXTENDS Naturals, FiniteSets, SequencesExt

CONSTANTS
  Torrents,
  Threads,
  torrent,      \* the torrent that a thread asks for
  Trackers,     \* announce URLs
  Udp,          \* those with the scheme udp
  announce_list,\* the tiers of each torrent, or its announce URL as one tier
  Requested,    \* bound: the events that requests are made for
  MaxRequests   \* bound: the requests of a thread

Events == {"STARTED", "UNSPECIFIED", "STOPPED", "COMPLETED"}

ASSUME TrackerAssumption ==
  /\ Requested \subseteq Events
  /\ torrent \in [Threads -> Torrents]
  /\ Udp \subseteq Trackers
  /\ announce_list \in [Torrents -> Seq(SUBSET Trackers)]
  /\ MaxRequests \in Nat

VARIABLES
  req,       \* the local variables of tracker_request, for each thread
  requests,  \* tracker_requests: the torrent and connection id of each object
  m_stopped, \* m_stopped of each torrent
  made       \* how much of the bound has been used

vars == <<req, requests, m_stopped, made>>

None == "none"
WantsPeers(event) == event \in {"STARTED", "UNSPECIFIED"}

\* retry_call is told to try twice.
Retries == 2

\* What a request is at: "next" between trackers, then a tracker; "raised" is
\* left with an exception.  asked, answered and from are history: the trackers
\* asked, whether one gave success, and for which torrent it named peers.
NoRequest == [at |-> "idle", event |-> "STARTED", tiers |-> <<>>, tracker |-> None,
              tries |-> 0, thrown |-> FALSE,
              asked |-> <<>>, answered |-> FALSE, from |-> None]

Init == /\ req = [p \in Threads |-> NoRequest]
        /\ requests = [u \in Udp |-> [owner |-> None, id |-> None]]
        /\ m_stopped = [t \in Torrents |-> FALSE]
        /\ made = [p \in Threads |-> 0]

At(p, place) == req[p].at = place

Local(p, r) == req' = [req EXCEPT ![p] = r]

-----------------------------------------------------------------------------
(* How do_tracker_request ends *)

\* It returns: the tier is left, and with success the other tiers too.
Return(p, success, from) ==
  Local(p, [req[p] EXCEPT !.tiers = IF success THEN <<>> ELSE Tail(@), !.at = "next",
                          !.thrown = FALSE, !.answered = success, !.from = from])

\* Mutant: the exception leaves the loop over the tier.
Throw_out(p) ==
  Local(p, [req[p] EXCEPT !.at = "next", !.thrown = TRUE, !.tiers = Tail(@)])

\* It throws: the exception is kept, the next tracker of the tier is tried.
Throw(p) == Local(p, [req[p] EXCEPT !.at = "next", !.thrown = TRUE])

Peers(event, owner) == IF WantsPeers(event) THEN owner ELSE None

-----------------------------------------------------------------------------
(* tracker_request *)

\* The writer thread goes on after an exception, the torrent thread ends.
tracker_request(p, event) ==
  /\ req[p].at \in {"idle", "raised"}
  /\ made[p] < MaxRequests
  /\ made' = [made EXCEPT ![p] = @ + 1]
  /\ Local(p, [NoRequest EXCEPT !.at = "next", !.event = event,
                                !.tiers = announce_list[torrent[p]]])
  /\ UNCHANGED <<requests, m_stopped>>

Stops(p) == m_stopped[torrent[p]] /\ req[p].event # "STOPPED"

\* The loop over a tier ends.
next_tier(p) ==
  /\ At(p, "next") /\ req[p].tiers # <<>>
  /\ Head(req[p].tiers) = {} \/ Stops(p)
  /\ Local(p, [req[p] EXCEPT !.tiers = Tail(@)])
  /\ UNCHANGED <<requests, m_stopped, made>>

\* The tier is shuffled: any of those not yet tried may be the next.
do_tracker_request(p) ==
  /\ At(p, "next") /\ req[p].tiers # <<>> /\ ~Stops(p)
  /\ \E u \in Head(req[p].tiers) :
       Local(p, [req[p] EXCEPT !.at = IF u \in Udp THEN "udp" ELSE "http",
                               !.tracker = u, !.asked = Append(@, u),
                               !.tiers = <<Head(@) \ {u}>> \o Tail(@)])
  /\ UNCHANGED <<requests, m_stopped, made>>

\* After the last tier, what was thrown is thrown again.
end_request(p) ==
  /\ At(p, "next") /\ req[p].tiers = <<>>
  /\ Local(p, [req[p] EXCEPT !.at = IF req[p].thrown THEN "raised" ELSE "idle"])
  /\ UNCHANGED <<requests, m_stopped, made>>

-----------------------------------------------------------------------------
(* http_tracker_request *)

\* A reply is an answer; a reply that cannot be decoded, one that has a failure
\* reason or no peers, and a failing connection, throw.
http_tracker_request(p) ==
  /\ At(p, "http")
  /\ Return(p, TRUE, Peers(req[p].event, torrent[p])) \/ Throw(p)
  /\ UNCHANGED <<requests, m_stopped, made>>

\* An HttpException is ignored, an earlier exception stays.
http_exception(p) ==
  /\ At(p, "http")
  /\ Local(p, [req[p] EXCEPT !.at = "next"])
  /\ UNCHANGED <<requests, m_stopped, made>>

-----------------------------------------------------------------------------
(* udp_tracker_request: try_emplace and UDPTrackerRequest::announce *)

Request(p) == requests[req[p].tracker]

\* try_emplace keeps the object, and with it the torrent, that is there.
Owner(p) == IF Request(p).owner = None THEN torrent[p] ELSE Request(p).owner

\* connect: the id of a minute ago is given up, a newer one is used.
connect(p) ==
  /\ At(p, "udp")
  /\ LET id == IF Request(p).id = "old" THEN None ELSE Request(p).id
     IN /\ requests' = [requests EXCEPT ![req[p].tracker] = [owner |-> Owner(p), id |-> id]]
        /\ Local(p, [req[p] EXCEPT !.at = IF id = None THEN "connect" ELSE "connected",
                                   !.tries = 0])
  /\ UNCHANGED <<m_stopped, made>>

\* Mutant: after the last try, the count starts again.
retry_call_endless(p) ==
  /\ req[p].at \in {"connect", "announce"}
  /\ Local(p, [req[p] EXCEPT !.tries = (@ + 1) % Retries])
  /\ UNCHANGED <<requests, m_stopped, made>>

\* udpRequest gets no reply in three seconds, and there is another try.
retry_call(p) ==
  /\ req[p].at \in {"connect", "announce"}
  /\ req[p].tries + 1 < Retries
  /\ Local(p, [req[p] EXCEPT !.tries = @ + 1])
  /\ UNCHANGED <<requests, m_stopped, made>>

\* Mutant: announce goes on as if it were connected.
connect_fails_on(p) ==
  /\ At(p, "connect")
  /\ Local(p, [req[p] EXCEPT !.at = "connected"])
  /\ UNCHANGED <<requests, m_stopped, made>>

\* No reply to the last try, or one that is short, of another transaction, or
\* of another action: announce returns {}, which is no success.
connect_fails(p) ==
  /\ At(p, "connect")
  /\ Return(p, FALSE, None)
  /\ UNCHANGED <<requests, m_stopped, made>>

connect_reply(p) ==
  /\ At(p, "connect")
  /\ requests' = [requests EXCEPT ![req[p].tracker].id = "fresh"]
  /\ Local(p, [req[p] EXCEPT !.at = "connected"])
  /\ UNCHANGED <<m_stopped, made>>

\* The host is not resolved, or the action of the reply is unknown.
udp_throws(p) ==
  /\ req[p].at \in {"connect", "announce"}
  /\ Throw(p)
  /\ UNCHANGED <<requests, m_stopped, made>>

\* The id is read again to be sent.
announce(p) ==
  /\ At(p, "connected")
  /\ Request(p).id # None
  /\ Local(p, [req[p] EXCEPT !.at = "announce", !.tries = 0])
  /\ UNCHANGED <<requests, m_stopped, made>>

announce_unconnected(p) ==
  /\ At(p, "connected")
  /\ Request(p).id = None
  /\ Throw(p)
  /\ UNCHANGED <<requests, m_stopped, made>>

\* The info hash that was sent and the peers made of the reply are those of the
\* torrent that the object was made for.  No reply at all is a success, too.
announce_reply(p) ==
  /\ At(p, "announce")
  /\ \/ Return(p, TRUE, Peers(req[p].event, Request(p).owner))
     \/ req[p].tries + 1 = Retries /\ Return(p, TRUE, None)
     \/ Return(p, FALSE, None)
  /\ UNCHANGED <<requests, m_stopped, made>>

\* A minute passes since a connection id came.
minute(u) ==
  /\ requests[u].id = "fresh"
  /\ requests' = [requests EXCEPT ![u].id = "old"]
  /\ UNCHANGED <<req, m_stopped, made>>

set_stopped(t) ==
  /\ ~m_stopped[t]
  /\ m_stopped' = [m_stopped EXCEPT ![t] = TRUE]
  /\ UNCHANGED <<req, requests, made>>

-----------------------------------------------------------------------------

Step(p) ==
  \/ next_tier(p) \/ do_tracker_request(p) \/ end_request(p)
  \/ http_tracker_request(p) \/ http_exception(p)
  \/ connect(p) \/ connect_reply(p) \/ retry_call(p) \/ udp_throws(p)
  \/ connect_fails(p) \/ announce(p) \/ announce_unconnected(p) \/ announce_reply(p)

Next == \/ \E p \in Threads : Step(p) \/ \E e \in Requested : tracker_request(p, e)
        \/ \E u \in Udp : minute(u)
        \/ \E t \in Torrents : set_stopped(t)

Spec == Init /\ [][Next]_vars

\* A thread goes on; each wait ends with the reply or the timeout of udpRequest,
\* and an HTTP tracker answers or the connection fails.
FairSpec == Spec /\ \A p \in Threads : WF_vars(Step(p))

-----------------------------------------------------------------------------
(* Properties *)

Tiers(p) == announce_list[torrent[p]]

RequestState ==
  [at : {"idle", "raised", "next", "http", "udp", "connect", "connected", "announce"},
   event : Events, tiers : Seq(SUBSET Trackers), tracker : Trackers \cup {None},
   tries : 0 .. Retries - 1, thrown : BOOLEAN, asked : Seq(Trackers),
   answered : BOOLEAN, from : Torrents \cup {None}]

TypeOK ==
  /\ req \in [Threads -> RequestState]
  /\ requests \in [Udp -> [owner : Torrents \cup {None}, id : {None, "fresh", "old"}]]
  /\ m_stopped \in [Torrents -> BOOLEAN]
  /\ made \in [Threads -> Nat]

\* A request for which a tracker answered is not left with the exception of a
\* tracker tried before: it would end the torrent thread (tracker_request).
AnsweredIsNotRaised == \A p \in Threads : req[p].answered => ~req[p].thrown

\* The tiers are tried in order, and a tracker once in a request.
TierOf(p, u) == CHOOSE i \in DOMAIN Tiers(p) : u \in Tiers(p)[i]
TiersInOrder ==
  \A p \in Threads : \A i, j \in DOMAIN req[p].asked :
    i < j => /\ TierOf(p, req[p].asked[i]) <= TierOf(p, req[p].asked[j])
             /\ req[p].asked[i] # req[p].asked[j]

\* A request gave up when it ended without an answer, though nobody stopped it.
GaveUp(p) == /\ req[p].at \in {"idle", "raised"} /\ made[p] > 0
             /\ ~req[p].answered /\ ~m_stopped[torrent[p]]

\* All trackers of a tier with HTTP trackers only are asked before a request
\* gives up, whatever they answer or throw.
HttpTiersAreTried ==
  \A p \in Threads : GaveUp(p) =>
    \A i \in DOMAIN Tiers(p) :
      Tiers(p)[i] \cap Udp = {} => Tiers(p)[i] \subseteq ToSet(req[p].asked)

\* A thread that has connected to a tracker finds the id there, even if the
\* minute ends in between, as long as no other thread has asked for a torrent
\* with the same tracker (see AnnounceIsConnected).
ConnectedHasId ==
  \A p \in Threads :
    At(p, "connected") =>
      \/ Request(p).id # None
      \/ \E q \in Threads \ {p} : made[q] > 0 /\ req[p].tracker \in UNION Range(Tiers(q))

\* What a thread may rely on in the middle of a request, the trackers already asked
\* and the connection to the one that it is at, and what it throws in the end.
Inv == TypeOK /\ TiersInOrder /\ ConnectedHasId /\ AnsweredIsNotRaised

\* A request ends.
RequestEnds == \A p \in Threads : At(p, "next") ~> (At(p, "idle") \/ At(p, "raised"))

-----------------------------------------------------------------------------
(* What comments of the program say, and the model refutes *)

\* "we will now try each tier in order": all the trackers of each tier.
TiersAreTried ==
  \A p \in Threads : GaveUp(p) =>
    \A i \in DOMAIN Tiers(p) : Tiers(p)[i] \subseteq ToSet(req[p].asked)

\* "Announce request to get peer list": that of the torrent that asks.
OwnPeers == \A p \in Threads : req[p].from \in {torrent[p], None}

\* "announce called without a connection": connect has made one.
AnnounceIsConnected == [][\A p \in Threads : ~announce_unconnected(p)]_vars

=============================================================================
