---------------------------- MODULE TrackerProofs ----------------------------
(***************************************************************************)
(* What holds of tracker_request for any torrents, threads and tiers.  A   *)
(* step changes the record of one request only, so the invariant is one of *)
(* each record (Fine), shown to be kept by what a step makes of it, and    *)
(* what relates several threads by a shared UDPTrackerRequest              *)
(* (ConnectedHasId).                                                       *)
(***************************************************************************)
EXTENDS Tracker, SequenceTheorems, TLAPS

\* Where a request is while it asks a UDP tracker.
UdpPlaces == {"udp", "connect", "connected", "announce"}

\* How many tiers a request with the record r has left behind.
Behind(r, T) == Len(T) - Len(r.tiers)

\* The tiers a request has not left are those of the torrent T, without the trackers
\* asked of the present one.
Known(r, T) ==
  /\ Len(r.tiers) <= Len(T)
  /\ \A j \in 2 .. Len(r.tiers) : r.tiers[j] = T[Behind(r, T) + j]
  /\ r.tiers # <<>> =>
       /\ r.tiers[1] \subseteq T[Behind(r, T) + 1]
       /\ T[Behind(r, T) + 1] \ r.tiers[1] \subseteq ToSet(r.asked)

\* The tracker a request is at is one of the present tier, and none comes after an answer;
\* n is the number of requests made.
Asking(r, T, n) ==
  /\ r.at # "idle" => n > 0
  /\ r.at \in {"idle", "raised"} => r.tiers = <<>>
  /\ r.at \in UdpPlaces \cup {"http"} =>
       r.tiers # <<>> /\ r.tracker \in T[Behind(r, T) + 1]
  /\ r.at \in UdpPlaces => r.tracker \in Udp
  /\ r.answered => r.tiers = <<>> /\ ~r.thrown /\ r.at \in {"next", "idle", "raised"}

\* The tiers left behind were tried.
Tried(r, T, stopped, n) ==
  n > 0 => \A i \in 1 .. Behind(r, T) :
             T[i] \cap Udp = {} => r.answered \/ stopped \/ T[i] \subseteq ToSet(r.asked)

\* What holds of the record of a request.
Fine(r, T, stopped, n) == Known(r, T) /\ Asking(r, T, n) /\ Tried(r, T, stopped, n)

AllFine == \A p \in Threads : Fine(req[p], Tiers(p), m_stopped[torrent[p]], made[p])

\* What a torrent may have as tiers.
TiersOf == Seq(SUBSET Trackers)

IndInv == TypeOK /\ AllFine /\ ConnectedHasId

-----------------------------------------------------------------------------
(* Sequences *)

LEMMA Tails ==
  ASSUME NEW S, NEW s \in Seq(S), s # <<>>
  PROVE  /\ Tail(s) \in Seq(S) /\ Head(s) \in S /\ Head(s) = s[1]
         /\ Len(s) = Len(Tail(s)) + 1 /\ Len(Tail(s)) \in Nat /\ (Tail(s) = <<>> <=> Len(s) = 1)
         /\ \A i \in 1 .. Len(Tail(s)) : Tail(s)[i] = s[i + 1]
<1>1. /\ Tail(s) \in Seq(S) /\ Head(s) \in S /\ Len(Tail(s)) = Len(s) - 1
      /\ \A i \in 1 .. Len(Tail(s)) : Tail(s)[i] = s[i + 1]
  BY HeadTailProperties
<1>2. Len(s) \in Nat \ {0} /\ Len(Tail(s)) \in Nat /\ (Tail(s) = <<>> <=> Len(Tail(s)) = 0)
  BY <1>1, EmptySeq, LenProperties
<1>3. Head(s) = s[1]
  OBVIOUS
<1>4. QED BY <1>1, <1>2, <1>3

LEMMA Lengths == ASSUME NEW S, NEW s \in Seq(S) PROVE Len(s) \in Nat /\ (s = <<>> <=> Len(s) = 0)
BY EmptySeq, LenProperties

LEMMA AppendSet ==
  ASSUME NEW S, NEW s \in Seq(S), NEW e \in S
  PROVE  Append(s, e) \in Seq(S) /\ ToSet(Append(s, e)) = ToSet(s) \cup {e}
<1> DEFINE t == Append(s, e)
<1>1. /\ t \in Seq(S) /\ Len(t) = Len(s) + 1 /\ Len(s) \in Nat
      /\ \A i \in 1 .. Len(s) : t[i] = s[i]
      /\ t[Len(s) + 1] = e
      /\ DOMAIN s = 1 .. Len(s) /\ DOMAIN t = 1 .. Len(t)
  BY AppendProperties, LenProperties
<1> HIDE DEF t
<1>2. \A i \in 1 .. Len(t) : (i \in 1 .. Len(s) /\ t[i] = s[i]) \/ (i = Len(s) + 1 /\ t[i] = e)
  BY <1>1
<1>3. ToSet(t) = ToSet(s) \cup {e}
  BY <1>1, <1>2 DEF ToSet
<1>4. QED BY <1>1, <1>3 DEF t

\* Head(s) replaced.
LEMMA NewHead ==
  ASSUME NEW S, NEW s \in Seq(S), s # <<>>, NEW e \in S
  PROVE  /\ <<e>> \o Tail(s) \in Seq(S) /\ Len(<<e>> \o Tail(s)) = Len(s)
         /\ <<e>> \o Tail(s) # <<>>
         /\ (<<e>> \o Tail(s))[1] = e
         /\ \A i \in 2 .. Len(s) : (<<e>> \o Tail(s))[i] = s[i]
<1> DEFINE h == <<e>>
           t == Tail(s)
           c == h \o t
<1>1. h \in Seq(S) /\ Len(h) = 1 /\ h[1] = e
  OBVIOUS
<1>2. /\ t \in Seq(S) /\ Len(s) = Len(t) + 1 /\ Len(t) \in Nat
      /\ \A i \in 1 .. Len(t) : t[i] = s[i + 1]
  BY Tails
<1> HIDE DEF h, t
<1>3. /\ c \in Seq(S) /\ Len(c) = Len(h) + Len(t)
      /\ \A i \in 1 .. Len(h) + Len(t) : c[i] = IF i <= Len(h) THEN h[i] ELSE t[i - Len(h)]
  BY <1>1, <1>2, ConcatProperties
<1> HIDE DEF c
<1>4. c[1] = e /\ Len(c) = Len(s) /\ c # <<>>
  BY <1>1, <1>2, <1>3, EmptySeq
<1>5. \A i \in 2 .. Len(s) : /\ i - 1 \in 1 .. Len(t) /\ c[i] = t[i - 1]
                            /\ t[i - 1] = s[(i - 1) + 1] /\ (i - 1) + 1 = i
  BY <1>1, <1>2, <1>3
<1>6. QED BY <1>3, <1>4, <1>5 DEF c, h, t

-----------------------------------------------------------------------------
(* One request *)

\* A tier is left: it was tried, unless the torrent stops or the tier has a UDP tracker.
LEMMA NextTierFine ==
  ASSUME NEW T \in TiersOf, NEW r \in RequestState, NEW s \in BOOLEAN, NEW n \in Nat,
         Fine(r, T, s, n), NEW r2 \in RequestState,
         r.tiers # <<>>, r2.tiers = Tail(r.tiers), r2.asked = r.asked,
         r2.at = "next", n > 0, ~r2.answered,
         r.tiers[1] = {} \/ s \/ T[Behind(r, T) + 1] \cap Udp # {}
  PROVE  Fine(r2, T, s, n)
<1> DEFINE k == Behind(r, T)
<1>1. /\ r.tiers \in TiersOf /\ Len(T) \in Nat /\ Len(r.tiers) \in Nat /\ Len(r2.tiers) \in Nat
      /\ Len(r.tiers) = Len(r2.tiers) + 1
      /\ \A i \in 1 .. Len(r2.tiers) : r2.tiers[i] = r.tiers[i + 1]
      /\ (r2.tiers # <<>> => Len(r2.tiers) # 0)
  BY Tails, Lengths DEF RequestState, TiersOf
<1>2. k \in Nat /\ Behind(r2, T) = k + 1 /\ Len(r.tiers) <= Len(T)
  BY <1>1 DEF Behind, Fine, Known
<1>3. \A j \in 2 .. Len(r.tiers) : r.tiers[j] = T[k + j]
  BY DEF Fine, Known
<1> HIDE DEF k
<1>4. \A i \in 1 .. Len(r2.tiers) : r2.tiers[i] = T[(k + 1) + i]
  <2> TAKE i \in 1 .. Len(r2.tiers)
  <2>1. i + 1 \in 2 .. Len(r.tiers) /\ k + (i + 1) = (k + 1) + i
    <3>1. i \in Nat /\ i >= 1 /\ i + 1 <= Len(r.tiers)
      BY <1>1
    <3>2. k \in Nat
      BY <1>2
    <3>3. i + 1 \in 2 .. Len(r.tiers)
      BY <1>1, <3>1
    <3>4. k + (i + 1) = (k + 1) + i
      BY <3>1, <3>2
    <3>5. QED BY <3>3, <3>4
  <2>2. QED BY <1>1, <1>3, <2>1
<1>5. Known(r2, T)
  <2>1. Len(r2.tiers) <= Len(T)
    BY <1>1, <1>2
  <2>2. \A j \in 2 .. Len(r2.tiers) : r2.tiers[j] = T[Behind(r2, T) + j]
    <3> TAKE j \in 2 .. Len(r2.tiers)
    <3>1. j \in 1 .. Len(r2.tiers)
      BY <1>1
    <3>2. QED BY <1>2, <1>4, <3>1
  <2>3. r2.tiers # <<>> => r2.tiers[1] = T[Behind(r2, T) + 1]
    <3> SUFFICES ASSUME r2.tiers # <<>> PROVE r2.tiers[1] = T[Behind(r2, T) + 1]
      OBVIOUS
    <3>1. 1 \in 1 .. Len(r2.tiers)
      BY <1>1
    <3>2. QED BY <1>2, <1>4, <3>1
  <2>4. QED BY <2>1, <2>2, <2>3 DEF Known
<1>6. Asking(r2, T, n)
  BY DEF Asking, UdpPlaces
<1>7. Tried(r2, T, s, n)
  <2> SUFFICES ASSUME NEW i \in 1 .. k + 1, T[i] \cap Udp = {}, ~s
               PROVE  T[i] \subseteq ToSet(r2.asked)
    BY <1>2 DEF Tried
  <2>1. CASE i \in 1 .. k
    BY <2>1 DEF Fine, Tried, k, Asking
  <2>2. CASE i = k + 1
    BY <2>2 DEF Fine, Known, k
  <2>3. QED BY <1>2, <2>1, <2>2
<1>8. QED BY <1>5, <1>6, <1>7 DEF Fine

\* A tracker answered: all tiers are left.
LEMMA AnsweredFine ==
  ASSUME NEW T \in TiersOf, NEW s \in BOOLEAN, NEW n \in Nat, n > 0, NEW r2 \in RequestState,
         r2.tiers = <<>>, r2.at = "next", r2.answered, ~r2.thrown
  PROVE  Fine(r2, T, s, n)
<1>1. Len(T) \in Nat /\ Len(r2.tiers) = 0
  BY Lengths DEF TiersOf
<1>2. QED BY <1>1 DEF Fine, Known, Asking, Tried, UdpPlaces

\* A request goes on with the same tracker, or from it to the next.
LEMMA MovedFine ==
  ASSUME NEW T \in TiersOf, NEW r \in RequestState, NEW s \in BOOLEAN, NEW n \in Nat,
         Fine(r, T, s, n), NEW r2 \in RequestState,
         r2.tiers = r.tiers, r2.asked = r.asked, r2.answered = r.answered, r2.tracker = r.tracker,
         r.at \in UdpPlaces \cup {"http"},
         r2.at = "next" \/ (r.at \in UdpPlaces /\ r2.at \in UdpPlaces)
  PROVE  Fine(r2, T, s, n)
BY DEF Fine, Known, Asking, Tried, UdpPlaces, Behind

\* A tracker of the tier is asked.
LEMMA AskedFine ==
  ASSUME NEW T \in TiersOf, NEW r \in RequestState, NEW s \in BOOLEAN, NEW n \in Nat,
         Fine(r, T, s, n), NEW r2 \in RequestState, r.at = "next", r.tiers # <<>>,
         NEW u \in r.tiers[1], r2.tiers = <<r.tiers[1] \ {u}>> \o Tail(r.tiers),
         r2.asked = Append(r.asked, u), r2.answered = r.answered, r2.tracker = u, u \in Trackers,
         r2.at = IF u \in Udp THEN "udp" ELSE "http"
  PROVE  Fine(r2, T, s, n)
<1>1. /\ r.tiers \in TiersOf /\ r.tiers[1] \in SUBSET Trackers /\ r.asked \in Seq(Trackers)
      /\ Len(r.tiers) \in Nat /\ Len(T) \in Nat
  BY Tails, Lengths DEF RequestState, TiersOf
<1>2. /\ Len(r2.tiers) = Len(r.tiers) /\ r2.tiers # <<>> /\ r2.tiers[1] = r.tiers[1] \ {u}
      /\ \A i \in 2 .. Len(r.tiers) : r2.tiers[i] = r.tiers[i]
  BY <1>1, NewHead DEF TiersOf
<1>3. ToSet(r2.asked) = ToSet(r.asked) \cup {u}
  BY <1>1, AppendSet
<1>4. Behind(r2, T) = Behind(r, T)
  BY <1>2 DEF Behind
<1>5. Known(r2, T)
  BY <1>2, <1>3, <1>4 DEF Fine, Known
<1>6. Asking(r2, T, n)
  BY <1>2, <1>4 DEF Fine, Known, Asking, UdpPlaces
<1>7. Tried(r2, T, s, n)
  BY <1>3, <1>4 DEF Fine, Tried
<1>8. QED BY <1>5, <1>6, <1>7 DEF Fine

\* A request ends.
LEMMA EndedFine ==
  ASSUME NEW T \in TiersOf, NEW r \in RequestState, NEW s \in BOOLEAN, NEW n \in Nat,
         Fine(r, T, s, n), NEW r2 \in RequestState, r.at = "next", r.tiers = <<>>,
         r2.tiers = r.tiers, r2.asked = r.asked, r2.answered = r.answered, r2.thrown = r.thrown,
         r2.at \in {"idle", "raised"}
  PROVE  Fine(r2, T, s, n)
BY DEF Fine, Known, Asking, Tried, UdpPlaces, Behind

\* A request starts.
LEMMA StartedFine ==
  ASSUME NEW T \in TiersOf, NEW s \in BOOLEAN, NEW n \in Nat, n > 0,
         NEW r2 \in RequestState, r2.tiers = T, r2.at = "next", ~r2.answered
  PROVE  Fine(r2, T, s, n)
<1>1. Len(T) \in Nat /\ Behind(r2, T) = 0 /\ (T # <<>> => Len(T) # 0)
  BY Lengths DEF TiersOf, Behind
<1>2. Known(r2, T)
  BY <1>1 DEF Known
<1>3. QED BY <1>1, <1>2 DEF Fine, Asking, Tried, UdpPlaces

\* The torrent is stopped.
LEMMA StoppedFine ==
  ASSUME NEW T, NEW r, NEW s \in BOOLEAN, NEW n, Fine(r, T, s, n)
  PROVE  Fine(r, T, TRUE, n)
BY DEF Fine, Tried

-----------------------------------------------------------------------------
(* The steps of a thread *)

\* One thread takes a step.
LEMMA Framed ==
  ASSUME TypeOK, AllFine, NEW p \in Threads, NEW r2, req' = [req EXCEPT ![p] = r2],
         Fine(r2, Tiers(p), m_stopped[torrent[p]], made[p]), UNCHANGED <<m_stopped, made>>
  PROVE  AllFine'
BY DEF AllFine, TypeOK, Tiers

\* What there is to know of one thread.
LEMMA Context ==
  ASSUME TypeOK, AllFine, NEW p \in Threads
  PROVE  /\ Tiers(p) \in TiersOf /\ req[p] \in RequestState
         /\ m_stopped[torrent[p]] \in BOOLEAN /\ made[p] \in Nat /\ torrent[p] \in Torrents
         /\ Fine(req[p], Tiers(p), m_stopped[torrent[p]], made[p])
BY TrackerAssumption DEF TypeOK, AllFine, Tiers, TiersOf

\* What Return does with the record of a request.
LEMMA ReturnFine ==
  ASSUME TypeOK, AllFine, NEW p \in Threads, NEW success \in BOOLEAN,
         NEW from \in Torrents \cup {None}, Return(p, success, from),
         req[p].at \in UdpPlaces \/ (req[p].at = "http" /\ success),
         UNCHANGED <<m_stopped, made>>
  PROVE  /\ AllFine' /\ req' \in [Threads -> RequestState]
         /\ req'[p].at = "next" /\ \A q \in Threads \ {p} : req'[q] = req[q]
<1> DEFINE r == req[p]
           T == Tiers(p)
           r2 == [r EXCEPT !.tiers = IF success THEN <<>> ELSE Tail(@), !.at = "next",
                           !.thrown = FALSE, !.answered = success, !.from = from]
<1>1. req' = [req EXCEPT ![p] = r2]
  BY DEF Return, Local
<1>2. /\ T \in TiersOf /\ r \in RequestState /\ m_stopped[torrent[p]] \in BOOLEAN
      /\ made[p] \in Nat /\ Fine(r, T, m_stopped[torrent[p]], made[p])
  BY Context
<1>3. r.tiers # <<>> /\ made[p] > 0 /\ ~r.answered
  BY <1>2 DEF Fine, Asking, UdpPlaces
<1>4. <<>> \in TiersOf /\ Tail(r.tiers) \in TiersOf /\ r.tiers \in TiersOf
  BY <1>2, <1>3, Tails, EmptySeq DEF TiersOf, RequestState
<1>5. r2 \in RequestState
  BY <1>2, <1>4 DEF RequestState, TiersOf
<1>6. /\ r2.tiers = IF success THEN <<>> ELSE Tail(r.tiers)
      /\ r2.at = "next" /\ ~r2.thrown /\ r2.answered = success /\ r2.asked = r.asked
  BY <1>2 DEF RequestState
<1> HIDE DEF r2
<1>7. Fine(r2, T, m_stopped[torrent[p]], made[p])
  <2>1. CASE success
    BY <1>2, <1>3, <1>5, <1>6, <2>1, AnsweredFine
  <2>2. CASE ~success
    <3>1. T[Behind(r, T) + 1] \cap Udp # {}
      BY <1>2, <2>2 DEF Fine, Asking, UdpPlaces
    <3>2. QED BY <1>2, <1>3, <1>5, <1>6, <2>2, <3>1, NextTierFine
  <2>3. QED BY <2>1, <2>2
<1>8. QED BY <1>1, <1>5, <1>6, <1>7, Framed DEF TypeOK

\* A step that leaves the tiers and what was asked alone.
LEMMA MoveFine ==
  ASSUME TypeOK, AllFine, NEW p \in Threads, NEW r2 \in RequestState,
         req' = [req EXCEPT ![p] = r2], UNCHANGED <<m_stopped, made>>,
         r2.tiers = req[p].tiers, r2.asked = req[p].asked, r2.answered = req[p].answered,
         r2.tracker = req[p].tracker, req[p].at \in UdpPlaces \cup {"http"},
         r2.at = "next" \/ (req[p].at \in UdpPlaces /\ r2.at \in UdpPlaces)
  PROVE  /\ AllFine' /\ req' \in [Threads -> RequestState]
         /\ req'[p] = r2 /\ \A q \in Threads \ {p} : req'[q] = req[q]
<1>1. Fine(r2, Tiers(p), m_stopped[torrent[p]], made[p])
  BY Context, MovedFine
<1>2. QED BY <1>1, Framed DEF TypeOK

\* A connection id that is there for a thread stays there.
LEMMA IdsStay ==
  ASSUME IndInv, NEW p \in Threads, \A q \in Threads \ {p} : req'[q] = req[q],
         \A u \in Udp : requests[u].id # None => requests'[u].id # None,
         \A q \in Threads : made[q] > 0 => made'[q] > 0,
         req'[p].at # "connected" \/ requests'[req'[p].tracker].id # None
  PROVE  ConnectedHasId'
<1> SUFFICES ASSUME NEW q \in Threads, req'[q].at = "connected"
             PROVE  \/ requests'[req'[q].tracker].id # None
                    \/ \E o \in Threads \ {q} : made'[o] > 0
                                        /\ req'[q].tracker \in UNION Range(Tiers(o))
  BY DEF ConnectedHasId, At, Request, Tiers
<1>1. CASE q = p
  BY <1>1
<1>2. CASE q # p
  <2>1. req'[q] = req[q] /\ req[q].tracker \in Udp
    BY <1>2 DEF IndInv, AllFine, Fine, Asking, UdpPlaces
  <2>2. QED BY <2>1 DEF IndInv, ConnectedHasId, At, Request
<1>3. QED BY <1>1, <1>2

-----------------------------------------------------------------------------
(* The actions *)

LEMMA http_exceptionKeeps ==
  ASSUME IndInv, NEW p \in Threads, http_exception(p)
  PROVE IndInv'
<1>0. TypeOK /\ AllFine
  BY DEF IndInv
<1> DEFINE r2 == [req[p] EXCEPT !.at = "next"]
<1>1. /\ req' = [req EXCEPT ![p] = r2]
      /\ UNCHANGED <<requests, m_stopped, made>> /\ req[p].at = "http"
  BY DEF http_exception, Local, At
<1>2. req[p] \in RequestState
  BY <1>0 DEF TypeOK
<1>3. /\ r2 \in RequestState /\ r2.tiers = req[p].tiers /\ r2.asked = req[p].asked
      /\ r2.answered = req[p].answered /\ r2.tracker = req[p].tracker
      /\ r2.at = "next" /\ r2.at # "connected"
  BY <1>1, <1>2 DEF RequestState, Retries
<1> HIDE DEF r2
<1>4. /\ AllFine' /\ req' \in [Threads -> RequestState]
      /\ req'[p] = r2 /\ \A q \in Threads \ {p} : req'[q] = req[q]
  BY <1>0, <1>1, <1>2, <1>3, MoveFine DEF UdpPlaces
<1>5. TypeOK'
  BY <1>0, <1>1, <1>4 DEF TypeOK
<1>6. ConnectedHasId'
  BY <1>1, <1>3, <1>4, IdsStay
<1>7. QED BY <1>4, <1>5, <1>6 DEF IndInv

LEMMA retry_callKeeps ==
  ASSUME IndInv, NEW p \in Threads, retry_call(p)
  PROVE IndInv'
<1>0. TypeOK /\ AllFine
  BY DEF IndInv
<1> DEFINE r2 == [req[p] EXCEPT !.tries = @ + 1]
<1>1. /\ req' = [req EXCEPT ![p] = r2]
      /\ UNCHANGED <<requests, m_stopped, made>> /\ req[p].at \in {"connect", "announce"} /\ req[p].tries + 1 < Retries
  BY DEF retry_call, Local, At
<1>2. req[p] \in RequestState
  BY <1>0 DEF TypeOK
<1>3. /\ r2 \in RequestState /\ r2.tiers = req[p].tiers /\ r2.asked = req[p].asked
      /\ r2.answered = req[p].answered /\ r2.tracker = req[p].tracker
      /\ r2.at = req[p].at /\ r2.at # "connected"
  BY <1>1, <1>2 DEF RequestState, Retries
<1> HIDE DEF r2
<1>4. /\ AllFine' /\ req' \in [Threads -> RequestState]
      /\ req'[p] = r2 /\ \A q \in Threads \ {p} : req'[q] = req[q]
  BY <1>0, <1>1, <1>2, <1>3, MoveFine DEF UdpPlaces
<1>5. TypeOK'
  BY <1>0, <1>1, <1>4 DEF TypeOK
<1>6. ConnectedHasId'
  BY <1>1, <1>3, <1>4, IdsStay
<1>7. QED BY <1>4, <1>5, <1>6 DEF IndInv

LEMMA udp_throwsKeeps ==
  ASSUME IndInv, NEW p \in Threads, udp_throws(p)
  PROVE IndInv'
<1>0. TypeOK /\ AllFine
  BY DEF IndInv
<1> DEFINE r2 == [req[p] EXCEPT !.at = "next", !.thrown = TRUE]
<1>1. /\ req' = [req EXCEPT ![p] = r2]
      /\ UNCHANGED <<requests, m_stopped, made>> /\ req[p].at \in {"connect", "announce"}
  BY DEF udp_throws, Throw, Local, At
<1>2. req[p] \in RequestState
  BY <1>0 DEF TypeOK
<1>3. /\ r2 \in RequestState /\ r2.tiers = req[p].tiers /\ r2.asked = req[p].asked
      /\ r2.answered = req[p].answered /\ r2.tracker = req[p].tracker
      /\ r2.at = "next" /\ r2.at # "connected"
  BY <1>1, <1>2 DEF RequestState, Retries
<1> HIDE DEF r2
<1>4. /\ AllFine' /\ req' \in [Threads -> RequestState]
      /\ req'[p] = r2 /\ \A q \in Threads \ {p} : req'[q] = req[q]
  BY <1>0, <1>1, <1>2, <1>3, MoveFine DEF UdpPlaces
<1>5. TypeOK'
  BY <1>0, <1>1, <1>4 DEF TypeOK
<1>6. ConnectedHasId'
  BY <1>1, <1>3, <1>4, IdsStay
<1>7. QED BY <1>4, <1>5, <1>6 DEF IndInv

LEMMA announceKeeps ==
  ASSUME IndInv, NEW p \in Threads, announce(p)
  PROVE IndInv'
<1>0. TypeOK /\ AllFine
  BY DEF IndInv
<1> DEFINE r2 == [req[p] EXCEPT !.at = "announce", !.tries = 0]
<1>1. /\ req' = [req EXCEPT ![p] = r2]
      /\ UNCHANGED <<requests, m_stopped, made>> /\ req[p].at = "connected"
  BY DEF announce, Local, At
<1>2. req[p] \in RequestState /\ 0 \in 0 .. Retries - 1
  BY <1>0 DEF TypeOK, Retries
<1>3. /\ r2 \in RequestState /\ r2.tiers = req[p].tiers /\ r2.asked = req[p].asked
      /\ r2.answered = req[p].answered /\ r2.tracker = req[p].tracker
      /\ r2.at = "announce" /\ r2.at # "connected"
  BY <1>2 DEF RequestState
<1> HIDE DEF r2
<1>4. /\ AllFine' /\ req' \in [Threads -> RequestState]
      /\ req'[p] = r2 /\ \A q \in Threads \ {p} : req'[q] = req[q]
  BY <1>0, <1>1, <1>2, <1>3, MoveFine DEF UdpPlaces
<1>5. TypeOK'
  BY <1>0, <1>1, <1>4 DEF TypeOK
<1>6. ConnectedHasId'
  BY <1>1, <1>3, <1>4, IdsStay
<1>7. QED BY <1>4, <1>5, <1>6 DEF IndInv

LEMMA announce_unconnectedKeeps ==
  ASSUME IndInv, NEW p \in Threads, announce_unconnected(p)
  PROVE IndInv'
<1>0. TypeOK /\ AllFine
  BY DEF IndInv
<1> DEFINE r2 == [req[p] EXCEPT !.at = "next", !.thrown = TRUE]
<1>1. /\ req' = [req EXCEPT ![p] = r2]
      /\ UNCHANGED <<requests, m_stopped, made>> /\ req[p].at = "connected"
  BY DEF announce_unconnected, Throw, Local, At
<1>2. req[p] \in RequestState
  BY <1>0 DEF TypeOK
<1>3. /\ r2 \in RequestState /\ r2.tiers = req[p].tiers /\ r2.asked = req[p].asked
      /\ r2.answered = req[p].answered /\ r2.tracker = req[p].tracker
      /\ r2.at = "next" /\ r2.at # "connected"
  BY <1>1, <1>2 DEF RequestState, Retries
<1> HIDE DEF r2
<1>4. /\ AllFine' /\ req' \in [Threads -> RequestState]
      /\ req'[p] = r2 /\ \A q \in Threads \ {p} : req'[q] = req[q]
  BY <1>0, <1>1, <1>2, <1>3, MoveFine DEF UdpPlaces
<1>5. TypeOK'
  BY <1>0, <1>1, <1>4 DEF TypeOK
<1>6. ConnectedHasId'
  BY <1>1, <1>3, <1>4, IdsStay
<1>7. QED BY <1>4, <1>5, <1>6 DEF IndInv

\* The request goes to the next tier, or has its answer.
LEMMA Returned ==
  ASSUME IndInv, NEW p \in Threads, NEW success \in BOOLEAN,
         NEW from \in Torrents \cup {None}, Return(p, success, from),
         req[p].at \in UdpPlaces \/ (req[p].at = "http" /\ success),
         UNCHANGED <<requests, m_stopped, made>>
  PROVE  IndInv'
<1>0. TypeOK /\ AllFine
  BY DEF IndInv
<1>1. /\ AllFine' /\ req' \in [Threads -> RequestState]
      /\ req'[p].at = "next" /\ \A q \in Threads \ {p} : req'[q] = req[q]
  BY <1>0, ReturnFine
<1>2. TypeOK'
  BY <1>0, <1>1 DEF TypeOK
<1>3. ConnectedHasId'
  BY <1>1, IdsStay
<1>4. QED BY <1>1, <1>2, <1>3 DEF IndInv

LEMMA connect_failsKeeps ==
  ASSUME IndInv, NEW p \in Threads, connect_fails(p)
  PROVE IndInv'
<1>0. TypeOK /\ AllFine
  BY DEF IndInv
<1>1. req[p].at = "connect" /\ Return(p, FALSE, None) /\ UNCHANGED <<requests, m_stopped, made>>
  BY DEF connect_fails, At
<1>2. QED BY <1>1, Returned DEF UdpPlaces

LEMMA announce_replyKeeps ==
  ASSUME IndInv, NEW p \in Threads, announce_reply(p)
  PROVE IndInv'
<1>0. TypeOK /\ AllFine
  BY DEF IndInv
<1>1. req[p].at = "announce" /\ UNCHANGED <<requests, m_stopped, made>>
  BY DEF announce_reply, At
<1>2. req[p].tracker \in Udp /\ req[p].event \in Events
  BY <1>0, <1>1 DEF TypeOK, RequestState, AllFine, Fine, Asking, UdpPlaces
<1>3. Request(p).owner \in Torrents \cup {None}
  BY <1>0, <1>2 DEF TypeOK, Request
<1>4. Peers(req[p].event, Request(p).owner) \in Torrents \cup {None}
  BY <1>3 DEF Peers
<1>5. \E success \in BOOLEAN, from \in Torrents \cup {None} : Return(p, success, from)
  BY <1>4 DEF announce_reply
<1>6. QED BY <1>1, <1>5, Returned DEF UdpPlaces

LEMMA http_tracker_requestKeeps ==
  ASSUME IndInv, NEW p \in Threads, http_tracker_request(p)
  PROVE IndInv'
<1>0. TypeOK /\ AllFine
  BY DEF IndInv
<1>1. req[p].at = "http" /\ UNCHANGED <<requests, m_stopped, made>>
  BY DEF http_tracker_request, At
<1>2. CASE Return(p, TRUE, Peers(req[p].event, torrent[p]))
  <2>1. Peers(req[p].event, torrent[p]) \in Torrents \cup {None}
    BY <1>0, Context DEF Peers
  <2>2. QED BY <1>1, <1>2, <2>1, Returned
<1>3. CASE Throw(p)
  <2> DEFINE r2 == [req[p] EXCEPT !.at = "next", !.thrown = TRUE]
  <2>1. req' = [req EXCEPT ![p] = r2] /\ req[p] \in RequestState
    BY <1>0, <1>3 DEF Throw, Local, TypeOK
  <2>2. /\ r2 \in RequestState /\ r2.tiers = req[p].tiers /\ r2.asked = req[p].asked
        /\ r2.answered = req[p].answered /\ r2.tracker = req[p].tracker /\ r2.at = "next"
    BY <2>1 DEF RequestState
  <2> HIDE DEF r2
  <2>3. /\ AllFine' /\ req' \in [Threads -> RequestState]
        /\ req'[p] = r2 /\ \A q \in Threads \ {p} : req'[q] = req[q]
    BY <1>0, <1>1, <2>1, <2>2, MoveFine
  <2>4. TypeOK'
    BY <1>0, <1>1, <2>3 DEF TypeOK
  <2>5. ConnectedHasId'
    BY <1>1, <2>2, <2>3, IdsStay
  <2>6. QED BY <2>3, <2>4, <2>5 DEF IndInv
<1>4. QED BY <1>2, <1>3 DEF http_tracker_request

LEMMA next_tierKeeps ==
  ASSUME IndInv, NEW p \in Threads, next_tier(p)
  PROVE IndInv'
<1>0. TypeOK /\ AllFine
  BY DEF IndInv
<1> DEFINE r2 == [req[p] EXCEPT !.tiers = Tail(@)]
<1>1. /\ req' = [req EXCEPT ![p] = r2] /\ UNCHANGED <<requests, m_stopped, made>>
      /\ req[p].at = "next" /\ req[p].tiers # <<>>
      /\ Head(req[p].tiers) = {} \/ m_stopped[torrent[p]]
  BY DEF next_tier, Local, At, Stops
<1>2. /\ Tiers(p) \in TiersOf /\ req[p] \in RequestState /\ req[p].tiers \in TiersOf
      /\ m_stopped[torrent[p]] \in BOOLEAN /\ made[p] \in Nat
      /\ Fine(req[p], Tiers(p), m_stopped[torrent[p]], made[p])
  BY <1>0, Context DEF RequestState, TiersOf
<1>3. /\ r2 \in RequestState /\ r2.tiers = Tail(req[p].tiers) /\ r2.asked = req[p].asked
      /\ r2.answered = req[p].answered /\ r2.at = "next"
  BY <1>1, <1>2, Tails DEF RequestState, TiersOf
<1> HIDE DEF r2
<1>4. Fine(r2, Tiers(p), m_stopped[torrent[p]], made[p])
  <2>1. made[p] > 0 /\ ~req[p].answered
    BY <1>1, <1>2 DEF Fine, Asking
  <2>2. Head(req[p].tiers) = req[p].tiers[1]
    BY <1>1, <1>2, Tails DEF TiersOf
  <2>3. QED BY <1>1, <1>2, <1>3, <2>1, <2>2, NextTierFine
<1>5. /\ AllFine' /\ req' \in [Threads -> RequestState]
      /\ \A q \in Threads \ {p} : req'[q] = req[q]
  BY <1>0, <1>1, <1>3, <1>4, Framed DEF TypeOK
<1>6. TypeOK'
  BY <1>0, <1>1, <1>5 DEF TypeOK
<1>7. req'[p].at # "connected"
  BY <1>0, <1>1, <1>3 DEF TypeOK
<1>8. ConnectedHasId'
  BY <1>1, <1>5, <1>7, IdsStay
<1>9. QED BY <1>5, <1>6, <1>8 DEF IndInv

LEMMA end_requestKeeps ==
  ASSUME IndInv, NEW p \in Threads, end_request(p)
  PROVE IndInv'
<1>0. TypeOK /\ AllFine
  BY DEF IndInv
<1> DEFINE r2 == [req[p] EXCEPT !.at = IF req[p].thrown THEN "raised" ELSE "idle"]
<1>1. /\ req' = [req EXCEPT ![p] = r2] /\ UNCHANGED <<requests, m_stopped, made>>
      /\ req[p].at = "next" /\ req[p].tiers = <<>>
  BY DEF end_request, Local, At
<1>2. /\ Tiers(p) \in TiersOf /\ req[p] \in RequestState /\ req[p].tiers \in TiersOf
      /\ m_stopped[torrent[p]] \in BOOLEAN /\ made[p] \in Nat
      /\ Fine(req[p], Tiers(p), m_stopped[torrent[p]], made[p])
  BY <1>0, Context DEF RequestState, TiersOf
<1>3. /\ r2 \in RequestState /\ r2.tiers = req[p].tiers /\ r2.asked = req[p].asked
      /\ r2.answered = req[p].answered /\ r2.thrown = req[p].thrown /\ r2.at \in {"idle", "raised"}
  BY <1>2 DEF RequestState
<1> HIDE DEF r2
<1>4. Fine(r2, Tiers(p), m_stopped[torrent[p]], made[p])
  BY <1>1, <1>2, <1>3, EndedFine
<1>5. /\ AllFine' /\ req' \in [Threads -> RequestState]
      /\ \A q \in Threads \ {p} : req'[q] = req[q]
  BY <1>0, <1>1, <1>3, <1>4, Framed DEF TypeOK
<1>6. TypeOK'
  BY <1>0, <1>1, <1>5 DEF TypeOK
<1>7. req'[p].at # "connected"
  BY <1>0, <1>1, <1>3 DEF TypeOK
<1>8. ConnectedHasId'
  BY <1>1, <1>5, <1>7, IdsStay
<1>9. QED BY <1>5, <1>6, <1>8 DEF IndInv

LEMMA do_tracker_requestKeeps ==
  ASSUME IndInv, NEW p \in Threads, do_tracker_request(p)
  PROVE IndInv'
<1>0. TypeOK /\ AllFine
  BY DEF IndInv
<1>1. /\ UNCHANGED <<requests, m_stopped, made>>
      /\ req[p].at = "next" /\ req[p].tiers # <<>>
  BY DEF do_tracker_request, At
<1>2. /\ Tiers(p) \in TiersOf /\ req[p] \in RequestState /\ req[p].tiers \in TiersOf
      /\ m_stopped[torrent[p]] \in BOOLEAN /\ made[p] \in Nat
      /\ Fine(req[p], Tiers(p), m_stopped[torrent[p]], made[p])
  BY <1>0, Context DEF RequestState, TiersOf
<1>a. Head(req[p].tiers) = req[p].tiers[1] /\ Head(req[p].tiers) \subseteq Trackers
  BY <1>1, <1>2, Tails DEF TiersOf
<1>b. PICK u \in Head(req[p].tiers) :
        Local(p, [req[p] EXCEPT !.at = IF u \in Udp THEN "udp" ELSE "http",
                                !.tracker = u, !.asked = Append(@, u),
                                !.tiers = <<Head(@) \ {u}>> \o Tail(@)])
  BY DEF do_tracker_request
<1> DEFINE r2 == [req[p] EXCEPT !.at = IF u \in Udp THEN "udp" ELSE "http",
                                !.tracker = u, !.asked = Append(@, u),
                                !.tiers = <<Head(@) \ {u}>> \o Tail(@)]
<1>c. req' = [req EXCEPT ![p] = r2] /\ u \in Trackers
  BY <1>a, <1>b DEF Local
<1>d. <<Head(req[p].tiers) \ {u}>> \o Tail(req[p].tiers) \in TiersOf
  BY <1>1, <1>2, <1>a, NewHead DEF TiersOf
<1>e. Append(req[p].asked, u) \in Seq(Trackers)
  BY <1>2, <1>c, AppendSet DEF RequestState
<1>3. /\ r2 \in RequestState /\ r2.tiers = <<req[p].tiers[1] \ {u}>> \o Tail(req[p].tiers)
      /\ r2.asked = Append(req[p].asked, u) /\ r2.answered = req[p].answered
      /\ r2.tracker = u /\ r2.at = IF u \in Udp THEN "udp" ELSE "http"
  BY <1>2, <1>a, <1>c, <1>d, <1>e DEF RequestState, TiersOf
<1> HIDE DEF r2
<1>4. Fine(r2, Tiers(p), m_stopped[torrent[p]], made[p])
  BY <1>1, <1>2, <1>3, <1>a, <1>c, AskedFine
<1>5. /\ AllFine' /\ req' \in [Threads -> RequestState]
      /\ \A q \in Threads \ {p} : req'[q] = req[q]
  BY <1>0, <1>1, <1>c, <1>3, <1>4, Framed DEF TypeOK
<1>6. TypeOK'
  BY <1>0, <1>1, <1>5 DEF TypeOK
<1>7. req'[p].at # "connected"
  BY <1>0, <1>1, <1>c, <1>3 DEF TypeOK
<1>8. ConnectedHasId'
  BY <1>1, <1>5, <1>7, IdsStay
<1>9. QED BY <1>5, <1>6, <1>8 DEF IndInv


\* A connection id may be given up: only of a tracker that this thread asks for.
LEMMA connectKeeps ==
  ASSUME IndInv, NEW p \in Threads, connect(p)
  PROVE IndInv'
<1>0. TypeOK /\ AllFine /\ ConnectedHasId
  BY DEF IndInv
<1> DEFINE u == req[p].tracker
           id == IF Request(p).id = "old" THEN None ELSE Request(p).id
           r2 == [req[p] EXCEPT !.at = IF id = None THEN "connect" ELSE "connected", !.tries = 0]
<1>1. /\ req[p].at = "udp" /\ UNCHANGED <<m_stopped, made>>
      /\ requests' = [requests EXCEPT ![u] = [owner |-> Owner(p), id |-> id]]
      /\ req' = [req EXCEPT ![p] = r2]
  BY DEF connect, Local, At
<1>2. /\ req[p] \in RequestState /\ 0 \in 0 .. Retries - 1 /\ torrent[p] \in Torrents
      /\ Fine(req[p], Tiers(p), m_stopped[torrent[p]], made[p]) /\ Tiers(p) \in TiersOf
  BY <1>0, Context DEF Retries
<1>a. /\ u \in Udp /\ made[p] > 0 /\ req[p].tiers # <<>>
      /\ u \in Tiers(p)[Behind(req[p], Tiers(p)) + 1]
  BY <1>1, <1>2 DEF Fine, Asking, UdpPlaces
<1>b. u \in UNION Range(Tiers(p))
  <2>1. /\ Len(Tiers(p)) \in Nat /\ Len(req[p].tiers) \in Nat /\ Len(req[p].tiers) # 0
        /\ Len(req[p].tiers) <= Len(Tiers(p)) /\ DOMAIN Tiers(p) = 1 .. Len(Tiers(p))
    BY <1>2, <1>a, Lengths, LenProperties DEF RequestState, TiersOf, Fine, Known
  <2>2. Behind(req[p], Tiers(p)) + 1 \in DOMAIN Tiers(p)
    BY <2>1 DEF Behind
  <2>3. QED BY <1>a, <2>2 DEF Range
<1>c. /\ requests \in [Udp -> [owner : Torrents \cup {None}, id : {None, "fresh", "old"}]]
      /\ Owner(p) \in Torrents \cup {None} /\ id \in {None, "fresh", "old"}
  BY <1>0, <1>2, <1>a DEF TypeOK, Owner, Request
<1>3. /\ r2 \in RequestState /\ r2.tiers = req[p].tiers /\ r2.asked = req[p].asked
      /\ r2.answered = req[p].answered /\ r2.tracker = u
      /\ r2.at \in {"connect", "connected"} /\ (r2.at = "connected" => id # None)
  BY <1>2 DEF RequestState
<1>d. /\ requests' \in [Udp -> [owner : Torrents \cup {None}, id : {None, "fresh", "old"}]]
      /\ requests'[u].id = id
      /\ \A v \in Udp : v # u => requests'[v] = requests[v]
  BY <1>1, <1>a, <1>c
<1> HIDE DEF r2, id
<1>4. /\ AllFine' /\ req' \in [Threads -> RequestState]
      /\ req'[p] = r2 /\ \A q \in Threads \ {p} : req'[q] = req[q]
  BY <1>0, <1>1, <1>2, <1>3, MoveFine DEF UdpPlaces
<1>5. TypeOK'
  BY <1>0, <1>1, <1>4, <1>d DEF TypeOK
<1>6. ConnectedHasId'
  <2> SUFFICES ASSUME NEW q \in Threads, req'[q].at = "connected"
               PROVE  \/ requests'[req'[q].tracker].id # None
                      \/ \E o \in Threads \ {q} : made'[o] > 0
                                          /\ req'[q].tracker \in UNION Range(Tiers(o))
    BY DEF ConnectedHasId, At, Request, Tiers
  <2>1. CASE q = p
    BY <1>3, <1>4, <1>d, <2>1
  <2>2. CASE q # p /\ req[q].tracker = u
    BY <1>1, <1>4, <1>a, <1>b, <2>2
  <2>3. CASE q # p /\ req[q].tracker # u
    <3>1. req'[q] = req[q] /\ req[q].tracker \in Udp
      BY <1>0, <1>4, <2>3 DEF AllFine, Fine, Asking, UdpPlaces
    <3>2. QED BY <1>0, <1>1, <1>d, <2>3, <3>1 DEF ConnectedHasId, At, Request
  <2>4. QED BY <2>1, <2>2, <2>3
<1>7. QED BY <1>4, <1>5, <1>6 DEF IndInv

LEMMA connect_replyKeeps ==
  ASSUME IndInv, NEW p \in Threads, connect_reply(p)
  PROVE IndInv'
<1>0. TypeOK /\ AllFine
  BY DEF IndInv
<1> DEFINE u == req[p].tracker
           r2 == [req[p] EXCEPT !.at = "connected"]
<1>1. /\ req[p].at = "connect" /\ UNCHANGED <<m_stopped, made>>
      /\ requests' = [requests EXCEPT ![u].id = "fresh"]
      /\ req' = [req EXCEPT ![p] = r2]
  BY DEF connect_reply, Local, At
<1>2. req[p] \in RequestState /\ u \in Udp
  BY <1>0, <1>1 DEF TypeOK, AllFine, Fine, Asking, UdpPlaces
<1>3. /\ r2 \in RequestState /\ r2.tiers = req[p].tiers /\ r2.asked = req[p].asked
      /\ r2.answered = req[p].answered /\ r2.tracker = u /\ r2.at = "connected"
  BY <1>2 DEF RequestState
<1>d. /\ requests' \in [Udp -> [owner : Torrents \cup {None}, id : {None, "fresh", "old"}]]
      /\ requests'[u].id = "fresh" /\ "fresh" # None
      /\ \A v \in Udp : v # u => requests'[v] = requests[v]
  BY <1>0, <1>1, <1>2 DEF TypeOK, None
<1> HIDE DEF r2
<1>4. /\ AllFine' /\ req' \in [Threads -> RequestState]
      /\ req'[p] = r2 /\ \A q \in Threads \ {p} : req'[q] = req[q]
  BY <1>0, <1>1, <1>2, <1>3, MoveFine DEF UdpPlaces
<1>5. TypeOK'
  BY <1>0, <1>1, <1>4, <1>d DEF TypeOK
<1>6. ConnectedHasId'
  <2>1. \A v \in Udp : requests[v].id # None => requests'[v].id # None
    BY <1>d
  <2>2. requests'[req'[p].tracker].id # None
    BY <1>3, <1>4, <1>d
  <2>3. QED BY <1>1, <1>4, <2>1, <2>2, IdsStay
<1>7. QED BY <1>4, <1>5, <1>6 DEF IndInv

LEMMA tracker_requestKeeps ==
  ASSUME IndInv, NEW p \in Threads, NEW e \in Events, tracker_request(p, e) PROVE IndInv'
<1>0. TypeOK /\ AllFine /\ ConnectedHasId
  BY DEF IndInv
<1> DEFINE r2 == [NoRequest EXCEPT !.at = "next", !.event = e, !.tiers = announce_list[torrent[p]]]
<1>1. /\ req' = [req EXCEPT ![p] = r2] /\ UNCHANGED <<requests, m_stopped>>
      /\ made' = [made EXCEPT ![p] = @ + 1] /\ made \in [Threads -> Nat]
  BY <1>0 DEF tracker_request, Local, TypeOK
<1>2. Tiers(p) \in TiersOf /\ m_stopped[torrent[p]] \in BOOLEAN /\ made[p] + 1 \in Nat /\ made[p] + 1 > 0
  BY <1>0, <1>1, Context
<1>3. /\ r2 \in RequestState /\ r2.tiers = Tiers(p) /\ r2.at = "next" /\ ~r2.answered
  <2>1. <<>> \in Seq(Trackers) /\ 0 \in 0 .. Retries - 1
    BY EmptySeq DEF Retries
  <2>2. QED BY <1>2, <2>1 DEF RequestState, NoRequest, Tiers, TiersOf
<1> HIDE DEF r2
<1>4. Fine(r2, Tiers(p), m_stopped[torrent[p]], made[p] + 1)
  BY <1>2, <1>3, StartedFine
<1>5. AllFine'
  BY <1>0, <1>1, <1>4 DEF AllFine, TypeOK, Tiers
<1>6. TypeOK'
  BY <1>0, <1>1, <1>3 DEF TypeOK
<1>7. ConnectedHasId'
  <2>1. req'[p].at # "connected" /\ \A q \in Threads \ {p} : req'[q] = req[q]
    BY <1>0, <1>1, <1>3 DEF TypeOK
  <2>2. \A q \in Threads : made[q] > 0 => made'[q] > 0
    BY <1>1
  <2>3. QED BY <1>1, <2>1, <2>2, IdsStay
<1>8. QED BY <1>5, <1>6, <1>7 DEF IndInv

LEMMA minuteKeeps ==
  ASSUME IndInv, NEW u \in Udp, minute(u)
  PROVE IndInv'
<1>0. TypeOK /\ AllFine /\ ConnectedHasId
  BY DEF IndInv
<1>1. /\ requests' = [requests EXCEPT ![u].id = "old"] /\ UNCHANGED <<req, m_stopped, made>>
  BY DEF minute
<1>2. /\ requests' \in [Udp -> [owner : Torrents \cup {None}, id : {None, "fresh", "old"}]]
      /\ \A v \in Udp : requests[v].id # None => requests'[v].id # None
  BY <1>0, <1>1 DEF TypeOK, None
<1>3. TypeOK' /\ AllFine'
  BY <1>0, <1>1, <1>2 DEF TypeOK, AllFine, Tiers
<1>4. ConnectedHasId'
  <2>1. \A p \in Threads : req[p].at = "connected" => req[p].tracker \in Udp
    BY <1>0 DEF AllFine, Fine, Asking, UdpPlaces
  <2>2. QED BY <1>0, <1>1, <1>2, <2>1 DEF ConnectedHasId, At, Request, Tiers
<1>5. QED BY <1>3, <1>4 DEF IndInv

LEMMA set_stoppedKeeps ==
  ASSUME IndInv, NEW t \in Torrents, set_stopped(t)
  PROVE IndInv'
<1>0. TypeOK /\ AllFine /\ ConnectedHasId
  BY DEF IndInv
<1>1. m_stopped' = [m_stopped EXCEPT ![t] = TRUE] /\ UNCHANGED <<req, requests, made>>
  BY DEF set_stopped
<1>2. TypeOK'
  BY <1>0, <1>1 DEF TypeOK
<1>3. AllFine'
  <2> SUFFICES ASSUME NEW p \in Threads
               PROVE  Fine(req[p], Tiers(p), m_stopped'[torrent[p]], made[p])
    BY <1>1 DEF AllFine, Tiers
  <2>1. /\ m_stopped[torrent[p]] \in BOOLEAN
        /\ Fine(req[p], Tiers(p), m_stopped[torrent[p]], made[p])
    BY <1>0, Context
  <2>2. m_stopped'[torrent[p]] = TRUE \/ m_stopped'[torrent[p]] = m_stopped[torrent[p]]
    BY <1>0, <1>1, TrackerAssumption DEF TypeOK
  <2>3. QED BY <2>1, <2>2, StoppedFine
<1>4. ConnectedHasId'
  BY <1>0, <1>1 DEF ConnectedHasId, At, Request, Tiers
<1>5. QED BY <1>2, <1>3, <1>4 DEF IndInv

LEMMA InitInv == Init => IndInv
<1> SUFFICES ASSUME Init PROVE IndInv
  OBVIOUS
<1>0. <<>> \in Seq(SUBSET Trackers) /\ <<>> \in Seq(Trackers) /\ 0 \in 0 .. Retries - 1
  BY EmptySeq DEF Retries
<1>1. TypeOK
  BY <1>0 DEF Init, TypeOK, NoRequest, RequestState, Events, None
<1>2. AllFine
  <2> SUFFICES ASSUME NEW p \in Threads
               PROVE  Fine(req[p], Tiers(p), m_stopped[torrent[p]], made[p])
    BY DEF AllFine
  <2>1. /\ req[p] = NoRequest /\ made[p] = 0 /\ NoRequest.at = "idle" /\ NoRequest.tiers = <<>>
        /\ ~NoRequest.answered
    BY DEF Init, NoRequest
  <2>2. Len(Tiers(p)) \in Nat /\ Len(<<>>) = 0
    BY TrackerAssumption, Lengths, EmptySeq DEF Tiers
  <2>3. QED BY <2>1, <2>2 DEF Fine, Known, Asking, Tried, UdpPlaces
<1>3. ConnectedHasId
  BY DEF Init, NoRequest, ConnectedHasId, At
<1>4. QED BY <1>1, <1>2, <1>3 DEF IndInv

LEMMA NextInv == IndInv /\ [Next]_vars => IndInv'
<1> SUFFICES ASSUME IndInv, [Next]_vars PROVE IndInv'
  OBVIOUS
<1>1. CASE UNCHANGED vars
  BY <1>1 DEF vars, IndInv, TypeOK, AllFine, ConnectedHasId, Tiers, At, Request
<1>2. ASSUME NEW p \in Threads, Step(p) PROVE IndInv'
  BY <1>2, next_tierKeeps, do_tracker_requestKeeps, end_requestKeeps, http_tracker_requestKeeps,
     http_exceptionKeeps, connectKeeps, connect_replyKeeps, retry_callKeeps, udp_throwsKeeps,
     connect_failsKeeps, announceKeeps, announce_unconnectedKeeps, announce_replyKeeps DEF Step
<1>3. ASSUME NEW p \in Threads, NEW e \in Requested, tracker_request(p, e) PROVE IndInv'
  BY <1>3, TrackerAssumption, tracker_requestKeeps
<1>4. QED BY <1>1, <1>2, <1>3, minuteKeeps, set_stoppedKeeps DEF Next

-----------------------------------------------------------------------------
(* The order of the trackers *)

\* No tracker is in two tiers of a torrent: one that is listed twice is asked twice.
DisjointTiers ==
  \A t \in Torrents : \A i, j \in DOMAIN announce_list[t] :
    announce_list[t][i] \cap announce_list[t][j] # {} => i = j

\* Each tracker asked is of a tier left behind or of the present one, where it is not
\* tried again, and of no tier before that of the tracker asked before it.
Ordered(r, T) ==
  /\ \A i \in 1 .. Len(r.asked) :
       \E k \in 1 .. Len(T) : k <= Behind(r, T) + 1 /\ r.asked[i] \in T[k]
  /\ r.tiers # <<>> => \A i \in 1 .. Len(r.asked) : r.asked[i] \notin r.tiers[1]
  /\ \A i, j \in 1 .. Len(r.asked) : i < j =>
       /\ r.asked[i] # r.asked[j]
       /\ \A k, l \in 1 .. Len(T) : r.asked[i] \in T[k] /\ r.asked[j] \in T[l] => k <= l

AllOrdered == \A p \in Threads : Ordered(req[p], Tiers(p))

\* Tiers are left, nothing is asked.
LEMMA LeftOrdered ==
  ASSUME NEW T \in TiersOf, NEW r \in RequestState, NEW r2 \in RequestState,
         Known(r, T), Known(r2, T), Ordered(r, T),
         \A i, j \in 1 .. Len(T) : T[i] \cap T[j] # {} => i = j,
         r2.asked = r.asked,
         \/ r2.tiers = r.tiers
         \/ r2.tiers = <<>>
         \/ r.tiers # <<>> /\ r2.tiers = Tail(r.tiers)
  PROVE  Ordered(r2, T)
<1>1. /\ r.tiers \in TiersOf /\ Len(T) \in Nat /\ Len(r.tiers) \in Nat /\ Len(r2.tiers) \in Nat
      /\ Len(r.tiers) <= Len(T)
  BY Lengths DEF RequestState, TiersOf, Known
<1>2. CASE r2.tiers = r.tiers
  BY <1>2 DEF Ordered, Behind
<1>3. CASE r2.tiers = <<>>
  <2>1. Behind(r2, T) = Len(T)
    BY <1>1, <1>3, Lengths DEF Behind
  <2>2. QED BY <1>1, <1>3, <2>1 DEF Ordered
<1>4. CASE r.tiers # <<>> /\ r2.tiers = Tail(r.tiers)
  <2>1. Len(r.tiers) = Len(r2.tiers) + 1 /\ (r2.tiers # <<>> => Len(r2.tiers) # 0)
        /\ \A i \in 1 .. Len(r2.tiers) : r2.tiers[i] = r.tiers[i + 1]
    BY <1>1, <1>4, Tails, Lengths DEF TiersOf
  <2>2. Behind(r, T) \in Nat /\ Behind(r2, T) = Behind(r, T) + 1 /\ Behind(r2, T) <= Len(T)
    BY <1>1, <2>1 DEF Behind
  <2>3. ASSUME r2.tiers # <<>>, NEW i \in 1 .. Len(r.asked) PROVE r.asked[i] \notin r2.tiers[1]
    <3>1. PICK k \in 1 .. Len(T) : k <= Behind(r, T) + 1 /\ r.asked[i] \in T[k]
      BY DEF Ordered
    <3>2. Behind(r2, T) + 1 \in 1 .. Len(T) /\ k # Behind(r2, T) + 1
      <4>1. Len(r2.tiers) >= 1
        BY <1>1, <2>1, <2>3
      <4>2. Behind(r2, T) = Len(T) - Len(r2.tiers)
        BY DEF Behind
      <4>3. Behind(r2, T) + 1 \in 1 .. Len(T)
        BY <1>1, <2>2, <4>1, <4>2
      <4>4. k # Behind(r2, T) + 1
        BY <1>1, <2>2, <3>1
      <4>5. QED BY <4>3, <4>4
    <3>3. r2.tiers[1] \subseteq T[Behind(r2, T) + 1]
      BY <2>3 DEF Known
    <3>4. T[k] \cap T[Behind(r2, T) + 1] = {}
      BY <3>2
    <3>5. QED BY <3>1, <3>3, <3>4
  <2>4. \A i \in 1 .. Len(r.asked) :
          \E k \in 1 .. Len(T) : k <= Behind(r2, T) + 1 /\ r.asked[i] \in T[k]
    <3> TAKE i \in 1 .. Len(r.asked)
    <3>1. PICK k \in 1 .. Len(T) : k <= Behind(r, T) + 1 /\ r.asked[i] \in T[k]
      BY DEF Ordered
    <3>2. QED BY <2>2, <3>1
  <2>5. QED BY <2>3, <2>4 DEF Ordered
<1>5. QED BY <1>2, <1>3, <1>4

LEMMA AskedOrdered ==
  ASSUME NEW T \in TiersOf, NEW r \in RequestState, NEW r2 \in RequestState,
         Known(r, T), Ordered(r, T),
         \A i, j \in 1 .. Len(T) : T[i] \cap T[j] # {} => i = j,
         r.tiers # <<>>, NEW u \in r.tiers[1], u \in Trackers,
         r2.asked = Append(r.asked, u),
         r2.tiers = <<r.tiers[1] \ {u}>> \o Tail(r.tiers)
  PROVE  Ordered(r2, T)
<1> DEFINE n == Len(r.asked)
           b == Behind(r, T) + 1
<1>1. /\ r.tiers \in TiersOf /\ r.tiers[1] \in SUBSET Trackers /\ r.asked \in Seq(Trackers)
      /\ Len(r.tiers) \in Nat /\ Len(T) \in Nat /\ n \in Nat /\ Len(r.tiers) # 0
      /\ Len(r.tiers) <= Len(T)
  BY Tails, Lengths DEF RequestState, TiersOf, Known
<1>2. Len(r2.tiers) = Len(r.tiers) /\ r2.tiers[1] = r.tiers[1] \ {u}
  BY <1>1, NewHead DEF TiersOf
<1>3. /\ Len(r2.asked) = n + 1 /\ r2.asked[n + 1] = u
      /\ \A i \in 1 .. n : r2.asked[i] = r.asked[i]
  BY <1>1, AppendProperties
<1>4. Behind(r2, T) + 1 = b /\ b \in 1 .. Len(T) /\ u \in T[b]
  <2>1. Behind(r2, T) = Behind(r, T) /\ Behind(r, T) = Len(T) - Len(r.tiers)
    BY <1>2 DEF Behind
  <2>2. b \in 1 .. Len(T)
    BY <1>1, <2>1
  <2>3. u \in T[b]
    BY DEF Known
  <2>4. QED BY <2>1, <2>2, <2>3
<1>5. \A i \in 1 .. n : /\ r.asked[i] # u
                        /\ \E k \in 1 .. Len(T) : k <= b /\ r.asked[i] \in T[k]
  BY DEF Ordered
<1> HIDE DEF n, b
<1>6. \A i \in 1 .. n + 1 : i = n + 1 \/ i \in 1 .. n
  BY <1>1
<1>7. \A i \in 1 .. n + 1 : \E k \in 1 .. Len(T) : k <= b /\ r2.asked[i] \in T[k]
  BY <1>1, <1>3, <1>4, <1>5, <1>6
<1>8. \A i \in 1 .. n + 1 : r2.asked[i] \notin r2.tiers[1]
  <2>1. \A i \in 1 .. n : r.asked[i] \notin r.tiers[1]
    BY DEF Ordered, n
  <2>2. QED BY <1>2, <1>3, <1>6, <2>1
<1>9. ASSUME NEW i \in 1 .. n + 1, NEW j \in 1 .. n + 1, i < j
      PROVE  /\ r2.asked[i] # r2.asked[j]
             /\ \A k, l \in 1 .. Len(T) : r2.asked[i] \in T[k] /\ r2.asked[j] \in T[l] => k <= l
  <2>1. i \in 1 .. n
    BY <1>1, <1>9
  <2>2. CASE j \in 1 .. n
    BY <1>3, <1>9, <2>1, <2>2 DEF Ordered, n
  <2>3. CASE j = n + 1
    <3>1. PICK m \in 1 .. Len(T) : m <= b /\ r.asked[i] \in T[m]
      BY <1>5, <2>1
    <3>2. \A k, l \in 1 .. Len(T) : r.asked[i] \in T[k] /\ u \in T[l] => k = m /\ l = b
      BY <1>4, <3>1
    <3>3. QED BY <1>1, <1>3, <1>4, <1>5, <2>1, <2>3, <3>1, <3>2
  <2>4. QED BY <1>6, <2>2, <2>3
<1>10. QED BY <1>3, <1>4, <1>7, <1>8, <1>9 DEF Ordered, b

\* Every step keeps the order.
LEMMA OrderInv ==
  ASSUME DisjointTiers, IndInv, IndInv', AllOrdered, [Next]_vars PROVE AllOrdered'
<1> SUFFICES ASSUME NEW p \in Threads PROVE Ordered(req'[p], Tiers(p))
  BY DEF AllOrdered, Tiers
<1> DEFINE r == req[p]
           r2 == req'[p]
           T == Tiers(p)
<1>1. /\ T \in TiersOf /\ r \in RequestState /\ r2 \in RequestState
      /\ Known(r, T) /\ Known(r2, T) /\ Ordered(r, T) /\ torrent[p] \in Torrents
  BY Context, TrackerAssumption DEF IndInv, TypeOK, AllFine, Fine, AllOrdered, Tiers, TiersOf
<1>2. \A i, j \in 1 .. Len(T) : T[i] \cap T[j] # {} => i = j
  BY <1>1, LenProperties DEF DisjointTiers, Tiers, TiersOf
<1>3. r.at \in UdpPlaces \cup {"http"} => r.tiers # <<>>
  BY DEF IndInv, AllFine, Fine, Asking
<1> DEFINE Leaves == /\ r2.asked = r.asked
                     /\ \/ r2.tiers = r.tiers
                        \/ r2.tiers = <<>>
                        \/ r.tiers # <<>> /\ r2.tiers = Tail(r.tiers)
<1>4. CASE Leaves
  BY <1>1, <1>2, <1>4, LeftOrdered
<1>5. CASE r2 = r
  BY <1>1, <1>5
<1>t. req \in [Threads -> RequestState]
  BY DEF IndInv, TypeOK
<1>6. ASSUME NEW q \in Threads, Step(q) PROVE Ordered(r2, T)
  <2>1. CASE q # p
    <3>1. \E x : req' = [req EXCEPT ![q] = x]
      BY <1>6 DEF Step, next_tier, do_tracker_request, end_request, http_tracker_request,
         http_exception, connect, connect_reply, retry_call, udp_throws, connect_fails,
         announce, announce_unconnected, announce_reply, Return, Throw, Local
    <3>2. QED BY <1>5, <1>t, <2>1, <3>1
  <2>2. CASE q = p /\ do_tracker_request(p)
    <3>1. PICK u \in Head(r.tiers) :
            Local(p, [r EXCEPT !.at = IF u \in Udp THEN "udp" ELSE "http",
                               !.tracker = u, !.asked = Append(@, u),
                               !.tiers = <<Head(@) \ {u}>> \o Tail(@)])
      BY <2>2 DEF do_tracker_request
    <3>2. /\ r2.asked = Append(r.asked, u)
          /\ r2.tiers = <<Head(r.tiers) \ {u}>> \o Tail(r.tiers)
      BY <1>1, <1>t, <3>1 DEF Local, RequestState
    <3>3. /\ r.tiers # <<>> /\ Head(r.tiers) = r.tiers[1] /\ r.tiers[1] \subseteq Trackers
      BY <1>1, <2>2, Tails DEF do_tracker_request, RequestState
    <3>4. QED BY <1>1, <1>2, <3>1, <3>2, <3>3, AskedOrdered
  <2>3. CASE q = p /\ ~do_tracker_request(p)
    <3>1. \/ next_tier(p) \/ end_request(p) \/ http_exception(p) \/ connect(p)
          \/ connect_reply(p) \/ retry_call(p) \/ udp_throws(p) \/ announce(p)
          \/ announce_unconnected(p) \/ http_tracker_request(p) \/ connect_fails(p)
          \/ announce_reply(p)
      BY <1>6, <2>3 DEF Step
    <3>2. CASE \/ next_tier(p) \/ end_request(p) \/ http_exception(p) \/ connect(p)
               \/ connect_reply(p) \/ retry_call(p) \/ udp_throws(p) \/ announce(p)
               \/ announce_unconnected(p)
      <4>1. CASE next_tier(p)
        <5>1. r.tiers # <<>> /\ r2.asked = r.asked /\ r2.tiers = Tail(r.tiers)
          BY <1>1, <1>t, <4>1 DEF next_tier, At, Local, RequestState
        <5>2. QED BY <1>4, <5>1
      <4>2. CASE end_request(p)
        <5>1. r2.asked = r.asked /\ r2.tiers = r.tiers
          BY <1>1, <1>t, <4>2 DEF end_request, Local, RequestState
        <5>2. QED BY <1>4, <5>1
      <4>3. CASE http_exception(p)
        <5>1. r2.asked = r.asked /\ r2.tiers = r.tiers
          BY <1>1, <1>t, <4>3 DEF http_exception, Local, RequestState
        <5>2. QED BY <1>4, <5>1
      <4>4. CASE connect(p)
        <5>1. r2.asked = r.asked /\ r2.tiers = r.tiers
          BY <1>1, <1>t, <4>4 DEF connect, Local, RequestState
        <5>2. QED BY <1>4, <5>1
      <4>5. CASE connect_reply(p)
        <5>1. r2.asked = r.asked /\ r2.tiers = r.tiers
          BY <1>1, <1>t, <4>5 DEF connect_reply, Local, RequestState
        <5>2. QED BY <1>4, <5>1
      <4>6. CASE retry_call(p)
        <5>1. r2.asked = r.asked /\ r2.tiers = r.tiers
          BY <1>1, <1>t, <4>6 DEF retry_call, Local, RequestState
        <5>2. QED BY <1>4, <5>1
      <4>7. CASE udp_throws(p)
        <5>1. r2.asked = r.asked /\ r2.tiers = r.tiers
          BY <1>1, <1>t, <4>7 DEF udp_throws, Throw, Local, RequestState
        <5>2. QED BY <1>4, <5>1
      <4>8. CASE announce(p)
        <5>1. r2.asked = r.asked /\ r2.tiers = r.tiers
          BY <1>1, <1>t, <4>8 DEF announce, Local, RequestState
        <5>2. QED BY <1>4, <5>1
      <4>9. CASE announce_unconnected(p)
        <5>1. r2.asked = r.asked /\ r2.tiers = r.tiers
          BY <1>1, <1>t, <4>9 DEF announce_unconnected, Throw, Local, RequestState
        <5>2. QED BY <1>4, <5>1
      <4>10. QED BY <3>2, <4>1, <4>2, <4>3, <4>4, <4>5, <4>6, <4>7, <4>8, <4>9
    <3>3. CASE http_tracker_request(p) \/ connect_fails(p) \/ announce_reply(p)
      <4>1. r.tiers # <<>>
        BY <1>3, <3>3 DEF http_tracker_request, connect_fails, announce_reply, At, UdpPlaces
      <4>2. CASE \E from : \E success \in BOOLEAN : Return(p, success, from)
        <5>1. r2.asked = r.asked /\ (r2.tiers = <<>> \/ r2.tiers = Tail(r.tiers))
          BY <1>1, <1>t, <4>2 DEF Return, Local, RequestState
        <5>2. QED BY <1>4, <4>1, <5>1
      <4>3. CASE Throw(p)
        <5>1. r2.asked = r.asked /\ r2.tiers = r.tiers
          BY <1>1, <1>t, <4>3 DEF Throw, Local, RequestState
        <5>2. QED BY <1>4, <5>1
      <4>4. QED BY <3>3, <4>2, <4>3 DEF http_tracker_request, connect_fails, announce_reply
    <3>4. QED BY <3>1, <3>2, <3>3
  <2>4. QED BY <2>1, <2>2, <2>3
<1>7. ASSUME NEW q \in Threads, NEW e \in Requested, tracker_request(q, e) PROVE Ordered(r2, T)
  <2>1. CASE q # p
    BY <1>5, <1>7, <1>t, <2>1 DEF tracker_request, Local
  <2>2. CASE q = p
    <3>1. r2.asked = <<>> /\ Len(r2.asked) = 0
      BY <1>7, <1>t, <2>2, EmptySeq DEF tracker_request, Local, NoRequest
    <3>2. QED BY <3>1 DEF Ordered
  <2>3. QED BY <2>1, <2>2
<1>8. CASE UNCHANGED vars \/ (\E u \in Udp : minute(u)) \/ \E t \in Torrents : set_stopped(t)
  BY <1>5, <1>8 DEF vars, minute, set_stopped
<1>9. CASE Next
  <2>1. CASE \E q \in Threads : Step(q)
    <3>1. PICK q \in Threads : Step(q)
      BY <2>1
    <3>2. QED BY <1>6, <3>1
  <2>2. CASE \E q \in Threads : \E e \in Requested : tracker_request(q, e)
    <3>1. PICK q \in Threads, e \in Requested : tracker_request(q, e)
      BY <2>2
    <3>2. QED BY <1>7, <3>1
  <2>3. CASE (\E u \in Udp : minute(u)) \/ \E t \in Torrents : set_stopped(t)
    BY <1>8, <2>3
  <2>4. QED BY <1>9, <2>1, <2>2, <2>3 DEF Next
<1>10. QED BY <1>8, <1>9

-----------------------------------------------------------------------------

LEMMA IndInvImplies == IndInv => AnsweredIsNotRaised /\ HttpTiersAreTried
<1> SUFFICES ASSUME IndInv PROVE AnsweredIsNotRaised /\ HttpTiersAreTried
  OBVIOUS
<1>1. AnsweredIsNotRaised
  BY DEF IndInv, AllFine, Fine, Asking, AnsweredIsNotRaised
<1>2. HttpTiersAreTried
  <2> SUFFICES ASSUME NEW p \in Threads, GaveUp(p), NEW i \in DOMAIN Tiers(p),
                      Tiers(p)[i] \cap Udp = {}
               PROVE  Tiers(p)[i] \subseteq ToSet(req[p].asked)
    BY DEF HttpTiersAreTried
  <2>1. /\ Tiers(p) \in TiersOf /\ made[p] > 0 /\ req[p].tiers = <<>>
        /\ Tried(req[p], Tiers(p), m_stopped[torrent[p]], made[p])
        /\ ~req[p].answered /\ ~m_stopped[torrent[p]]
    BY Context DEF IndInv, AllFine, Fine, Asking, GaveUp
  <2>2. i \in 1 .. Behind(req[p], Tiers(p))
    BY <2>1, LenProperties, EmptySeq DEF Behind, TiersOf
  <2>3. QED BY <2>1, <2>2 DEF Tried
<1>3. QED BY <1>1, <1>2

LEMMA OrderedImplies == IndInv /\ AllOrdered => TiersInOrder
<1> SUFFICES ASSUME IndInv, AllOrdered, NEW p \in Threads,
                    NEW i \in DOMAIN req[p].asked, NEW j \in DOMAIN req[p].asked, i < j
             PROVE  /\ TierOf(p, req[p].asked[i]) <= TierOf(p, req[p].asked[j])
                    /\ req[p].asked[i] # req[p].asked[j]
  BY DEF TiersInOrder
<1> DEFINE T == Tiers(p)
           a == req[p].asked
<1>1. a \in Seq(Trackers) /\ T \in TiersOf
  BY Context DEF IndInv, RequestState
<1>2. DOMAIN a = 1 .. Len(a) /\ DOMAIN T = 1 .. Len(T)
  BY <1>1, LenProperties DEF TiersOf
<1>3. \A x \in 1 .. Len(a) : \E k \in DOMAIN T : a[x] \in T[k]
  BY <1>2 DEF AllOrdered, Ordered
<1>4. \A x \in 1 .. Len(a) : TierOf(p, a[x]) \in 1 .. Len(T) /\ a[x] \in T[TierOf(p, a[x])]
  BY <1>2, <1>3 DEF TierOf
<1>5. QED BY <1>2, <1>4 DEF AllOrdered, Ordered

\* For any torrents, threads and tiers, whatever trackers answer: a request gives up
\* only when all trackers of each tier with HTTP trackers only have been asked.
THEOREM HttpTiersTried == Spec => []HttpTiersAreTried
BY InitInv, NextInv, IndInvImplies, PTL DEF Spec

\* ... and it is not left with an exception that an answer came after.
THEOREM AnswersAreKept == Spec => []AnsweredIsNotRaised
BY InitInv, NextInv, IndInvImplies, PTL DEF Spec

\* If no tracker is in two tiers, the tiers are tried in order and a tracker once, and a
\* thread that has connected finds the id of the connection.
THEOREM TrackerInvariance == DisjointTiers => (Spec => []Inv)
<1> SUFFICES ASSUME DisjointTiers PROVE Spec => []Inv
  OBVIOUS
<1>1. Init => AllOrdered
  <2> SUFFICES ASSUME Init, NEW p \in Threads PROVE Ordered(req[p], Tiers(p))
    BY DEF AllOrdered
  <2>1. req[p].asked = <<>> /\ Len(req[p].asked) = 0
    BY EmptySeq DEF Init, NoRequest
  <2>2. QED BY <2>1 DEF Ordered
<1>2. IndInv /\ IndInv' /\ AllOrdered /\ [Next]_vars => AllOrdered'
  BY OrderInv
<1>3. IndInv /\ AllOrdered => Inv
  BY IndInvImplies, OrderedImplies DEF Inv, IndInv
<1>4. QED BY InitInv, NextInv, <1>1, <1>2, <1>3, PTL DEF Spec

=============================================================================
