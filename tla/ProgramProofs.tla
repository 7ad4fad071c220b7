---------------------------- MODULE ProgramProofs ----------------------------
(* Proofs about Program, for every number of torrents and remotes.          *)
EXTENDS Program, TLAPS

\* Go moves one thread, and no other.
LEMMA GoMoves ==
  ASSUME TypeOK, NEW t \in Torrents, NEW place, NEW u, Go(t, place, u)
  PROVE  /\ thread'[t] = [at |-> place, of |-> u]
         /\ thread'[t].at = place /\ thread'[t].of = u
         /\ \A s \in Torrents \ {t} : thread'[s] = thread[s]
BY DEF TypeOK, Go

-----------------------------------------------------------------------------
(* Handlers of timers *)

\* Nothing is said of timers by a step that changes no handler.
LEMMA NoneHandled ==
  ASSUME HandledOnce, UNCHANGED timer,
         \A s, u \in Torrents, kind \in Kinds :
           Handling(s, u, kind)' <=> Handling(s, u, kind)
  PROVE  HandledOnce'
<1>1. ASSUME NEW u \in Torrents, NEW kind \in Kinds
      PROVE  /\ timer'[<<u, kind>>] = "handled" <=> \E t \in Torrents : Handling(t, u, kind)'
             /\ \A s, t \in Torrents : Handling(s, u, kind)' /\ Handling(t, u, kind)' => s = t
  BY DEF HandledOnce
<1>2. QED BY <1>1 DEF HandledOnce

\* The end of a handler: its timer has been set again, or is over.
LEMMA HandlerEnds ==
  ASSUME TypeOK, HandledOnce,
         NEW t \in Torrents, NEW u \in Torrents, NEW kind \in Kinds, NEW next,
         Handling(t, u, kind), next # "handled",
         timer' = [timer EXCEPT ![<<u, kind>>] = next],
         ~\E v \in Torrents, k \in Kinds : Handling(t, v, k)',
         \A s, v \in Torrents, k \in Kinds :
           s # t => (Handling(s, v, k)' <=> Handling(s, v, k))
  PROVE  HandledOnce'
<1>1. \A v \in Torrents, k \in Kinds : Handling(t, v, k) => v = u /\ k = kind
  BY DEF Handling, Kinds
<1>2. \A s \in Torrents : Handling(s, u, kind) => s = t
  BY DEF HandledOnce
<1>3. \A v \in Torrents, k \in Kinds :
        timer'[<<v, k>>] = IF v = u /\ k = kind THEN next ELSE timer[<<v, k>>]
  BY DEF TypeOK, Timers
<1>4. ASSUME NEW v \in Torrents, NEW k \in Kinds
      PROVE  /\ timer'[<<v, k>>] = "handled" <=> \E s \in Torrents : Handling(s, v, k)'
             /\ \A s, q \in Torrents : Handling(s, v, k)' /\ Handling(q, v, k)' => s = q
  <2>1. CASE v = u /\ k = kind
    BY <1>2, <1>3, <2>1
  <2>2. CASE ~(v = u /\ k = kind)
    <3>1. timer'[<<v, k>>] = timer[<<v, k>>]
      BY <1>3, <2>2
    <3>2. \A s \in Torrents : Handling(s, v, k)' <=> Handling(s, v, k)
      BY <1>1, <2>2
    <3>3. QED BY <3>1, <3>2 DEF HandledOnce
  <2>3. QED BY <2>1, <2>2
<1>5. QED BY <1>4 DEF HandledOnce

-----------------------------------------------------------------------------
(* Each step keeps the invariant *)

LEMMA StartKeeps ==
  ASSUME Inv, NEW t \in Torrents, start(t)
  PROVE  Inv'
<1>1. TypeOK'
  BY ProgramAssumption DEF Inv, TypeOK, Places, Timers, start, At, Go, Locks
<1>2. HeldInside'
  BY ProgramAssumption DEF Inv, TypeOK, HeldInside, start, At, Go, Locks
<1>3. HandledOnce'
  <2>1. \A s, v \in Torrents, kind \in Kinds : Handling(s, v, kind)' <=> Handling(s, v, kind)
    BY ProgramAssumption, GoMoves DEF Inv, Handling, start, At, Go, Locks
  <2>2. QED BY <2>1, NoneHandled DEF Inv, start
<1>4. AcceptedOnce'
  BY DEF Inv, AcceptedOnce, start
<1>5. NotStarted'
  BY ProgramAssumption
     DEF Inv, TypeOK, HandledOnce, Handling, NotStarted, Timers, Kinds, start, At, Go,
         Locks
<1>6. QED BY <1>1, <1>2, <1>3, <1>4, <1>5 DEF Inv

LEMMA StartNotEmptyKeeps ==
  ASSUME Inv, NEW t \in Torrents, start_not_empty(t)
  PROVE  Inv'
<1>1. TypeOK'
  BY ProgramAssumption DEF Inv, TypeOK, Places, Timers, start_not_empty, At, Go
<1>2. HeldInside'
  BY ProgramAssumption DEF Inv, TypeOK, HeldInside, start_not_empty, At, Go
<1>3. HandledOnce'
  <2>1. \A s, v \in Torrents, kind \in Kinds : Handling(s, v, kind)' <=> Handling(s, v, kind)
    BY ProgramAssumption, GoMoves DEF Inv, Handling, start_not_empty, At, Go
  <2>2. QED BY <2>1, NoneHandled DEF Inv, start_not_empty
<1>4. AcceptedOnce'
  BY DEF Inv, AcceptedOnce, start_not_empty
<1>5. NotStarted'
  BY DEF Inv, TypeOK, NotStarted, start_not_empty,
         At, Go
<1>6. QED BY <1>1, <1>2, <1>3, <1>4, <1>5 DEF Inv

LEMMA StartThrowsKeeps ==
  ASSUME Inv, NEW t \in Torrents, start_throws(t)
  PROVE  Inv'
<1>1. TypeOK'
  BY ProgramAssumption DEF Inv, TypeOK, Places, Timers, start_throws, At, Go, Throw, Unlocks
<1>2. HeldInside'
  <2>1. thread'[t].at = "over" /\ \A s \in Torrents \ {t} : thread'[s] = thread[s]
    BY GoMoves DEF Inv, start_throws, Throw
  <2>2. lock'[t] = None /\ \A v \in Torrents \ {t} : lock'[v] = lock[v]
    BY DEF Inv, TypeOK, start_throws, Unlocks
  <2>3. \A s, v \in Torrents : s # t => thread[s] \notin [at : {"start", "insert", "request"}, of : {t}]
    <3>1. thread[t].at = "start" /\ thread[t].of = t
      BY DEF Inv, NotStarted, start_throws, At
    <3>2. lock[t] = t
      BY <3>1 DEF Inv, TypeOK, HeldInside
    <3>3. QED BY <3>2 DEF Inv, HeldInside
  <2>4. \A v \in Torrents : v # t => thread[t] \notin [at : {"start", "insert", "request"}, of : {v}]
    BY DEF Inv, NotStarted, start_throws, At
  <2>5. QED BY ProgramAssumption, <2>1, <2>2, <2>3, <2>4 DEF Inv, HeldInside
<1>3. HandledOnce'
  <2>1. \A s, v \in Torrents, kind \in Kinds : Handling(s, v, kind)' <=> Handling(s, v, kind)
    BY ProgramAssumption, GoMoves DEF Inv, Handling, start_throws, At, Go, Throw, Unlocks
  <2>2. QED BY <2>1, NoneHandled DEF Inv, start_throws
<1>4. AcceptedOnce'
  BY DEF Inv, AcceptedOnce, start_throws
<1>5. NotStarted'
  BY ProgramAssumption
     DEF Inv, TypeOK, HandledOnce, Handling, NotStarted, Timers, Kinds, start_throws,
         At, Go, Throw, Unlocks
<1>6. QED BY <1>1, <1>2, <1>3, <1>4, <1>5 DEF Inv

LEMMA RunDoneKeeps ==
  ASSUME Inv, NEW t \in Torrents, run_done(t)
  PROVE  Inv'
<1>1. TypeOK'
  BY ProgramAssumption DEF Inv, TypeOK, Places, Timers, run_done, At, Go
<1>2. HeldInside'
  BY ProgramAssumption DEF Inv, TypeOK, HeldInside, run_done, At, Go
<1>3. HandledOnce'
  <2>1. \A s, v \in Torrents, kind \in Kinds : Handling(s, v, kind)' <=> Handling(s, v, kind)
    BY ProgramAssumption, GoMoves DEF Inv, Handling, run_done, At, Go
  <2>2. QED BY <2>1, NoneHandled DEF Inv, run_done
<1>4. AcceptedOnce'
  BY DEF Inv, AcceptedOnce, run_done
<1>5. NotStarted'
  BY DEF Inv, TypeOK, NotStarted, run_done, At, Go
<1>6. QED BY <1>1, <1>2, <1>3, <1>4, <1>5 DEF Inv

LEMMA PeerThrowsKeeps ==
  ASSUME Inv, NEW t \in Torrents, peer_throws(t)
  PROVE  Inv'
<1>1. TypeOK'
  BY ProgramAssumption DEF Inv, TypeOK, Places, Timers, peer_throws, Polls, At, Go, Throw
<1>2. HeldInside'
  BY ProgramAssumption DEF Inv, TypeOK, HeldInside, peer_throws, Polls, At, Go, Throw
<1>3. HandledOnce'
  <2>1. \A s, v \in Torrents, kind \in Kinds : Handling(s, v, kind)' <=> Handling(s, v, kind)
    BY ProgramAssumption, GoMoves DEF Inv, Handling, peer_throws, Polls, At, Go, Throw
  <2>2. QED BY <2>1, NoneHandled DEF Inv, peer_throws
<1>4. AcceptedOnce'
  BY DEF Inv, AcceptedOnce, peer_throws
<1>5. NotStarted'
  BY DEF Inv, TypeOK, NotStarted, peer_throws,
         Polls, At, Go, Throw
<1>6. QED BY <1>1, <1>2, <1>3, <1>4, <1>5 DEF Inv

LEMMA RetryStoppedKeeps ==
  ASSUME Inv, NEW t \in Torrents, NEW u \in Torrents, retry_stopped(t, u)
  PROVE  Inv'
<1>1. TypeOK'
  BY ProgramAssumption DEF Inv, TypeOK, Places, Timers, retry_stopped, Go, Kinds
<1>2. HeldInside'
  BY ProgramAssumption DEF Inv, TypeOK, HeldInside, retry_stopped, Go, Kinds
<1>3. HandledOnce'
  <2>1. Handling(t, u, thread[t].at) /\ thread[t].at \in Kinds
    BY DEF Inv, TypeOK, Handling, Kinds, retry_stopped
  <2>2. ~\E v \in Torrents, k \in Kinds : Handling(t, v, k)'
    <3>1. thread'[t].at \in {"run", "over"}
      BY GoMoves DEF Inv, retry_stopped
    <3>2. QED BY <3>1 DEF Handling, Kinds
  <2>3. \A s, v \in Torrents, k \in Kinds :
          s # t => (Handling(s, v, k)' <=> Handling(s, v, k))
    BY GoMoves DEF Inv, Handling, retry_stopped, Go, Kinds
  <2>4. QED BY <2>1, <2>2, <2>3, HandlerEnds DEF Inv, retry_stopped
<1>4. AcceptedOnce'
  BY DEF Inv, AcceptedOnce, retry_stopped
<1>5. NotStarted'
  BY ProgramAssumption
     DEF Inv, TypeOK, HandledOnce, Handling, NotStarted, Timers, Kinds, retry_stopped,
         Go
<1>6. QED BY <1>1, <1>2, <1>3, <1>4, <1>5 DEF Inv

LEMMA RetryPiecesKeeps ==
  ASSUME Inv, NEW t \in Torrents, NEW u \in Torrents, retry_pieces(t, u)
  PROVE  Inv'
<1>1. TypeOK'
  BY ProgramAssumption DEF Inv, TypeOK, Places, Timers, retry_pieces, Go, Kinds
<1>2. HeldInside'
  BY ProgramAssumption DEF Inv, TypeOK, HeldInside, retry_pieces, Go, Kinds
<1>3. HandledOnce'
  <2>1. Handling(t, u, "pieces") /\ "pieces" \in Kinds
    BY DEF Inv, TypeOK, Handling, Kinds, retry_pieces
  <2>2. ~\E v \in Torrents, k \in Kinds : Handling(t, v, k)'
    <3>1. thread'[t].at \in {"run", "over"}
      BY GoMoves DEF Inv, retry_pieces
    <3>2. QED BY <3>1 DEF Handling, Kinds
  <2>3. \A s, v \in Torrents, k \in Kinds :
          s # t => (Handling(s, v, k)' <=> Handling(s, v, k))
    BY GoMoves DEF Inv, Handling, retry_pieces, Go, Kinds
  <2>4. QED BY <2>1, <2>2, <2>3, HandlerEnds DEF Inv, retry_pieces
<1>4. AcceptedOnce'
  BY DEF Inv, AcceptedOnce, retry_pieces
<1>5. NotStarted'
  BY ProgramAssumption
     DEF Inv, TypeOK, HandledOnce, Handling, NotStarted, Timers, Kinds, retry_pieces, Go
<1>6. QED BY <1>1, <1>2, <1>3, <1>4, <1>5 DEF Inv

LEMMA RetryPeersKeeps ==
  ASSUME Inv, NEW t \in Torrents, NEW u \in Torrents, retry_peers(t, u)
  PROVE  Inv'
<1>1. TypeOK'
  BY ProgramAssumption DEF Inv, TypeOK, Places, Timers, retry_peers, Go, Locks
<1>2. HeldInside'
  BY ProgramAssumption DEF Inv, TypeOK, HeldInside, retry_peers, Go, Locks
<1>3. HandledOnce'
  <2>1. \A s, v \in Torrents, kind \in Kinds : Handling(s, v, kind)' <=> Handling(s, v, kind)
    BY ProgramAssumption, GoMoves DEF Inv, Handling, retry_peers, Go, Locks
  <2>2. QED BY <2>1, NoneHandled DEF Inv, retry_peers
<1>4. AcceptedOnce'
  BY DEF Inv, AcceptedOnce, retry_peers
<1>5. NotStarted'
  BY ProgramAssumption
     DEF Inv, TypeOK, HandledOnce, Handling, NotStarted, Timers, Kinds, retry_peers, Go,
         Locks
<1>6. QED BY <1>1, <1>2, <1>3, <1>4, <1>5 DEF Inv

LEMMA RetryPeersDoneKeeps ==
  ASSUME Inv, NEW t \in Torrents, NEW u \in Torrents, retry_peers_done(t, u)
  PROVE  Inv'
<1>1. TypeOK'
  BY ProgramAssumption DEF Inv, TypeOK, Places, Timers, retry_peers_done, Go, Unlocks, Kinds
<1>2. HeldInside'
  BY ProgramAssumption DEF Inv, TypeOK, HeldInside, retry_peers_done, Go, Unlocks, Kinds
<1>3. HandledOnce'
  <2>1. Handling(t, u, "peers") /\ "peers" \in Kinds
    BY DEF Inv, TypeOK, Handling, Kinds, retry_peers_done
  <2>2. ~\E v \in Torrents, k \in Kinds : Handling(t, v, k)'
    <3>1. thread'[t].at \in {"run", "over"}
      BY GoMoves DEF Inv, retry_peers_done
    <3>2. QED BY <3>1 DEF Handling, Kinds
  <2>3. \A s, v \in Torrents, k \in Kinds :
          s # t => (Handling(s, v, k)' <=> Handling(s, v, k))
    BY GoMoves DEF Inv, Handling, retry_peers_done, Go, Unlocks, Kinds
  <2>4. QED BY <2>1, <2>2, <2>3, HandlerEnds DEF Inv, retry_peers_done
<1>4. AcceptedOnce'
  BY DEF Inv, AcceptedOnce, retry_peers_done
<1>5. NotStarted'
  BY ProgramAssumption
     DEF Inv, TypeOK, HandledOnce, Handling, NotStarted, Timers, Kinds,
         retry_peers_done, Go, Unlocks
<1>6. QED BY <1>1, <1>2, <1>3, <1>4, <1>5 DEF Inv

LEMMA RetryPeersThrowsKeeps ==
  ASSUME Inv, NEW t \in Torrents, NEW u \in Torrents, retry_peers_throws(t, u)
  PROVE  Inv'
<1>1. TypeOK'
  BY ProgramAssumption
     DEF Inv, TypeOK, Places, Timers, retry_peers_throws, Go, Unlocks, Throw, Kinds
<1>2. HeldInside'
  BY ProgramAssumption
     DEF Inv, TypeOK, HeldInside, retry_peers_throws, Go, Unlocks, Throw, Kinds
<1>3. HandledOnce'
  <2>1. Handling(t, u, "peers") /\ "peers" \in Kinds
    BY DEF Inv, TypeOK, Handling, Kinds, retry_peers_throws
  <2>2. ~\E v \in Torrents, k \in Kinds : Handling(t, v, k)'
    <3>1. thread'[t].at \in {"run", "over"}
      BY GoMoves DEF Inv, retry_peers_throws, Throw
    <3>2. QED BY <3>1 DEF Handling, Kinds
  <2>3. \A s, v \in Torrents, k \in Kinds :
          s # t => (Handling(s, v, k)' <=> Handling(s, v, k))
    BY GoMoves DEF Inv, Handling, retry_peers_throws, Go, Unlocks, Throw, Kinds
  <2>4. QED BY <2>1, <2>2, <2>3, HandlerEnds DEF Inv, retry_peers_throws
<1>4. AcceptedOnce'
  BY DEF Inv, AcceptedOnce, retry_peers_throws
<1>5. NotStarted'
  BY ProgramAssumption
     DEF Inv, TypeOK, HandledOnce, Handling, NotStarted, Timers, Kinds,
         retry_peers_throws, Go, Unlocks, Throw
<1>6. QED BY <1>1, <1>2, <1>3, <1>4, <1>5 DEF Inv

LEMMA ListenKeeps ==
  ASSUME Inv, NEW t \in Torrents, NEW a \in Torrents, listen(t, a)
  PROVE  Inv'
<1>1. TypeOK'
  BY ProgramAssumption
     DEF Inv, TypeOK, Places, Timers, listen, Polls, At, Acceptor, Listening
<1>2. HeldInside'
  BY ProgramAssumption DEF Inv, TypeOK, HeldInside, listen, Polls, At, Acceptor, Listening
<1>3. HandledOnce'
  BY NoneHandled DEF Inv, Handling, listen
<1>4. AcceptedOnce'
  BY ProgramAssumption DEF Inv, TypeOK, AcceptedOnce, listen, Polls, At, Acceptor, Listening
<1>5. NotStarted'
  BY DEF Inv, TypeOK, NotStarted, listen, Polls,
         At, Acceptor, Listening
<1>6. QED BY <1>1, <1>2, <1>3, <1>4, <1>5 DEF Inv

LEMMA AcceptKeeps ==
  ASSUME Inv, NEW t \in Torrents, NEW a \in Torrents, NEW r \in Remotes, accept(t, a, r)
  PROVE  Inv'
<1>1. TypeOK'
  BY ProgramAssumption DEF Inv, TypeOK, Places, Timers, accept, Polls, At, Acceptor
<1>2. HeldInside'
  BY ProgramAssumption DEF Inv, TypeOK, HeldInside, accept, Polls, At, Acceptor
<1>3. HandledOnce'
  BY NoneHandled DEF Inv, Handling, accept
<1>4. AcceptedOnce'
  BY ProgramAssumption DEF Inv, TypeOK, AcceptedOnce, accept, Polls, At, Acceptor
<1>5. NotStarted'
  BY DEF Inv, TypeOK, NotStarted, accept, Polls,
         At, Acceptor
<1>6. QED BY <1>1, <1>2, <1>3, <1>4, <1>5 DEF Inv

LEMMA AcceptFailsKeeps ==
  ASSUME Inv, NEW t \in Torrents, NEW a \in Torrents, NEW r \in Remotes, accept_fails(t, a, r)
  PROVE  Inv'
<1>1. TypeOK'
  BY ProgramAssumption DEF Inv, TypeOK, Places, Timers, accept_fails, Polls, At, Acceptor
<1>2. HeldInside'
  BY ProgramAssumption DEF Inv, TypeOK, HeldInside, accept_fails, Polls, At, Acceptor
<1>3. HandledOnce'
  BY NoneHandled DEF Inv, Handling, accept_fails
<1>4. AcceptedOnce'
  BY ProgramAssumption DEF Inv, TypeOK, AcceptedOnce, accept_fails, Polls, At, Acceptor
<1>5. NotStarted'
  BY DEF Inv, TypeOK, NotStarted, accept_fails,
         Polls, At, Acceptor
<1>6. QED BY <1>1, <1>2, <1>3, <1>4, <1>5 DEF Inv

LEMMA AcceptOtherKeeps ==
  ASSUME Inv, NEW t \in Torrents, NEW a \in Torrents, accept_other(t, a) \/ other_fails(t, a)
  PROVE  Inv'
<1>1. /\ acceptors[a].at \in {"accepting", "reading"}
      /\ acceptors[a].at = "reading" => acceptors[a].conn = None
      /\ \E place \in {"accepting", "reading"} : Acceptor(a, place, None)
      /\ UNCHANGED <<thread, lock, m_peers, timer, remote, m_stopped, thrown>>
  BY DEF accept_other, other_fails
<1>2. TypeOK'
  BY <1>1 DEF Inv, TypeOK, Acceptor
<1>3. HeldInside'
  BY <1>1 DEF Inv, HeldInside
<1>4. HandledOnce'
  BY <1>1, NoneHandled DEF Inv, Handling
<1>5. AcceptedOnce'
  BY <1>1, ProgramAssumption DEF Inv, TypeOK, AcceptedOnce, Acceptor
<1>6. NotStarted'
  BY <1>1 DEF Inv, TypeOK, NotStarted, Acceptor
<1>7. QED BY <1>2, <1>3, <1>4, <1>5, <1>6 DEF Inv

LEMMA AddPeerKeeps ==
  ASSUME Inv, NEW t \in Torrents, NEW a \in Torrents, NEW r \in Remotes, add_peer(t, a, r)
  PROVE  Inv'
<1>1. TypeOK'
  BY ProgramAssumption DEF Inv, TypeOK, Places, Timers, add_peer, Polls, At, Acceptor
<1>2. HeldInside'
  BY ProgramAssumption DEF Inv, TypeOK, HeldInside, add_peer, Polls, At, Acceptor
<1>3. HandledOnce'
  BY NoneHandled DEF Inv, Handling, add_peer
<1>4. AcceptedOnce'
  BY ProgramAssumption DEF Inv, TypeOK, AcceptedOnce, add_peer, Polls, At, Acceptor
<1>5. NotStarted'
  BY DEF Inv, TypeOK, NotStarted, add_peer, Polls,
         At, Acceptor
<1>6. QED BY <1>1, <1>2, <1>3, <1>4, <1>5 DEF Inv

LEMMA SendHandshakeKeeps ==
  ASSUME Inv, NEW r \in Remotes, send_handshake(r)
  PROVE  Inv'
<1>1. TypeOK'
  BY ProgramAssumption DEF Inv, TypeOK, Places, Timers, send_handshake, Remote
<1>2. HeldInside'
  BY ProgramAssumption DEF Inv, TypeOK, HeldInside, send_handshake, Remote
<1>3. HandledOnce'
  BY NoneHandled DEF Inv, Handling, send_handshake, Remote
<1>4. AcceptedOnce'
  BY ProgramAssumption DEF Inv, TypeOK, AcceptedOnce, send_handshake, Remote
<1>5. NotStarted'
  BY DEF Inv, TypeOK, NotStarted, send_handshake,
         Remote
<1>6. QED BY <1>1, <1>2, <1>3, <1>4, <1>5 DEF Inv

LEMMA SendOtherKeeps ==
  ASSUME Inv, NEW r \in Remotes, send_other(r)
  PROVE  Inv'
<1>1. TypeOK'
  BY ProgramAssumption DEF Inv, TypeOK, Places, Timers, send_other, Remote
<1>2. HeldInside'
  BY ProgramAssumption DEF Inv, TypeOK, HeldInside, send_other, Remote
<1>3. HandledOnce'
  BY NoneHandled DEF Inv, Handling, send_other, Remote
<1>4. AcceptedOnce'
  BY ProgramAssumption DEF Inv, TypeOK, AcceptedOnce, send_other, Remote
<1>5. NotStarted'
  BY DEF Inv, TypeOK, NotStarted, send_other,
         Remote
<1>6. QED BY <1>1, <1>2, <1>3, <1>4, <1>5 DEF Inv

LEMMA SetStoppedKeeps ==
  ASSUME Inv, NEW t \in Torrents, set_stopped(t)
  PROVE  Inv'
<1>1. TypeOK'
  BY ProgramAssumption DEF Inv, TypeOK, Places, Timers, set_stopped
<1>2. HeldInside'
  BY ProgramAssumption DEF Inv, TypeOK, HeldInside, set_stopped
<1>3. HandledOnce'
  BY NoneHandled DEF Inv, Handling, set_stopped
<1>4. AcceptedOnce'
  BY DEF Inv, AcceptedOnce, set_stopped
<1>5. NotStarted'
  BY DEF Inv, TypeOK, NotStarted, set_stopped
<1>6. QED BY <1>1, <1>2, <1>3, <1>4, <1>5 DEF Inv

\* A thread that polls goes on, or an exception ends it.
LEMMA RunEnds ==
  ASSUME Inv, NEW t \in Torrents, At(t, "run"), UNCHANGED <<lock, timer>>,
         UNCHANGED thread \/ Go(t, "over", None)
  PROVE  /\ thread' \in [Torrents -> [at : Places, of : Torrents \cup {None}]]
         /\ HeldInside' /\ HandledOnce'
         /\ \A s \in Torrents : thread'[s].at \in {"new", "start", "insert"} => thread'[s] = thread[s]
<1>1. CASE UNCHANGED thread
  <2>1. \A s, v \in Torrents, kind \in Kinds : Handling(s, v, kind)' <=> Handling(s, v, kind)
    BY <1>1 DEF Handling
  <2>2. HandledOnce'
    BY <2>1, NoneHandled DEF Inv
  <2>3. QED BY <1>1, <2>2 DEF Inv, TypeOK, HeldInside
<1>2. CASE Go(t, "over", None)
  <2>1. /\ thread'[t].at = "over"
        /\ \A s \in Torrents \ {t} : thread'[s] = thread[s]
    BY <1>2, GoMoves DEF Inv
  <2>2. \A s, v \in Torrents, kind \in Kinds : Handling(s, v, kind)' <=> Handling(s, v, kind)
    BY <2>1 DEF Handling, At
  <2>3. HandledOnce'
    BY <2>2, NoneHandled DEF Inv
  <2>4. HeldInside'
    BY ProgramAssumption, <1>2 DEF Inv, TypeOK, HeldInside, At, Go
  <2>5. thread' \in [Torrents -> [at : Places, of : Torrents \cup {None}]]
    BY <1>2 DEF Inv, TypeOK, Go, Places
  <2>6. QED BY <2>1, <2>3, <2>4, <2>5
<1>3. QED BY <1>1, <1>2

LEMMA HandleResponseKeeps ==
  ASSUME Inv, NEW t \in Torrents, NEW r \in Remotes, handle_response(t, r)
  PROVE  Inv'
<1>1. At(t, "run") /\ (UNCHANGED thread \/ Go(t, "over", None))
  BY DEF handle_response, Polls, Throw
<1>2. UNCHANGED <<lock, timer>>
  BY DEF handle_response
<1>3. /\ thread' \in [Torrents -> [at : Places, of : Torrents \cup {None}]]
      /\ HeldInside' /\ HandledOnce'
      /\ \A s \in Torrents : thread'[s].at \in {"new", "start", "insert"} => thread'[s] = thread[s]
  BY <1>1, <1>2, RunEnds
<1>4. TypeOK'
  <2>1. thrown' \in 0 .. MaxThrown
    BY ProgramAssumption DEF Inv, TypeOK, handle_response, Throw
  <2>2. QED BY <1>3, <2>1 DEF Inv, TypeOK, handle_response
<1>5. AcceptedOnce'
  BY DEF Inv, TypeOK, AcceptedOnce, handle_response
<1>6. NotStarted'
  BY <1>3 DEF Inv, NotStarted, handle_response
<1>7. QED BY <1>3, <1>4, <1>5, <1>6 DEF Inv

\* Whatever becomes of a message for a Peer that was freed.
LEMMA HandleFreedKeeps ==
  ASSUME Inv, NEW t \in Torrents, NEW r \in Remotes, handle_freed(t, r)
  PROVE  Inv'
<1>1. /\ remote' = [remote EXCEPT ![r] = "over"] /\ At(t, "run")
      /\ UNCHANGED <<m_peers, acceptors, m_stopped>>
      /\ thrown' \in 0 .. MaxThrown
  BY ProgramAssumption DEF Inv, TypeOK, handle_freed, Throw, Polls
<1>2. AcceptedOnce'
  BY <1>1 DEF Inv, TypeOK, AcceptedOnce
<1>3. CASE UNCHANGED <<lock, timer>> /\ (UNCHANGED thread \/ Go(t, "over", None))
  <2>1. /\ thread' \in [Torrents -> [at : Places, of : Torrents \cup {None}]]
        /\ HeldInside' /\ HandledOnce'
        /\ \A s \in Torrents : thread'[s].at \in {"new", "start", "insert"} => thread'[s] = thread[s]
    BY <1>1, <1>3, RunEnds
  <2>2. TypeOK'
    BY <1>1, <1>3, <2>1 DEF Inv, TypeOK
  <2>3. NotStarted'
    BY <1>1, <1>3, <2>1 DEF Inv, NotStarted
  <2>4. QED BY <1>2, <2>1, <2>2, <2>3 DEF Inv
<1>4. CASE /\ thread' = [u \in Torrents |-> [at |-> "over", of |-> None]]
           /\ lock' = [u \in Torrents |-> None]
           /\ timer' = [h \in Timers |-> "unset"]
  <2>1. \A s \in Torrents : thread'[s].at = "over" /\ lock'[s] = None
    BY <1>4
  <2>2. TypeOK'
    BY <1>1, <1>4 DEF Inv, TypeOK, Places
  <2>3. HeldInside'
    BY <2>1, ProgramAssumption DEF HeldInside
  <2>4. HandledOnce'
    <3>1. \A u \in Torrents, kind \in Kinds : timer'[<<u, kind>>] = "unset"
      BY <1>4 DEF Timers
    <3>2. \A s, u \in Torrents, kind \in Kinds : ~Handling(s, u, kind)'
      BY <2>1 DEF Handling, Kinds
    <3>3. QED BY <3>1, <3>2 DEF HandledOnce
  <2>5. NotStarted'
    BY <2>1 DEF NotStarted
  <2>6. QED BY <1>2, <2>2, <2>3, <2>4, <2>5 DEF Inv
<1>5. QED BY <1>3, <1>4 DEF handle_freed, Throw

LEMMA ListenThrowsKeeps ==
  ASSUME Inv, NEW t \in Torrents, NEW a \in Torrents, listen_throws(t, a)
  PROVE  Inv'
<1>1. At(t, "run") /\ Go(t, "over", None)
  BY DEF listen_throws, Polls, Throw
<1>2. UNCHANGED <<lock, timer>>
  BY DEF listen_throws
<1>3. /\ thread' \in [Torrents -> [at : Places, of : Torrents \cup {None}]]
      /\ HeldInside' /\ HandledOnce'
      /\ \A s \in Torrents : thread'[s].at \in {"new", "start", "insert"} => thread'[s] = thread[s]
  BY <1>1, <1>2, RunEnds
<1>4. TypeOK'
  <2>1. thrown' \in 0 .. MaxThrown
    BY ProgramAssumption DEF Inv, TypeOK, listen_throws, Throw
  <2>2. acceptors' \in [Torrents -> [at : {"none", "spawned", "accepting", "reading", "gone"},
                                     conn : Remotes \cup {None}]]
    BY DEF Inv, TypeOK, listen_throws, Acceptor
  <2>3. QED BY <1>3, <2>1, <2>2 DEF Inv, TypeOK, listen_throws
<1>5. AcceptedOnce'
  BY DEF Inv, TypeOK, AcceptedOnce, listen_throws, Acceptor
<1>6. NotStarted'
  <2>1. acceptors[a].at = "spawned" /\ \A s \in Torrents \ {a} : acceptors'[s] = acceptors[s]
    BY DEF Inv, TypeOK, listen_throws, Acceptor
  <2>2. QED BY <1>3, <2>1 DEF Inv, NotStarted, listen_throws
<1>7. QED BY <1>3, <1>4, <1>5, <1>6 DEF Inv

\* start sets the timers of its torrent, which no thread handles yet.
LEMMA ScheduledKeeps ==
  ASSUME Inv, NEW t \in Torrents, thread[t].at \in {"start", "insert"}, Scheduled(t)
  PROVE  /\ thread' \in [Torrents -> [at : Places, of : Torrents \cup {None}]]
         /\ lock' \in [Torrents -> Torrents \cup {None}]
         /\ timer' \in [Timers -> {"unset", "set", "handled"}]
         /\ HeldInside' /\ HandledOnce'
         /\ thread'[t].at = "run"
         /\ \A s \in Torrents \ {t} :
              /\ thread'[s] = thread[s]
              /\ \A kind \in Kinds : timer'[<<s, kind>>] = timer[<<s, kind>>]
<1>1. thread[t].of = t /\ \A kind \in Kinds : timer[<<t, kind>>] = "unset"
  BY DEF Inv, NotStarted
<1>2. /\ thread'[t] = [at |-> "run", of |-> None]
      /\ thread'[t].at = "run"
      /\ \A s \in Torrents \ {t} : thread'[s] = thread[s]
  BY GoMoves DEF Inv, Scheduled
<1>3. /\ \A kind \in Kinds : timer'[<<t, kind>>] = "set"
      /\ \A s \in Torrents \ {t}, kind \in Kinds : timer'[<<s, kind>>] = timer[<<s, kind>>]
      /\ timer' \in [Timers -> {"unset", "set", "handled"}]
  BY DEF Inv, TypeOK, Scheduled, Timers, Kinds
<1>4. /\ lock'[t] = None /\ \A s \in Torrents \ {t} : lock'[s] = lock[s]
      /\ lock' \in [Torrents -> Torrents \cup {None}]
  BY DEF Inv, TypeOK, Scheduled, Unlocks
<1>5. thread' \in [Torrents -> [at : Places, of : Torrents \cup {None}]]
  BY DEF Inv, TypeOK, Scheduled, Go, Places
<1>6. HeldInside'
  <2>1. lock[t] = t
    BY <1>1 DEF Inv, TypeOK, HeldInside
  <2>2. \A s \in Torrents \ {t} : thread[s] \notin [at : {"start", "insert", "request"}, of : {t}]
    BY <2>1 DEF Inv, HeldInside
  <2>3. \A v \in Torrents \ {t} : thread[t] \notin [at : {"start", "insert", "request"}, of : {v}]
    BY <1>1
  <2>4. QED BY ProgramAssumption, <1>2, <1>4, <2>2, <2>3 DEF Inv, HeldInside
<1>7. HandledOnce'
  <2>1. \A s \in Torrents, kind \in Kinds : ~Handling(s, t, kind)
    BY <1>1 DEF Inv, HandledOnce
  <2>2. \A s, v \in Torrents, kind \in Kinds : Handling(s, v, kind)' <=> Handling(s, v, kind)
    BY <1>2 DEF Handling
  <2>3. ASSUME NEW v \in Torrents, NEW kind \in Kinds
        PROVE  /\ timer'[<<v, kind>>] = "handled" <=> \E s \in Torrents : Handling(s, v, kind)'
               /\ \A s, q \in Torrents : Handling(s, v, kind)' /\ Handling(q, v, kind)' => s = q
    <3>1. CASE v = t
      BY <1>3, <2>1, <2>2, <3>1
    <3>2. CASE v # t
      BY <1>3, <2>2, <3>2 DEF Inv, HandledOnce
    <3>3. QED BY <3>1, <3>2
  <2>4. QED BY <2>3 DEF HandledOnce
<1>8. QED BY <1>2, <1>3, <1>4, <1>5, <1>6, <1>7

LEMMA StartDoneKeeps ==
  ASSUME Inv, NEW t \in Torrents, start_done(t)
  PROVE  Inv'
<1>1. thread[t].at = "start"
  BY DEF start_done, At
<1>2. /\ remote' \in [Remotes -> {"connecting", "accepted", "sent", "failed", "peer", "freed",
                                  "over"}]
      /\ \A r \in Remotes : remote'[r] = remote[r] \/ remote'[r] = "freed"
  BY DEF Inv, TypeOK, start_done
<1>3. AcceptedOnce'
  BY <1>2 DEF Inv, AcceptedOnce, start_done
<1>4. CASE Scheduled(t)
  <2>1. TypeOK' /\ HeldInside' /\ HandledOnce'
    BY <1>1, <1>4, <1>2, ScheduledKeeps DEF Inv, TypeOK, start_done
  <2>2. NotStarted'
    BY <1>1, <1>4, ScheduledKeeps DEF Inv, NotStarted, start_done
  <2>3. QED BY <1>3, <2>1, <2>2 DEF Inv
<1>5. CASE Go(t, "insert", t) /\ UNCHANGED <<lock, timer>>
  <2>1. /\ thread'[t].at = "insert" /\ thread'[t].of = t
        /\ \A s \in Torrents \ {t} : thread'[s] = thread[s]
    BY <1>5, GoMoves DEF Inv
  <2>2. TypeOK'
    BY <1>5, <1>2 DEF Inv, TypeOK, Places, start_done, Go
  <2>3. HeldInside'
    BY <1>1, <1>5 DEF Inv, TypeOK, HeldInside, NotStarted, Go
  <2>4. \A s, v \in Torrents, kind \in Kinds : Handling(s, v, kind)' <=> Handling(s, v, kind)
    BY <1>1, <2>1 DEF Handling
  <2>5. HandledOnce'
    BY <1>5, <2>4, NoneHandled DEF Inv
  <2>6. NotStarted'
    BY <1>1, <1>5, <2>1 DEF Inv, NotStarted, start_done
  <2>7. QED BY <1>3, <2>2, <2>3, <2>5, <2>6 DEF Inv
<1>6. QED BY <1>4, <1>5 DEF start_done

LEMMA AcceptOnPortKeeps ==
  ASSUME Inv, NEW t \in Torrents, acceptOnPort(t)
  PROVE  Inv'
<1>1. thread[t].at = "insert" /\ Scheduled(t)
  BY DEF acceptOnPort, At
<1>2. acceptors[t].at = "none"
  BY <1>1 DEF Inv, NotStarted
<1>3. /\ acceptors' \in [Torrents -> [at : {"none", "spawned", "accepting", "reading", "gone"},
                                      conn : Remotes \cup {None}]]
      /\ \A s \in Torrents \ {t} : acceptors'[s] = acceptors[s]
  BY DEF Inv, TypeOK, acceptOnPort
<1>4. TypeOK' /\ HeldInside' /\ HandledOnce'
  BY <1>1, <1>3, ScheduledKeeps DEF Inv, TypeOK, acceptOnPort
<1>5. AcceptedOnce'
  BY <1>2, <1>3 DEF Inv, AcceptedOnce, acceptOnPort
<1>6. NotStarted'
  BY <1>1, <1>3, ScheduledKeeps DEF Inv, NotStarted
<1>7. QED BY <1>4, <1>5, <1>6 DEF Inv

LEMMA PollTimerKeeps ==
  ASSUME Inv, NEW t \in Torrents, NEW u \in Torrents, NEW kind \in Kinds, poll_timer(t, u, kind)
  PROVE  Inv'
<1>1. /\ thread'[t].at = kind /\ thread'[t].of = u
      /\ \A s \in Torrents \ {t} : thread'[s] = thread[s]
  BY GoMoves DEF Inv, poll_timer
<1>2. \A v \in Torrents, k \in Kinds :
        timer'[<<v, k>>] = IF v = u /\ k = kind THEN "handled" ELSE timer[<<v, k>>]
  BY DEF Inv, TypeOK, Timers, poll_timer
<1>3. thread[t].at = "run" /\ timer[<<u, kind>>] = "set"
  BY DEF poll_timer, Polls, At
<1>4. TypeOK'
  BY DEF Inv, TypeOK, Places, Timers, Kinds, poll_timer, Go
<1>5. HeldInside'
  BY <1>3 DEF Inv, TypeOK, HeldInside, poll_timer, Go, Kinds
<1>6. HandledOnce'
  <2>1. \A s, v \in Torrents, k \in Kinds :
          Handling(s, v, k)' <=> Handling(s, v, k) \/ (s = t /\ v = u /\ k = kind)
    BY <1>1, <1>3 DEF Handling, Kinds
  <2>2. \A s \in Torrents : ~Handling(s, u, kind)
    BY <1>3 DEF Inv, HandledOnce
  <2>3. ASSUME NEW v \in Torrents, NEW k \in Kinds
        PROVE  /\ timer'[<<v, k>>] = "handled" <=> \E s \in Torrents : Handling(s, v, k)'
               /\ \A s, q \in Torrents : Handling(s, v, k)' /\ Handling(q, v, k)' => s = q
    <3>1. CASE v = u /\ k = kind
      BY <1>2, <2>1, <2>2, <3>1
    <3>2. CASE ~(v = u /\ k = kind)
      BY <1>2, <2>1, <3>2 DEF Inv, HandledOnce
    <3>3. QED BY <3>1, <3>2
  <2>4. QED BY <2>3 DEF HandledOnce
<1>7. AcceptedOnce'
  BY DEF Inv, AcceptedOnce, poll_timer
<1>8. NotStarted'
  BY <1>1, <1>2, <1>3 DEF Inv, NotStarted, poll_timer, Kinds
<1>9. QED BY <1>4, <1>5, <1>6, <1>7, <1>8 DEF Inv

LEMMA InitInv == Init => Inv
BY ProgramAssumption
   DEF Init, Inv, TypeOK, Places, Timers, HeldInside, HandledOnce, Handling,
   AcceptedOnce, NotStarted, Kinds

LEMMA NextInv == Inv /\ [Next]_vars => Inv'
<1>1. CASE UNCHANGED vars
  <2>1. \A s, v \in Torrents, kind \in Kinds : Handling(s, v, kind)' <=> Handling(s, v, kind)
    BY <1>1 DEF Handling, vars
  <2>2. Inv => HandledOnce'
    BY <1>1, <2>1, NoneHandled DEF Inv, vars
  <2>3. QED
    BY <1>1, <2>2 DEF Inv, TypeOK, HeldInside, AcceptedOnce, NotStarted, vars
<1>2. ASSUME Inv, Next
      PROVE  Inv'
  <2>1. CASE \E t \in Torrents : \/ Starts(t) \/ start_throws(t) \/ run_done(t)
                                 \/ peer_throws(t) \/ set_stopped(t)
    BY <1>2, <2>1, StartKeeps, StartNotEmptyKeeps, StartDoneKeeps, AcceptOnPortKeeps,
       StartThrowsKeeps, RunDoneKeeps, PeerThrowsKeeps, SetStoppedKeeps DEF Starts
  <2>2. CASE \E t, u \in Torrents : Handles(t, u) \/ retry_peers_throws(t, u)
    BY <1>2, <2>2, RetryStoppedKeeps, RetryPiecesKeeps, RetryPeersKeeps, RetryPeersDoneKeeps,
       RetryPeersThrowsKeeps DEF Handles
  <2>3. CASE \E t, u \in Torrents : Accepts(t, u) \/ accept_other(t, u) \/ other_fails(t, u)
    BY <1>2, <2>3, ListenKeeps, ListenThrowsKeeps, AcceptKeeps, AcceptFailsKeeps, AddPeerKeeps,
       AcceptOtherKeeps DEF Accepts
  <2>4. CASE \E t, u \in Torrents, kind \in Kinds : poll_timer(t, u, kind)
    BY <1>2, <2>4, PollTimerKeeps
  <2>5. CASE \E t \in Torrents, r \in Remotes : handle_response(t, r) \/ handle_freed(t, r)
    BY <1>2, <2>5, HandleResponseKeeps, HandleFreedKeeps
  <2>6. CASE \E r \in Remotes : send_handshake(r) \/ send_other(r)
    BY <1>2, <2>6, SendHandshakeKeeps, SendOtherKeeps
  <2>7. QED BY <1>2, <2>1, <2>2, <2>3, <2>4, <2>5, <2>6 DEF Next
<1>3. QED BY <1>1, <1>2

-----------------------------------------------------------------------------

\* Handlers run on one thread at a time and under the locks they take, whichever
\* thread polls, in whatever order threads start, fail and end.
THEOREM ProgramInvariance == Spec => []Inv
BY InitInv, NextInv, PTL DEF Spec

\* m_peers_mutex of a torrent is held by the thread that is in its start or
\* retry_peers, and by no thread that has ended.
THEOREM LocksAreReleased == Spec => []HeldInside
<1>1. Inv => HeldInside
  BY DEF Inv
<1>2. QED BY <1>1, ProgramInvariance, PTL

\* The handler of a timer runs on one thread at a time, although any may take it.
THEOREM TimersAreHandledOnce == Spec => []HandledOnce
<1>1. Inv => HandledOnce
  BY DEF Inv
<1>2. QED BY <1>1, ProgramInvariance, PTL

=============================================================================
