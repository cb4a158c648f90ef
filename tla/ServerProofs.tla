---------------------------- MODULE ServerProofs ----------------------------
(***************************************************************************)
(* The safety of ChatServer for any number of connections, users, tokens   *)
(* and texts, any thresholds and any bounds.                               *)
(*                                                                         *)
(* IInv is inductive.  SessionLink needs TypeOK and, through Disconnect,   *)
(* itself: only because no two sessions share a connection does releasing  *)
(* the first one found leave no pointer behind.  NoLostWakeup is inductive *)
(* with TypeOK alone.                                                      *)
(***************************************************************************)
EXTENDS ChatServer, SequenceTheorems, TLAPS

IInv == TypeOK /\ SessionLink /\ StateMatchesLink /\ SessionsAreAccounts /\ NoLostWakeup

-----------------------------------------------------------------------------
(***************************************************************************)
(* Records                                                                 *)
(***************************************************************************)

\* The packets the server builds.
LEMMA PacketTypes ==
    /\ \A t \in Token : Ack(t) \in OutPacket
    /\ \A t \in {"Registered", "No", "Err", "Pong"} : Reply(t) \in OutPacket
    /\ \A u \in User \cup {None}, m \in Text : Post(u, m) \in OutPacket
BY DEF Ack, Reply, Post, OutPacket

\* Queueing a packet keeps a connection well-formed and wakes it if it sleeps.
LEMMA QueuedFacts ==
    ASSUME NEW k \in Connection, NEW p \in OutPacket
    PROVE  /\ Queued(k, p) \in Connection
           /\ Queued(k, p).status = k.status
           /\ Awake(k) => Awake(Queued(k, p))
           /\ ~k.rww /\ ~k.wwr => Awake(Queued(k, p))
<1> DEFINE q == Queued(k, p)
<1>1. Append(k.tx, p) \in Seq(OutPacket) /\ Append(k.tx, p) # <<>>
  BY DEF Connection
<1>2. q = [k EXCEPT !.tx = Append(k.tx, p), !.writeOn = k.writeOn \/ ~k.wwr]
  BY DEF Queued
<1>3. (k.writeOn \/ ~k.wwr) \in BOOLEAN
  BY DEF Connection
<1>4. q \in Connection
  BY <1>1, <1>2, <1>3 DEF Connection
<1>5. /\ q.status = k.status /\ q.rww = k.rww /\ q.wwr = k.wwr
      /\ q.tx = Append(k.tx, p) /\ q.writeOn = (k.writeOn \/ ~k.wwr)
  BY <1>2 DEF Connection
<1>6. Awake(k) => Awake(q)
  BY <1>1, <1>5 DEF Awake
<1>7. ~k.rww /\ ~k.wwr => Awake(q)
  BY <1>1, <1>5 DEF Awake
<1>8. QED BY <1>4, <1>5, <1>6, <1>7

\* What disconnect() leaves of a session.
LEMMA DetachedFacts ==
    ASSUME NEW s \in Session
    PROVE  /\ Detached(s) \in Session
           /\ Detached(s).connection = None
           /\ Coherent(Detached(s))
<1>1. 0 \in 0..Grace
  BY ServerAssumption
<1>2. CASE s.state = "Connected"
  BY <1>1, <1>2 DEF Detached, Session, Coherent
<1>3. CASE s.state # "Connected"
  BY <1>3 DEF Detached, Session, Coherent
<1>4. QED BY <1>2, <1>3

\* The age counters stay below their thresholds.
LEMMA OlderType ==
    ASSUME NEW limit \in Nat, NEW age \in 0..limit
    PROVE  Older(age, limit) \in 0..limit
BY DEF Older

-----------------------------------------------------------------------------
(***************************************************************************)
(* Tables                                                                  *)
(***************************************************************************)

\* SessionOf is a user of the table or None.
LEMMA SessionOfType ==
    ASSUME NEW c \in Fd, SessionOf(c) # None
    PROVE  SessionOf(c) \in User
BY DEF SessionOf, Holders

\* SessionOf finds a session that points to the connection, and the only one.
LEMMA SessionOfFacts ==
    ASSUME NEW c \in Fd, NEW u \in User
    PROVE  /\ SessionOf(c) = u => session[u] # None /\ session[u].connection = c
           /\ SessionLink /\ session[u] # None /\ session[u].connection = c
                => SessionOf(c) = u
<1>1. None \notin User /\ None \notin Fd
  BY ServerAssumption
<1>2. CASE Holders(c) = {}
  BY <1>1, <1>2 DEF SessionOf, Holders
<1>3. CASE Holders(c) # {}
  <2>1. SessionOf(c) \in Holders(c)
    BY <1>3 DEF SessionOf
  <2>2. ASSUME SessionLink, session[u] # None, session[u].connection = c
        PROVE  SessionOf(c) = u
    BY <1>1, <2>1, <2>2 DEF Holders, SessionLink, Attached
  <2>3. QED BY <2>1, <2>2 DEF Holders
<1>4. QED BY <1>2, <1>3

\* Releasing D leaves no pointer into D and touches no other session.
LEMMA ReleasedFacts ==
    ASSUME TypeOK, SessionLink, NEW D \in SUBSET Fd
    PROVE  /\ Released(D) \in [User -> Session \cup {None}]
           /\ \A u \in User :
                /\ session[u] = None <=> Released(D)[u] = None
                /\ \/ Released(D)[u] = session[u]
                   \/ Released(D)[u] # None /\ Released(D)[u].connection = None
                        /\ Coherent(Released(D)[u])
                /\ Released(D)[u] # None => Released(D)[u].connection \notin D
<1> DEFINE R == Released(D)
<1>1. R = [u \in User |-> IF \E d \in D : SessionOf(d) = u
                            THEN Detached(session[u]) ELSE session[u]]
  BY DEF Released
<1>2. ASSUME NEW u \in User
      PROVE  /\ R[u] \in Session \cup {None}
             /\ session[u] = None <=> R[u] = None
             /\ \/ R[u] = session[u]
                \/ R[u] # None /\ R[u].connection = None /\ Coherent(R[u])
             /\ R[u] # None => R[u].connection \notin D
  <2>1. CASE \E d \in D : SessionOf(d) = u
    <3>1. session[u] \in Session /\ session[u] # None
      BY <2>1, SessionOfFacts DEF TypeOK
    <3>2. R[u] = Detached(session[u])
      BY <1>1, <2>1
    <3>3. R[u] # None
      BY <3>1, <3>2, DetachedFacts, NoneAssumption
    <3>4. QED BY <3>1, <3>2, <3>3, DetachedFacts, ServerAssumption
  <2>2. CASE ~\E d \in D : SessionOf(d) = u
    <3>1. R[u] = session[u]
      BY <1>1, <2>2
    <3>2. session[u] # None => session[u].connection \notin D
      BY <2>2, SessionOfFacts
    <3>3. QED BY <3>1, <3>2 DEF TypeOK
  <2>3. QED BY <2>1, <2>2
<1>3. R \in [User -> Session \cup {None}]
  BY <1>1, <1>2
<1>4. QED BY <1>2, <1>3

-----------------------------------------------------------------------------
(***************************************************************************)
(* Steps that attach no session                                            *)
(***************************************************************************)

\* A step keeps the invariant if it attaches no session, keeps the connections
\* of those that stay attached, and leaves every connection awake.
LEMMA NoAttachment ==
    ASSUME IInv, TypeOK', users \subseteq users',
           \A c \in Fd : Live(c)' => Awake(conn'[c]),
           \A u \in User : session'[u] # None =>
             /\ session[u] # None
             /\ Coherent(session'[u])
             /\ session'[u].connection # None =>
                  /\ session'[u].connection = session[u].connection
                  /\ conn'[session'[u].connection] # None
                  /\ conn'[session'[u].connection].status # "AwaitingAuth"
    PROVE  IInv'
<1>1. SessionLink'
  BY DEF IInv, SessionLink, Attached, Live
<1>2. StateMatchesLink'
  BY DEF StateMatchesLink, Coherent
<1>3. SessionsAreAccounts'
  BY DEF IInv, SessionsAreAccounts
<1>4. NoLostWakeup'
  BY DEF NoLostWakeup, Awake, Live
<1>5. QED BY <1>1, <1>2, <1>3, <1>4 DEF IInv

\* C can replace the connection table: every connection is still there, is
\* awake and has not gone back to AwaitingAuth.
Continues(C) ==
    /\ C \in [Fd -> Connection \cup {None}]
    /\ \A c \in Fd : C[c] # None => Awake(C[c])
    /\ \A c \in Fd : conn[c] # None =>
         /\ C[c] # None
         /\ conn[c].status # "AwaitingAuth" => C[c].status # "AwaitingAuth"

\* The connections of attached sessions survive in any such table.
LEMMA SessionsUntouched ==
    ASSUME IInv, Continues(conn'), UNCHANGED <<session, users>>,
           server' \in {"running", "accepting", "stopped", "crashed"}
    PROVE  IInv'
<1>1. TypeOK'
  BY DEF IInv, TypeOK, Continues
<1>2. \A c \in Fd : Live(c)' => Awake(conn'[c])
  BY DEF Continues, Live
<1>3. \A u \in User : session'[u] # None =>
        /\ session[u] # None
        /\ Coherent(session'[u])
        /\ session'[u].connection # None =>
             /\ session'[u].connection = session[u].connection
             /\ conn'[session'[u].connection] # None
             /\ conn'[session'[u].connection].status # "AwaitingAuth"
  BY DEF IInv, TypeOK, Session, SessionLink, StateMatchesLink, Attached, Live, Continues
<1>4. QED BY <1>1, <1>2, <1>3, NoAttachment

\* conn[c] replaced by k.
LEMMA UpdateKeeps ==
    ASSUME IInv, NEW c \in Fd, Live(c), NEW k \in Connection, Awake(k),
           conn[c].status # "AwaitingAuth" => k.status # "AwaitingAuth"
    PROVE  Continues([conn EXCEPT ![c] = k])
BY NoneAssumption DEF IInv, TypeOK, NoLostWakeup, Live, Continues

\* A step that changes one connection and no session keeps the invariant.
LEMMA UpdateInv ==
    ASSUME IInv, NEW c \in Fd, Live(c), NEW k \in Connection, Awake(k),
           conn[c].status # "AwaitingAuth" => k.status # "AwaitingAuth",
           Update(c, k)
    PROVE  IInv'
<1>1. Continues(conn')
  BY UpdateKeeps DEF Update
<1>2. QED BY <1>1, SessionsUntouched DEF Update, IInv, TypeOK

\* Connections in D erased and their sessions released, perhaps forgotten.
LEMMA DropInv ==
    ASSUME IInv, NEW C, Continues(C), NEW D \in SUBSET Fd,
           conn' = Erased(C, D),
           session' \in [User -> Session \cup {None}],
           \A u \in User : session'[u] \in {Released(D)[u], None},
           UNCHANGED <<users, server>>
    PROVE  IInv'
<1>1. conn' \in [Fd -> Connection \cup {None}]
  BY DEF Erased, Continues
<1>2. TypeOK'
  BY <1>1 DEF IInv, TypeOK
<1>3. \A c \in Fd : Live(c)' => Awake(conn'[c])
  BY DEF Erased, Continues, Live
<1>4. ASSUME NEW u \in User, session'[u] # None
      PROVE  /\ session[u] # None
             /\ Coherent(session'[u])
             /\ session'[u].connection # None =>
                  /\ session'[u].connection = session[u].connection
                  /\ conn'[session'[u].connection] # None
                  /\ conn'[session'[u].connection].status # "AwaitingAuth"
  <2>1. session'[u] = Released(D)[u]
    BY <1>4
  <2>2. /\ session[u] # None
        /\ \/ session'[u] = session[u]
           \/ session'[u].connection = None /\ Coherent(session'[u])
        /\ session'[u].connection \notin D
    BY <1>4, <2>1, ReleasedFacts DEF IInv
  <2>3. CASE session'[u].connection = None
    BY <2>2, <2>3 DEF IInv, StateMatchesLink
  <2>4. CASE session'[u].connection # None
    <3>1. session'[u] = session[u] /\ session'[u].connection \in Fd
      BY <2>2, <2>4 DEF IInv, TypeOK, Session
    <3>2. /\ conn[session[u].connection] # None
          /\ conn[session[u].connection].status # "AwaitingAuth"
      BY <2>2, <2>4, <3>1 DEF IInv, SessionLink, Attached, Live
    <3>3. conn'[session'[u].connection] = C[session'[u].connection]
      BY <2>2, <3>1 DEF Erased
    <3>4. QED BY <2>2, <3>1, <3>2, <3>3 DEF Continues, IInv, StateMatchesLink
  <2>5. QED BY <2>3, <2>4
<1>5. QED BY <1>2, <1>3, <1>4, NoAttachment

\* disconnect() keeps the invariant.
LEMMA DisconnectInv ==
    ASSUME IInv, NEW c \in Fd, Disconnect(c)
    PROVE  IInv'
<1>1. Continues(conn)
  BY DEF IInv, TypeOK, NoLostWakeup, Live, Continues
<1>2. Released({c}) \in [User -> Session \cup {None}]
  BY ReleasedFacts DEF IInv
<1>3. QED BY <1>1, <1>2, DropInv DEF Disconnect

\* A message queued for everybody who has joined.
LEMMA BroadcastInv ==
    ASSUME IInv, NEW C, Continues(C), NEW sender, NEW p \in OutPacket,
           Broadcast(C, sender, p)
    PROVE  IInv'
<1>1. ASSUME NEW d \in Fd
      PROVE  /\ conn'[d] \in Connection \cup {None}
             /\ C[d] = None <=> conn'[d] = None
             /\ C[d] # None => Awake(conn'[d]) /\ conn'[d].status = C[d].status
  <2>1. CASE Receives(C, d, sender)
    <3>1. C[d] \in Connection /\ conn'[d] = Queued(C[d], p)
      BY <2>1 DEF Broadcast, Receives, Continues
    <3>2. QED BY <3>1, QueuedFacts, NoneAssumption DEF Continues
  <2>2. CASE ~Receives(C, d, sender)
    BY <2>2 DEF Broadcast, Continues
  <2>3. QED BY <2>1, <2>2
<1>2. conn' \in [Fd -> Connection \cup {None}]
  BY <1>1 DEF Broadcast
<1>3. Continues(conn')
  BY <1>1, <1>2 DEF Continues
<1>4. QED BY <1>3, SessionsUntouched DEF Broadcast, IInv, TypeOK

-----------------------------------------------------------------------------
(***************************************************************************)
(* Steps that attach a session                                             *)
(***************************************************************************)

\* A connection that awaits authentication is nobody's, so the session that is
\* attached to it is the only one.
LEMMA AttachInv ==
    ASSUME IInv, NEW c \in Fd, Live(c), conn[c].status = "AwaitingAuth",
           NEW k \in Connection, k.status = "Authenticated", Awake(k),
           NEW u \in users, NEW s \in Session, Coherent(s), s.connection = c,
           conn' = [conn EXCEPT ![c] = k],
           session' = [session EXCEPT ![u] = s],
           UNCHANGED <<users, server>>
    PROVE  IInv'
<1>1. u \in User
  BY DEF IInv, TypeOK
<1>2. TypeOK'
  BY <1>1 DEF IInv, TypeOK
<1>3. k # None /\ s # None
  BY NoneAssumption
<1>4. \A v \in User : Attached(v) => session[v].connection # c
  BY DEF IInv, SessionLink
<1>5. \A v \in User : v # u => session'[v] = session[v]
  BY DEF IInv, TypeOK
<1>6. session'[u] = s /\ conn'[c] = k
  BY <1>1 DEF IInv, TypeOK
<1>7. \A d \in Fd : d # c => conn'[d] = conn[d]
  BY DEF IInv, TypeOK
<1>8. SessionLink'
  <2>1. ASSUME NEW v \in User, Attached(v)'
        PROVE  /\ session'[v].connection \in Fd
               /\ conn'[session'[v].connection] # None
               /\ conn'[session'[v].connection].status # "AwaitingAuth"
    <3>1. CASE v = u
      BY <1>3, <1>6, <3>1
    <3>2. CASE v # u
      <4>1. Attached(v) /\ session'[v] = session[v]
        BY <1>5, <2>1, <3>2 DEF Attached
      <4>2. session[v].connection \in Fd /\ session[v].connection # c
        BY <1>4, <4>1 DEF Attached, IInv, TypeOK, Session
      <4>3. QED BY <1>7, <4>1, <4>2 DEF IInv, SessionLink, Live
    <3>3. QED BY <3>1, <3>2
  <2>2. ASSUME NEW v \in User, NEW w \in User, Attached(v)', Attached(w)',
               session'[v].connection = session'[w].connection
        PROVE  v = w
    BY <1>4, <1>5, <1>6, <2>2 DEF IInv, SessionLink, Attached
  <2>3. QED BY <2>1, <2>2 DEF SessionLink, Live
<1>9. StateMatchesLink'
  BY <1>5, <1>6 DEF IInv, StateMatchesLink, Coherent
<1>10. SessionsAreAccounts'
  BY <1>5 DEF IInv, SessionsAreAccounts
<1>11. NoLostWakeup'
  BY <1>6, <1>7 DEF IInv, NoLostWakeup, Live, Awake
<1>12. QED BY <1>2, <1>8, <1>9, <1>10, <1>11 DEF IInv

-----------------------------------------------------------------------------
(***************************************************************************)
(* Handlers                                                                *)
(***************************************************************************)

\* What a handler may assume of the copy k of conn[c] it works on.
Working(c, k) ==
    /\ Live(c)
    /\ k \in Connection
    /\ k.status = conn[c].status
    /\ Awake(k)
    /\ ~k.rww /\ ~k.wwr

\* A working copy put back, another packet queued or not.
LEMMA WorkingInv ==
    ASSUME IInv, NEW c \in Fd, NEW k, Working(c, k)
    PROVE  /\ Update(c, k) => IInv'
           /\ \A p \in OutPacket : Update(c, Queued(k, p)) => IInv'
BY UpdateInv, QueuedFacts DEF Working

\* Dropping consumed packets from the receive buffer leaves a working copy.
LEMMA ConsumedWorks ==
    ASSUME NEW c \in Fd, NEW k, Working(c, k), NEW rx \in Seq(InPacket)
    PROVE  Working(c, [k EXCEPT !.rx = rx])
BY DEF Working, Connection, Awake

\* The ages a handler writes are in range.
LEMMA AgeTypes ==
    /\ 0 \in 0..ConnTimeout
    /\ 0 \in 0..Grace
    /\ Grace \in 0..Grace
BY ServerAssumption

\* A working copy that joins: login and reconnection do this alike.
LEMMA JoinedWorks ==
    ASSUME NEW c \in Fd, NEW k, Working(c, k),
           NEW j, j = [k EXCEPT !.status = "Authenticated", !.seen = 0]
    PROVE  j \in Connection /\ j.status = "Authenticated" /\ Awake(j)
<1>1. j \in Connection /\ j.status = "Authenticated"
  BY AgeTypes DEF Working, Connection
<1>2. j.tx = k.tx /\ j.rww = k.rww /\ j.wwr = k.wwr /\ j.writeOn = k.writeOn
  BY DEF Working, Connection
<1>3. Awake(j)
  BY <1>2 DEF Working, Awake
<1>4. QED BY <1>1, <1>3

\* A login that handle_login_case accepts keeps the invariant.
LEMMA LoginAcceptedInv ==
    ASSUME IInv, NEW c \in Fd, NEW k, Working(c, k), k.status = "AwaitingAuth",
           NEW u, LoginAccepted(c, k, u)
    PROVE  IInv'
<1>1. PICK t \in Token :
        /\ conn' = [conn EXCEPT ![c] =
                      Queued([k EXCEPT !.status = "Authenticated",
                                       !.seen = 0], Ack(t))]
        /\ session' = [session EXCEPT ![u] = NewSession(c, t)]
  BY DEF LoginAccepted
<1> DEFINE j == [k EXCEPT !.status = "Authenticated", !.seen = 0]
<1>2. j \in Connection /\ j.status = "Authenticated" /\ Awake(j)
  BY JoinedWorks
<1>3. /\ Queued(j, Ack(t)) \in Connection
      /\ Queued(j, Ack(t)).status = "Authenticated"
      /\ Awake(Queued(j, Ack(t)))
  BY <1>2, QueuedFacts, PacketTypes
<1>4. NewSession(c, t) \in Session /\ Coherent(NewSession(c, t))
        /\ NewSession(c, t).connection = c
  BY ServerAssumption, AgeTypes DEF NewSession, Session, Coherent
<1>5. u \in users /\ UNCHANGED <<users, server>>
  BY DEF LoginAccepted, Verified
<1>6. Live(c) /\ conn[c].status = "AwaitingAuth"
  BY DEF Working
<1> HIDE DEF j
<1>7. conn' = [conn EXCEPT ![c] = Queued(j, Ack(t))]
  BY <1>1 DEF j
<1>8. QED BY <1>1, <1>3, <1>4, <1>5, <1>6, <1>7, AttachInv

\* A login it refuses keeps the invariant.
LEMMA LoginRefusedInv ==
    ASSUME IInv, NEW c \in Fd, NEW k, Working(c, k), LoginRefused(c, k)
    PROVE  IInv'
<1> DEFINE j == [k EXCEPT !.status = "Closing"]
<1>1. j \in Connection /\ j.status = "Closing" /\ Awake(j)
  BY DEF Working, Connection, Awake
<1>2. PICK t \in {"No", "Err"} : Update(c, Queued(j, Reply(t)))
  BY DEF LoginRefused
<1>3. /\ Queued(j, Reply(t)) \in Connection
      /\ Queued(j, Reply(t)).status = "Closing"
      /\ Awake(Queued(j, Reply(t)))
  BY <1>1, QueuedFacts, PacketTypes
<1>4. QED BY <1>2, <1>3, UpdateInv DEF Working

\* A registration, accepted or not, keeps the invariant.
LEMMA RegisterInv ==
    ASSUME IInv, NEW c \in Fd, NEW k, Working(c, k), NEW u \in User,
           Register(c, k, u)
    PROVE  IInv'
<1>1. CASE Disconnect(c)
  BY <1>1, DisconnectInv
<1>2. CASE /\ users' = users \cup {u}
           /\ conn' = [conn EXCEPT ![c] = Queued(k, Reply("Registered"))]
           /\ UNCHANGED <<session, server>>
  <2> DEFINE q == Queued(k, Reply("Registered"))
  <2>1. q \in Connection /\ q.status = conn[c].status /\ Awake(q)
    BY QueuedFacts, PacketTypes DEF Working
  <2> HIDE DEF q
  <2>2. Continues(conn')
    BY <1>2, <2>1, UpdateKeeps DEF Working, q
  <2>3. TypeOK'
    BY <1>2, <2>2 DEF IInv, TypeOK, Continues
  <2>4. \A d \in Fd : Live(d)' => Awake(conn'[d])
    BY <2>2 DEF Continues, Live
  <2>5. \A v \in User : session'[v] # None =>
          /\ session[v] # None
          /\ Coherent(session'[v])
          /\ session'[v].connection # None =>
               /\ session'[v].connection = session[v].connection
               /\ conn'[session'[v].connection] # None
               /\ conn'[session'[v].connection].status # "AwaitingAuth"
    BY <1>2, <2>2
       DEF IInv, TypeOK, Session, SessionLink, StateMatchesLink, Attached, Live, Continues
  <2>6. QED BY <1>2, <2>3, <2>4, <2>5, NoAttachment
<1>3. QED BY <1>1, <1>2 DEF Register

\* reconnect_client, accepted or not, keeps the invariant.
LEMMA ReconnectInv ==
    ASSUME IInv, NEW c \in Fd, NEW k, Working(c, k), k.status = "AwaitingAuth",
           NEW u \in User, NEW t, Reconnect(c, k, u, t)
    PROVE  IInv'
<1>1. CASE Update(c, k)
  BY <1>1, WorkingInv
<1>2. CASE Disconnect(c)
  BY <1>2, DisconnectInv
<1>3. CASE /\ session[u] # None
           /\ conn' = [conn EXCEPT ![c] = [k EXCEPT !.status = "Authenticated",
                                                    !.seen = 0]]
           /\ session' = [session EXCEPT ![u] = Reattached(@, c)]
           /\ UNCHANGED <<users, server>>
  <2> DEFINE j == [k EXCEPT !.status = "Authenticated", !.seen = 0]
             s == Reattached(session[u], c)
  <2>1. j \in Connection /\ j.status = "Authenticated" /\ Awake(j)
    BY JoinedWorks
  <2>2. session[u] \in Session /\ u \in users
    BY <1>3 DEF IInv, TypeOK, SessionsAreAccounts
  <2>3. s \in Session /\ Coherent(s) /\ s.connection = c
    BY <2>2, AgeTypes DEF Reattached, Session, Coherent
  <2>4. session' = [session EXCEPT ![u] = s]
    BY <1>3
  <2>5. Live(c) /\ conn[c].status = "AwaitingAuth"
    BY DEF Working
  <2> HIDE DEF s
  <2>6. QED BY <1>3, <2>1, <2>2, <2>3, <2>4, <2>5, AttachInv
<1>4. QED BY <1>1, <1>2, <1>3 DEF Reconnect

\* One packet of a connection that has not authenticated keeps the invariant.
LEMMA HandshakeInv ==
    ASSUME IInv, NEW c \in Fd, NEW k, Working(c, k), k.status = "AwaitingAuth",
           k.rx # <<>>, Handshake(c, k)
    PROVE  IInv'
<1> DEFINE p == Head(k.rx)
           r == [k EXCEPT !.rx = Tail(@)]
<1>1. p \in InPacket /\ Tail(k.rx) \in Seq(InPacket)
  BY HeadTailProperties DEF Working, Connection
<1>2. r = [k EXCEPT !.rx = Tail(k.rx)]
  OBVIOUS
<1>3. Working(c, r)
  BY <1>1, <1>2, ConsumedWorks
<1>4. r.status = "AwaitingAuth"
  BY DEF Working, Connection
<1> HIDE DEF p, r
<1>5. CASE p.type = "Login" /\ LoginAccepted(c, r, p.user)
  BY <1>3, <1>4, <1>5, LoginAcceptedInv
<1>6. CASE p.type = "Login" /\ LoginRefused(c, r)
  BY <1>3, <1>6, LoginRefusedInv
<1>7. CASE p.type = "Register" /\ Register(c, r, p.user)
  <2>1. p.user \in User
    BY <1>1, <1>7 DEF InPacket
  <2>2. QED BY <1>3, <1>7, <2>1, RegisterInv
<1>8. CASE p.type = "Reconnect" /\ Reconnect(c, r, p.user, p.token)
  <2>1. p.user \in User
    BY <1>1, <1>8 DEF InPacket
  <2>2. QED BY <1>3, <1>4, <1>8, <2>1, ReconnectInv
<1>9. CASE Disconnect(c)
  BY <1>9, DisconnectInv
<1>10. QED BY <1>5, <1>6, <1>7, <1>8, <1>9 DEF Handshake, p, r

\* A crash changes no table.
LEMMA CrashInv ==
    ASSUME IInv, Crash
    PROVE  IInv'
<1>1. Continues(conn)
  BY DEF IInv, TypeOK, NoLostWakeup, Live, Continues
<1>2. Continues(conn')
  BY <1>1 DEF Crash
<1>3. QED BY <1>2, SessionsUntouched DEF Crash

\* One packet of a connection that has authenticated keeps the invariant.
LEMMA DispatchInv ==
    ASSUME IInv, NEW c \in Fd, NEW k, Working(c, k), k.status # "AwaitingAuth",
           NEW i \in 1..Len(k.rx), Dispatch(c, k, i)
    PROVE  IInv'
<1> DEFINE p == k.rx[i]
           r == [k EXCEPT !.rx = SubSeq(@, i + 1, Len(@))]
           b == [k EXCEPT !.rx = SubSeq(@, i, Len(@))]
           u == SessionOf(c)
<1>1. k.rx \in Seq(InPacket) /\ Len(k.rx) \in Nat /\ p \in InPacket
  BY ElementOfSeq, LenProperties DEF Working, Connection
<1>2. \A j \in {i, i + 1} : SubSeq(k.rx, j, Len(k.rx)) \in Seq(InPacket)
  <2>1. ASSUME NEW j \in {i, i + 1} PROVE \A n \in j..Len(k.rx) : k.rx[n] \in InPacket
    BY <1>1, <2>1, ElementOfSeq
  <2>2. QED BY <1>1, <2>1, SubSeqProperties
<1>3. Working(c, r) /\ Working(c, b)
  BY <1>2, ConsumedWorks
<1>4. CASE Crash
  BY <1>4, CrashInv
<1>5. CASE Update(c, r) \/ Update(c, b)
  BY <1>3, <1>5, WorkingInv
<1>6. CASE Disconnect(c)
  BY <1>6, DisconnectInv
<1>7. CASE Update(c, Queued([r EXCEPT !.seen = 0], Reply("Pong")))
  <2> DEFINE s == [r EXCEPT !.seen = 0]
  <2> HIDE DEF r
  <2>1. s \in Connection /\ s.status = conn[c].status
    BY <1>3, AgeTypes DEF Working, Connection
  <2>2. s.tx = r.tx /\ s.rww = r.rww /\ s.wwr = r.wwr /\ s.writeOn = r.writeOn
    BY <1>3 DEF Working, Connection
  <2>3. Working(c, s)
    BY <1>3, <2>1, <2>2 DEF Working, Awake
  <2>4. QED BY <1>7, <2>3, WorkingInv, PacketTypes
<1>8. CASE /\ u # None /\ p.type = "Message"
           /\ Broadcast([conn EXCEPT ![c] = r], c, Post(u, p.text))
  <2>1. Continues([conn EXCEPT ![c] = r])
    BY <1>3, UpdateKeeps DEF Working
  <2> HIDE DEF r, p
  <2>2. u \in User /\ p.text \in Text
    BY <1>1, <1>8, SessionOfType DEF InPacket
  <2> HIDE DEF u
  <2>3. Post(u, p.text) \in OutPacket
    BY <2>2, PacketTypes
  <2>4. QED BY <1>8, <2>1, <2>3, BroadcastInv
<1>9. QED BY <1>4, <1>5, <1>6, <1>7, <1>8 DEF Dispatch

\* process_client_stream keeps the invariant, whatever it skips first.
LEMMA ProcessStreamInv ==
    ASSUME IInv, NEW c \in Fd, NEW k, Working(c, k), k.status # "AwaitingAuth",
           ProcessStream(c, k)
    PROVE  IInv'
<1>1. CASE Update(c, [k EXCEPT !.rx = <<>>])
  <2>1. Working(c, [k EXCEPT !.rx = <<>>])
    BY EmptySeq, ConsumedWorks
  <2>2. QED BY <1>1, <2>1, WorkingInv
<1>2. CASE \E i \in 1..Len(k.rx) : Dispatch(c, k, i)
  BY <1>2, DispatchInv
<1>3. QED BY <1>1, <1>2 DEF ProcessStream

\* handle_read works on the connection with no SSL call waiting, or with the
\* wait of the read just cleared.
LEMMA HandleReadInv ==
    ASSUME IInv, NEW c \in Fd, NEW k, Working(c, k), HandleRead(c, k)
    PROVE  IInv'
<1>1. CASE Update(c, k)
  BY <1>1, WorkingInv
<1>2. CASE Disconnect(c)
  BY <1>2, DisconnectInv
<1>3. CASE Update(c, [k EXCEPT !.rww = FALSE])
  <2>1. Working(c, [k EXCEPT !.rww = FALSE])
    BY DEF Working, Connection, Awake
  <2>2. QED BY <1>3, <2>1, WorkingInv
<1>4. CASE Update(c, [k EXCEPT !.rww = TRUE, !.writeOn = TRUE])
  <2> DEFINE w == [k EXCEPT !.rww = TRUE, !.writeOn = TRUE]
  <2>1. w \in Connection /\ w.status = conn[c].status
    BY DEF Working, Connection
  <2>2. w.tx = k.tx /\ ~w.wwr /\ w.writeOn
    BY DEF Working, Connection
  <2>3. Awake(w)
    BY <2>2 DEF Awake
  <2>4. QED BY <1>4, <2>1, <2>3, UpdateInv DEF Working
<1>5. ASSUME NEW n \in 1..MaxRead, NEW ps \in [1..n -> InPacket],
             NEW r, r = [k EXCEPT !.rx = @ \o ps, !.rww = FALSE],
             IF r.status = "AwaitingAuth" THEN Handshake(c, r)
                                          ELSE ProcessStream(c, r)
      PROVE  IInv'
  <2>1. n \in Nat \ {0} /\ ps \in Seq(InPacket) /\ Len(ps) = n
    BY <1>5, ServerAssumption
  <2>2. k.rx \in Seq(InPacket)
    BY DEF Working, Connection
  <2>3. (k.rx \o ps) \in Seq(InPacket) /\ k.rx \o ps # <<>>
    BY <2>1, <2>2, ConcatProperties, ConcatEqualIffEmpty, EmptySeq
  <2>4. r = [[k EXCEPT !.rx = k.rx \o ps] EXCEPT !.rww = FALSE]
    BY <1>5
  <2>5. Working(c, [k EXCEPT !.rx = k.rx \o ps])
    BY <2>3, ConsumedWorks
  <2>6. Working(c, r) /\ r.rx = k.rx \o ps
    BY <2>3, <2>4, <2>5 DEF Working, Connection, Awake
  <2>7. QED BY <1>5, <2>3, <2>6, HandshakeInv, ProcessStreamInv
<1>6. QED BY <1>1, <1>2, <1>3, <1>4, <1>5 DEF HandleRead

\* flush_write may be called on a connection that is not awake (its wait for
\* READ was just cleared): every outcome wakes it or removes it.
LEMMA HandleFlushInv ==
    ASSUME IInv, NEW c \in Fd, Live(c), NEW k \in Connection, ~k.rww,
           k.status = conn[c].status, HandleFlush(c, k)
    PROVE  IInv'
<1>1. PICK n \in 0..Len(k.tx) :
        LET r == [k EXCEPT !.tx = SubSeq(@, n + 1, Len(@)), !.wwr = FALSE]
        IN  \/ Disconnect(c)
            \/ r.tx = <<>> /\ Update(c, [r EXCEPT !.writeOn = @ /\ r.rww])
            \/ r.tx # <<>> /\ Update(c, [r EXCEPT !.wwr = TRUE, !.writeOn = FALSE])
            \/ r.tx # <<>> /\ Update(c, [r EXCEPT !.writeOn = TRUE])
  BY DEF HandleFlush
<1> DEFINE tx == SubSeq(k.tx, n + 1, Len(k.tx))
           r == [k EXCEPT !.tx = tx, !.wwr = FALSE]
<1>2. tx \in Seq(OutPacket)
  <2>1. k.tx \in Seq(OutPacket) /\ Len(k.tx) \in Nat
    BY LenProperties DEF Connection
  <2>2. \A m \in (n + 1)..Len(k.tx) : k.tx[m] \in OutPacket
    BY <2>1, ElementOfSeq
  <2>3. QED BY <2>1, <2>2, SubSeqProperties
<1> HIDE DEF tx
<1>3. r \in Connection /\ r.status = conn[c].status /\ r.tx = tx /\ ~r.wwr /\ ~r.rww
  BY <1>2 DEF Connection
<1> HIDE DEF r
<1>4. CASE Disconnect(c)
  BY <1>4, DisconnectInv
<1>5. CASE tx = <<>> /\ Update(c, [r EXCEPT !.writeOn = @ /\ r.rww])
  <2> DEFINE w == [r EXCEPT !.writeOn = @ /\ r.rww]
  <2>1. (r.writeOn /\ r.rww) \in BOOLEAN
    OBVIOUS
  <2>2. w \in Connection /\ w.status = conn[c].status
    BY <1>3, <2>1 DEF Connection
  <2>3. w.tx = <<>> /\ ~w.wwr /\ ~w.rww
    BY <1>3, <1>5 DEF Connection
  <2>4. Awake(w)
    BY <2>3 DEF Awake
  <2>5. QED BY <1>5, <2>2, <2>4, UpdateInv
<1>6. CASE tx # <<>> /\ Update(c, [r EXCEPT !.wwr = TRUE, !.writeOn = FALSE])
  <2> DEFINE w == [r EXCEPT !.wwr = TRUE, !.writeOn = FALSE]
  <2>1. w \in Connection /\ w.status = conn[c].status
    BY <1>3 DEF Connection
  <2>2. w.tx # <<>> /\ w.wwr /\ ~w.rww
    BY <1>3, <1>6 DEF Connection
  <2>3. Awake(w)
    BY <2>2 DEF Awake
  <2>4. QED BY <1>6, <2>1, <2>3, UpdateInv
<1>7. CASE tx # <<>> /\ Update(c, [r EXCEPT !.writeOn = TRUE])
  <2> DEFINE w == [r EXCEPT !.writeOn = TRUE]
  <2>1. w \in Connection /\ w.status = conn[c].status
    BY <1>3 DEF Connection
  <2>2. w.tx # <<>> /\ ~w.wwr /\ w.writeOn /\ ~w.rww
    BY <1>3, <1>7 DEF Connection
  <2>3. Awake(w)
    BY <2>2 DEF Awake
  <2>4. QED BY <1>7, <2>1, <2>3, UpdateInv
<1>8. QED BY <1>1, <1>3, <1>4, <1>5, <1>6, <1>7 DEF r, tx

-----------------------------------------------------------------------------
(***************************************************************************)
(* Events                                                                  *)
(***************************************************************************)
\* An entry of the connection table is a connection.
LEMMA LiveFacts ==
    ASSUME IInv, NEW c \in Fd, Live(c)
    PROVE  conn[c] \in Connection /\ Awake(conn[c])
BY DEF IInv, TypeOK, NoLostWakeup, Live

\* read_event keeps the invariant, reading or resuming a write.
LEMMA ReadEventInv ==
    ASSUME IInv, NEW c \in Fd, ReadEvent(c)
    PROVE  IInv'
<1>1. Live(c) /\ ~conn[c].rww /\ conn[c] \in Connection /\ Awake(conn[c])
  BY LiveFacts DEF ReadEvent
<1>2. CASE conn[c].wwr /\ HandleFlush(c, [conn[c] EXCEPT !.wwr = FALSE])
  <2> DEFINE k == [conn[c] EXCEPT !.wwr = FALSE]
  <2>1. k \in Connection /\ ~k.rww /\ k.status = conn[c].status
    BY <1>1 DEF Connection
  <2>2. QED BY <1>1, <1>2, <2>1, HandleFlushInv
<1>3. CASE ~conn[c].wwr /\ HandleRead(c, conn[c])
  BY <1>1, <1>3, HandleReadInv DEF Working
<1>4. QED BY <1>2, <1>3 DEF ReadEvent

\* write_event keeps the invariant, writing or resuming a read.
LEMMA WriteEventInv ==
    ASSUME IInv, NEW c \in Fd, WriteEvent(c)
    PROVE  IInv'
<1>1. Live(c) /\ ~conn[c].wwr /\ conn[c] \in Connection /\ Awake(conn[c])
  BY LiveFacts DEF WriteEvent
<1>2. CASE conn[c].rww /\ HandleRead(c, [conn[c] EXCEPT !.rww = FALSE])
  <2> DEFINE k == [conn[c] EXCEPT !.rww = FALSE]
  <2>1. k \in Connection /\ ~k.rww /\ ~k.wwr /\ k.status = conn[c].status
    BY <1>1 DEF Connection
  <2>2. k.tx = conn[c].tx /\ k.writeOn = conn[c].writeOn
    BY <1>1 DEF Connection
  <2>3. Awake(k)
    BY <1>1, <2>1, <2>2 DEF Awake
  <2>4. QED BY <1>1, <1>2, <2>1, <2>3, HandleReadInv DEF Working
<1>3. CASE ~conn[c].rww /\ HandleFlush(c, conn[c])
  BY <1>1, <1>3, HandleFlushInv
<1>4. QED BY <1>2, <1>3 DEF WriteEvent

\* The table as it stands can stand.
LEMMA UnchangedContinues ==
    ASSUME IInv
    PROVE  Continues(conn)
BY DEF IInv, TypeOK, NoLostWakeup, Live, Continues

\* accept_client keeps the invariant: a new connection is nobody's.
LEMMA AcceptInv ==
    ASSUME IInv, AcceptStart \/ AcceptDone
    PROVE  IInv'
<1>1. CASE UNCHANGED conn
  <2>1. Continues(conn')
    BY <1>1, UnchangedContinues
  <2>2. QED BY <2>1, SessionsUntouched DEF AcceptStart, AcceptDone
<1>2. CASE AcceptDone /\ \E c \in Fd : ~Live(c) /\ conn' = [conn EXCEPT ![c] = NewConnection]
  <2>1. NewConnection \in Connection /\ Awake(NewConnection)
    BY AgeTypes, EmptySeq DEF NewConnection, Connection, Awake
  <2>2. Continues(conn')
    BY <1>2, <2>1, UnchangedContinues, NoneAssumption DEF Continues, Live, IInv, TypeOK
  <2>3. QED BY <1>2, <2>2, SessionsUntouched DEF AcceptDone
<1>3. QED BY <1>1, <1>2 DEF AcceptStart, AcceptDone

\* Marking a connection Closing changes nothing its wakeups depend on.
LEMMA MarkedContinues ==
    ASSUME IInv
    PROVE  Continues(Marked)
<1>1. ASSUME NEW c \in Fd
      PROVE  /\ Marked[c] \in Connection \cup {None}
             /\ Marked[c] # None => Awake(Marked[c])
             /\ conn[c] # None =>
                  /\ Marked[c] # None
                  /\ conn[c].status # "AwaitingAuth" => Marked[c].status # "AwaitingAuth"
  <2>1. CASE Live(c) /\ TimedOut(conn[c])
    <3> DEFINE k == conn[c]
               m == [k EXCEPT !.status = "Closing"]
    <3>1. Marked[c] = m /\ k \in Connection /\ Awake(k)
      BY <2>1, LiveFacts DEF Marked
    <3>2. m \in Connection /\ m.status = "Closing"
      BY <3>1 DEF Connection
    <3>3. m.tx = k.tx /\ m.rww = k.rww /\ m.wwr = k.wwr /\ m.writeOn = k.writeOn
      BY <3>1 DEF Connection
    <3>4. Awake(m)
      BY <3>1, <3>3 DEF Awake
    <3>5. QED BY <3>1, <3>2, <3>4, NoneAssumption
  <2>2. CASE ~(Live(c) /\ TimedOut(conn[c]))
    <3>1. Marked[c] = conn[c]
      BY <2>2 DEF Marked
    <3>2. QED BY <3>1, UnchangedContinues DEF Continues
  <2>3. QED BY <2>1, <2>2
<1>2. Marked \in [Fd -> Connection \cup {None}]
  BY <1>1 DEF Marked
<1>3. QED BY <1>1, <1>2 DEF Continues

\* timer_event, all four passes of it, keeps the invariant.
LEMMA TimerEventInv ==
    ASSUME IInv, TimerEvent
    PROVE  IInv'
<1> DEFINE D == Reaped(Marked)
           S == Released(D)
<1>1. D \in SUBSET Fd
  BY DEF Reaped
<1>2. S \in [User -> Session \cup {None}]
  BY <1>1, ReleasedFacts DEF IInv
<1> HIDE DEF D
<1>3. conn' = Erased(Marked, D) /\ UNCHANGED <<users, server>>
  BY DEF TimerEvent, D
<1>4. session' = [u \in User |-> IF S[u] # None /\ Expired(S[u]) THEN None ELSE S[u]]
  BY DEF TimerEvent, D
<1> HIDE DEF S
<1>5. session' \in [User -> Session \cup {None}]
  BY <1>2, <1>4
<1>6. \A u \in User : session'[u] \in {S[u], None}
  BY <1>4
<1>7. QED BY <1>1, <1>3, <1>5, <1>6, MarkedContinues, DropInv DEF S

\* A message from the server's console keeps the invariant.
LEMMA ConsoleMessageInv ==
    ASSUME IInv, ConsoleMessage
    PROVE  IInv'
<1>1. PICK m \in Text : Broadcast(conn, None, Post(None, m))
  BY DEF ConsoleMessage
<1>2. Post(None, m) \in OutPacket
  BY PacketTypes
<1>3. QED BY <1>1, <1>2, UnchangedContinues, BroadcastInv

\* A kick keeps the invariant.
LEMMA KickInv ==
    ASSUME IInv, NEW u \in User, Kick(u)
    PROVE  IInv'
<1>1. session[u].connection \in Fd
  BY DEF Kick, Attached, IInv, TypeOK, Session
<1>2. QED BY <1>1, DisconnectInv DEF Kick

\* Quitting changes no table.
LEMMA QuitInv ==
    ASSUME IInv, Quit
    PROVE  IInv'
<1>1. Continues(conn')
  BY UnchangedContinues DEF Quit
<1>2. QED BY <1>1, SessionsUntouched DEF Quit

\* A peer that goes away changes only its own end.
LEMMA HangUpInv ==
    ASSUME IInv, NEW c \in Fd, HangUp(c)
    PROVE  IInv'
<1>1. Live(c) /\ conn[c] \in Connection /\ Awake(conn[c])
  BY LiveFacts DEF HangUp
<1>2. PICK e \in {"eof", "closed"} : Update(c, [conn[c] EXCEPT !.peer = e])
  BY DEF HangUp
<1> DEFINE k == [conn[c] EXCEPT !.peer = e]
<1>3. k \in Connection /\ k.status = conn[c].status
  BY <1>1 DEF Connection
<1>4. /\ k.tx = conn[c].tx /\ k.rww = conn[c].rww
      /\ k.wwr = conn[c].wwr /\ k.writeOn = conn[c].writeOn
  BY <1>1 DEF Connection
<1>5. Awake(k)
  BY <1>1, <1>4 DEF Awake
<1>6. QED BY <1>1, <1>2, <1>3, <1>5, UpdateInv

\* Time changes only ages.
LEMMA TickInv ==
    ASSUME IInv, Tick
    PROVE  IInv'
<1>1. ASSUME NEW c \in Fd
      PROVE  /\ conn'[c] \in Connection \cup {None}
             /\ conn'[c] = None <=> conn[c] = None
             /\ conn[c] # None => Awake(conn'[c]) /\ conn'[c].status = conn[c].status
  <2>1. CASE Live(c)
    <3> DEFINE k == conn[c]
               o == [k EXCEPT !.seen = Older(@, ConnTimeout)]
    <3>1. conn'[c] = o /\ k \in Connection /\ Awake(k)
      BY <2>1, LiveFacts DEF Tick
    <3>2. Older(k.seen, ConnTimeout) \in 0..ConnTimeout
      BY <3>1, OlderType, ServerAssumption DEF Connection
    <3>3. o \in Connection /\ o.status = k.status
      BY <3>1, <3>2 DEF Connection
    <3>4. o.tx = k.tx /\ o.rww = k.rww /\ o.wwr = k.wwr /\ o.writeOn = k.writeOn
      BY <3>1 DEF Connection
    <3>5. Awake(o)
      BY <3>1, <3>4 DEF Awake
    <3>6. QED BY <2>1, <3>1, <3>3, <3>5, NoneAssumption DEF Live
  <2>2. CASE ~Live(c)
    BY <2>2 DEF Tick, Live
  <2>3. QED BY <2>1, <2>2
<1>2. conn' \in [Fd -> Connection \cup {None}]
  BY <1>1 DEF Tick
<1>3. ASSUME NEW u \in User
      PROVE  /\ session'[u] \in Session \cup {None}
             /\ session'[u] = None <=> session[u] = None
             /\ session[u] # None =>
                  /\ session'[u].connection = session[u].connection
                  /\ session'[u].state = session[u].state
  <2>1. CASE session[u] # None
    <3> DEFINE s == session[u]
               o == [s EXCEPT !.gone = Older(@, Grace)]
    <3>1. session'[u] = o /\ s \in Session
      BY <2>1 DEF Tick, IInv, TypeOK
    <3>2. Older(s.gone, Grace) \in 0..Grace
      BY <3>1, OlderType, ServerAssumption DEF Session
    <3>3. o \in Session /\ o.connection = s.connection /\ o.state = s.state
      BY <3>1, <3>2 DEF Session
    <3>4. QED BY <2>1, <3>1, <3>3, NoneAssumption
  <2>2. CASE session[u] = None
    BY <2>2 DEF Tick
  <2>3. QED BY <2>1, <2>2
<1>4. session' \in [User -> Session \cup {None}]
  BY <1>3 DEF Tick
<1>5. TypeOK' /\ UNCHANGED users
  BY <1>2, <1>4 DEF Tick, IInv, TypeOK
<1>6. \A c \in Fd : Live(c)' => Awake(conn'[c])
  BY <1>1 DEF Live
<1>7. ASSUME NEW u \in User, session'[u] # None
      PROVE  /\ session[u] # None
             /\ Coherent(session'[u])
             /\ session'[u].connection # None =>
                  /\ session'[u].connection = session[u].connection
                  /\ conn'[session'[u].connection] # None
                  /\ conn'[session'[u].connection].status # "AwaitingAuth"
  <2>1. session[u] # None /\ session[u] \in Session
    BY <1>3, <1>7 DEF IInv, TypeOK
  <2>2. Coherent(session'[u])
    BY <1>3, <2>1 DEF IInv, StateMatchesLink, Coherent
  <2>3. CASE session'[u].connection # None
    <3>1. /\ session[u].connection \in Fd
          /\ conn[session[u].connection] # None
          /\ conn[session[u].connection].status # "AwaitingAuth"
      BY <1>3, <2>1, <2>3 DEF Session, IInv, SessionLink, Attached, Live
    <3>2. QED BY <1>1, <1>3, <2>1, <2>2, <3>1
  <2>4. QED BY <2>1, <2>2, <2>3
<1>8. QED BY <1>5, <1>6, <1>7, NoAttachment

-----------------------------------------------------------------------------
(***************************************************************************)
(* The invariant and the theorems                                          *)
(***************************************************************************)
\* The empty tables satisfy the invariant.
LEMMA InitInv == Init => IInv
BY DEF Init, IInv, TypeOK, SessionLink, StateMatchesLink, SessionsAreAccounts,
       NoLostWakeup, Attached, Live

\* Every step keeps the invariant.
LEMMA NextInv == IInv /\ [Next]_vars => IInv'
<1> SUFFICES ASSUME IInv, [Next]_vars PROVE IInv'
  OBVIOUS
<1>1. CASE AcceptStart \/ AcceptDone
  BY <1>1, AcceptInv
<1>2. ASSUME NEW c \in Fd, ReadEvent(c) PROVE IInv'
  BY <1>2, ReadEventInv
<1>3. ASSUME NEW c \in Fd, WriteEvent(c) PROVE IInv'
  BY <1>3, WriteEventInv
<1>4. ASSUME NEW c \in Fd, HangUp(c) PROVE IInv'
  BY <1>4, HangUpInv
<1>5. CASE TimerEvent
  BY <1>5, TimerEventInv
<1>6. CASE ConsoleMessage
  BY <1>6, ConsoleMessageInv
<1>7. CASE Quit
  BY <1>7, QuitInv
<1>8. ASSUME NEW u \in User, Kick(u) PROVE IInv'
  BY <1>8, KickInv
<1>9. CASE Tick
  BY <1>9, TickInv
<1>10. CASE UNCHANGED vars
  BY <1>10 DEF vars, IInv, TypeOK, SessionLink, StateMatchesLink,
               SessionsAreAccounts, NoLostWakeup, Attached, Live
<1>11. QED
  BY <1>1, <1>2, <1>3, <1>4, <1>5, <1>6, <1>7, <1>8, <1>9, <1>10 DEF Next, Event

\* The inductive invariant holds in every reachable state of the server.
THEOREM Invariance == Spec => []IInv
<1>1. QED BY InitInv, NextInv, PTL DEF Spec

\* Every variable keeps its type: ages stay below their thresholds and queues
\* hold only the packets the code can build.
THEOREM TypeCorrect == Spec => []TypeOK
<1>1. IInv => TypeOK
  BY DEF IInv
<1>2. QED BY <1>1, Invariance, PTL

\* No session pointer dangles and none is shared (manager.cpp disconnect, kick,
\* find_sesssion_from_connection, add_session, reconnect_client).
THEOREM NoDanglingSession == Spec => []SessionLink
<1>1. IInv => SessionLink
  BY DEF IInv
<1>2. QED BY <1>1, Invariance, PTL

\* The stored session state agrees with the pointer (manager.cpp disconnect,
\* reconnect_client, mark_expired_sessions).
THEOREM StateAgreesWithLink == Spec => []StateMatchesLink
<1>1. IInv => StateMatchesLink
  BY DEF IInv
<1>2. QED BY <1>1, Invariance, PTL

\* No packet sequence opens a session for a name the database does not have
\* (app.cpp handle_login_case, manager.cpp reconnect_client).
THEOREM OnlyAccountsHaveSessions == Spec => []SessionsAreAccounts
<1>1. IInv => SessionsAreAccounts
  BY DEF IInv
<1>2. QED BY <1>1, Invariance, PTL

\* Whatever SSL waits for, the event that resumes it is registered (app.cpp
\* read_event, write_event, handle_flush_result, io.cpp broadcast).
THEOREM WakeupsAreNotLost == Spec => []NoLostWakeup
<1>1. IInv => NoLostWakeup
  BY DEF IInv
<1>2. QED BY <1>1, Invariance, PTL

-----------------------------------------------------------------------------
(***************************************************************************)
(* What can happen to a session, time apart                                *)
(***************************************************************************)

\* It is left alone; it is attached to some connection; its connection is
\* erased and it is released; it has expired and is forgotten.
Moves(u) ==
    \/ session'[u] = session[u]
    \/ session'[u] # None /\ session'[u].connection # None
    \/ /\ Attached(u)
       /\ conn'[session[u].connection] = None
       /\ session'[u] = Detached(session[u])
    \/ session[u] # None /\ Expired(session[u]) /\ session'[u] = None

SessionMoves == \A u \in User : Moves(u)

\* A handler that touches no session.
LEMMA UntouchedMoves ==
    ASSUME UNCHANGED session
    PROVE  SessionMoves
BY DEF SessionMoves, Moves

\* Connections in D erased, their sessions released, some sessions forgotten.  A
\* session that was just released has not expired.
LEMMA DropMoves ==
    ASSUME IInv, NEW C, NEW D \in SUBSET Fd, conn' = Erased(C, D),
           \A u \in User :
             LET s == Released(D)[u]
             IN  session'[u] = s \/ (s # None /\ Expired(s) /\ session'[u] = None)
    PROVE  SessionMoves
<1> SUFFICES ASSUME NEW u \in User PROVE Moves(u)
  BY DEF SessionMoves
<1> DEFINE s == session[u]
<1>1. CASE \A d \in D : SessionOf(d) # u
  <2>1. Released(D)[u] = s
    BY <1>1 DEF Released
  <2>2. QED BY <2>1 DEF Moves
<1>2. CASE \E d \in D : SessionOf(d) = u
  <2>1. /\ s # None /\ s.connection \in D
        /\ Released(D)[u] = Detached(s)
    BY <1>2, SessionOfFacts DEF Released
  <2>2. s \in Session /\ Coherent(s) /\ Attached(u)
    BY <2>1, ServerAssumption DEF IInv, TypeOK, StateMatchesLink, Attached
  <2>3. ~Expired(Detached(s))
    <3>1. CASE s.state = "Connected"
      <4>1. Detached(s).gone = 0
        BY <2>2, <3>1 DEF Detached, Session
      <4>2. QED BY <4>1, ServerAssumption DEF Expired
    <3>2. CASE s.state # "Connected"
      <4>1. Detached(s).state = s.state /\ s.state # "Disconnected"
        BY <2>1, <2>2, <3>2, ServerAssumption DEF Detached, Session, Coherent
      <4>2. QED BY <4>1 DEF Expired
    <3>3. QED BY <3>1, <3>2
  <2>4. session'[u] = Detached(s)
    BY <2>1, <2>3
  <2>5. conn'[s.connection] = None
    BY <2>1 DEF Erased
  <2>6. QED BY <2>2, <2>4, <2>5 DEF Moves
<1>3. QED BY <1>1, <1>2

\* disconnect() releases only the session of the connection it erases.
LEMMA DisconnectMoves ==
    ASSUME IInv, NEW c \in Fd, Disconnect(c)
    PROVE  SessionMoves
BY DropMoves DEF Disconnect

\* A session attached to a connection, whatever it pointed to before.
LEMMA AttachMoves ==
    ASSUME IInv, NEW u, NEW s, s # None, s.connection # None,
           session' = [session EXCEPT ![u] = s]
    PROVE  SessionMoves
BY DEF SessionMoves, Moves, IInv, TypeOK

\* Before authentication: only a login and a reconnect touch a session.
LEMMA HandshakeMoves ==
    ASSUME IInv, NEW c \in Fd, NEW k, Handshake(c, k)
    PROVE  SessionMoves
<1> DEFINE p == Head(k.rx)
           r == [k EXCEPT !.rx = Tail(@)]
<1> HIDE DEF p, r
<1>1. c # None
  BY ServerAssumption
<1>2. CASE LoginAccepted(c, r, p.user)
  <2>1. PICK t \in Token : session' = [session EXCEPT ![p.user] = NewSession(c, t)]
    BY <1>2 DEF LoginAccepted
  <2> DEFINE s == NewSession(c, t)
  <2>2. s \in Session /\ s.connection = c
    BY ServerAssumption, AgeTypes DEF NewSession, Session
  <2>3. s # None
    BY <2>2, NoneAssumption
  <2> HIDE DEF s
  <2>4. session' = [session EXCEPT ![p.user] = s]
    BY <2>1 DEF s
  <2>5. QED BY <1>1, <2>2, <2>3, <2>4, AttachMoves
<1>3. ASSUME NEW u, session[u] # None,
             session' = [session EXCEPT ![u] = Reattached(@, c)]
      PROVE  SessionMoves
  <2>1. CASE u \in User
    <3> DEFINE s == Reattached(session[u], c)
    <3>1. session[u] \in Session
      BY <1>3, <2>1 DEF IInv, TypeOK
    <3>2. s \in Session /\ s.connection = c
      BY <3>1, AgeTypes DEF Reattached, Session
    <3>3. s # None
      BY <3>2, NoneAssumption
    <3>4. session' = [session EXCEPT ![u] = s]
      BY <1>3
    <3> HIDE DEF s
    <3>5. QED BY <1>1, <3>2, <3>3, <3>4, AttachMoves
  <2>2. CASE u \notin User
    <3>1. \A v \in User : session'[v] = session[v]
      BY <1>3, <2>2 DEF IInv, TypeOK
    <3>2. QED BY <3>1 DEF SessionMoves, Moves
  <2>3. QED BY <2>1, <2>2
<1>4. CASE LoginRefused(c, r) \/ Register(c, r, p.user)
  BY <1>4, UntouchedMoves, DisconnectMoves DEF LoginRefused, Register, Update
<1>5. CASE Reconnect(c, r, p.user, p.token)
  BY <1>3, <1>5, UntouchedMoves, DisconnectMoves DEF Reconnect, Update
<1>6. CASE Disconnect(c)
  BY <1>6, DisconnectMoves
<1>7. QED BY <1>2, <1>4, <1>5, <1>6 DEF Handshake, p, r

\* After authentication: only the packet that quits does.
LEMMA ProcessStreamMoves ==
    ASSUME IInv, NEW c \in Fd, NEW k, ProcessStream(c, k)
    PROVE  SessionMoves
<1>1. UNCHANGED session \/ Disconnect(c)
  BY DEF ProcessStream, Dispatch, Crash, Update, Broadcast
<1>2. QED BY <1>1, UntouchedMoves, DisconnectMoves

\* read_event and write_event, whatever they resume.
LEMMA SocketMoves ==
    ASSUME IInv, NEW c \in Fd, ReadEvent(c) \/ WriteEvent(c)
    PROVE  SessionMoves
<1>1. ASSUME NEW k, HandleFlush(c, k) PROVE SessionMoves
  BY <1>1, UntouchedMoves, DisconnectMoves DEF HandleFlush, Update
<1>2. ASSUME NEW k, HandleRead(c, k) PROVE SessionMoves
  <2>1. CASE \E j : Handshake(c, j) \/ ProcessStream(c, j)
    BY <2>1, HandshakeMoves, ProcessStreamMoves
  <2>2. QED BY <1>2, <2>1, UntouchedMoves, DisconnectMoves DEF HandleRead, Update
<1>3. QED BY <1>1, <1>2 DEF ReadEvent, WriteEvent

\* The timer releases the sessions of those it erases, and forgets only sessions
\* that had expired before.
LEMMA TimerMoves ==
    ASSUME IInv, TimerEvent
    PROVE  SessionMoves
<1> DEFINE D == Reaped(Marked)
<1>1. D \in SUBSET Fd
  BY DEF Reaped
<1>2. conn' = Erased(Marked, D)
  BY DEF TimerEvent
<1>3. \A u \in User :
        LET s == Released(D)[u]
        IN  session'[u] = s \/ (s # None /\ Expired(s) /\ session'[u] = None)
  BY DEF TimerEvent
<1> HIDE DEF D
<1>4. QED BY <1>1, <1>2, <1>3, DropMoves

\* Every step but the passing of time.
LEMMA EventMoves ==
    ASSUME IInv, Event \/ \E u \in User : Kick(u)
    PROVE  SessionMoves
<1>1. ASSUME NEW c \in Fd, ReadEvent(c) \/ WriteEvent(c) PROVE SessionMoves
  BY <1>1, SocketMoves
<1>2. CASE TimerEvent
  BY <1>2, TimerMoves
<1>3. ASSUME NEW u \in User, Kick(u) PROVE SessionMoves
  <2>1. session[u].connection \in Fd
    BY <1>3 DEF Kick, Attached, IInv, TypeOK, Session
  <2>2. QED BY <1>3, <2>1, DisconnectMoves DEF Kick
<1>4. \/ UNCHANGED session \/ TimerEvent \/ \E u \in User : Kick(u)
      \/ \E c \in Fd : ReadEvent(c) \/ WriteEvent(c)
  BY DEF Event, AcceptStart, AcceptDone, HangUp, Update, ConsoleMessage,
         Broadcast, Quit
<1>5. QED BY <1>1, <1>2, <1>3, <1>4, UntouchedMoves

\* Time changes the age of a session and nothing else of it.
LEMMA TickAges ==
    ASSUME IInv, Tick, NEW u \in User
    PROVE  /\ session[u] = None => session'[u] = None
           /\ session[u] # None =>
                /\ session'[u] # None
                /\ session'[u].connection = session[u].connection
                /\ session'[u].state = session[u].state
                /\ session'[u].gone = Older(session[u].gone, Grace)
<1>1. CASE session[u] = None
  BY <1>1 DEF Tick
<1>2. CASE session[u] # None
  <2> DEFINE s == session[u]
             a == [s EXCEPT !.gone = Older(s.gone, Grace)]
  <2>1. s \in Session
    BY <1>2 DEF IInv, TypeOK
  <2>2. session'[u] = a
    BY <1>2 DEF Tick
  <2>3. Older(s.gone, Grace) \in 0..Grace
    BY <2>1, ServerAssumption, OlderType DEF Session
  <2>4. /\ a \in Session /\ a.connection = s.connection /\ a.state = s.state
        /\ a.gone = Older(s.gone, Grace)
    BY <2>1, <2>3 DEF Session
  <2>5. a # None
    BY <2>4, NoneAssumption
  <2>6. QED BY <1>2, <2>2, <2>4, <2>5
<1>3. QED BY <1>1, <1>2

\* No step but one that erases a connection detaches its user.
LEMMA StaysAttached ==
    ASSUME IInv, [Next]_vars, NEW u \in User, Attached(u),
           conn'[session[u].connection] # None
    PROVE  Attached(u)'
<1>1. CASE SessionMoves
  BY <1>1 DEF SessionMoves, Moves, Attached, Expired
<1>2. CASE Tick
  BY <1>2, TickAges DEF Attached
<1>3. CASE UNCHANGED vars
  BY <1>3 DEF vars, Attached
<1>4. QED BY <1>1, <1>2, <1>3, EventMoves DEF Next

\* A connection that stays open is deprived of its session only by a login of
\* the same user on another connection (app.cpp handle_login_case); disconnect,
\* kick, reconnect_client and the timer never do it.
THEOREM OnlyLoginTakesASession == Spec => LostOnlyToLogin
<1> DEFINE Safe(c) ==
      Live(c) /\ HasSession(c) /\ Live(c)' /\ ~HasSession(c)' =>
        \E u \in Holders(c) : Attached(u)'
<1>1. ASSUME IInv, [Next]_vars, NEW c \in Fd PROVE Safe(c)
  <2> SUFFICES ASSUME HasSession(c), Live(c)'
               PROVE  \E u \in Holders(c) : Attached(u)'
    OBVIOUS
  <2>1. PICK u \in User : u \in Holders(c)
    BY DEF HasSession, Holders
  <2>2. Attached(u) /\ session[u].connection = c
    BY <2>1, ServerAssumption DEF Holders, Attached
  <2>3. Attached(u)'
    BY <1>1, <2>2, StaysAttached DEF Live
  <2>4. QED BY <2>1, <2>3
<1>2. IInv /\ [Next]_vars => [\A c \in Fd : Safe(c)]_vars
  BY <1>1
<1>3. QED BY <1>2, Invariance, PTL DEF Spec, LostOnlyToLogin
=============================================================================
