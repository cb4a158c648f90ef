----------------------------- MODULE ChatServer -----------------------------
(***************************************************************************)
(* The chat server: a single-threaded kqueue loop (server/app.cpp) over a  *)
(* table of TLS connections and a table of user sessions                   *)
(* (server/manager.cpp), with one receive buffer and one transmit queue    *)
(* per connection (server/io.cpp) and a packet dispatcher                  *)
(* (server/message_handler.cpp).                                           *)
(*                                                                         *)
(* One action is one event taken from kevent() and everything its handler  *)
(* does.  A kevent batch may hold stale events, so READ and WRITE events   *)
(* of a live connection are possible at any time.  /quit only clears       *)
(* p_running, which no other handler reads, so the rest of its batch may   *)
(* be placed before it.                                                    *)
(*                                                                         *)
(* Data: a packet is a record; a pointer to a connection is its descriptor *)
(* (std::map nodes do not move, and a descriptor names one node at a       *)
(* time); time is an age counted in ticks up to the threshold the code     *)
(* compares it with.                                                       *)
(***************************************************************************)
EXTENDS Integers, Sequences, FiniteSets

CONSTANTS
    Fd,           \* file descriptors accept() may return
    User,         \* usernames
    Token,        \* session tokens generate_token() may return
    Text,         \* chat message bodies
    None,         \* nullptr, an absent map entry, the server's own console
    ConnTimeout,  \* ticks of silence after which a connection times out (10 s)
    Grace,        \* ticks a disconnected session is kept (60 s)
    MaxRead,      \* bound: packets one SSL_read can return
    MaxRx,        \* bound: packets in a receive buffer
    MaxTx         \* bound: packets in a transmit queue

ASSUME ServerAssumption ==
    /\ ConnTimeout \in Nat \ {0}
    /\ Grace \in Nat \ {0}
    /\ MaxRead \in Nat \ {0}
    /\ MaxRx \in Nat
    /\ MaxTx \in Nat
    /\ None \notin Fd \cup User

(***************************************************************************)
(* Packets.  "Ping" stands for Ping and for every Command but /quit, which *)
(* falls through to the Ping case.  "Other" stands for every type that     *)
(* neither stage handles; "BadMagic" for a header without PROTOCOL_KEY.    *)
(***************************************************************************)
InPacket ==
    [type: {"Login", "Register"}, user: User]
      \cup [type: {"Reconnect"}, user: User, token: Token]
      \cup [type: {"Message"}, text: Text]
      \cup [type: {"Quit", "Ping", "Other", "BadMagic"}]

\* Ack "OK|token", Ack "OK", Ack "NO", Error "ERR", Pong, and U|from|text or
\* S|text (from = None).
OutPacket ==
    [type: {"Ack"}, token: Token]
      \cup [type: {"Registered", "No", "Err", "Pong"}]
      \cup [type: {"Message"}, from: User \cup {None}, text: Text]

Ack(t)        == [type |-> "Ack", token |-> t]
Reply(t)      == [type |-> t]
Post(from, m) == [type |-> "Message", from |-> from, text |-> m]

(***************************************************************************)
(* ClientConnection.  writeOn: EVFILT_WRITE is enabled for it; rww and wwr *)
(* are read_waiting_for_write and write_waiting_for_read.  peer is the     *)
(* other end: "up", "eof" (gone without close_notify, everything it sent   *)
(* has been read) or "closed" (it sent close_notify).                      *)
(***************************************************************************)
Connection ==
    [status : {"AwaitingAuth", "Authenticated", "Closing"},
     seen   : 0..ConnTimeout,
     rx     : Seq(InPacket),
     tx     : Seq(OutPacket),
     rww    : BOOLEAN,
     wwr    : BOOLEAN,
     writeOn: BOOLEAN,
     peer   : {"up", "eof", "closed"}]

\* ClientSession; gone is the age of disconnected_at.  Expired is set and
\* removed inside one timer event; Kicked is never stored (see Kick).
Session ==
    [state     : {"Connected", "Reconnected", "Disconnected"},
     connection: Fd \cup {None},
     token     : Token,
     gone      : 0..Grace]

ASSUME NoneAssumption == None \notin Connection \cup Session

VARIABLES
    conn,     \* connections_: Fd -> Connection, None when there is no entry
    session,  \* sessions_: User -> Session, None when there is no entry
    users,    \* usernames in database/user_pass.db
    server    \* "running", "accepting" (inside SSL_accept), "stopped" (/quit)
              \* or "crashed" (null dereference)

vars == <<conn, session, users, server>>

TypeOK ==
    /\ conn \in [Fd -> Connection \cup {None}]
    /\ session \in [User -> Session \cup {None}]
    /\ users \subseteq User
    /\ server \in {"running", "accepting", "stopped", "crashed"}

NewConnection ==
    [status |-> "AwaitingAuth", seen |-> 0, rx |-> <<>>, tx |-> <<>>,
     rww |-> FALSE, wwr |-> FALSE, writeOn |-> FALSE, peer |-> "up"]

NewSession(c, t) ==
    [state |-> "Connected", connection |-> c, token |-> t, gone |-> 0]

Live(c)     == conn[c] # None
Room(k)     == Len(k.tx) < MaxTx
Attached(u) == session[u] # None /\ session[u].connection # None
Holders(c)  == {u \in User : session[u] # None /\ session[u].connection = c}

\* find_sesssion_from_connection: the first session that points to c.
SessionOf(c) == IF Holders(c) = {} THEN None ELSE CHOOSE u \in Holders(c) : TRUE

-----------------------------------------------------------------------------
(***************************************************************************)
(* Effects on one record                                                   *)
(***************************************************************************)

\* Mutation: the write event is not enabled.
QueuedAsleep(k, p) == [k EXCEPT !.tx = Append(@, p)]

\* queue_write, then enable_write_event unless the connection waits to read.
Queued(k, p) == [k EXCEPT !.tx = Append(@, p), !.writeOn = @ \/ ~k.wwr]

\* Mutations: the session expires at once; its state is left alone; its
\* disconnected_at is left alone.
DetachedExpired(s) == [s EXCEPT !.connection = None, !.state = "Expired"]
DetachedStateKept(s) == [s EXCEPT !.connection = None]
DetachedClockKept(s) ==
    IF s.state = "Connected"
      THEN [s EXCEPT !.connection = None, !.state = "Disconnected"]
      ELSE [s EXCEPT !.connection = None]

\* What disconnect() does to the session it finds.
Detached(s) ==
    IF s.state = "Connected"
      THEN [s EXCEPT !.connection = None, !.state = "Disconnected", !.gone = 0]
      ELSE [s EXCEPT !.connection = None]

\* reconnect_client on the session; disconnected_at = {} is infinitely old.
Reattached(s, c) ==
    [s EXCEPT !.connection = c, !.state = "Reconnected", !.gone = Grace]

\* Mutations: disconnect() does not look for the session; it returns before it
\* erases the connection.
ReleasedNothing(D) == session
ErasedNothing(C, D) == C

\* The session and connection tables after disconnect() of every d in D: the
\* first session of each is released and the connection is erased.
Released(D) ==
    [u \in User |-> IF \E d \in D : SessionOf(d) = u
                      THEN Detached(session[u]) ELSE session[u]]

Erased(C, D) == [c \in Fd |-> IF c \in D THEN None ELSE C[c]]

-----------------------------------------------------------------------------
(***************************************************************************)
(* Effects on the tables                                                   *)
(***************************************************************************)
Update(c, k) ==
    /\ conn' = [conn EXCEPT ![c] = k]
    /\ UNCHANGED <<session, users, server>>

\* ClientManager::disconnect
Disconnect(c) ==
    /\ conn' = Erased(conn, {c})
    /\ session' = Released({c})
    /\ UNCHANGED <<users, server>>

\* A null session is dereferenced in handle_process_stream_result.
Crash ==
    /\ server' = "crashed"
    /\ UNCHANGED <<conn, session, users>>

\* Mutation: the sender hears itself.
ReceivesOwn(C, d, sender) == C[d] # None /\ C[d].status = "Authenticated"

\* broadcast() and the enable_write_event calls for the descriptors it returns.
Receives(C, d, sender) ==
    C[d] # None /\ d # sender /\ C[d].status = "Authenticated"

Broadcast(C, sender, p) ==
    /\ \A d \in Fd : Receives(C, d, sender) => Room(C[d])
    /\ conn' = [d \in Fd |-> IF Receives(C, d, sender)
                               THEN Queued(C[d], p) ELSE C[d]]
    /\ UNCHANGED <<session, users, server>>

-----------------------------------------------------------------------------
(***************************************************************************)
(* Before authentication: process_handshake_packet looks at one packet.    *)
(***************************************************************************)

\* Mutation: a failed lookup counts as a match.
VerifiedAnyone(u) == TRUE

\* verify_client: only a stored name can match; whether the password does is
\* left open.
Verified(u) == u \in users

\* handle_login_case, Authorized: the session entry is overwritten, whatever
\* connection it pointed to.
LoginAccepted(c, k, u) ==
    /\ Verified(u)
    /\ Room(k)
    /\ \E t \in Token :
         /\ conn' = [conn EXCEPT ![c] =
                       Queued([k EXCEPT !.status = "Authenticated",
                                        !.seen = 0], Ack(t))]
         /\ session' = [session EXCEPT ![u] = NewSession(c, t)]
    /\ UNCHANGED <<users, server>>

\* NotAuthorized, UserNotFound ("NO") and ExecFailed ("ERR").
LoginRefused(c, k) ==
    /\ Room(k)
    /\ \E t \in {"No", "Err"} :
         Update(c, Queued([k EXCEPT !.status = "Closing"], Reply(t)))

\* register_client and handle_register_client_status.
Register(c, k, u) ==
    \/ /\ u \notin users
       /\ Room(k)
       /\ users' = users \cup {u}
       /\ conn' = [conn EXCEPT ![c] = Queued(k, Reply("Registered"))]
       /\ UNCHANGED <<session, server>>
    \/ Disconnect(c)    \* UsernameExists or a database failure

\* verify_session, then reconnect_client.  A session that is not Disconnected
\* is left alone and the connection stays AwaitingAuth without an answer.
Reconnect(c, k, u, t) ==
    LET verified == session[u] # None /\ session[u].token = t IN
    \/ /\ verified
       /\ session[u].state = "Disconnected"
       /\ conn' = [conn EXCEPT ![c] = [k EXCEPT !.status = "Authenticated",
                                                !.seen = 0]]
       /\ session' = [session EXCEPT ![u] = Reattached(@, c)]
       /\ UNCHANGED <<users, server>>
    \/ verified /\ session[u].state # "Disconnected" /\ Update(c, k)
    \/ ~verified /\ Disconnect(c)

Handshake(c, k) ==
    LET p == Head(k.rx)
        r == [k EXCEPT !.rx = Tail(@)]
    IN  \/ p.type = "Login" /\ (LoginAccepted(c, r, p.user) \/ LoginRefused(c, r))
        \/ p.type = "Register" /\ Register(c, r, p.user)
        \/ p.type = "Reconnect" /\ Reconnect(c, r, p.user, p.token)
        \/ /\ p.type \notin {"Login", "Register", "Reconnect"}
           /\ Disconnect(c)

-----------------------------------------------------------------------------
(***************************************************************************)
(* After authentication: process_client_stream skips packets it has no     *)
(* case for, handles the first one it has a case for, and returns: what    *)
(* follows stays in rx until the next read.  A packet without the magic is *)
(* not consumed.                                                           *)
(***************************************************************************)
Skipped(p) == p.type \in {"Login", "Register", "Reconnect", "Other"}

\* handle_process_stream_result on packet i; every case but Ping dereferences
\* the session.
Dispatch(c, k, i) ==
    LET p == k.rx[i]
        r == [k EXCEPT !.rx = SubSeq(@, i + 1, Len(@))]
        u == SessionOf(c)
    IN  \/ u = None /\ p.type # "Ping" /\ Crash
        \/ u = None /\ p.type = "Ping" /\ Update(c, r)
        \/ /\ u # None /\ p.type = "BadMagic"
           /\ Update(c, [k EXCEPT !.rx = SubSeq(@, i, Len(@))])
        \/ u # None /\ p.type = "Quit" /\ Disconnect(c)
        \/ /\ u # None /\ p.type = "Ping" /\ Room(r)
           /\ Update(c, Queued([r EXCEPT !.seen = 0], Reply("Pong")))
        \/ /\ u # None /\ p.type = "Message"
           /\ Broadcast([conn EXCEPT ![c] = r], c, Post(u, p.text))

ProcessStream(c, k) ==
    \/ /\ \A i \in 1..Len(k.rx) : Skipped(k.rx[i])
       /\ Update(c, [k EXCEPT !.rx = <<>>])
    \/ \E i \in 1..Len(k.rx) :
         /\ \A j \in 1..(i - 1) : Skipped(k.rx[j])
         /\ ~Skipped(k.rx[i])
         /\ Dispatch(c, k, i)

-----------------------------------------------------------------------------
(***************************************************************************)
(* Socket events                                                           *)
(***************************************************************************)

\* handle_read and handle_read_result.  ConnectionClosed and Ignored have no
\* case there.
HandleRead(c, k) ==
    \/ k.status = "Closing" /\ Update(c, k)
    \/ /\ k.status # "Closing" /\ k.peer = "up"
       /\ \E n \in 1..MaxRead : \E ps \in [1..n -> InPacket] :
            LET r == [k EXCEPT !.rx = @ \o ps, !.rww = FALSE]
            IN  /\ Len(r.rx) <= MaxRx
                /\ IF r.status = "AwaitingAuth" THEN Handshake(c, r)
                                                ELSE ProcessStream(c, r)
    \/ k.status # "Closing" /\ k.peer = "up" /\ Update(c, [k EXCEPT !.rww = FALSE])
    \/ /\ k.status # "Closing" /\ k.peer = "up"
       /\ Update(c, [k EXCEPT !.rww = TRUE, !.writeOn = TRUE])
    \/ k.status # "Closing" /\ k.peer = "closed" /\ Update(c, k)
    \/ k.status # "Closing" /\ k.peer # "closed" /\ Disconnect(c)

\* flush_write and handle_flush_result: n packets leave, then the queue is
\* empty, SSL_write asks to wait, or it fails.
HandleFlush(c, k) ==
    \E n \in 0..Len(k.tx) :
      LET r    == [k EXCEPT !.tx = SubSeq(@, n + 1, Len(@)), !.wwr = FALSE]
          more == r.tx # <<>>
      IN  \/ ~more /\ r.status = "Closing" /\ Disconnect(c)
          \/ /\ ~more /\ r.status # "Closing"
             /\ Update(c, [r EXCEPT !.writeOn = @ /\ r.rww])
          \/ /\ more /\ k.peer # "eof"
             /\ Update(c, [r EXCEPT !.wwr = TRUE, !.writeOn = FALSE])
          \/ more /\ k.peer # "eof" /\ Update(c, [r EXCEPT !.writeOn = TRUE])
          \/ more /\ Disconnect(c)

\* Mutation: a write that waits to read is not resumed.
ReadEventNoResume(c) ==
    /\ server = "running"
    /\ Live(c)
    /\ ~conn[c].rww /\ ~conn[c].wwr
    /\ HandleRead(c, conn[c])

\* read_event
ReadEvent(c) ==
    /\ server = "running"
    /\ Live(c)
    /\ ~conn[c].rww
    /\ IF conn[c].wwr THEN HandleFlush(c, [conn[c] EXCEPT !.wwr = FALSE])
                      ELSE HandleRead(c, conn[c])

\* write_event
WriteEvent(c) ==
    /\ server = "running"
    /\ Live(c)
    /\ ~conn[c].wwr
    /\ IF conn[c].rww THEN HandleRead(c, [conn[c] EXCEPT !.rww = FALSE])
                      ELSE HandleFlush(c, conn[c])

\* client_connection_event: accept() returns a new socket, which is made
\* blocking, and SSL_accept runs the whole TLS handshake; until it returns, the
\* loop handles nothing else.
AcceptStart ==
    /\ server = "running"
    /\ \E c \in Fd : ~Live(c)
    /\ server' = "accepting"
    /\ UNCHANGED <<conn, session, users>>

\* The handshake fails (the socket is closed) or c joins the table.
AcceptDone ==
    /\ server = "accepting"
    /\ server' = "running"
    /\ \/ UNCHANGED conn
       \/ \E c \in Fd : ~Live(c) /\ conn' = [conn EXCEPT ![c] = NewConnection]
    /\ UNCHANGED <<session, users>>

-----------------------------------------------------------------------------
(***************************************************************************)
(* Timer and console                                                       *)
(***************************************************************************)

\* Mutations: connections with output pending are spared; the test on the
\* status is inverted.
TimedOutIdle(k) ==
    k.status = "Authenticated" /\ k.seen >= ConnTimeout /\ k.tx = <<>>
TimedOutInverted(k) == k.status = "AwaitingAuth" /\ k.seen >= ConnTimeout

\* mark_timed_out_connections
TimedOut(k) == k.status = "Authenticated" /\ k.seen >= ConnTimeout

Marked == [c \in Fd |-> IF Live(c) /\ TimedOut(conn[c])
                          THEN [conn[c] EXCEPT !.status = "Closing"]
                          ELSE conn[c]]

\* Mutation: the wrong buffer is tested.
ReapedByRx(C) == {c \in Fd : C[c] # None /\ C[c].status = "Closing" /\ C[c].rx = <<>>}

\* remove_timed_out_connections
Reaped(C) == {c \in Fd : C[c] # None /\ C[c].status = "Closing" /\ C[c].tx = <<>>}

\* Mutation: the test on the pointer is inverted.
ExpiredAttached(s) == s.state = "Disconnected" /\ s.connection # None /\ s.gone >= Grace

\* mark_expired_sessions and remove_expired_sessions
Expired(s) == s.state = "Disconnected" /\ s.connection = None /\ s.gone >= Grace

TimerEvent ==
    /\ server = "running"
    /\ conn' = Erased(Marked, Reaped(Marked))
    /\ LET S == Released(Reaped(Marked))
       IN  session' = [u \in User |-> IF S[u] # None /\ Expired(S[u])
                                        THEN None ELSE S[u]]
    /\ UNCHANGED <<users, server>>

\* console_write_event: Message, KickClient and Quit.
ConsoleMessage ==
    /\ server = "running"
    /\ \E m \in Text : Broadcast(conn, None, Post(None, m))

\* kick() marks a copy of the session as Kicked and disconnects its
\* connection; the stored session is the one disconnect() leaves.
Kick(u) ==
    /\ server = "running"
    /\ Attached(u)
    /\ Disconnect(session[u].connection)

Quit ==
    /\ server = "running"
    /\ server' = "stopped"
    /\ UNCHANGED <<conn, session, users>>

-----------------------------------------------------------------------------
(***************************************************************************)
(* Environment                                                             *)
(***************************************************************************)
Alive == server \in {"running", "accepting"}

HangUp(c) ==
    /\ Alive
    /\ Live(c)
    /\ conn[c].peer = "up"
    /\ \E e \in {"eof", "closed"} : Update(c, [conn[c] EXCEPT !.peer = e])

Older(age, limit) == IF age < limit THEN age + 1 ELSE age

Tick ==
    /\ Alive
    /\ conn' = [c \in Fd |->
                  IF Live(c)
                    THEN [conn[c] EXCEPT !.seen = Older(@, ConnTimeout)]
                    ELSE conn[c]]
    /\ session' = [u \in User |->
                     IF session[u] # None
                       THEN [session[u] EXCEPT !.gone = Older(@, Grace)]
                       ELSE session[u]]
    /\ UNCHANGED <<users, server>>

-----------------------------------------------------------------------------
Init ==
    /\ conn = [c \in Fd |-> None]
    /\ session = [u \in User |-> None]
    /\ users \in SUBSET User
    /\ server = "running"

\* Every step but a kick and the passing of time.
Event ==
    \/ AcceptStart \/ AcceptDone
    \/ \E c \in Fd : ReadEvent(c) \/ WriteEvent(c) \/ HangUp(c)
    \/ TimerEvent \/ ConsoleMessage \/ Quit

Next == Event \/ (\E u \in User : Kick(u)) \/ Tick

Spec == Init /\ [][Next]_vars
-----------------------------------------------------------------------------
(***************************************************************************)
(* Safety                                                                  *)
(***************************************************************************)

\* A session points to a live connection that has authenticated, and no two
\* sessions share one: disconnect(), kick() and find_sesssion_from_connection
\* never follow a dangling ClientConnection*.
SessionLink ==
    /\ \A u \in User : Attached(u) =>
         /\ Live(session[u].connection)
         /\ conn[session[u].connection].status # "AwaitingAuth"
    /\ \A u, v \in User :
         Attached(u) /\ Attached(v)
           /\ session[u].connection = session[v].connection => u = v

\* The state a session stores agrees with its pointer, so a session that was
\* cut off from its first connection can be reclaimed or will expire.
Coherent(s) ==
    /\ s.state = "Connected" => s.connection # None
    /\ s.state = "Disconnected" => s.connection = None

StateMatchesLink == \A u \in User : session[u] # None => Coherent(session[u])

\* Every session belongs to a registered account: no packet sequence opens a
\* session without a login that the database accepted.
SessionsAreAccounts == \A u \in User : session[u] # None => u \in users

\* No lost wakeup: whatever a connection waits for, an event it is registered
\* for will resume it.  EVFILT_READ is always on, so only the write filter can
\* be missing; and the two SSL waits never block each other, the state
\* write_event calls invalid.
Awake(k) ==
    /\ ~(k.rww /\ k.wwr)
    /\ k.rww => k.writeOn
    /\ k.tx # <<>> => k.writeOn \/ k.wwr
    /\ k.wwr => k.tx # <<>>

NoLostWakeup == \A c \in Fd : Live(c) => Awake(conn[c])

\* A connection that stays open loses its session only when its user is now
\* attached elsewhere, by a login on another connection.
HasSession(c) == Holders(c) # {}

LostOnlyToLogin ==
    [][\A c \in Fd :
         Live(c) /\ HasSession(c) /\ Live(c)' /\ ~HasSession(c)' =>
           \E u \in Holders(c) : Attached(u)']_vars
=============================================================================
