----------------------------- MODULE ChatClient -----------------------------
(***************************************************************************)
(* The chat client (client/app.cpp): it connects, registers or logs in     *)
(* over a blocking socket (client/authorization.cpp), then runs a kqueue   *)
(* loop over the socket, the keyboard and a 5 s timer.                     *)
(*                                                                         *)
(* One action is one blocking exchange with the server or one event of the *)
(* batch kevent() returned.  The whole batch is handled, whatever its      *)
(* first events do to the connection or to p_running.                      *)
(*                                                                         *)
(* Data: every SSL_write of the server makes a TLS record of its own, so a *)
(* read yields one packet; rx_buffer is empty between two reads.  Time is  *)
(* an age counted in ticks up to the threshold the code compares it with.  *)
(* p_token and p_num_reconnects are never read: the client does not send   *)
(* Reconnect.                                                              *)
(***************************************************************************)
EXTENDS Integers, Sequences

CONSTANTS
    Text,     \* lines the user may type
    Silence,  \* ticks without a Pong after which the server is given up (10 s)
    MaxTx,    \* bound: packets in the transmit queue
    MaxIn     \* bound: packets the server has sent and the client has not read

ASSUME ClientAssumption ==
    /\ Silence \in Nat \ {0}
    /\ MaxTx \in Nat
    /\ MaxIn \in Nat

OutPacket ==
    [type: {"Register", "Login", "Ping"}] \cup [type: {"Message"}, text: Text]

\* Ack "OK|token", Ack "OK", Ack "NO", Error "ERR".
Answer == {"Ack", "Registered", "No", "Err"}

\* "Invalid" is anything process_data_stream rejects.  The server relays one:
\* a message of a user whose name is empty (U||text).
RoomPacket == {"Pong", "Message", "Invalid"}

(***************************************************************************)
(* ClientConnection: open is fd >= 0 with an SSL; writeOn is EVFILT_WRITE; *)
(* idle is the age of last_server_activity.                                *)
(***************************************************************************)
Connection ==
    [open   : BOOLEAN,
     status : {"AwaitingAuth", "Authenticated", "Closing"},
     tx     : Seq(OutPacket),
     rww    : BOOLEAN,
     wwr    : BOOLEAN,
     writeOn: BOOLEAN,
     idle   : 0..Silence]

VARIABLES
    phase,    \* where initialize() or run() is
    conn,     \* p_manager.connection
    running,  \* p_running
    batch,    \* events of the last kevent() that are still to be handled
    inbox,    \* packets on their way from the server
    peer      \* the server's end: "up", "eof", "closed" (close_notify) or
              \* "none" when there is no connection

vars == <<phase, conn, running, batch, inbox, peer>>

TypeOK ==
    /\ phase \in {"starting", "menu", "registering", "login", "awaiting",
                  "chat", "ended"}
    /\ conn \in Connection
    /\ running \in BOOLEAN
    /\ batch \subseteq {"read", "write", "timer", "console"}
    /\ inbox \in Seq(Answer \cup RoomPacket)
    /\ peer \in {"up", "eof", "closed", "none"}

-----------------------------------------------------------------------------
(***************************************************************************)
(* Effects on the connection                                               *)
(***************************************************************************)

\* Mutations: the queue is not cleared; the status is a session's.
DisconnectedDirty(k) == [k EXCEPT !.open = FALSE, !.status = "Closing",
                                  !.writeOn = FALSE]
DisconnectedMixed(k) ==
    [k EXCEPT !.open = FALSE, !.status = "Disconnected", !.tx = <<>>,
              !.rww = FALSE, !.wwr = FALSE, !.writeOn = FALSE]

\* disconnect: close_connection unless it is closed already.
Disconnected(k) ==
    IF k.open
      THEN [k EXCEPT !.open = FALSE, !.status = "Closing", !.tx = <<>>,
                     !.rww = FALSE, !.wwr = FALSE, !.writeOn = FALSE]
      ELSE k

\* Mutation: the status of the last connection is kept.
EstablishedStale(k) == [k EXCEPT !.open = TRUE]

\* establish_connection, when it succeeds.
Established(k) == [k EXCEPT !.open = TRUE, !.status = "AwaitingAuth"]

\* Mutation: the write filter is not enabled.
QueuedAsleep(k, p) == [k EXCEPT !.tx = Append(@, p)]

\* queue_write, and enable_write_event if the queue was empty.
Queued(k, p) ==
    [k EXCEPT !.tx = Append(@, p), !.writeOn = @ \/ (k.open /\ k.tx = <<>>)]

Room(k) == Len(k.tx) < MaxTx

\* The connection becomes k; `in` is still to be read.
Link(k, in) ==
    /\ conn' = k
    /\ inbox' = IF k.open THEN in ELSE <<>>
    /\ peer' = IF k.open THEN peer ELSE "none"

\* The program ends: end() disconnects.
Exit(k) ==
    /\ phase' = "ended"
    /\ running' = FALSE
    /\ batch' = {}
    /\ Link(Disconnected(k), <<>>)

\* establish_connection from k in phase p, or the program ends.
Connecting(k, p) ==
    \/ Exit(k)
    \/ /\ phase' = p
       /\ conn' = Established(k)
       /\ inbox' = <<>>
       /\ peer' = "up"
       /\ UNCHANGED <<running, batch>>

-----------------------------------------------------------------------------
(***************************************************************************)
(* initialize: blocking exchanges.  A flush that does not empty the queue  *)
(* and a read that returns no data count as a lost connection.             *)
(***************************************************************************)
Connect == phase = "starting" /\ Connecting(conn, "menu")

ChooseLogin ==
    /\ phase = "menu"
    /\ phase' = "login"
    /\ UNCHANGED <<conn, running, batch, inbox, peer>>

\* The packet is sent and the answer awaited in phase p.
Sent(p) ==
    /\ phase' = p
    /\ Link([conn EXCEPT !.tx = <<>>, !.wwr = FALSE], inbox)
    /\ UNCHANGED <<running, batch>>

\* What a flush that failed leaves.
Unsent(type) ==
    {[conn EXCEPT !.tx = Append(@, [type |-> type]), !.wwr = w] : w \in BOOLEAN}

\* register_client, up to the answer.
RegisterSend ==
    /\ phase = "menu"
    /\ \/ Sent("registering")
       \/ \E k \in Unsent("Register") : Exit(k)

\* The answer is compared with the local `message`, which nothing assigns.
RegisterStatus(p) ==
    LET message == ""
    IN  CASE p \in {"Ack", "Registered", "No"} /\ message = "OK" -> "Registered"
          [] p \in {"Ack", "Registered", "No"} /\ message = "NO" -> "UserAlreadyExists"
          [] p = "Err" /\ message = "ERR" -> "SQLErr"
          [] OTHER -> "ProtocolError"

Lost == inbox = <<>> /\ peer # "up"

\* The rest of register_client, and handle_register_status.
RegisterAnswer ==
    /\ phase = "registering"
    /\ \/ /\ inbox # <<>>
          /\ IF RegisterStatus(Head(inbox)) = "Registered"
               THEN /\ phase' = "login"
                    /\ Link(conn, Tail(inbox))
                    /\ UNCHANGED <<running, batch>>
               ELSE Exit(conn)
       \/ Lost /\ Exit(conn)

\* perform_login_action, RetryLogin: another connection, then another login.
Retry(k) == Connecting(Disconnected(k), "login")

\* login_client, up to the answer.
LoginSend ==
    /\ phase = "login"
    /\ \/ Sent("awaiting")
       \/ \E k \in Unsent("Login") : Retry(k)

\* init_chat, when it succeeds.
EnterChat ==
    /\ phase' = "chat"
    /\ running' = TRUE
    /\ Link([conn EXCEPT !.status = "Authenticated", !.idle = 0], Tail(inbox))
    /\ UNCHANGED batch

\* The rest of login_client, handle_login_result and perform_login_action.
LoginAnswer ==
    /\ phase = "awaiting"
    /\ \/ Lost /\ Retry(conn)
       \/ inbox # <<>> /\ Head(inbox) = "No" /\ Retry(conn)
       \/ inbox # <<>> /\ Head(inbox) = "Ack" /\ (EnterChat \/ Exit(conn))
       \/ inbox # <<>> /\ Head(inbox) \notin {"No", "Ack"} /\ Exit(conn)

-----------------------------------------------------------------------------
(***************************************************************************)
(* Events of the loop.  An open connection is Authenticated here, so the   *)
(* cases for Closing of handle_read and handle_flush_result do not arise.  *)
(***************************************************************************)
Stay(k, in) == Link(k, in) /\ UNCHANGED running

\* disconnect() alone, and with p_running = false.
Drop(k) == Link(Disconnected(k), <<>>) /\ UNCHANGED running
Stop(k) == Link(Disconnected(k), <<>>) /\ running' = FALSE

\* process_received_data
Received(k, p) ==
    \/ p = "Pong" /\ Stay([k EXCEPT !.idle = 0], Tail(inbox))
    \/ p = "Invalid" /\ Drop(k)
    \/ p \notin {"Pong", "Invalid"} /\ Stay(k, Tail(inbox))

\* handle_read and handle_read_result: data, WantRead, WantWrite,
\* ConnectionClosed, FatalError.  Only the last but one stops the loop.
HandleRead(k) ==
    \/ inbox # <<>> /\ Received([k EXCEPT !.rww = FALSE], Head(inbox))
    \/ k.open /\ ~Lost /\ Stay([k EXCEPT !.rww = FALSE], inbox)
    \/ k.open /\ ~Lost /\ Stay([k EXCEPT !.rww = TRUE, !.writeOn = TRUE], inbox)
    \/ Lost /\ peer = "closed" /\ Stop(k)
    \/ Lost /\ peer # "closed" /\ Drop(k)

\* flush_write and handle_flush_result: n packets leave, then the queue is
\* empty, SSL_write asks to wait, or it fails.
HandleFlush(k) ==
    \/ ~k.open /\ Stop(k)
    \/ /\ k.open
       /\ \E n \in 0..Len(k.tx) :
            LET r    == [k EXCEPT !.tx = SubSeq(@, n + 1, Len(@)), !.wwr = FALSE]
                more == r.tx # <<>>
            IN  \/ ~more /\ Stay([r EXCEPT !.writeOn = @ /\ r.rww], inbox)
                \/ /\ more /\ peer # "eof"
                   /\ Stay([r EXCEPT !.wwr = TRUE, !.writeOn = FALSE], inbox)
                \/ /\ more /\ peer # "eof"
                   /\ Stay([r EXCEPT !.writeOn = TRUE], inbox)
                \/ more /\ Stop(r)

ReadEvent ==
    /\ "read" \in batch
    /\ \/ conn.rww /\ Stay(conn, inbox)
       \/ ~conn.rww /\ conn.wwr /\ HandleFlush([conn EXCEPT !.wwr = FALSE])
       \/ ~conn.rww /\ ~conn.wwr /\ HandleRead(conn)
    /\ batch' = batch \ {"read"}
    /\ UNCHANGED phase

WriteEvent ==
    /\ "write" \in batch
    /\ \/ conn.wwr /\ Stay(conn, inbox)
       \/ ~conn.wwr /\ conn.rww /\ HandleRead([conn EXCEPT !.rww = FALSE])
       \/ ~conn.wwr /\ ~conn.rww /\ HandleFlush(conn)
    /\ batch' = batch \ {"write"}
    /\ UNCHANGED phase

\* Mutations: a closed connection is not given up; the last tick is missed.
TimedOutOpen(k) == k.open /\ k.idle >= Silence
TimedOutLate(k) == k.idle > Silence

TimedOut(k) == k.idle >= Silence

\* handle_timer_event
TimerEvent ==
    /\ "timer" \in batch
    /\ \/ TimedOut(conn) /\ Stop(conn)
       \/ /\ ~TimedOut(conn) /\ Room(conn)
          /\ Stay(Queued(conn, [type |-> "Ping"]), inbox)
    /\ batch' = batch \ {"timer"}
    /\ UNCHANGED phase

\* console_write_event: a line, /quit, or nothing complete or valid.
ConsoleEvent ==
    /\ "console" \in batch
    /\ \/ /\ Room(conn)
          /\ \E m \in Text :
               Stay(Queued(conn, [type |-> "Message", text |-> m]), inbox)
       \/ Link(conn, inbox) /\ running' = FALSE
       \/ Stay(conn, inbox)
    /\ batch' = batch \ {"console"}
    /\ UNCHANGED phase

\* What kevent() may return; the filters of a closed socket are gone.
Ready ==
    {"timer", "console"}
      \cup (IF conn.open THEN {"read"} ELSE {})
      \cup (IF conn.open /\ conn.writeOn THEN {"write"} ELSE {})

Wait ==
    /\ phase = "chat"
    /\ running
    /\ batch = {}
    /\ batch' \in SUBSET Ready \ {{}}
    /\ UNCHANGED <<phase, conn, running, inbox, peer>>

\* p_running is found false; kevent() fails.
LoopEnds == phase = "chat" /\ ~running /\ batch = {} /\ Exit(conn)
KeventFails == phase = "chat" /\ running /\ batch = {} /\ Exit(conn)

-----------------------------------------------------------------------------
(***************************************************************************)
(* Environment                                                             *)
(***************************************************************************)

\* Whether the server has answered the login with a token.
Joined == phase = "chat" \/ (phase = "awaiting" /\ inbox # <<>> /\ Head(inbox) = "Ack")

\* The server answers a registration it accepts and every login, and sends the
\* room's packets to a client that has joined.
ServerSends ==
    /\ peer = "up"
    /\ Len(inbox) < MaxIn
    /\ \E p \in Answer \cup RoomPacket :
         /\ \/ phase = "registering" /\ inbox = <<>> /\ p = "Registered"
            \/ phase = "awaiting" /\ inbox = <<>> /\ p \in {"Ack", "No", "Err"}
            \/ Joined /\ p \in RoomPacket
         /\ inbox' = Append(inbox, p)
    /\ UNCHANGED <<phase, conn, running, batch, peer>>

\* The server goes away; a reset may discard what is on its way.
HangUp ==
    /\ peer = "up"
    /\ \/ peer' = "closed" /\ UNCHANGED inbox
       \/ peer' = "eof" /\ inbox' \in {inbox, <<>>}
    /\ UNCHANGED <<phase, conn, running, batch>>

Tick ==
    /\ phase = "chat"
    /\ conn.idle < Silence
    /\ conn' = [conn EXCEPT !.idle = @ + 1]
    /\ UNCHANGED <<phase, running, batch, inbox, peer>>

-----------------------------------------------------------------------------
Init ==
    /\ phase = "starting"
    /\ conn = [open |-> FALSE, status |-> "AwaitingAuth", tx |-> <<>>,
               rww |-> FALSE, wwr |-> FALSE, writeOn |-> FALSE, idle |-> 0]
    /\ running = FALSE
    /\ batch = {}
    /\ inbox = <<>>
    /\ peer = "none"

Start == Connect \/ ChooseLogin \/ RegisterSend \/ RegisterAnswer \/ LoginSend \/ LoginAnswer

Handle == ReadEvent \/ WriteEvent \/ TimerEvent \/ ConsoleEvent

Next ==
    \/ Start
    \/ Wait \/ Handle \/ LoopEnds \/ KeventFails
    \/ ServerSends \/ HangUp \/ Tick

Spec == Init /\ [][Next]_vars

(***************************************************************************)
(* Fairness: every event of a batch is handled and the loop goes on; the   *)
(* repeating timer is reported again and again; time passes.               *)
(***************************************************************************)
TimerFires == Wait /\ "timer" \in batch'

LoopSpec ==
    /\ Spec
    /\ WF_vars(Handle) /\ WF_vars(LoopEnds)
    /\ SF_vars(TimerFires)
    /\ WF_vars(Tick)

-----------------------------------------------------------------------------
(***************************************************************************)
(* Properties                                                              *)
(***************************************************************************)

\* No lost wakeup: in the loop, whatever an open connection waits for, an event
\* it is registered for resumes it, although Pings and lines enable the write
\* filter only when the queue was empty; and the two SSL waits never meet.
Awake(k) ==
    /\ ~(k.rww /\ k.wwr)
    /\ k.rww => k.writeOn
    /\ k.tx # <<>> => k.writeOn \/ k.wwr
    /\ k.wwr => k.tx # <<>>

NoLostWakeup == phase = "chat" /\ conn.open => Awake(conn)

\* handle_read ignores a connection that is Closing: one that is open never is,
\* though close_connection left the status of the last one at Closing.
NeverIgnored == conn.open => conn.status # "Closing"

\* What one connection left unsent (credentials whose flush failed, a wait of
\* its SSL) is not carried over to the next one, on which the user is asked
\* again.
NothingCarriedOver ==
    phase \in {"menu", "login"} =>
      conn.open /\ conn.tx = <<>> /\ ~conn.rww /\ ~conn.wwr /\ ~conn.writeOn

\* The loop does not outlive its purpose: once the server has gone, the client
\* has dropped it, or the user has quit, the program ends.  After a fatal read
\* or an invalid packet only the timer brings that about.
DoneEnds == (phase = "chat" /\ (peer # "up" \/ ~running)) ~> phase = "ended"

\* A server that stays silent is given up, whatever the connection waits for.
SilenceNoticed ==
    (phase = "chat" /\ conn.idle >= Silence)
      ~> (phase = "ended" \/ conn.idle < Silence)

(***************************************************************************)
(* Statements of the repository that the code does not keep                *)
(***************************************************************************)

\* "Receive and interpret server response" (client/authorization.cpp:122): a
\* client whose registration the server confirms goes on to log in.
ConfirmedGoesOn ==
    [][phase = "registering" /\ inbox # <<>> /\ Head(inbox) = "Registered"
         /\ phase' # phase => phase' = "login"]_vars
=============================================================================
