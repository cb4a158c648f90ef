# A TLA+ model of TChat

TChat is a terminal chat room: a server hosts one room over TLS, clients log in
or register, and everything one of them writes reaches the others. This
directory holds TLA+ modules that model the program's C++ source, the TLC
configurations that check them, and proofs checked by TLAPS.

Paths below are relative to the repository.

## The system

| Component | State | Operations | Hard parts |
| --- | --- | --- | --- |
| **Connection and session tables** (`src/server/manager.cpp`) | `connections_`: descriptor -> buffers, status, `last_seen`, SSL wait flags; `sessions_`: user -> state, token, pointer to a connection | accept, disconnect, kick, pong, reconnect, mark/remove timed-out connections, mark/remove expired sessions | two tables tied by raw pointers; a session outlives its connection |
| **Event handlers** (`src/server/app.cpp`) | `p_running`, the kqueue filters | one handler per kevent: READ, WRITE, accept, timer, console | the order in which the kernel delivers events; SSL reads that wait to write and the reverse |
| **Packet dispatch** (`src/server/message_handler.cpp`) | none of its own | handshake packet, joined stream | one packet per call; what is consumed on an error |
| **Socket I/O** (`src/server/io.cpp`) | receive buffer, transmit queue and offset | `handle_read`, `flush_write`, `queue_write`, `broadcast`, the line editor | partial writes, retries, what stays inside OpenSSL, WANT_READ/WANT_WRITE |
| **Wire protocol** (`common/protocol.*`) | none | header and payload, names and texts joined by `\|` | packets cut anywhere; where each side cuts a payload |
| **Accounts** (`src/server/authorization.cpp`, `sql_helper.cpp`) | `database/user_pass.db` | create the table, verify, register | early returns that leave handles open; kills between calls |
| **Server process** (`src/server/main.cpp`, `initialize`, `run`, `end`) | the listening socket, the kqueue, `p_running`, descriptors | start, loop, quit, end | starts that fail half way; descriptors that run out |
| **Client event loop** (`src/client/app.cpp`) | `p_running`, `last_server_activity`, connection | connect, login/register, read, write, timer, console | a fatal error that does not stop the loop |
| **Client connection and I/O** (`connection.cpp`, `io.cpp`) | socket, SSL, buffers | establish, close, read, flush | the same SSL waits as the server's |
| **Client login and registration** (`src/client/authorization.cpp`) | none | blocking request/answer | which answers are understood |
| **Client packets** (`src/client/message_handler.cpp`) | none | message, pong, ack, error | malformed and partial packets |
| **Terminal interface** (`src/common/ui.cpp`) | windows, users' colour pairs | set up, clean up, print | pairs that run out or cannot be defined |
| **PNG parser** (`src/parser/`) | `Image` | load a file | chunking, filters, results that are ignored; not linked into either program |
| bcrypt (vendored), network helpers | | | see "Not modelled" |

The components interact as follows. The kernel hands the server loop a batch of
events. `run` looks each one up and calls one handler. A READ event fills the
receive buffer through SSL, then the dispatcher decodes packets and
`handle_handshake_client` or `handle_process_stream_result` changes the tables
and queues answers. A message is appended to the queue of everyone who has
joined except its author. WRITE events empty the queues. The timer marks silent
connections, removes the ones that are done, marks sessions whose connection is
long gone and removes those. The operator's console broadcasts, kicks and quits.
Nothing runs concurrently inside the server; what interleaves is the order of
events from several peers, the timer and the console. The one blocking call is
`SSL_accept`.

What makes each part correct:

* Tables: a session never points to a removed connection, no two sessions share
  one, a session's stored state agrees with its pointer, and a session is
  forgotten only after its grace period.
* Handlers: whatever SSL waits for, the event that resumes it is registered;
  peers that vanish are removed; a silent client is dropped.
* Dispatch: only an accepted login opens a session.
* I/O: everybody but the author gets each message, whole, in one order, and
  nothing queued is lost, repeated or overtaken unless its reader leaves; a
  retried `SSL_write` repeats its data.
* Payloads: what is shown is what was said, under the name of who said it.
* Heartbeats: no false alarm while the network works, none missing when it does
  not.
* Accounts and process: an answer about an account stays true over failures,
  kills and restarts.
* Terminal: users are told apart as long as it has colours, and keep theirs.

## Modules

| Module | What it is |
| --- | --- |
| `ChatServer`, `MCServer` | the server: tables, handlers, dispatch and I/O. One action per event and everything its handler does |
| `ChatRoom` | abstract: what the server promises the people in the room, without connections, sessions or SSL |
| `ServerRoom` | `ChatServer` implements `ChatRoom` (`INSTANCE ... WITH`): members are the `Authenticated` connections, an inbox is a transmit queue |
| `ServerObserver` | `ChatServer` with a history variable, `away`: how long each user has been without a connection |
| `MCRoom` | `ServerRoom` and `ServerObserver` for TLC |
| `ServerLiveness` | fairness of the server's loop and what must eventually happen |
| `DocClaims`, `MCLiveness` | statements of the documentation that the code does not keep, and the instances of both modules |
| `ChatClient`, `MCClient` | the client, from its first connection to its end |
| `Pipe` | abstract: packets arrive whole, once and in order |
| `Stream`, `MCStream` | one direction of a connection, from `queue_write` through `flush_write`, TLS records and `handle_read` to the packet handlers; implements `Pipe` |
| `Heartbeat`, `MCHeartbeat` | client and server together: pings, pongs and the timers of both |
| `ServerProcess`, `MCProcess` | starts, ends and kills of the server, its descriptors, and the accounts database that outlives it |
| `Payloads` | what stands in the payloads of handshakes and messages: joined with `\|` by one program, taken apart by the other |
| `Colours` | the table of users' colour pairs |
| `ClientScreen`, `MCScreen` | composes the two: what reaches one client, in the colours its terminal gives to the senders |
| `ServerProofs`, `RoomProofs` | theorems about `ChatServer`; about `ServerRoom` and `ServerObserver` |
| `ClientProofs`, `StreamProofs`, `HeartbeatProofs`, `ProcessProofs` | theorems about `ChatClient`, `Stream`, `Heartbeat`, `ServerProcess` |
| `ScreenProofs` | theorems about `ClientScreen`, with `Payloads` and `Colours` |
| `LeastElement` | lemmas: sets of natural numbers have least elements, and induction over such a set |

The modules overlap where two questions need different detail of the same code.
`ChatServer` and `ChatClient` have every handler, with packets as records that
arrive whole; `Stream` justifies that for one direction of one connection;
`Payloads` says what the records carry; `Heartbeat` composes the two programs'
timers with a network between them; `ServerProcess` is the life around the loop.

### How ChatServer corresponds to the code

`conn` is `connections_` and `session` is `sessions_`, with `None` for an absent
entry; `users` is the set of names in the database; `server` tells the running
loop, the loop inside `SSL_accept`, a loop ended by `/quit` and a process killed
by a null dereference apart. A `ClientConnection*` is its descriptor: `std::map`
nodes do not move, and a descriptor names one node at a time.

| Action | Code |
| --- | --- |
| `ReadEvent(c)` | `read_event`: resumes a write that waits to read, or `handle_read`, `handle_read_result` and the dispatcher |
| `WriteEvent(c)` | `write_event`: resumes a read that waits to write, or `flush_write` and `handle_flush_result` |
| `AcceptStart`, `AcceptDone` | `client_connection_event` and `accept_client`, before and after the blocking `SSL_accept` |
| `TimerEvent` | `timer_event`: all four passes |
| `ConsoleMessage`, `Kick(u)`, `Quit` | `console_write_event` |
| `HangUp(c)`, `Tick` | the peer goes away; time passes |

Abstractions. A packet is a record; `"Ping"` stands for `Ping` and for the
commands that fall through to it, `"Other"` for every type nobody handles.
Passwords and hashes are a choice between the outcomes of `verify_client`. A time
is an age that stops at the threshold it is compared with. An SSL read returns
1 to `MaxRead` whole packets, nothing, one of the two waits, the end of the
stream or an error, as far as the state of the peer allows. A flush sends any
prefix of the queue, then finds it empty, waits or fails. READ and WRITE events
of a live connection are possible at any time, because a batch may hold events
that are no longer true; so no property rests on the kernel telling the truth,
and the liveness properties add the fairness they need.

### How ChatClient corresponds to the code

`phase` says where `initialize` or `run` is: `starting`, `menu`, `registering`
(the answer is awaited), `login`, `awaiting`, `chat`, `ended`. `conn` is
`p_manager.connection`, `running` is `p_running`, `batch` holds the events of the
last `kevent()` that are still to be handled. `inbox` and `peer` are the
environment: what the server has sent and the client has not read, and whether
the server is still there.

| Action | Code |
| --- | --- |
| `Connect`, `ChooseLogin` | `initialize`, up to the menu |
| `RegisterSend`, `RegisterAnswer` | `register_client`, `handle_register_status` |
| `LoginSend`, `LoginAnswer` | `login_client`, `handle_login_result`, `perform_login_action` with its reconnection, `init_chat` |
| `Wait` | `kevent()` returns a batch |
| `ReadEvent`, `WriteEvent`, `TimerEvent`, `ConsoleEvent` | the handlers of `run`, one event of the batch each |
| `LoopEnds`, `KeventFails` | `run` returns; `end` |
| `ServerSends`, `HangUp`, `Tick` | the server; time |

The batch is explicit here because the client's handlers share one connection: an
event of the batch may find that an earlier one closed it. Events of a batch are
handled to the last even when `p_running` is already false. The server writes
each packet with an `SSL_write` of its own, hence in a TLS record of its own, and
one `SSL_read` returns data of one record; so a read yields one packet and the
receive buffer is empty between reads. `"Invalid"` is a packet that
`process_data_stream` rejects; the server does relay one, because nothing stops a
user from registering an empty name and `U||text` is rejected. A
connection in the loop is `Authenticated`, so the branches of `handle_read` and
`handle_flush_result` for `Closing` cannot be taken; `NeverIgnored` is the part of
that worth checking.

### How Stream corresponds to the code

A unit is a stretch of bytes that knows its packet and its place in it. `queue`,
`offset`, `rx` are `tx_queue`, `tx_offset`, `rx_buffer`; `wire` holds TLS records
and `pending` what `SSL_read` has not returned of the current one, which kqueue
does not see. `held` is the data of an `SSL_write` that must be retried, for
which OpenSSL demands the same data. `Write` is one round of `flush_write`'s
loop, `Read` one `SSL_read` with the dispatch behind it: the server handles one
packet per read (`HandleOne`), the client all that are whole (`HandleAll`).

### How Heartbeat corresponds to the code

`activity` and `seen` are the ages of `last_server_activity` and `last_seen`,
`ping` and `sweep` the time to each program's next timer event. `ClientTimer` is
`handle_timer_event`; `ServerTimer` the two passes of `timer_event` over
connections, of which the second leaves a `Closing` connection whose queue is not
empty, at any number of timer events; `ClosingFlushed` is the end of its flush;
`ServerReads` and `ClientReads` the read handlers. The server closes
without `SSL_shutdown`, so the client sees a fatal read: its connection is
`dropped` and its loop goes on until its own timer.

### How ServerProcess corresponds to the code

`Initialize` is `main` calling `initialize` and then `run` whatever it returned;
after a failed `bind`, `p_running` and `p_kq` hold whatever was in memory. The
database helpers are one action each with every outcome: `StillOpen` are the
paths that return before `sqlite3_close`, or close with a statement that is not
finalized, `Closed` the others. `Exited` frees the descriptors and keeps the disk.
Two histories are kept by `Answered`, from the answer alone: `answers`, every one
ever given that says something of an account, and `misses`, how many did not find
a row or had no statement. Whether the handle was closed plays no part in them, so
that a path which leaves it open and answers anything else breaks `LeaksAreMisses`.

### How Payloads corresponds to the code

Names, passwords and texts are sequences of `Letters`, of which `|` is one; TLC takes
short ones of three letters.
`HandshakePayload` and `Request` are `login_client`/`register_client` and
`process_handshake_packet`; `UserPayload`, `ServerPayload` and `Message` are the
server's two broadcasts and the client's `process_data_stream`. `session` is the
name the server uses, `typed` what its user typed.

### How Colours and ClientScreen correspond to the code

`PrintMessage` is the first message shown of a user, with the three ways
`getUserColorPair` gives him a pair; `foreground` is what `init_pair` has set.
In `ClientScreen`, `StartUp` is `initialize` around the login, `EnterChat` the answer
with which `run` begins, `Show` a message that goes from `process_data_stream`
through `handle_process_stream_result` to `print_message`, `End` the end of the loop
and `end`. The other clients and the server are `Payloads`' own steps.

## Runs

A step that would exceed a bound is not taken.

| Run | Instance | What it shows |
| --- | --- | --- |
| `server` | 2 connections, 2 users, all bounds 1 | `TypeOK`; `SessionLink`, `StateMatchesLink`, `SessionsAreAccounts`, `NoLostWakeup` in every state; `LostOnlyToLogin` for every step |
| `room` | 2 connections, 1 user, queues of 2, `Grace` 2 | `RoomSpec`: every step of the server is a step of `ChatRoom` or changes nothing in it; `GraceHonoured`: no session is forgotten early |
| `liveness` | 1 connection, 2 users, ages and queues of 2 | `HungUpRemoved`, `SessionSettles`, and `ClosingRemoved` if peers read |
| `orphan` | 2 connections, 1 user | `OrphanReaped`, `SilentClientLeaves` |
| `client` | `Silence` 2, queues of 2, 1 line | `TypeOK`, `NoLostWakeup`, `NeverIgnored`, `NothingCarriedOver` in every state; `DoneEnds` and `SilenceNoticed` |
| `stream` | 3 packets of 2 or 5 units, headers of 2, reads of 3 and 5, short writes | `PipeSpec`, `RetriesMatch`, `NoneLeftBehind`; `AllArrive` to the client, `OneBehind` to the server |
| `heartbeat` | period 5, timeout 10, delay up to 2 | `NoFalseAlarm`, `NoticedInTime`; `PartTogether`: whoever goes is followed by the other, by the server if its flush ends |
| `process` | 2 users, 2 passwords, 8 descriptors, 4 misses | `AnswersHold`: every answer ever given about an account is still true; `LeaksAreMisses`, `AccountsKept`, `FailedStartEnds` |
| `screen` | 2 clients, names `a`, `a\|b`, `b` and the empty one, passwords `b`, `b\|b`, 2 messages, terminals of 4, 5, 6 and 64 pairs | `ShownAsSaid`, `LoginAsRegistered`, `SharedOnlyWhenFull`; `ColourKept` for every step |
| `doc_crash` | 2 connections, 1 user | violated: "Admin quitting ends the room" (`plan/ARCHITECTURE.md:252`). A second login of a user takes the session from the first connection, whose next message dereferences a null pointer (`app.cpp:289`) |
| `doc_reconnect` | same | violated: "Client has an option to reconnect" (`ARCHITECTURE.md:91`). After a second disconnection the session stays `Reconnected`, is refused and never expires |
| `doc_register` | as `client` | violated: "Receive and interpret server response" (`client/authorization.cpp:122`). The answer is compared with a local that nothing assigns, so no registration succeeds in the client, although the server stores the account |

Why the bounds are enough. *Server*: two connections and two users are enough for
one to take over, evict, broadcast to or outlive the other; a transmit queue of
two distinguishes a partial flush from a whole one; ages need one tick to tell
"not yet" from "due", two where a property is about the time between.
`room` and `orphan` are bounded by `NobodyHangsUp` (peers do not announce that
they go away; reads and writes may still fail), because `server` and `liveness`
cover the rest. *Stream*: a packet of 5 exceeds the server's read of 3 and not the
client's, one of 2 is a bare header, and three packets can be cut at every place
or joined. *Heartbeat*: the code's own seconds, and the longest delay for which
`Period + 2 Delay < Timeout`. *Process*: three descriptors above the base let
clients and leaked handles compete, and a fourth miss finds none left. *Screen*: `a|b` with `b` and `a` with `b|b`
make the same payload; two messages of different senders need two pairs, and the
terminals have none, one, two or more to give. The palette's wrap and the limit of
255 need more users than an instance can have: the proof covers them.

Deadlock checking is off in all of them: after `/quit` or the crash the server has
stopped, the client ends, messages are used up.

### Fairness

`KernelFairness`: the repeating EVFILT_TIMER fires again and again and time
passes; EVFILT_READ is level triggered, so the end of a stream is reported until
someone handles it; an enabled EVFILT_WRITE reports a socket whose peer is gone.
These are strong fairness conditions because the loop may be inside `SSL_accept`
and away from an event for a while. `HandshakesEnd`, a part of the server's
`LoopSpec`, says a peer finishes or drops the TLS handshake it started: the code
does not enforce it, and without it nothing on the server need ever happen again
(see "Where code and documents differ"). `PeersRead` says that a peer keeps
reading, so a flush that is retried does not fail to empty the queue each time;
only `ClosingRemoved` assumes it, because a `Closing` connection is not removed
before its queue is empty.

The client's `LoopSpec`: an event of a batch is handled and the loop goes on
(weak fairness; it is a sequential program), the repeating timer is reported again
and again whatever else is (strong fairness, since other batches may come first),
and time passes. Nothing is assumed of the server, the socket or the user.

`Stream`: `SSL_write` makes progress if it is called again and again on a socket
that takes data (strong: it may ask to wait in between), and a socket with bytes in
it is reported (weak, level triggered); nothing is assumed of `pending`, which no
event announces. `Heartbeat`: handlers run and time passes; `FlushEnds`, that a flush
of a `Closing` connection comes to its end, is a condition of `PartTogether` alone, and
of the one half of it in which the server follows: the peer reads, or TCP gives an
unanswered connection up and the write fails. The program itself sets no limit, and
without the condition such a connection may stay through every timer event. `ServerProcess`: a loop
that can end does. `ClientScreen` has no liveness and no fairness.

## Proofs

Everything below holds for every value of the constants that satisfies the named
assumptions of the module.

**Server** (`ServerAssumption`, `NoneAssumption`). The conjunction

    IInv == TypeOK /\ SessionLink /\ StateMatchesLink
              /\ SessionsAreAccounts /\ NoLostWakeup

holds initially, is preserved by every step, and hence (`TypeCorrect`,
`NoDanglingSession`, `StateAgreesWithLink`, `OnlyAccountsHaveSessions`,
`WakeupsAreNotLost`) each of its parts always holds. The parts are not all
inductive alone. `disconnect()` clears the pointer of the first session it finds;
that leaves no dangling pointer only if no two sessions share a connection, and
attaching a session to a connection keeps that true only if the connection was
nobody's, which follows from `SessionLink`'s statement that an attached
connection is past `AwaitingAuth`. A resumed SSL call works on a connection whose
wait flag was just cleared and which is not `Awake`; `HandleFlushInv` shows that
each outcome wakes it or removes it. The proof follows the layers of the model:
lemmas about records (`Queued`, `Detached`), about tables (`Released`, `Erased`),
about a working copy of a connection put back into the table (`WorkingInv`), then
one lemma per handler and one step per action in `NextInv`.

`OnlyLoginTakesASession` proves `LostOnlyToLogin`: each handler moves sessions only
in ways that `Moves` lists, and each of those leaves a connection that stays open
its session or attaches its user elsewhere.

`NoSessionForgottenEarly` (in `RoomProofs`) proves `GraceHonoured` with one more invariant, `ClockHolds`: the
age since `disconnected_at` of a `Disconnected` session is at most the time its
user has really been away. Sessions are erased only by the timer's last pass, which
takes those it has marked, and it marks at `Grace`.

`RoomImplemented` proves the refinement, `Spec => RoomSpec`: one lemma per handler maps
its step to `Join`, `Leave`, `Say` and the other steps of `ChatRoom` or to a stutter. It uses
`ServerProofs`' invariant where a handler works on the one connection of a session.

**Client** (`ClientAssumption`). `TypeOK`, `NoLostWakeup`, `NeverIgnored` and
`NothingCarriedOver`. The invariant adds that an event is pending only in the loop,
and that the connection is open and clean (nothing queued, no SSL call waiting)
while `initialize` talks to the server: `NoLostWakeup` starts from that when the
chat begins. `LoopStep` then says that a handler keeps the invariant if it leaves a
connection that is closed or awake.

**Stream** (`StreamAssumption`). `TypeOK`, `RetriesMatch`, `NoneLeftBehind` and the
refinement `Spec => PipeSpec`, which is in no single step: `Read` delivers what many
earlier `QueueWrite`, `Write` and `Read` steps left. The invariant `Linked` says that
everything between the two programs is one chain. The queue holds the last packets
sent, `got` the first ones; and from the place in the stream that the reader has
reached (`Reader`: the end of `rx`) to the one the writer has (`Writer`: `offset` in
the first queued packet) `pending` and the records of `wire` are pieces of known
packets, each beginning where the one before it ends (`Chain`). As a reading
continues exactly where `rx` ends, `rx` is never more than a part of one packet and
a new piece either extends or completes it. `HandleAll` is a recursive function:
`HandleAllDef` shows that it satisfies its equation, by induction on the length.
`NothingIsStranded` is the safe half of `AllArrive` and `OneBehind`: when no queue and no
socket holds anything, the chain's ends have met, but for the piece of one packet
that the server's `SSL_read` has not returned.

**Heartbeat** (`HeartbeatAssumption`: `Period + 2 Delay < Timeout`). `TypeOK` and
`NoFalseAlarm`, and `NoticedInTime`. The invariant says, while the network works, how old each clock can
be: `ClientIsFresh` and `ServerIsFresh` bound each age by what is still in flight
(a ping, its pong, and the time to the next timer event), `Announced` says that
whoever has gone has sent its end behind everything else, `Traffic` what may be
in flight. Each alone is lost at the step that turns one into the next.
For `NoticedInTime` (`SilenceIsNoticed`), `InReach` says that a clock will still be
below `Timeout + Period` at its next timer event and `Unanswered` that after the cut
a clock shows at least the time since.

**Process** (`ProcessAssumption`). `TypeOK`, `AnswersHold`, `LeaksAreMisses`,
`AccountsKept`: inductive together. `AnswersAreLasting` rests on `Kept`, that a row is
written only for a name that has none: it carries the whole set of answers over every
step (`AnswerStays`), and a call adds its own answer only (`AnsweredFacts`), which
`VerifyFacts` and `RegisterFacts` show to be true. `OnlyMissesLeak` needs of each path
that leaves a handle open that its answer is a miss (`StillOpenAccounted`); no other
path may leave one.

**Colours** (`ColoursAssumption`). `TypeOK`, `SharedOnlyWhenFull`, `ColourKept`, from
`InOrder`: pairs are given out in order and never past `max_pair`, so a shared pair
is one that was defined. The hash is any function to the naturals.

**Screen** (`ColoursAssumption`, `ScreenAssumption`: whatever can be typed is a
sequence of `Letters`, `|` is a letter, and `Users` has every name that the server
can read from a handshake, but the empty one). `PayloadsTyped`, `ShownAsSaid`,
`LoginAsRegistered`, and that `ClientScreen` implements `Colours` (`ScreenIsColoured`),
so that the results about colours hold on it (`ScreenKeepsColours`). The facts
about payloads come first: `RequestFacts` says that the server finds in a handshake
a name without bars and a password that make the same payload, and what was
typed if the name had no bar; `UserDecoded` that what is said under a name without
bars is read as it was said, or refused if the name is empty. The invariant `PInv` joins
the two sides. Each account is what the server found in some registration
(`AccountsKept`), and a member is in with a payload in which it found the same
(`LoggedIn`): names in the room therefore never have bars, which is what lets
`UserDecoded` apply to messages that have bars anywhere. What a client has shown
is the beginning of what it heard, and what is on its way decodes to the rest, one by
one (`Waiting`); after it closed the connection the first message it did not
show has no sender (`Missed`). `ScreenIsColoured` needs that too: a colour is only
asked for a sender in `Users`.

The library's induction rules take a predicate as a parameter, which the provers
cannot instantiate. `LeastElement` derives from the well-foundedness of `<` that a set of
numbers that is not empty has a least element (`HasLeast`) and that one that holds 0 and
successors is `Nat` (`SetInduction`); a proof defines the set it needs. `HandleAllDef` and
the first `|` of a payload (`MinFacts`) rest on it.

Only model-checked: the temporal properties (liveness under fairness and `ENABLED` are
out of the prover's reach), which are `HungUpRemoved`, `SessionSettles`,
`ClosingRemoved`, `OrphanReaped`, `SilentClientLeaves`, `DoneEnds`, `SilenceNoticed`,
`OneBehind`, `AllArrive`, `PartTogether` and `FailedStartEnds`. Every invariant and every
safety property that a passing run checks is also proved. No module uses a RECURSIVE operator.

## Where code and documents differ

Three differences have a run (`doc_...`). Others need none:

* Nobody refuses an empty user name (`client/authorization.cpp:103`,
  `server/authorization.cpp:42`), but a client takes a message from one, `U||text`,
  for an invalid packet and disconnects (`client/message_handler.cpp:61`), although
  "Server or Client sends a message, it is broadcasted to all other members"
  (`ARCHITECTURE.md:230`). `ShownAsSaid` excepts exactly this.
* `kick` sets `SessionState::Kicked` on a copy (`manager.cpp:157`), so a kicked user
  gets back in with its token (`ARCHITECTURE.md:251`).
* `SSL_accept` runs on a blocking socket inside the loop (`manager.cpp:50`), although
  "Functions are Non-blocking" (`ARCHITECTURE.md:10`): one silent peer stops everything.
* After a fatal read the client's loop goes on and takes lines that are shown as
  said and never sent (`client/app.cpp:231`), until its heartbeat timer.
* A packet without the protocol key is neither consumed nor its sender disconnected
  (`ARCHITECTURE.md:161` asks for it), so nothing behind it is ever handled.
* The second login of a user in use is accepted; `ChatServer` has what follows.
* A user registered as `SERVER` is shown like the server (`client/app.cpp:202`);
  no document reserves the name, and `Payloads` leaves it out.

Two things the models make visible: a line longer than the server's read of 1024
bytes leaves its end inside OpenSSL until the sender's next packet, at the latest
its ping (`OneBehind`); and a client whose server goes away while it logs in waits
in a read without a timeout.

## Not modelled

* The byte order of header fields: numbers are numbers.
* `src/parser/`: a PNG loader that neither program is linked with.
* The console's line editor (`read_console_input`): a key is read in a loop over one
  buffer inside one handler, and only its results matter to the loop around it.
* bcrypt and its cipher: vendored; a hash stands for its password.
* Layout and windows of the terminal, the prompts of login, and
  `src/common/network.cpp` (one `fcntl` each; their use is in the handlers).
* Certificates and the SSL context: a handshake succeeds or fails.
* On the server, the order of one kevent batch; instead any event of a live
  connection may occur at any time, which includes it. The client's is explicit.
* Packets of a size that a program refuses, beyond what it does with them.
* In `Payloads`: second logins, tokens, and reconnections, which no client sends.

## Plan

Done: `ChatServer` with its room, liveness and proofs; `ChatClient`; the stream; the
heartbeat; the process and its accounts; payloads, colours and the screen that
composes them; proofs of every invariant, action property and refinement that a run
checks.

Left: a batch on the server, if the handlers ever share state the way the client's
do; safety lemmas under the other liveness properties, as `NothingIsStranded` is; the byte
order of headers.
