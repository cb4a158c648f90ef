---------------------------- MODULE ServerProcess ----------------------------
(***************************************************************************)
(* The server as a process (server/main.cpp, initialize, run, end): how it *)
(* starts and stops, which descriptors it holds, and the accounts database *)
(* that outlives it (server/authorization.cpp, server/sql_helper.cpp).     *)
(***************************************************************************)
EXTENDS Integers

CONSTANTS
    User,      \* usernames
    Password,  \* passwords; a hash stands for the password it was made from
    None,      \* no row in the users table
    Limit,     \* descriptors a process may hold
    Base,      \* held by a server without clients: the three standard streams,
               \* the listening socket and the kqueue
    MaxMisses  \* bound: calls answered with a miss

ASSUME ProcessAssumption ==
    /\ None \notin Password
    /\ Base \in Nat /\ Limit \in Nat /\ Base < Limit
    /\ MaxMisses \in Nat

VARIABLES
    table,     \* database/user_pass.db has its users table
    account,   \* the rows of the table
    phase,     \* of the process: "off", or "loop" (run)
    running,   \* p_running
    queue,     \* p_kq is a kqueue
    clients,   \* number of client sockets
    leaked,    \* number of database handles that were never closed
    answers,   \* every answer ever given that says something of an account
               \* (history)
    misses     \* calls since the start that were answered with a miss (history)

disk == <<table, account>>
process == <<phase, running, queue>>
vars == <<disk, process, clients, leaked, answers, misses>>

VerifyStatus == {"Authorized", "NotAuthorized", "UserNotFound", "ExecFailed"}
RegisterStatus == {"ClientRegistered", "UsernameExists", "ExecFailed",
                   "UnableToOpenDatabase", "UnknownError"}

Call(op, u, p, status) == [op |-> op, user |-> u, password |-> p, status |-> status]

Calls == [op: {"verify"}, user: User, password: Password, status: VerifyStatus]
           \cup [op: {"register"}, user: User, password: Password,
                 status: RegisterStatus]

\* The answers that say something of an account.
Telling == {"Authorized", "NotAuthorized", "ClientRegistered", "UsernameExists"}

\* A miss: a login for which no row was found or no statement prepared, or a
\* registration without a statement.
Missed(call) ==
    \/ call.op = "verify" /\ call.status \in {"UserNotFound", "ExecFailed"}
    \/ call.op = "register" /\ call.status = "UnknownError"

Used == Base + clients + leaked

\* The process never holds more descriptors than it may, and no account
\* exists without a table.
TypeOK ==
    /\ table \in BOOLEAN /\ account \in [User -> Password \cup {None}]
    /\ phase \in {"off", "loop"} /\ running \in BOOLEAN /\ queue \in BOOLEAN
    /\ clients \in Nat /\ leaked \in Nat /\ misses \in Nat
    /\ answers \subseteq Calls
    /\ Used <= Limit
    /\ ~table => \A u \in User : account[u] = None

-----------------------------------------------------------------------------
(***************************************************************************)
(* The database helpers.  SQLite may fail at any call; a handle takes a    *)
(* descriptor from sqlite3_open to sqlite3_close, and sqlite3_close fails  *)
(* while a statement is not finalized.                                     *)
(***************************************************************************)

\* Mutation: the table is made anew.
TableReplaced == table' = TRUE /\ account' = [u \in User |-> None]

TableCreated == table' = TRUE /\ UNCHANGED account

\* create_user_database: the directory, the open or the statement may fail,
\* and nobody looks at the result.
CreateUserDatabase == TableCreated \/ UNCHANGED disk

CanOpen    == Used < Limit
CanPrepare == CanOpen /\ table

\* What is kept of a call for the properties: the answer, whatever became of
\* the handle.
Answered(call) ==
    /\ answers' = IF call.status \in Telling THEN answers \cup {call} ELSE answers
    /\ IF Missed(call) THEN misses < MaxMisses /\ misses' = misses + 1
                       ELSE UNCHANGED misses

\* A call returns with its handle closed, or still open.
Closed(call)    == Answered(call) /\ UNCHANGED leaked
StillOpen(call) == Answered(call) /\ leaked' = leaked + 1

\* bcrypt::validatePassword
Matches(u, p) == account[u] = p

\* verify_client.  sqlite3_step may also fail for a name that has a row, and
\* that too is UserNotFound.
VerifyClient(u, p) ==
    /\ UNCHANGED disk
    /\ \/ /\ CanPrepare /\ account[u] # None
          /\ Closed(Call("verify", u, p,
                         IF Matches(u, p) THEN "Authorized" ELSE "NotAuthorized"))
       \/ CanPrepare /\ StillOpen(Call("verify", u, p, "UserNotFound"))
       \/ CanOpen /\ StillOpen(Call("verify", u, p, "ExecFailed"))
       \/ Closed(Call("verify", u, p, "ExecFailed"))    \* the open failed

\* Mutation: INSERT OR REPLACE.
Replaced(u, p) ==
    /\ account' = [account EXCEPT ![u] = p]
    /\ Closed(Call("register", u, p, "ClientRegistered"))

\* INSERT on a UNIQUE column: SQLITE_DONE.
Inserted(u, p) ==
    /\ account[u] = None
    /\ account' = [account EXCEPT ![u] = p]
    /\ Closed(Call("register", u, p, "ClientRegistered"))

\* Mutation: the handle stays open when the name exists.
RefusedOpen(u, p) ==
    /\ account[u] # None
    /\ StillOpen(Call("register", u, p, "UsernameExists"))
    /\ UNCHANGED account

\* SQLITE_CONSTRAINT
Refused(u, p) ==
    /\ account[u] # None
    /\ Closed(Call("register", u, p, "UsernameExists"))
    /\ UNCHANGED account

\* register_client
RegisterClient(u, p) ==
    /\ UNCHANGED table
    /\ \/ CanPrepare /\ (Inserted(u, p) \/ Refused(u, p))
       \/ /\ UNCHANGED account
          /\ \/ CanPrepare /\ Closed(Call("register", u, p, "ExecFailed"))
             \/ Closed(Call("register", u, p, "UnableToOpenDatabase"))
             \/ CanOpen /\ StillOpen(Call("register", u, p, "UnknownError"))

-----------------------------------------------------------------------------
(***************************************************************************)
(* The process                                                             *)
(***************************************************************************)

\* main calls run whatever initialize returned.  When bind fails, initialize
\* leaves before kqueue() and before it sets p_running: both members have
\* whatever was in their memory, and no number names a kqueue.
Initialize ==
    /\ phase = "off"
    /\ phase' = "loop"
    /\ \/ queue' = FALSE /\ running' \in BOOLEAN /\ UNCHANGED disk
       \/ queue' \in BOOLEAN /\ running' = TRUE /\ CreateUserDatabase
    /\ UNCHANGED <<clients, leaked, answers, misses>>

\* The process is gone, and its descriptors with it.
Exited ==
    /\ phase' = "off" /\ running' = FALSE /\ queue' = FALSE
    /\ clients' = 0 /\ leaked' = 0 /\ misses' = 0
    /\ UNCHANGED <<disk, answers>>

\* Mutation: every failure of kevent() is taken for an interruption.
LoopStopsOnQuit == ~running

\* run: p_running is cleared, or kevent() fails on what is not a kqueue.
LoopStops == ~running \/ ~queue

\* run returns; end.
End ==
    /\ phase = "loop"
    /\ LoopStops
    /\ Exited

\* The process is killed.
Killed == phase = "loop" /\ Exited

\* An event is being handled.
Serving == phase = "loop" /\ running /\ queue

\* accept_client takes a connection.  With no descriptor left, accept() fails
\* and the connection stays where it is.
Accept ==
    /\ Serving
    /\ Used < Limit
    /\ clients' = clients + 1
    /\ UNCHANGED <<disk, process, leaked, answers, misses>>

\* Mutation: a connection is closed once by its event and once by the timer.
DisconnectTwice ==
    /\ Serving
    /\ clients > 0
    /\ clients' = clients - 2
    /\ UNCHANGED <<disk, process, leaked, answers, misses>>

\* disconnect
Disconnect ==
    /\ Serving
    /\ clients > 0
    /\ clients' = clients - 1
    /\ UNCHANGED <<disk, process, leaked, answers, misses>>

\* A Login or Register packet of a client.
Authenticate ==
    /\ Serving
    /\ clients > 0
    /\ \E u \in User, p \in Password : VerifyClient(u, p) \/ RegisterClient(u, p)
    /\ UNCHANGED <<process, clients>>

\* /quit
Quit ==
    /\ Serving
    /\ running' = FALSE
    /\ UNCHANGED <<disk, phase, queue, clients, leaked, answers, misses>>

Init ==
    /\ table = FALSE /\ account = [u \in User |-> None]
    /\ phase = "off" /\ running = FALSE /\ queue = FALSE
    /\ clients = 0 /\ leaked = 0 /\ misses = 0
    /\ answers = {}

Next == Initialize \/ End \/ Killed \/ Accept \/ Disconnect \/ Authenticate \/ Quit

Spec == Init /\ [][Next]_vars

\* The program goes on.
FairSpec == Spec /\ WF_vars(End)

-----------------------------------------------------------------------------
\* An account is never lost and never changes hands: not when its name is
\* registered again, nor when the server is killed and started, nor when the
\* table is set up again.
AccountsKept ==
    [][\A u \in User : account[u] # None => account'[u] = account[u]]_vars

\* What an answer says of its account.
Holds(a) ==
    /\ a.status \in {"Authorized", "ClientRegistered"} =>
         account[a.user] = a.password
    /\ a.status = "NotAuthorized" => account[a.user] \notin {None, a.password}
    /\ a.status = "UsernameExists" => account[a.user] # None

\* Whatever clients have been told of an account, however long ago, is still
\* true: no later login, registration, failure, kill or restart falsifies it.
AnswersHold == \A a \in answers : Holds(a)

\* Only misses leave a handle open, one each at most: a login that is accepted
\* or refused and a registration that is stored or refused cost the server no
\* descriptor, so that one which has leaked n of them has answered at least n
\* times UserNotFound, ExecFailed to a login, or UnknownError.
LeaksAreMisses == leaked <= misses

\* A server that could not set up its socket or its kqueue ends; it does not
\* spin in a loop that no event can stop.
FailedStartEnds == phase = "loop" /\ ~queue ~> phase = "off"
=============================================================================
