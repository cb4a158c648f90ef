------------------------------ MODULE Heartbeat ------------------------------
(***************************************************************************)
(* How the client and the server find out about each other: the client     *)
(* pings at every timer event and gives the server up when no Pong has     *)
(* come for Timeout; the server answers, and its own timer drops a client  *)
(* that has not pinged for Timeout.                                        *)
(*                                                                         *)
(* Time is discrete.  A timer event is handled in the tick in which it is  *)
(* due, and what one program queues is handled by the other within Delay   *)
(* ticks, in order, while the network works.  Chat messages refresh        *)
(* neither clock and are left out.                                         *)
(***************************************************************************)
EXTENDS Integers, Sequences

CONSTANTS
    Period,    \* between two timer events, of either program (5 s)
    Timeout,   \* silence after which a program gives the other up (10 s)
    Delay      \* longest way of a packet from queue to handler

\* The round trip is shorter than what Timeout leaves for a late answer.
ASSUME HeartbeatAssumption ==
    /\ Period \in Nat \ {0}
    /\ Timeout \in Nat
    /\ Delay \in Nat
    /\ Period + 2 * Delay < Timeout

VARIABLES
    client,    \* "joining" (its login awaits the Ack), "chat", "dropped"
               \* (connection closed, loop running) or "ended"
    activity,  \* age of last_server_activity
    ping,      \* ticks to the client's next timer event
    status,    \* of the server's connection: "Authenticated", "Closing" or
               \* "removed"
    seen,      \* age of last_seen
    sweep,     \* ticks to the server's next timer event
    up,        \* to the server: packets with their ages; "Fin" is the close
    down,      \* to the client
    network,   \* "works" or "cut": nothing arrives any more
    cutFor     \* ticks since it was cut (history)

vars == <<client, activity, ping, status, seen, sweep, up, down, network, cutFor>>
clientVars == <<client, activity, ping>>
serverVars == <<status, seen, sweep>>

Flight(types) == Seq([type: types, age: 0..Delay])

\* The longest a program can take to notice: Timeout has passed at the latest
\* one Period before the timer event that sees it.
Notice == Timeout + Period

TypeOK ==
    /\ client \in {"joining", "chat", "dropped", "ended"}
    /\ status \in {"Authenticated", "Closing", "removed"}
    /\ activity \in 0..Notice /\ seen \in 0..Notice
    /\ ping \in 0..Period /\ sweep \in 0..Period
    /\ up \in Flight({"Ping", "Fin"})
    /\ down \in Flight({"Ack", "Pong", "Fin"})
    /\ network \in {"works", "cut"}
    /\ cutFor \in 0..Notice

Sent(flight, type) ==
    IF network = "works" THEN Append(flight, [type |-> type, age |-> 0])
                         ELSE flight

\* The client's loop runs.
Looping == client \in {"chat", "dropped"}

-----------------------------------------------------------------------------
\* Mutation: more than Timeout.
LateStrict(age) == age > Timeout

Late(age) == age >= Timeout

\* Mutation: nothing is done for a connection that is closed.
ClientTimerOpen ==
    /\ Looping /\ ping = 0
    /\ ping' = Period
    /\ IF client = "chat" /\ Late(activity)
         THEN client' = "ended" /\ up' = Sent(up, "Fin")
         ELSE /\ up' = IF client = "chat" THEN Sent(up, "Ping") ELSE up
              /\ UNCHANGED client
    /\ UNCHANGED <<activity, serverVars, down, network, cutFor>>

\* handle_timer_event: the server is given up, or a Ping is queued; in a
\* dropped connection it stays there.
ClientTimer ==
    /\ Looping /\ ping = 0
    /\ ping' = Period
    /\ IF Late(activity)
         THEN /\ client' = "ended"
              /\ up' = IF client = "chat" THEN Sent(up, "Fin") ELSE up
         ELSE /\ up' = IF client = "chat" THEN Sent(up, "Ping") ELSE up
              /\ UNCHANGED client
    /\ UNCHANGED <<activity, serverVars, down, network, cutFor>>

\* timer_event: mark_timed_out_connections, then
\* remove_timed_out_connections, which disconnects a Closing connection only if
\* its queue is empty, at this timer event as at any later one.
ServerTimer ==
    LET closing == \/ status = "Closing"
                   \/ status = "Authenticated" /\ Late(seen)
    IN  /\ sweep = 0
        /\ sweep' = Period
        /\ IF closing
             THEN \/ status' = "removed" /\ down' = Sent(down, "Fin")
                  \/ status' = "Closing" /\ UNCHANGED down   \* not empty
             ELSE UNCHANGED <<status, down>>
        /\ UNCHANGED <<seen, clientVars, up, network, cutFor>>

\* The flush of a Closing connection comes to its end (handle_flush_result,
\* QueueEmpty or FatalError).
ClosingFlushed ==
    /\ status = "Closing"
    /\ status' = "removed"
    /\ down' = Sent(down, "Fin")
    /\ UNCHANGED <<seen, sweep, clientVars, up, network, cutFor>>

\* Mutation: the Ping is echoed.
Echoed == "Ping"

\* What pong() queues.
Answer == "Pong"

\* Mutation: an answered Ping does not refresh last_seen.
RefreshedNot(p) == seen

\* pong() sets last_seen.
Refreshed(p) == IF p = "Ping" THEN 0 ELSE seen

\* The server reads a Ping or the end of the stream; a Closing connection is
\* not read.
ServerReads ==
    /\ up # <<>>
    /\ up' = Tail(up)
    /\ LET p == Head(up).type
       IN  IF status = "Authenticated"
             THEN /\ seen' = Refreshed(p)
                  /\ status' = IF p = "Fin" THEN "removed" ELSE status
                  /\ down' = IF p = "Ping" THEN Sent(down, Answer) ELSE down
             ELSE UNCHANGED <<seen, status, down>>
    /\ UNCHANGED <<sweep, clientVars, network, cutFor>>

\* The client reads the Ack, which is the first packet on its way, and its chat
\* and its timer begin (init_chat); or a Pong; or the end of the stream, a fatal
\* error, since the server closes without SSL_shutdown: handle_read_result then
\* disconnects and the loop goes on.
ClientReads ==
    /\ down # <<>>
    /\ down' = Tail(down)
    /\ LET p == Head(down).type
       IN  CASE client = "joining" /\ p = "Ack" ->
                  client' = "chat" /\ activity' = 0 /\ ping' = Period
             [] client = "chat" /\ p = "Pong" ->
                  activity' = 0 /\ UNCHANGED <<client, ping>>
             [] client = "chat" /\ p = "Fin" ->
                  client' = "dropped" /\ UNCHANGED <<activity, ping>>
             [] OTHER -> UNCHANGED clientVars
    /\ UNCHANGED <<serverVars, up, network, cutFor>>

-----------------------------------------------------------------------------
(***************************************************************************)
(* The users, the network and time                                         *)
(***************************************************************************)

\* /quit in the client.
ClientQuits ==
    /\ Looping
    /\ client' = "ended"
    /\ up' = IF client = "chat" THEN Sent(up, "Fin") ELSE up
    /\ UNCHANGED <<activity, ping, serverVars, down, network, cutFor>>

\* /kick, or a fatal error of the connection.
ServerDrops ==
    /\ status # "removed"
    /\ status' = "removed"
    /\ down' = Sent(down, "Fin")
    /\ UNCHANGED <<seen, sweep, clientVars, up, network, cutFor>>

\* The other machine is gone without a word.
Cut ==
    /\ network = "works"
    /\ network' = "cut"
    /\ up' = <<>> /\ down' = <<>>
    /\ UNCHANGED <<clientVars, serverVars, cutFor>>

Older(age, limit) == IF age < limit THEN age + 1 ELSE age

Aged(flight) == [i \in DOMAIN flight |-> [flight[i] EXCEPT !.age = @ + 1]]

Overdue(flight) == \E i \in DOMAIN flight : flight[i].age = Delay

\* Time passes when no timer is due and nothing has to arrive first.
Tick ==
    /\ ~(Looping /\ ping = 0)
    /\ sweep > 0
    /\ ~Overdue(up) /\ ~Overdue(down)
    /\ activity' = Older(activity, Notice)
    /\ seen' = Older(seen, Notice)
    /\ ping' = IF Looping THEN ping - 1 ELSE ping
    /\ sweep' = sweep - 1
    /\ up' = Aged(up) /\ down' = Aged(down)
    /\ cutFor' = IF network = "cut" THEN Older(cutFor, Notice) ELSE cutFor
    /\ UNCHANGED <<client, status, network>>

\* The server has just accepted the login (handle_login_case).
Init ==
    /\ client = "joining" /\ activity = 0 /\ ping = Period
    /\ status = "Authenticated" /\ seen = 0 /\ sweep \in 0..Period
    /\ up = <<>> /\ down = <<[type |-> "Ack", age |-> 0]>>
    /\ network = "works" /\ cutFor = 0

Step == ClientTimer \/ ServerTimer \/ ServerReads \/ ClientReads

Ends == ClientQuits \/ ServerDrops \/ Cut

Next == Step \/ ClosingFlushed \/ Ends \/ Tick

Spec == Init /\ [][Next]_vars

FairSpec == Spec /\ WF_vars(Step) /\ WF_vars(Tick)

\* A flush does not wait for ever: the peer reads, or TCP gives the connection
\* up.  The program has no bound of its own on it.
FlushEnds == WF_vars(ClosingFlushed)

-----------------------------------------------------------------------------
\* While the network works, neither program gives up the other: not even the
\* first Ping or Pong comes too late, whatever the phases of the two timers.
NoFalseAlarm ==
    network = "works" =>
      /\ client = "chat" => ~Late(activity)
      /\ status = "Authenticated" => ~Late(seen)

\* A program that was left alone notices: a client in the chat ends, and the
\* server's connection is given up, at the timer event that follows Timeout.
NoticedInTime ==
    network = "cut" =>
      /\ Looping => cutFor < Notice
      /\ status = "Authenticated" => cutFor < Notice

\* Whoever goes, the other one follows.  The server keeps a Closing connection
\* until its queue is empty, so that it follows only if the flush ends.
PartTogether ==
    /\ FlushEnds => (client = "ended" ~> status = "removed")
    /\ status = "removed" /\ Looping ~> client = "ended"
=============================================================================
