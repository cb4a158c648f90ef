------------------------------ MODULE Payloads ------------------------------
(***************************************************************************)
(* What stands in the payloads that clients and server exchange: names,    *)
(* passwords and messages put together with "|" on one side and taken      *)
(* apart again on the other.                                               *)
(*                                                                         *)
(* Names, passwords and messages are whatever users type, "|" included.    *)
(* Transport is Stream's, the server's tables are ChatServer's: a packet   *)
(* arrives whole and in order, handshakes take one step, and nobody logs   *)
(* in with a name that is in use.                                          *)
(***************************************************************************)
EXTENDS Integers, Sequences, SequencesExt, FiniteSetsExt

CONSTANTS
    Clients,
    Letters,           \* what a user can type, "|" included
    Names, Passwords,  \* what users type when asked for them
    Texts,             \* messages
    MaxSaid            \* bound: messages

Bar    == "|"
SERVER == <<"SERVER">>
None   == <<"none">>    \* no account's name

\* A client whose users are asked for a name is "out", a member of the room
\* "in", and "dropped" after it closed its connection by itself.
VARIABLES
    accounts,       \* the database: passwords by name
    registrations,  \* what was typed for each account (history)
    stage,
    typed,          \* what the client's user logged in with
    session,        \* the name in the server's session of the client
    inbox,          \* payloads on their way to the client
    shown,          \* what its window shows of others' messages
    heard,          \* what others said since it joined (history)
    said            \* number of messages

room == <<inbox, shown, heard, said>>
vars == <<accounts, registrations, stage, typed, session, room>>

Typed   == [username : Names, password : Passwords]
Said    == [status  : {"PrintMessage"},
            sender  : Seq(Letters) \cup {SERVER},
            message : Seq(Letters)]

TypeOK ==
    /\ \A n \in DOMAIN accounts : n # None /\ accounts[n] \in Seq(Letters)
    /\ registrations \subseteq Typed
    /\ stage \in [Clients -> {"out", "in", "dropped"}]
    /\ typed \in [Clients -> Typed \cup {None}]
    /\ \A c \in Clients : session[c] \in DOMAIN accounts \cup {None}
    /\ \A c \in Clients : shown[c] \in Seq(Said) /\ heard[c] \in Seq(Said)
    /\ said \in 0..MaxSaid

-----------------------------------------------------------------------------
(***************************************************************************)
(* Putting together and taking apart                                       *)
(***************************************************************************)

Bars(payload, from) == {i \in from..Len(payload) : payload[i] = Bar}

Before(payload, from, i) == SubSeq(payload, from, i - 1)
After(payload, i)        == SubSeq(payload, i + 1, Len(payload))

HandshakePayload(t) == t.username \o <<Bar>> \o t.password

\* Mutation: the name ends at the last "|".
RequestLast(payload) ==
    LET delimiter == Max(Bars(payload, 1))
    IN  [username |-> Before(payload, 1, delimiter), password |-> After(payload, delimiter)]

\* process_handshake_packet: message.find('|').
Request(payload) ==
    LET delimiter == Min(Bars(payload, 1))
    IN  [username |-> Before(payload, 1, delimiter), password |-> After(payload, delimiter)]

UserPayload(u, text) == <<"U", Bar>> \o u \o <<Bar>> \o text

ServerPayload(text) == <<"S", Bar>> \o text

Result(status, sender, message) ==
    [status |-> status, sender |-> sender, message |-> message]

InvalidProtocolError == Result("InvalidProtocolError", <<>>, <<>>)
PrintMessage(sender, text) == Result("PrintMessage", sender, text)

\* Mutation: the sender ends at the last "|".
FromUserLast(payload) ==
    LET bars == Bars(payload, 3)
    IN  IF bars = {} \/ 3 \in bars THEN InvalidProtocolError
        ELSE PrintMessage(Before(payload, 3, Max(bars)), After(payload, Max(bars)))

\* A sender has at least one letter.
FromUser(payload) ==
    LET bars == Bars(payload, 3)
    IN  IF bars = {} \/ 3 \in bars THEN InvalidProtocolError
        ELSE PrintMessage(Before(payload, 3, Min(bars)), After(payload, Min(bars)))

\* process_data_stream on a packet of type Message.
Message(payload) ==
    IF Len(payload) < 2 \/ payload[2] # Bar THEN InvalidProtocolError
    ELSE CASE Head(payload) = "U" -> FromUser(payload)
           [] Head(payload) = "S" -> PrintMessage(SERVER, After(payload, 2))
           [] OTHER -> InvalidProtocolError

-----------------------------------------------------------------------------
(***************************************************************************)
(* The programs                                                            *)
(***************************************************************************)

\* The client ends after a registration, whatever the answer.
Register(c) ==
    /\ stage[c] = "out"
    /\ \E t \in Typed :
         LET request == Request(HandshakePayload(t))
         IN  /\ request.username \notin DOMAIN accounts
             /\ accounts' = [n \in DOMAIN accounts \cup {request.username} |->
                   IF n = request.username THEN request.password ELSE accounts[n]]
             /\ registrations' = registrations \cup {t}
    /\ UNCHANGED <<stage, typed, session, room>>

Login(c) ==
    /\ stage[c] = "out"
    /\ \E t \in Typed :
         LET request == Request(HandshakePayload(t))
         IN  /\ request.username \in DOMAIN accounts
             /\ request.password = accounts[request.username]
             /\ \A d \in Clients : session[d] # request.username
             /\ typed'   = [typed EXCEPT ![c] = t]
             /\ session' = [session EXCEPT ![c] = request.username]
    /\ stage' = [stage EXCEPT ![c] = "in"]
    /\ UNCHANGED <<accounts, registrations, room>>

\* broadcast
Broadcast(recipients, payload, message) ==
    /\ said < MaxSaid /\ said' = said + 1
    /\ inbox' = [d \in Clients |-> IF d \in recipients THEN Append(inbox[d], payload)
                                                      ELSE inbox[d]]
    /\ heard' = [d \in Clients |-> IF d \in recipients THEN Append(heard[d], message)
                                                      ELSE heard[d]]
    /\ UNCHANGED <<accounts, registrations, stage, typed, session, shown>>

Joined == {c \in Clients : stage[c] = "in"}

\* A client's line reaches the server and the other members.
Say(c) ==
    /\ c \in Joined
    /\ \E text \in Texts :
         Broadcast(Joined \ {c}, UserPayload(session[c], text),
                   PrintMessage(session[c], text))

\* A line of the server's console.
Announce ==
    \E text \in Texts :
      Broadcast(Joined, ServerPayload(text), PrintMessage(SERVER, text))

\* Mutation: nothing is refused.
AcceptableAll(result) == TRUE

Acceptable(result) == result.status # "InvalidProtocolError"

\* The client shows a message, or closes the connection and what is behind it.
Receive(c) ==
    /\ c \in Joined /\ inbox[c] # <<>>
    /\ LET result == Message(Head(inbox[c]))
       IN  \/ /\ Acceptable(result)
              /\ shown' = [shown EXCEPT ![c] = Append(@, result)]
              /\ inbox' = [inbox EXCEPT ![c] = Tail(@)]
              /\ UNCHANGED stage
           \/ /\ ~Acceptable(result)
              /\ stage' = [stage EXCEPT ![c] = "dropped"]
              /\ inbox' = [inbox EXCEPT ![c] = <<>>]
              /\ UNCHANGED shown
    /\ UNCHANGED <<accounts, registrations, typed, session, heard, said>>

\* The user leaves; the program may be started again.
Leave(c) ==
    /\ stage[c] # "out"
    /\ stage'   = [stage EXCEPT ![c] = "out"]
    /\ typed'   = [typed EXCEPT ![c] = None]
    /\ session' = [session EXCEPT ![c] = None]
    /\ inbox'   = [inbox EXCEPT ![c] = <<>>]
    /\ shown'   = [shown EXCEPT ![c] = <<>>]
    /\ heard'   = [heard EXCEPT ![c] = <<>>]
    /\ UNCHANGED <<accounts, registrations, said>>

Init ==
    /\ accounts = <<>> /\ registrations = {}
    /\ stage = [c \in Clients |-> "out"]
    /\ typed = [c \in Clients |-> None] /\ session = [c \in Clients |-> None]
    /\ inbox = [c \in Clients |-> <<>>]
    /\ shown = [c \in Clients |-> <<>>] /\ heard = [c \in Clients |-> <<>>]
    /\ said = 0

Next ==
    \/ \E c \in Clients : Register(c) \/ Login(c) \/ Say(c) \/ Receive(c) \/ Leave(c)
    \/ Announce

Spec == Init /\ [][Next]_vars

-----------------------------------------------------------------------------
\* Windows show what was said, in its order, under the name of who said it;
\* what ends that is the message of a user whose name is empty.
ShownAsSaid ==
    \A c \in Clients :
      LET missed == Len(shown[c]) + 1
      IN  /\ IsPrefix(shown[c], heard[c])
          /\ inbox[c] = <<>> /\ missed \in DOMAIN heard[c] =>
               heard[c][missed].sender = <<>>

\* Whoever is in typed what someone had registered with, and without "|" in
\* his name he is in under that name.
LoginAsRegistered ==
    \A c \in Joined :
      /\ \E r \in registrations : HandshakePayload(r) = HandshakePayload(typed[c])
      /\ Bar \notin Range(typed[c].username) =>
           /\ session[c] = typed[c].username
           /\ accounts[session[c]] = typed[c].password
=============================================================================
