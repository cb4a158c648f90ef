----------------------------- MODULE ServerRoom -----------------------------
(***************************************************************************)
(* ChatServer implements ChatRoom: the members are the Authenticated       *)
(* connections, an inbox is a transmit queue.                              *)
(***************************************************************************)
EXTENDS ChatServer

Joined(c) == Live(c) /\ conn[c].status = "Authenticated"

PostedBy(S) == [type: {"Message"}, from: S, text: Text]

R == INSTANCE ChatRoom WITH
    Peer    <- Fd,
    Private <- OutPacket \ PostedBy(User \cup {None}),
    Public  <- PostedBy(User),
    Notice  <- PostedBy({None}),
    member  <- {c \in Fd : Joined(c)},
    inbox   <- [c \in Fd |-> IF Live(c) THEN conn[c].tx ELSE <<>>]

\* Every step of the server is a step of the room or changes nothing in it: a
\* message goes to everybody who has joined except its sender, queues are
\* first-in first-out, and a queued packet is lost only when its connection is.
RoomSpec == R!Spec
=============================================================================
