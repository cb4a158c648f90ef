----------------------------- MODULE RoomProofs -----------------------------
(***************************************************************************)
(* What members of the room and an onlooker see of ChatServer, for every   *)
(* value of the constants: ChatServer implements ChatRoom; and the grace   *)
(* period is honoured, as the age that a session shows never runs ahead of *)
(* the time its user is away.                                              *)
(***************************************************************************)
EXTENDS ServerRoom, ServerObserver, ServerProofs

\* The refinement mapping, of any connection table.
Members(C) == {c \in Fd : C[c] # None /\ C[c].status = "Authenticated"}
Inboxes(C) == [c \in Fd |-> IF C[c] # None THEN C[c].tx ELSE <<>>]

RoomStep == [R!Next]_(R!vars)

\* It is the one of ServerRoom.
LEMMA Mapping ==
    /\ Members(conn) = {c \in Fd : Joined(c)}
    /\ Members(conn') = {c \in Fd : Joined(c)}'
    /\ Inboxes(conn) = [c \in Fd |-> IF Live(c) THEN conn[c].tx ELSE <<>>]
    /\ Inboxes(conn') = [c \in Fd |-> IF Live(c) THEN conn[c].tx ELSE <<>>]'
BY DEF Members, Inboxes, Joined, Live

-----------------------------------------------------------------------------
(***************************************************************************)
(* The steps of the room                                                   *)
(***************************************************************************)

\* A step that changes no member and no inbox.
LEMMA StutterStep ==
    ASSUME Members(conn') = Members(conn), Inboxes(conn') = Inboxes(conn)
    PROVE  RoomStep
BY Mapping DEF RoomStep, R!vars

\* A packet for one peer is queued.
LEMMA TellStep ==
    ASSUME NEW c \in Fd, NEW p \in OutPacket \ PostedBy(User \cup {None}),
           Members(conn') = Members(conn),
           Inboxes(conn') = [Inboxes(conn) EXCEPT ![c] = Append(@, p)]
    PROVE  RoomStep
<1>1. R!Tell(c)
  BY Mapping DEF R!Tell, R!Put
<1>2. QED BY <1>1 DEF RoomStep, R!Next

\* A peer joins, perhaps with a packet queued.
LEMMA JoinStep ==
    ASSUME NEW c \in Fd, c \notin Members(conn),
           Members(conn') = Members(conn) \cup {c},
           \/ Inboxes(conn') = Inboxes(conn)
           \/ \E p \in OutPacket \ PostedBy(User \cup {None}) :
                Inboxes(conn') = [Inboxes(conn) EXCEPT ![c] = Append(@, p)]
    PROVE  RoomStep
<1>1. R!Join(c)
  BY Mapping DEF R!Join, R!Put
<1>2. QED BY <1>1 DEF RoomStep, R!Next

\* The first n packets of an inbox are gone; n may be 0.
LEMMA DeliverStep ==
    ASSUME NEW c \in Fd, NEW n \in 0..Len(Inboxes(conn)[c]),
           Inboxes(conn)[c] \in Seq(OutPacket),
           Members(conn') = Members(conn),
           Inboxes(conn') =
             [Inboxes(conn) EXCEPT ![c] = SubSeq(@, n + 1, Len(@))]
    PROVE  RoomStep
<1>1. CASE n = 0
  <2>1. SubSeq(Inboxes(conn)[c], n + 1, Len(Inboxes(conn)[c])) = Inboxes(conn)[c]
    BY <1>1, SubSeqFull
  <2>2. Inboxes(conn') = Inboxes(conn)
    BY <2>1 DEF Inboxes
  <2>3. QED BY <2>2, StutterStep
<1>2. CASE n # 0
  <2>1. n \in 1..Len(Inboxes(conn)[c])
    BY <1>2, LenProperties
  <2>2. R!Deliver(c)
    BY <2>1, Mapping DEF R!Deliver
  <2>3. QED BY <2>2 DEF RoomStep, R!Next
<1>3. QED BY <1>1, <1>2

\* Members leave, and what is queued for D, all outside, is lost.
LEMMA LeaveStep ==
    ASSUME Members(conn') \subseteq Members(conn),
           NEW D \in SUBSET Fd, D \cap Members(conn') = {},
           Inboxes(conn') =
             [c \in Fd |-> IF c \in D THEN <<>> ELSE Inboxes(conn)[c]]
    PROVE  RoomStep
<1> DEFINE S == Members(conn) \ Members(conn')
<1>1. S \in SUBSET Members(conn) /\ Members(conn') = Members(conn) \ S
  OBVIOUS
<1>2. D \in SUBSET (Fd \ Members(conn'))
  OBVIOUS
<1>3. \E L \in SUBSET Members(conn) :
        /\ Members(conn') = Members(conn) \ L
        /\ \E E \in SUBSET (Fd \ Members(conn')) :
             Inboxes(conn') =
               [c \in Fd |-> IF c \in E THEN <<>> ELSE Inboxes(conn)[c]]
  BY <1>1, <1>2
<1>4. R!Leave
  BY <1>3, Zenon DEF R!Leave, Members, Inboxes, Joined, Live
<1>5. QED BY <1>4 DEF RoomStep, R!Next

\* A member's message is queued for every other member.
LEMMA PostStep ==
    ASSUME NEW c \in Members(conn), NEW m \in PostedBy(User),
           Members(conn') = Members(conn),
           Inboxes(conn') =
             [d \in Fd |-> IF d \in Members(conn) \ {c}
                             THEN Append(Inboxes(conn)[d], m)
                             ELSE Inboxes(conn)[d]]
    PROVE  RoomStep
<1>1. R!Say(c)
  BY Mapping DEF R!Say, R!PostTo
<1>2. c \in Fd
  BY DEF Members
<1>3. QED BY <1>1, <1>2 DEF RoomStep, R!Next

\* The operator's message is queued for every member.
LEMMA NoticeStep ==
    ASSUME NEW m \in PostedBy({None}),
           Members(conn') = Members(conn),
           Inboxes(conn') =
             [d \in Fd |-> IF d \in Members(conn)
                             THEN Append(Inboxes(conn)[d], m)
                             ELSE Inboxes(conn)[d]]
    PROVE  RoomStep
<1>1. R!Announce
  BY Mapping DEF R!Announce, R!PostTo
<1>2. QED BY <1>1 DEF RoomStep, R!Next

-----------------------------------------------------------------------------
(***************************************************************************)
(* What handlers do to a connection, seen from the room                    *)
(***************************************************************************)

\* k replaces the entry of a live connection.
LEMMA OneChanged ==
    ASSUME IInv, NEW c \in Fd, Live(c), NEW k \in Connection,
           conn' = [conn EXCEPT ![c] = k]
    PROVE  /\ Inboxes(conn)[c] = conn[c].tx
           /\ Inboxes(conn') = [Inboxes(conn) EXCEPT ![c] = k.tx]
           /\ k.status = "Authenticated" => Members(conn') = Members(conn) \cup {c}
           /\ k.status # "Authenticated" => Members(conn') = Members(conn) \ {c}
           /\ c \in Members(conn) <=> conn[c].status = "Authenticated"
<1>1. conn \in [Fd -> Connection \cup {None}] /\ k # None /\ conn[c] # None
  BY NoneAssumption DEF IInv, TypeOK, Live
<1>2. conn'[c] = k /\ \A d \in Fd : d # c => conn'[d] = conn[d]
  BY <1>1
<1>3. Inboxes(conn') = [Inboxes(conn) EXCEPT ![c] = k.tx]
  BY <1>1, <1>2 DEF Inboxes
<1>4. QED BY <1>1, <1>2, <1>3 DEF Inboxes, Members

\* A status that changes neither to nor from "Authenticated" changes no member.
LEMMA SameMembers ==
    ASSUME IInv, NEW c \in Fd, Live(c), NEW k \in Connection,
           conn' = [conn EXCEPT ![c] = k],
           k.status = "Authenticated" <=> conn[c].status = "Authenticated"
    PROVE  Members(conn') = Members(conn)
<1>1. CASE k.status = "Authenticated"
  <2>1. Members(conn') = Members(conn) \cup {c} /\ c \in Members(conn)
    BY <1>1, OneChanged
  <2>2. QED BY <2>1
<1>2. CASE k.status # "Authenticated"
  <2>1. Members(conn') = Members(conn) \ {c} /\ c \notin Members(conn)
    BY <1>2, OneChanged
  <2>2. QED BY <2>1
<1>3. QED BY <1>1, <1>2

\* A working copy: the room sees in k what it sees in conn[c].
Copy(c, k) ==
    /\ Live(c)
    /\ k \in Connection
    /\ k.status = conn[c].status
    /\ k.tx = conn[c].tx

\* A copy put back changes nothing in the room.
LEMMA CopyStep ==
    ASSUME IInv, NEW c \in Fd, NEW k, Copy(c, k), conn' = [conn EXCEPT ![c] = k]
    PROVE  RoomStep
<1>1. /\ Inboxes(conn') = [Inboxes(conn) EXCEPT ![c] = k.tx]
      /\ k.tx = Inboxes(conn)[c]
  BY OneChanged DEF Copy
<1>2. Inboxes(conn') = Inboxes(conn)
  BY <1>1 DEF Inboxes
<1>3. Members(conn') = Members(conn)
  BY SameMembers DEF Copy
<1>4. QED BY <1>2, <1>3, StutterStep

\* A packet is queued in a copy whose status may have changed from one outside
\* the room to another.
LEMMA QueuedStep ==
    ASSUME IInv, NEW c \in Fd, NEW k, Copy(c, k),
           NEW j \in Connection, j.tx = k.tx,
           j.status = "Authenticated" <=> k.status = "Authenticated",
           NEW p \in OutPacket \ PostedBy(User \cup {None}),
           conn' = [conn EXCEPT ![c] = Queued(j, p)]
    PROVE  RoomStep
<1> DEFINE q == Queued(j, p)
<1>1. q \in Connection /\ q.status = j.status
  BY QueuedFacts
<1>2. q.tx = Append(conn[c].tx, p)
  <2>1. q = [j EXCEPT !.tx = Append(j.tx, p), !.writeOn = j.writeOn \/ ~j.wwr]
    BY DEF Queued
  <2>2. q.tx = Append(j.tx, p)
    BY <2>1 DEF Connection
  <2>3. QED BY <2>2 DEF Copy
<1> HIDE DEF q
<1>3. conn' = [conn EXCEPT ![c] = q]
  BY DEF q
<1>4. Inboxes(conn') = [Inboxes(conn) EXCEPT ![c] = Append(Inboxes(conn)[c], p)]
  <2>1. /\ Inboxes(conn)[c] = conn[c].tx
        /\ Inboxes(conn') = [Inboxes(conn) EXCEPT ![c] = q.tx]
    BY <1>1, <1>3, OneChanged DEF Copy
  <2>2. QED BY <1>2, <2>1
<1>5. Members(conn') = Members(conn)
  BY <1>1, <1>3, SameMembers DEF Copy
<1>6. QED BY <1>4, <1>5, TellStep

\* disconnect: a member leaves, or what is queued for someone outside is lost.
LEMMA DisconnectStep ==
    ASSUME NEW c \in Fd, Disconnect(c)
    PROVE  RoomStep
<1>1. conn' = [d \in Fd |-> IF d \in {c} THEN None ELSE conn[d]]
  BY DEF Disconnect, Erased
<1>2. Members(conn') = Members(conn) \ {c}
  BY <1>1 DEF Members
<1>3. Inboxes(conn') = [d \in Fd |-> IF d \in {c} THEN <<>> ELSE Inboxes(conn)[d]]
  BY <1>1 DEF Inboxes
<1>4. /\ Members(conn') \subseteq Members(conn)
      /\ {c} \in SUBSET Fd /\ {c} \cap Members(conn') = {}
  BY <1>2
<1>5. QED BY <1>3, <1>4, LeaveStep

-----------------------------------------------------------------------------
(***************************************************************************)
(* Handlers                                                                *)
(***************************************************************************)

\* The packets the server builds for one peer are private.
LEMMA PrivatePackets ==
    /\ \A t \in Token : Ack(t) \in OutPacket \ PostedBy(User \cup {None})
    /\ \A t \in {"Registered", "No", "Err", "Pong"} :
         Reply(t) \in OutPacket \ PostedBy(User \cup {None})
BY PacketTypes DEF Ack, Reply, PostedBy

\* A copy that joins, perhaps with a packet queued, comes into the room.
LEMMA EntersStep ==
    ASSUME IInv, NEW c \in Fd, NEW k, Copy(c, k), k.status = "AwaitingAuth",
           NEW j \in Connection, j.tx = k.tx, j.status = "Authenticated",
           \/ conn' = [conn EXCEPT ![c] = j]
           \/ \E t \in Token : conn' = [conn EXCEPT ![c] = Queued(j, Ack(t))]
    PROVE  RoomStep
<1>1. Live(c) /\ c \notin Members(conn)
  BY DEF Copy, Members
<1>2. CASE conn' = [conn EXCEPT ![c] = j]
  <2>1. /\ Inboxes(conn') = [Inboxes(conn) EXCEPT ![c] = j.tx]
        /\ Inboxes(conn)[c] = conn[c].tx
        /\ Members(conn') = Members(conn) \cup {c}
    BY <1>1, <1>2, OneChanged
  <2>2. j.tx = conn[c].tx
    BY DEF Copy
  <2>3. Inboxes(conn') = Inboxes(conn)
    BY <2>1, <2>2 DEF Inboxes
  <2>4. QED BY <1>1, <2>1, <2>3, JoinStep
<1>3. ASSUME NEW t \in Token, conn' = [conn EXCEPT ![c] = Queued(j, Ack(t))]
      PROVE  RoomStep
  <2> DEFINE p == Ack(t)
             q == Queued(j, p)
  <2>1. p \in OutPacket \ PostedBy(User \cup {None})
    BY PrivatePackets
  <2> HIDE DEF p
  <2>2. q \in Connection /\ q.status = "Authenticated"
    BY <2>1, QueuedFacts
  <2>3. q.tx = Append(conn[c].tx, p)
    <3>1. q = [j EXCEPT !.tx = Append(j.tx, p), !.writeOn = j.writeOn \/ ~j.wwr]
      BY DEF Queued
    <3>2. q.tx = Append(j.tx, p)
      BY <3>1 DEF Connection
    <3>3. QED BY <3>2 DEF Copy
  <2>4. conn' = [conn EXCEPT ![c] = q]
    BY <1>3 DEF p
  <2> HIDE DEF q
  <2>5. /\ Inboxes(conn') = [Inboxes(conn) EXCEPT ![c] = q.tx]
        /\ Inboxes(conn)[c] = conn[c].tx
        /\ Members(conn') = Members(conn) \cup {c}
    BY <1>1, <2>2, <2>4, OneChanged
  <2>6. Inboxes(conn') = [Inboxes(conn) EXCEPT ![c] = Append(@, p)]
    BY <2>3, <2>5
  <2>7. QED BY <1>1, <2>1, <2>5, <2>6, JoinStep
<1>4. QED BY <1>2, <1>3

\* The packet handlers of a connection outside the room.
LEMMA HandshakeStep ==
    ASSUME IInv, NEW c \in Fd, NEW k, Copy(c, k), k.status = "AwaitingAuth",
           k.rx # <<>>, Handshake(c, k)
    PROVE  RoomStep
<1> DEFINE p == Head(k.rx)
           r == [k EXCEPT !.rx = Tail(@)]
<1>1. Tail(k.rx) \in Seq(InPacket)
  BY HeadTailProperties DEF Copy, Connection
<1>2. Copy(c, r) /\ r.status = "AwaitingAuth"
  BY <1>1 DEF Copy, Connection
<1> HIDE DEF p, r
<1>3. CASE LoginAccepted(c, r, p.user)
  <2> DEFINE j == [r EXCEPT !.status = "Authenticated", !.seen = 0]
  <2>1. j \in Connection /\ j.tx = r.tx /\ j.status = "Authenticated"
    BY <1>2, AgeTypes DEF Copy, Connection
  <2>2. \E t \in Token : conn' = [conn EXCEPT ![c] = Queued(j, Ack(t))]
    BY <1>3 DEF LoginAccepted
  <2> HIDE DEF j
  <2>3. QED BY <1>2, <2>1, <2>2, EntersStep
<1>4. CASE LoginRefused(c, r)
  <2> DEFINE j == [r EXCEPT !.status = "Closing"]
  <2>1. j \in Connection /\ j.tx = r.tx /\ j.status = "Closing"
    BY <1>2 DEF Copy, Connection
  <2>2. PICK t \in {"No", "Err"} : conn' = [conn EXCEPT ![c] = Queued(j, Reply(t))]
    BY <1>4 DEF LoginRefused, Update
  <2> HIDE DEF j
  <2>3. Reply(t) \in OutPacket \ PostedBy(User \cup {None})
    BY PrivatePackets
  <2>4. QED BY <1>2, <2>1, <2>2, <2>3, QueuedStep
<1>5. CASE Register(c, r, p.user)
  <2>1. CASE conn' = [conn EXCEPT ![c] = Queued(r, Reply("Registered"))]
    <3>1. Reply("Registered") \in OutPacket \ PostedBy(User \cup {None})
      BY PrivatePackets
    <3>2. r \in Connection
      BY <1>2 DEF Copy
    <3>3. QED BY <1>2, <2>1, <3>1, <3>2, QueuedStep
  <2>2. CASE Disconnect(c)
    BY <2>2, DisconnectStep
  <2>3. QED BY <1>5, <2>1, <2>2 DEF Register
<1>6. CASE Reconnect(c, r, p.user, p.token)
  <2>1. CASE conn' = [conn EXCEPT ![c] = [r EXCEPT !.status = "Authenticated",
                                                   !.seen = 0]]
    <3> DEFINE j == [r EXCEPT !.status = "Authenticated", !.seen = 0]
    <3>1. j \in Connection /\ j.tx = r.tx /\ j.status = "Authenticated"
      BY <1>2, AgeTypes DEF Copy, Connection
    <3>2. conn' = [conn EXCEPT ![c] = j]
      BY <2>1
    <3> HIDE DEF j
    <3>3. QED BY <1>2, <3>1, <3>2, EntersStep
  <2>2. CASE Update(c, r)
    BY <1>2, <2>2, CopyStep DEF Update
  <2>3. CASE Disconnect(c)
    BY <2>3, DisconnectStep
  <2>4. QED BY <1>6, <2>1, <2>2, <2>3 DEF Reconnect
<1>7. CASE Disconnect(c)
  BY <1>7, DisconnectStep
<1>8. QED BY <1>3, <1>4, <1>5, <1>6, <1>7 DEF Handshake, p, r

\* Broadcast reaches every member of C but the sender, and no table but conn.
LEMMA BroadcastFacts ==
    ASSUME NEW C \in [Fd -> Connection \cup {None}], NEW sender,
           NEW p \in OutPacket, Broadcast(C, sender, p)
    PROVE  /\ Members(conn') = Members(C)
           /\ Inboxes(conn') =
                [d \in Fd |-> IF d \in Members(C) \ {sender}
                                THEN Append(Inboxes(C)[d], p)
                                ELSE Inboxes(C)[d]]
<1>1. ASSUME NEW d \in Fd
      PROVE  /\ d \in Members(conn') <=> d \in Members(C)
             /\ Inboxes(conn')[d] = IF d \in Members(C) \ {sender}
                                      THEN Append(Inboxes(C)[d], p)
                                      ELSE Inboxes(C)[d]
  <2>1. CASE Receives(C, d, sender)
    <3> DEFINE k == C[d]
               q == Queued(k, p)
    <3>1. k \in Connection /\ k # None /\ k.status = "Authenticated" /\ d # sender
      BY <2>1 DEF Receives
    <3>2. conn'[d] = q
      BY <2>1 DEF Broadcast
    <3>3. q \in Connection /\ q.status = "Authenticated"
      BY <3>1, QueuedFacts
    <3>4. q.tx = Append(k.tx, p)
      <4>1. q = [k EXCEPT !.tx = Append(k.tx, p), !.writeOn = k.writeOn \/ ~k.wwr]
        BY DEF Queued
      <4>2. QED BY <3>1, <4>1 DEF Connection
    <3>5. q # None
      BY <3>3, NoneAssumption
    <3> HIDE DEF q
    <3>6. QED BY <3>1, <3>2, <3>3, <3>4, <3>5 DEF Members, Inboxes
  <2>2. CASE ~Receives(C, d, sender)
    <3>1. conn'[d] = C[d]
      BY <2>2 DEF Broadcast
    <3>2. d \notin Members(C) \ {sender}
      BY <2>2 DEF Members, Receives
    <3>3. QED BY <3>1, <3>2 DEF Members, Inboxes
  <2>3. QED BY <2>1, <2>2
<1>2. Members(conn') = Members(C)
  BY <1>1 DEF Members
<1>3. QED BY <1>1, <1>2 DEF Inboxes

\* A table with a copy put back is the same room.
LEMMA CopyRoom ==
    ASSUME IInv, NEW c \in Fd, NEW k, Copy(c, k)
    PROVE  /\ [conn EXCEPT ![c] = k] \in [Fd -> Connection \cup {None}]
           /\ Members([conn EXCEPT ![c] = k]) = Members(conn)
           /\ Inboxes([conn EXCEPT ![c] = k]) = Inboxes(conn)
<1> DEFINE C == [conn EXCEPT ![c] = k]
<1>1. conn \in [Fd -> Connection \cup {None}] /\ k # None /\ conn[c] # None
  BY NoneAssumption DEF IInv, TypeOK, Copy, Live
<1>2. C \in [Fd -> Connection \cup {None}]
  BY <1>1 DEF Copy
<1>3. C[c] = k /\ \A d \in Fd : d # c => C[d] = conn[d]
  BY <1>1
<1> HIDE DEF C
<1>4. Members(C) = Members(conn)
  BY <1>1, <1>3 DEF Members, Copy
<1>5. Inboxes(C) = Inboxes(conn)
  <2>1. \A d \in Fd : Inboxes(C)[d] = Inboxes(conn)[d]
    BY <1>1, <1>3 DEF Inboxes, Copy
  <2>2. QED BY <2>1 DEF Inboxes
<1>6. QED BY <1>2, <1>4, <1>5 DEF C

\* The first packet that process_client_stream has a case for.
LEMMA DispatchStep ==
    ASSUME IInv, NEW c \in Fd, NEW k, Copy(c, k), k.status = "Authenticated",
           NEW i \in 1..Len(k.rx), Dispatch(c, k, i)
    PROVE  RoomStep
<1> DEFINE p == k.rx[i]
           r == [k EXCEPT !.rx = SubSeq(@, i + 1, Len(@))]
           b == [k EXCEPT !.rx = SubSeq(@, i, Len(@))]
           u == SessionOf(c)
<1>1. k.rx \in Seq(InPacket) /\ Len(k.rx) \in Nat /\ p \in InPacket
  BY ElementOfSeq, LenProperties DEF Copy, Connection
<1>2. \A j \in {i, i + 1} : SubSeq(k.rx, j, Len(k.rx)) \in Seq(InPacket)
  <2>1. ASSUME NEW j \in {i, i + 1} PROVE \A n \in j..Len(k.rx) : k.rx[n] \in InPacket
    BY <1>1, <2>1, ElementOfSeq
  <2>2. QED BY <1>1, <2>1, SubSeqProperties
<1>3. Copy(c, r) /\ Copy(c, b)
  BY <1>2 DEF Copy, Connection
<1>4. CASE Crash
  BY <1>4, StutterStep DEF Crash
<1>5. CASE Update(c, r) \/ Update(c, b)
  BY <1>3, <1>5, CopyStep DEF Update
<1>6. CASE Disconnect(c)
  BY <1>6, DisconnectStep
<1>7. CASE Update(c, Queued([r EXCEPT !.seen = 0], Reply("Pong")))
  <2> DEFINE s == [r EXCEPT !.seen = 0]
  <2> HIDE DEF r
  <2>1. s \in Connection /\ s.status = r.status /\ s.tx = r.tx
    BY <1>3, AgeTypes DEF Copy, Connection
  <2>2. conn' = [conn EXCEPT ![c] = Queued(s, Reply("Pong"))]
    BY <1>7 DEF Update
  <2> HIDE DEF s
  <2>3. Reply("Pong") \in OutPacket \ PostedBy(User \cup {None})
    BY PrivatePackets
  <2>4. QED BY <1>3, <2>1, <2>2, <2>3, QueuedStep
<1>8. CASE /\ u # None /\ p.type = "Message"
           /\ Broadcast([conn EXCEPT ![c] = r], c, Post(u, p.text))
  <2> DEFINE C == [conn EXCEPT ![c] = r]
             m == Post(u, p.text)
  <2> HIDE DEF r, p
  <2>1. u \in User /\ p.text \in Text
    BY <1>1, <1>8, SessionOfType DEF InPacket
  <2>2. m \in OutPacket /\ m \in PostedBy(User)
    BY <2>1, PacketTypes DEF Post, PostedBy
  <2>3. /\ C \in [Fd -> Connection \cup {None}]
        /\ Members(C) = Members(conn)
        /\ Inboxes(C) = Inboxes(conn)
    BY <1>3, CopyRoom
  <2>4. c \in Members(conn)
    BY DEF Copy, Live, Members
  <2>5. Broadcast(C, c, m)
    BY <1>8
  <2> HIDE DEF C, m
  <2>6. /\ Members(conn') = Members(conn)
        /\ Inboxes(conn') =
             [d \in Fd |-> IF d \in Members(conn) \ {c}
                             THEN Append(Inboxes(conn)[d], m)
                             ELSE Inboxes(conn)[d]]
    BY <2>2, <2>3, <2>5, BroadcastFacts
  <2>7. QED BY <2>2, <2>4, <2>6, PostStep
<1>9. QED BY <1>4, <1>5, <1>6, <1>7, <1>8 DEF Dispatch

\* What process_client_stream skips is nothing to the room.
LEMMA ProcessStreamStep ==
    ASSUME IInv, NEW c \in Fd, NEW k, Copy(c, k), k.status = "Authenticated",
           ProcessStream(c, k)
    PROVE  RoomStep
<1>1. CASE Update(c, [k EXCEPT !.rx = <<>>])
  <2>1. Copy(c, [k EXCEPT !.rx = <<>>])
    BY EmptySeq DEF Copy, Connection
  <2>2. QED BY <1>1, <2>1, CopyStep DEF Update
<1>2. CASE \E i \in 1..Len(k.rx) : Dispatch(c, k, i)
  BY <1>2, DispatchStep
<1>3. QED BY <1>1, <1>2 DEF ProcessStream

\* handle_read never lets a Closing connection say anything.
LEMMA HandleReadStep ==
    ASSUME IInv, NEW c \in Fd, NEW k, Copy(c, k), HandleRead(c, k)
    PROVE  RoomStep
<1>1. CASE Update(c, k)
  BY <1>1, CopyStep DEF Update
<1>2. CASE Disconnect(c)
  BY <1>2, DisconnectStep
<1>3. CASE Update(c, [k EXCEPT !.rww = FALSE])
  <2>1. Copy(c, [k EXCEPT !.rww = FALSE])
    BY DEF Copy, Connection
  <2>2. QED BY <1>3, <2>1, CopyStep DEF Update
<1>4. CASE Update(c, [k EXCEPT !.rww = TRUE, !.writeOn = TRUE])
  <2>1. Copy(c, [k EXCEPT !.rww = TRUE, !.writeOn = TRUE])
    BY DEF Copy, Connection
  <2>2. QED BY <1>4, <2>1, CopyStep DEF Update
<1>5. ASSUME k.status # "Closing",
             NEW n \in 1..MaxRead, NEW ps \in [1..n -> InPacket],
             NEW r, r = [k EXCEPT !.rx = @ \o ps, !.rww = FALSE],
             IF r.status = "AwaitingAuth" THEN Handshake(c, r)
                                          ELSE ProcessStream(c, r)
      PROVE  RoomStep
  <2>1. n \in Nat \ {0} /\ ps \in Seq(InPacket) /\ Len(ps) = n
    BY <1>5, ServerAssumption
  <2>2. k.rx \in Seq(InPacket)
    BY DEF Copy, Connection
  <2>3. (k.rx \o ps) \in Seq(InPacket) /\ k.rx \o ps # <<>>
    BY <2>1, <2>2, ConcatProperties, ConcatEqualIffEmpty, EmptySeq
  <2>4. Copy(c, r) /\ r.rx = k.rx \o ps /\ r.status = k.status
    BY <1>5, <2>3 DEF Copy, Connection
  <2>5. r.status \in {"AwaitingAuth", "Authenticated"}
    BY <1>5, <2>4 DEF Copy, Connection
  <2>6. QED BY <1>5, <2>3, <2>4, <2>5, HandshakeStep, ProcessStreamStep
<1>6. QED BY <1>1, <1>2, <1>3, <1>4, <1>5 DEF HandleRead

\* What flush_write writes is the front of the queue.
LEMMA HandleFlushStep ==
    ASSUME IInv, NEW c \in Fd, NEW k, Copy(c, k), HandleFlush(c, k)
    PROVE  RoomStep
<1>1. PICK n \in 0..Len(k.tx) :
        LET r == [k EXCEPT !.tx = SubSeq(@, n + 1, Len(@)), !.wwr = FALSE]
        IN  \/ Disconnect(c)
            \/ Update(c, [r EXCEPT !.writeOn = @ /\ r.rww])
            \/ Update(c, [r EXCEPT !.wwr = TRUE, !.writeOn = FALSE])
            \/ Update(c, [r EXCEPT !.writeOn = TRUE])
  BY DEF HandleFlush
<1> DEFINE tx == SubSeq(k.tx, n + 1, Len(k.tx))
           r == [k EXCEPT !.tx = tx, !.wwr = FALSE]
<1>2. k.tx \in Seq(OutPacket) /\ Len(k.tx) \in Nat /\ tx \in Seq(OutPacket)
  <2>1. k.tx \in Seq(OutPacket) /\ Len(k.tx) \in Nat
    BY LenProperties DEF Copy, Connection
  <2>2. \A m \in (n + 1)..Len(k.tx) : k.tx[m] \in OutPacket
    BY <2>1, ElementOfSeq
  <2>3. QED BY <2>1, <2>2, SubSeqProperties
<1>3. ASSUME NEW w \in Connection, w.tx = tx, w.status = k.status, Update(c, w)
      PROVE  RoomStep
  <2>1. /\ Inboxes(conn)[c] = conn[c].tx
        /\ Inboxes(conn') = [Inboxes(conn) EXCEPT ![c] = w.tx]
    BY <1>3, OneChanged DEF Copy, Update
  <2>2. Members(conn') = Members(conn)
    BY <1>3, SameMembers DEF Copy, Update
  <2>3. conn[c].tx = k.tx
    BY DEF Copy
  <2>4. Inboxes(conn') =
          [Inboxes(conn) EXCEPT ![c] = SubSeq(@, n + 1, Len(@))]
    BY <1>3, <2>1, <2>3
  <2>5. n \in 0..Len(Inboxes(conn)[c]) /\ Inboxes(conn)[c] \in Seq(OutPacket)
    BY <1>2, <2>1, <2>3
  <2>6. QED BY <2>2, <2>4, <2>5, DeliverStep
<1> HIDE DEF tx
<1>4. r \in Connection /\ r.status = k.status /\ r.tx = tx
  BY <1>2 DEF Copy, Connection
<1> HIDE DEF r
<1>5. CASE Disconnect(c)
  BY <1>5, DisconnectStep
<1>6. CASE Update(c, [r EXCEPT !.writeOn = @ /\ r.rww])
  <2> DEFINE w == [r EXCEPT !.writeOn = @ /\ r.rww]
  <2>1. (r.writeOn /\ r.rww) \in BOOLEAN
    OBVIOUS
  <2>2. w \in Connection /\ w.status = k.status /\ w.tx = tx
    BY <1>4, <2>1 DEF Connection
  <2>3. QED BY <1>3, <1>6, <2>2
<1>7. CASE Update(c, [r EXCEPT !.wwr = TRUE, !.writeOn = FALSE])
  <2> DEFINE w == [r EXCEPT !.wwr = TRUE, !.writeOn = FALSE]
  <2>1. w \in Connection /\ w.status = k.status /\ w.tx = tx
    BY <1>4 DEF Connection
  <2>2. QED BY <1>3, <1>7, <2>1
<1>8. CASE Update(c, [r EXCEPT !.writeOn = TRUE])
  <2> DEFINE w == [r EXCEPT !.writeOn = TRUE]
  <2>1. w \in Connection /\ w.status = k.status /\ w.tx = tx
    BY <1>4 DEF Connection
  <2>2. QED BY <1>3, <1>8, <2>1
<1>9. QED BY <1>1, <1>5, <1>6, <1>7, <1>8 DEF r, tx

-----------------------------------------------------------------------------
(***************************************************************************)
(* Events                                                                  *)
(***************************************************************************)

\* read_event and write_event only clear a wait before they call the handlers.
LEMMA SocketStep ==
    ASSUME IInv, NEW c \in Fd, ReadEvent(c) \/ WriteEvent(c)
    PROVE  RoomStep
<1>1. Live(c) /\ conn[c] \in Connection
  BY LiveFacts DEF ReadEvent, WriteEvent
<1>2. PICK k \in {conn[c], [conn[c] EXCEPT !.wwr = FALSE],
                  [conn[c] EXCEPT !.rww = FALSE]} :
        HandleRead(c, k) \/ HandleFlush(c, k)
  BY DEF ReadEvent, WriteEvent
<1>3. Copy(c, k)
  BY <1>1, <1>2 DEF Copy, Connection
<1>4. QED BY <1>2, <1>3, HandleReadStep, HandleFlushStep

\* A connection joins the table, not the room.
LEMMA AcceptStep ==
    ASSUME IInv, AcceptStart \/ AcceptDone
    PROVE  RoomStep
<1>1. CASE UNCHANGED conn
  BY <1>1, StutterStep
<1>2. ASSUME NEW c \in Fd, ~Live(c), conn' = [conn EXCEPT ![c] = NewConnection]
      PROVE  RoomStep
  <2>1. NewConnection \in Connection
    BY AgeTypes, EmptySeq DEF NewConnection, Connection
  <2>2. /\ NewConnection # None
        /\ NewConnection.tx = <<>> /\ NewConnection.status = "AwaitingAuth"
    BY <2>1, NoneAssumption DEF NewConnection
  <2>3. conn'[c] = NewConnection /\ \A d \in Fd : d # c => conn'[d] = conn[d]
    BY <1>2 DEF IInv, TypeOK
  <2>4. Members(conn') = Members(conn)
    BY <1>2, <2>2, <2>3 DEF Members, Live
  <2>5. \A d \in Fd : Inboxes(conn')[d] = Inboxes(conn)[d]
    BY <1>2, <2>2, <2>3 DEF Inboxes, Live
  <2>6. Inboxes(conn') = Inboxes(conn)
    BY <2>5 DEF Inboxes
  <2>7. QED BY <2>4, <2>6, StutterStep
<1>3. QED BY <1>1, <1>2 DEF AcceptStart, AcceptDone

\* The timer puts the silent out of the room and erases those whose queue is
\* empty.
LEMMA TimerStep ==
    ASSUME IInv, TimerEvent
    PROVE  RoomStep
<1> DEFINE D == Reaped(Marked)
<1>1. ASSUME NEW d \in Fd
      PROVE  /\ d \in Members(Marked) => d \in Members(conn)
             /\ Inboxes(Marked)[d] = Inboxes(conn)[d]
             /\ d \in D => d \notin Members(Marked)
  <2>1. CASE Live(d) /\ TimedOut(conn[d])
    <3> DEFINE k == conn[d]
               m == [k EXCEPT !.status = "Closing"]
    <3>1. Marked[d] = m /\ k \in Connection /\ k # None
      BY <2>1, LiveFacts DEF Marked, Live
    <3>2. m \in Connection /\ m.status = "Closing" /\ m.tx = k.tx
      BY <3>1 DEF Connection
    <3>3. m # None
      BY <3>2, NoneAssumption
    <3> HIDE DEF m
    <3>4. QED BY <3>1, <3>2, <3>3 DEF Members, Inboxes
  <2>2. CASE ~(Live(d) /\ TimedOut(conn[d]))
    <3>1. Marked[d] = conn[d]
      BY <2>2 DEF Marked
    <3>2. QED BY <3>1 DEF Members, Inboxes, Reaped
  <2>3. QED BY <2>1, <2>2
<1>2. D \in SUBSET Fd
  BY DEF Reaped
<1>3. conn' = Erased(Marked, D)
  BY DEF TimerEvent
<1> HIDE DEF D
<1>4. \A d \in Fd : conn'[d] = IF d \in D THEN None ELSE Marked[d]
  BY <1>3 DEF Erased
<1>5. Members(conn') \subseteq Members(conn) /\ D \cap Members(conn') = {}
  BY <1>1, <1>4 DEF Members
<1>6. \A d \in Fd : Inboxes(conn')[d] = IF d \in D THEN <<>> ELSE Inboxes(Marked)[d]
  BY <1>4 DEF Inboxes
<1>7. Inboxes(conn') = [d \in Fd |-> IF d \in D THEN <<>> ELSE Inboxes(conn)[d]]
  BY <1>1, <1>6 DEF Inboxes
<1>8. QED BY <1>2, <1>5, <1>7, LeaveStep

\* A message from the console is an announcement.
LEMMA ConsoleStep ==
    ASSUME IInv, ConsoleMessage
    PROVE  RoomStep
<1>1. PICK t \in Text : Broadcast(conn, None, Post(None, t))
  BY DEF ConsoleMessage
<1> DEFINE m == Post(None, t)
<1>2. m \in OutPacket /\ m \in PostedBy({None})
  BY PacketTypes DEF Post, PostedBy
<1>3. Broadcast(conn, None, m) /\ conn \in [Fd -> Connection \cup {None}]
  BY <1>1 DEF IInv, TypeOK
<1> HIDE DEF m
<1>4. /\ Members(conn') = Members(conn)
      /\ Inboxes(conn') =
           [d \in Fd |-> IF d \in Members(conn) \ {None}
                           THEN Append(Inboxes(conn)[d], m)
                           ELSE Inboxes(conn)[d]]
  BY <1>2, <1>3, BroadcastFacts
<1>5. Members(conn) \ {None} = Members(conn)
  BY ServerAssumption DEF Members
<1>6. QED BY <1>2, <1>4, <1>5, NoticeStep

\* A kick is a disconnect.
LEMMA KickStep ==
    ASSUME IInv, NEW u \in User, Kick(u)
    PROVE  RoomStep
<1>1. session[u].connection \in Fd
  BY DEF Kick, Attached, IInv, TypeOK, Session
<1>2. QED BY <1>1, DisconnectStep DEF Kick

\* A peer that goes away stays in the room until the server notices.
LEMMA HangUpStep ==
    ASSUME IInv, NEW c \in Fd, HangUp(c)
    PROVE  RoomStep
<1>1. Live(c) /\ conn[c] \in Connection
  BY LiveFacts DEF HangUp
<1>2. PICK e \in {"eof", "closed"} : Update(c, [conn[c] EXCEPT !.peer = e])
  BY DEF HangUp
<1>3. Copy(c, [conn[c] EXCEPT !.peer = e])
  BY <1>1 DEF Copy, Connection
<1>4. QED BY <1>2, <1>3, CopyStep DEF Update

\* The room has no clock.
LEMMA TickStep ==
    ASSUME IInv, Tick
    PROVE  RoomStep
<1>1. ASSUME NEW d \in Fd
      PROVE  /\ d \in Members(conn') <=> d \in Members(conn)
             /\ Inboxes(conn')[d] = Inboxes(conn)[d]
  <2>1. CASE Live(d)
    <3> DEFINE k == conn[d]
               m == [k EXCEPT !.seen = Older(k.seen, ConnTimeout)]
    <3>1. k \in Connection /\ k # None
      BY <2>1, LiveFacts DEF Live
    <3>2. conn'[d] = m
      BY <2>1 DEF Tick
    <3>3. Older(k.seen, ConnTimeout) \in 0..ConnTimeout
      BY <3>1, ServerAssumption, OlderType DEF Connection
    <3>4. m \in Connection /\ m.status = k.status /\ m.tx = k.tx
      BY <3>1, <3>3 DEF Connection
    <3>5. m # None
      BY <3>4, NoneAssumption
    <3> HIDE DEF m
    <3>6. QED BY <3>1, <3>2, <3>4, <3>5 DEF Members, Inboxes
  <2>2. CASE ~Live(d)
    <3>1. conn'[d] = conn[d]
      BY <2>2 DEF Tick
    <3>2. QED BY <3>1 DEF Members, Inboxes
  <2>3. QED BY <2>1, <2>2
<1>2. Members(conn') = Members(conn)
  BY <1>1 DEF Members
<1>3. Inboxes(conn') = Inboxes(conn)
  BY <1>1 DEF Inboxes
<1>4. QED BY <1>2, <1>3, StutterStep

-----------------------------------------------------------------------------
(***************************************************************************)
(* The refinement                                                          *)
(***************************************************************************)

\* The empty table is an empty room.
LEMMA InitRoom == Init => R!Init
BY DEF Init, R!Init, Joined, Live

\* A step from a reachable state is a step of the room or changes nothing in it.
LEMMA NextRoom == IInv /\ [Next]_vars => RoomStep
<1> SUFFICES ASSUME IInv, [Next]_vars PROVE RoomStep
  OBVIOUS
<1>1. CASE AcceptStart \/ AcceptDone
  BY <1>1, AcceptStep
<1>2. ASSUME NEW c \in Fd, ReadEvent(c) \/ WriteEvent(c) \/ HangUp(c)
      PROVE  RoomStep
  BY <1>2, SocketStep, HangUpStep
<1>3. CASE TimerEvent
  BY <1>3, TimerStep
<1>4. CASE ConsoleMessage
  BY <1>4, ConsoleStep
<1>5. CASE Quit
  BY <1>5, StutterStep DEF Quit
<1>6. ASSUME NEW u \in User, Kick(u)
      PROVE  RoomStep
  BY <1>6, KickStep
<1>7. CASE Tick
  BY <1>7, TickStep
<1>8. CASE UNCHANGED vars
  BY <1>8, StutterStep DEF vars
<1>9. QED BY <1>1, <1>2, <1>3, <1>4, <1>5, <1>6, <1>7, <1>8 DEF Next, Event

\* ChatServer implements ChatRoom: whatever the handlers of server/app.cpp do,
\* in whatever order, a post reaches every member but its author in one step,
\* in the order of the posts, and what is queued for a member is dropped only
\* when its connection is erased.
THEOREM RoomImplemented == Spec => RoomSpec
<1>1. Init => R!Init
  BY InitRoom
<1>2. IInv /\ [Next]_vars => [R!Next]_(R!vars)
  BY NextRoom DEF RoomStep
<1>3. QED BY <1>1, <1>2, Invariance, PTL DEF Spec, RoomSpec, R!Spec

-----------------------------------------------------------------------------
(***************************************************************************)
(* The onlooker                                                            *)
(***************************************************************************)

\* The clock of a disconnected session is not fast.  In the other states it may
\* be (reconnect_client leaves disconnected_at empty, infinitely old), which is
\* why they must never turn into "Disconnected" without the clock being set.
ClockHolds ==
    /\ away \in [User -> Nat]
    /\ \A u \in User :
         session[u] # None /\ session[u].state = "Disconnected" =>
           session[u].gone <= away[u]

ObsInv == IInv /\ ClockHolds

\* Nobody is away at first.
LEMMA InitClock == ObsInit => ObsInv
BY InitInv DEF ObsInit, ObsInv, ClockHolds, Init

\* A session that is Disconnected after a step was so before, or has just been
\* released and its clock set.
LEMMA EventClock ==
    ASSUME ObsInv, ObsEvent
    PROVE  ClockHolds'
<1>1. IInv /\ IInv' /\ SessionMoves
  BY NextInv, EventMoves DEF ObsInv, ObsEvent, Next
<1>2. away' = [u \in User |-> IF Away(u) /\ Away(u)' THEN away[u] ELSE 0]
  BY DEF ObsEvent
<1>3. away' \in [User -> Nat]
  BY <1>2 DEF ObsInv, ClockHolds
<1>4. ASSUME NEW u \in User, session'[u] # None,
             session'[u].state = "Disconnected"
      PROVE  session'[u].gone <= away'[u]
  <2>1. session'[u] \in Session /\ session'[u].connection = None
    BY <1>1, <1>4 DEF IInv, TypeOK, StateMatchesLink, Coherent
  <2>2. Away(u)'
    BY <1>4, <2>1 DEF Away, Attached
  <2>3. CASE session'[u] = session[u]
    <3>1. Away(u)
      BY <1>4, <2>1, <2>3 DEF Away, Attached
    <3>2. away'[u] = away[u]
      BY <1>2, <2>2, <3>1
    <3>3. QED BY <1>4, <2>3, <3>2 DEF ObsInv, ClockHolds
  <2>4. CASE Attached(u) /\ session'[u] = Detached(session[u])
    <3> DEFINE s == session[u]
    <3>1. s \in Session /\ s.state # "Disconnected"
      BY <1>1, <2>4 DEF IInv, TypeOK, StateMatchesLink, Coherent, Attached
    <3>2. s.state = "Connected"
      BY <1>4, <2>4, <3>1 DEF Detached, Session
    <3>3. session'[u].gone = 0
      BY <2>4, <3>1, <3>2 DEF Detached, Session
    <3>4. away'[u] \in Nat
      BY <1>3
    <3>5. QED BY <3>3, <3>4
  <2>5. QED BY <1>1, <1>4, <2>1, <2>3, <2>4 DEF SessionMoves, Moves
<1>5. QED BY <1>3, <1>4 DEF ClockHolds

\* Both clocks advance together.
LEMMA TickClock ==
    ASSUME ObsInv, ObsTick
    PROVE  ClockHolds'
<1>1. IInv /\ Tick
  BY DEF ObsInv, ObsTick
<1>2. away' = [u \in User |-> IF Away(u) THEN Older(away[u], Grace) ELSE 0]
  BY DEF ObsTick
<1>3. Grace \in Nat /\ away \in [User -> Nat]
  BY ServerAssumption DEF ObsInv, ClockHolds
<1>4. away' \in [User -> Nat]
  BY <1>2, <1>3 DEF Older
<1>5. ASSUME NEW u \in User, session'[u] # None,
             session'[u].state = "Disconnected"
      PROVE  session'[u].gone <= away'[u]
  <2>1. /\ session[u] # None
        /\ session[u].state = "Disconnected"
        /\ session'[u].gone = Older(session[u].gone, Grace)
    BY <1>1, <1>5, TickAges
  <2>2. session[u].gone \in 0..Grace /\ session[u].connection = None
    BY <2>1 DEF ObsInv, IInv, TypeOK, Session, StateMatchesLink, Coherent
  <2>3. away'[u] = Older(away[u], Grace)
    BY <1>2, <2>1, <2>2 DEF Away, Attached
  <2>4. session[u].gone <= away[u] /\ away[u] \in Nat
    BY <1>3, <2>1 DEF ObsInv, ClockHolds
  <2>5. Older(session[u].gone, Grace) <= Older(away[u], Grace)
    BY <1>3, <2>2, <2>4 DEF Older
  <2>6. QED BY <2>1, <2>3, <2>5
<1>6. QED BY <1>4, <1>5 DEF ClockHolds

\* The clock is right in every reachable state.
LEMMA NextClock == ObsInv /\ [ObsNext]_obsVars => ObsInv'
<1> SUFFICES ASSUME ObsInv, [ObsNext]_obsVars PROVE ObsInv'
  OBVIOUS
<1>1. [Next]_vars
  BY DEF ObsNext, ObsTick, ObsEvent, Next, obsVars
<1>2. IInv'
  BY <1>1, NextInv DEF ObsInv
<1>3. CASE UNCHANGED obsVars
  <2>1. away' = away /\ session' = session
    BY <1>3 DEF obsVars, vars
  <2>2. QED BY <1>2, <2>1 DEF ObsInv, ClockHolds
<1>4. CASE ObsNext
  <2>1. ClockHolds'
    BY <1>4, EventClock, TickClock DEF ObsNext
  <2>2. QED BY <1>2, <2>1 DEF ObsInv
<1>5. QED BY <1>3, <1>4

\* A session that disappears had expired, and its clock is right.
LEMMA Forgotten ==
    ASSUME ObsInv, [ObsNext]_obsVars, NEW u \in User,
           session[u] # None, session'[u] = None
    PROVE  away[u] >= Grace
<1>1. IInv /\ session[u] \in Session
  BY DEF ObsInv, IInv, TypeOK
<1>2. ~Tick /\ ~UNCHANGED obsVars
  BY <1>1, TickAges DEF obsVars, vars
<1>3. SessionMoves
  BY <1>1, <1>2, EventMoves DEF ObsNext, ObsTick, ObsEvent
<1>4. Expired(session[u])
  <2>1. CASE Attached(u)
    <3>1. Detached(session[u]) \in Session
      BY <1>1, DetachedFacts
    <3>2. QED BY <1>3, <3>1, NoneAssumption DEF SessionMoves, Moves
  <2>2. CASE ~Attached(u)
    BY <1>3, <2>2 DEF SessionMoves, Moves
  <2>3. QED BY <2>1, <2>2
<1>5. session[u].gone >= Grace /\ session[u].gone <= away[u]
  BY <1>4 DEF Expired, ObsInv, ClockHolds
<1>6. session[u].gone \in Nat /\ away[u] \in Nat /\ Grace \in Nat
  BY <1>1, ServerAssumption DEF ObsInv, ClockHolds, Session
<1>7. QED BY <1>5, <1>6

\* Whatever connects, disconnects and times out before, the timer forgets a
\* session only after its user has been away for the whole grace period
\* (manager.cpp mark_expired_sessions, disconnect, reconnect_client).
THEOREM NoSessionForgottenEarly == ObsSpec => GraceHonoured
<1>1. ObsInv /\ [ObsNext]_obsVars =>
        [\A u \in User :
           session[u] # None /\ session'[u] = None => away[u] >= Grace]_obsVars
  BY Forgotten
<1>2. QED BY <1>1, InitClock, NextClock, PTL DEF ObsSpec, GraceHonoured
=============================================================================
