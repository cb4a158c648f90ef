---------------------------- MODULE ClientProofs ----------------------------
(***************************************************************************)
(* The safety of ChatClient for any lines, any heartbeat threshold and any *)
(* bounds.                                                                 *)
(*                                                                         *)
(* NoLostWakeup speaks of the loop, but the loop starts with whatever the  *)
(* blocking exchanges leave, so IInv says that until then the connection   *)
(* is Quiet; and a closed connection is only ever written to, so it says   *)
(* nothing of one but its type.                                            *)
(***************************************************************************)
EXTENDS ChatClient, SequenceTheorems, TLAPS

Packet == Answer \cup RoomPacket

\* Nothing queued, nothing awaited.
Clean(k) == k.tx = <<>> /\ ~k.rww /\ ~k.wwr /\ ~k.writeOn

Good(k) == k \in Connection /\ (k.open => Awake(k) /\ k.status # "Closing")

IInv ==
    /\ TypeOK
    /\ batch # {} => phase = "chat"
    /\ phase = "starting" => Clean(conn)
    /\ phase \in {"menu", "registering", "login", "awaiting"} => conn.open /\ Clean(conn)
    /\ NoLostWakeup
    /\ NeverIgnored

-----------------------------------------------------------------------------
(***************************************************************************)
(* Effects on the connection                                               *)
(***************************************************************************)

\* A disconnected connection is closed, and clean unless it was closed before.
LEMMA DisconnectedFacts ==
    ASSUME NEW k \in Connection
    PROVE  /\ Disconnected(k) \in Connection
           /\ ~Disconnected(k).open
           /\ k.open => Clean(Disconnected(k))
<1>1. CASE k.open
  <2>1. <<>> \in Seq(OutPacket)
    BY EmptySeq
  <2>2. QED BY <1>1, <2>1 DEF Disconnected, Connection, Clean
<1>2. CASE ~k.open
  BY <1>2 DEF Disconnected
<1>3. QED BY <1>1, <1>2

\* An established connection keeps what it does not set.
LEMMA EstablishedFacts ==
    ASSUME NEW k \in Connection, Clean(k)
    PROVE  /\ Established(k) \in Connection
           /\ Established(k).open
           /\ Established(k).status = "AwaitingAuth"
           /\ Clean(Established(k))
BY DEF Established, Connection, Clean

\* Queueing a packet keeps a connection good: if the queue was not empty, it was
\* awake already.
LEMMA QueuedFacts ==
    ASSUME NEW k, Good(k), NEW p \in OutPacket
    PROVE  Good(Queued(k, p))
<1> DEFINE q  == Queued(k, p)
           on == k.writeOn \/ (k.open /\ k.tx = <<>>)
<1>1. k \in Connection
  BY DEF Good
<1>2. Append(k.tx, p) \in Seq(OutPacket) /\ Append(k.tx, p) # <<>>
  BY <1>1 DEF Connection
<1>3. on \in BOOLEAN
  BY <1>1 DEF Connection
<1>4. q = [k EXCEPT !.tx = Append(k.tx, p), !.writeOn = on]
  BY DEF Queued
<1> HIDE DEF on
<1>5. q \in Connection
  BY <1>1, <1>2, <1>3, <1>4 DEF Connection
<1>6. /\ q.open = k.open /\ q.status = k.status /\ q.rww = k.rww /\ q.wwr = k.wwr
      /\ q.tx = Append(k.tx, p) /\ q.writeOn = on
  BY <1>1, <1>4 DEF Connection
<1>7. ASSUME k.open PROVE Awake(q) /\ q.status # "Closing"
  BY <1>2, <1>6, <1>7 DEF Awake, Good, on
<1>8. QED BY <1>5, <1>6, <1>7 DEF Good

\* The age of what has just happened.
LEMMA FreshAge == 0 \in 0..Silence
BY ClientAssumption

\* The packets the client builds.
LEMMA PacketTypes ==
    /\ [type |-> "Ping"] \in OutPacket
    /\ \A t \in {"Register", "Login"} : [type |-> t] \in OutPacket
    /\ \A m \in Text : [type |-> "Message", text |-> m] \in OutPacket
BY DEF OutPacket

\* The rest of the inbox is an inbox.
LEMMA TailType ==
    ASSUME NEW s \in Seq(Packet), s # <<>>
    PROVE  Tail(s) \in Seq(Packet) /\ Head(s) \in Packet
BY HeadTailProperties

-----------------------------------------------------------------------------
(***************************************************************************)
(* Steps                                                                   *)
(***************************************************************************)

\* Link keeps the types of what it sets.
LEMMA LinkTypes ==
    ASSUME IInv, NEW k \in Connection, NEW in \in Seq(Packet), Link(k, in)
    PROVE  /\ conn' = k
           /\ inbox' \in Seq(Packet)
           /\ peer' \in {"up", "eof", "closed", "none"}
<1>1. <<>> \in Seq(Packet) /\ peer \in {"up", "eof", "closed", "none"}
  BY EmptySeq DEF IInv, TypeOK
<1>2. QED BY <1>1 DEF Link

\* The end of the program keeps the invariant.
LEMMA ExitInv ==
    ASSUME IInv, NEW k \in Connection, Exit(k)
    PROVE  IInv'
<1>1. Disconnected(k) \in Connection /\ ~Disconnected(k).open
  BY DisconnectedFacts
<1>2. /\ conn' = Disconnected(k) /\ inbox' \in Seq(Packet)
      /\ peer' \in {"up", "eof", "closed", "none"}
  BY <1>1, LinkTypes, EmptySeq DEF Exit
<1>3. phase' = "ended" /\ running' = FALSE /\ batch' = {}
  BY DEF Exit
<1>4. TypeOK'
  BY <1>1, <1>2, <1>3 DEF TypeOK, Packet
<1>5. QED BY <1>1, <1>2, <1>3, <1>4 DEF IInv, NoLostWakeup, NeverIgnored

\* Another connection, from a clean one, keeps the invariant.
LEMMA ConnectingInv ==
    ASSUME IInv, batch = {}, NEW k \in Connection, Clean(k),
           NEW p \in {"menu", "login"}, Connecting(k, p)
    PROVE  IInv'
<1>1. CASE Exit(k)
  BY <1>1, ExitInv
<1>2. CASE /\ phase' = p /\ conn' = Established(k) /\ inbox' = <<>> /\ peer' = "up"
           /\ UNCHANGED <<running, batch>>
  <2>1. /\ conn' \in Connection /\ conn'.open /\ conn'.status = "AwaitingAuth"
        /\ Clean(conn')
    BY <1>2, EstablishedFacts
  <2>2. inbox' \in Seq(Answer \cup RoomPacket)
    BY <1>2, EmptySeq
  <2>3. TypeOK'
    BY <1>2, <2>1, <2>2 DEF IInv, TypeOK
  <2>4. QED BY <1>2, <2>1, <2>3 DEF IInv, NoLostWakeup, NeverIgnored, Clean
<1>3. QED BY <1>1, <1>2 DEF Connecting

\* A retry drops the open connection first.
LEMMA RetryInv ==
    ASSUME IInv, batch = {}, NEW k \in Connection, k.open, Retry(k)
    PROVE  IInv'
BY DisconnectedFacts, ConnectingInv DEF Retry

\* What a flush that fails leaves is still an open connection.
LEMMA UnsentTypes ==
    ASSUME conn \in Connection, conn.open, NEW t \in {"Register", "Login"},
           NEW k \in Unsent(t)
    PROVE  k \in Connection /\ k.open
<1>1. PICK w \in BOOLEAN :
        k = [conn EXCEPT !.tx = Append(@, [type |-> t]), !.wwr = w]
  BY DEF Unsent
<1>2. Append(conn.tx, [type |-> t]) \in Seq(OutPacket)
  BY PacketTypes DEF Connection
<1>3. QED BY <1>1, <1>2 DEF Connection

\* A packet that was sent leaves the connection as it was.
LEMMA SentInv ==
    ASSUME IInv, phase \in {"menu", "login"}, NEW p \in {"registering", "awaiting"},
           Sent(p)
    PROVE  IInv'
<1> DEFINE k == [conn EXCEPT !.tx = <<>>, !.wwr = FALSE]
<1>1. /\ conn \in Connection /\ conn.open /\ Clean(conn) /\ batch = {}
      /\ inbox \in Seq(Packet)
  BY DEF IInv, TypeOK, Packet
<1>2. k \in Connection /\ k.open /\ Clean(k) /\ k.status = conn.status
  BY <1>1, EmptySeq DEF Connection, Clean
<1> HIDE DEF k
<1>3. conn' = k /\ inbox' \in Seq(Packet) /\ peer' \in {"up", "eof", "closed", "none"}
  BY <1>1, <1>2, LinkTypes DEF Sent, k
<1>4. phase' = p /\ UNCHANGED <<running, batch>>
  BY DEF Sent
<1>5. TypeOK'
  BY <1>2, <1>3, <1>4 DEF IInv, TypeOK, Packet
<1>6. QED BY <1>1, <1>2, <1>3, <1>4, <1>5 DEF IInv, NoLostWakeup, NeverIgnored

\* Every step of initialize keeps the invariant.
LEMMA StartInv ==
    ASSUME IInv, Start
    PROVE  IInv'
<1>1. /\ conn \in Connection /\ inbox \in Seq(Packet) /\ Packet = Answer \cup RoomPacket
      /\ peer \in {"up", "eof", "closed", "none"}
      /\ phase # "chat" => batch = {}
  BY DEF IInv, TypeOK, Packet
<1>2. phase \in {"menu", "registering", "login", "awaiting"} => conn.open /\ Clean(conn)
  BY DEF IInv
<1>3. CASE Connect
  <2>1. Clean(conn) /\ batch = {}
    BY <1>1, <1>3 DEF Connect, IInv
  <2>2. QED BY <1>1, <1>3, <2>1, ConnectingInv DEF Connect
<1>4. CASE ChooseLogin
  BY <1>1, <1>2, <1>4 DEF ChooseLogin, IInv, TypeOK, NoLostWakeup, NeverIgnored, Clean
<1>5. CASE RegisterSend
  <2>1. CASE Sent("registering")
    BY <1>5, <2>1, SentInv DEF RegisterSend
  <2>2. ASSUME NEW k \in Unsent("Register"), Exit(k) PROVE IInv'
    <3>1. k \in Connection
      BY <1>1, <1>2, <1>5, UnsentTypes DEF RegisterSend
    <3>2. QED BY <2>2, <3>1, ExitInv
  <2>3. QED BY <1>5, <2>1, <2>2 DEF RegisterSend
<1>6. CASE RegisterAnswer
  <2>1. CASE Exit(conn)
    BY <1>1, <2>1, ExitInv
  <2>2. CASE inbox # <<>> /\ phase' = "login" /\ Link(conn, Tail(inbox))
               /\ UNCHANGED <<running, batch>>
    <3>1. Tail(inbox) \in Seq(Packet)
      BY <1>1, <2>2, TailType
    <3>2. /\ conn' = conn /\ inbox' \in Seq(Packet)
          /\ peer' \in {"up", "eof", "closed", "none"}
      BY <1>1, <2>2, <3>1, LinkTypes
    <3>3. TypeOK'
      BY <2>2, <3>2 DEF IInv, TypeOK, Packet
    <3>4. QED
      BY <1>1, <1>2, <1>6, <2>2, <3>2, <3>3
      DEF RegisterAnswer, IInv, NoLostWakeup, NeverIgnored, Clean
  <2>3. QED BY <1>6, <2>1, <2>2 DEF RegisterAnswer
<1>7. CASE LoginSend
  <2>1. CASE Sent("awaiting")
    BY <1>7, <2>1, SentInv DEF LoginSend
  <2>2. ASSUME NEW k \in Unsent("Login"), Retry(k) PROVE IInv'
    <3>1. k \in Connection /\ k.open /\ batch = {}
      BY <1>1, <1>2, <1>7, UnsentTypes DEF LoginSend
    <3>2. QED BY <2>2, <3>1, RetryInv
  <2>3. QED BY <1>7, <2>1, <2>2 DEF LoginSend
<1>8. CASE LoginAnswer
  <2>1. phase = "awaiting" /\ batch = {} /\ conn.open /\ Clean(conn)
    BY <1>1, <1>2, <1>8 DEF LoginAnswer
  <2>2. CASE Retry(conn)
    BY <1>1, <2>1, <2>2, RetryInv
  <2>3. CASE Exit(conn)
    BY <1>1, <2>3, ExitInv
  <2>4. CASE inbox # <<>> /\ EnterChat
    <3> DEFINE k == [conn EXCEPT !.status = "Authenticated", !.idle = 0]
    <3>1. k \in Connection /\ k.open /\ Clean(k) /\ k.status = "Authenticated"
      BY <1>1, <2>1, FreshAge DEF Connection, Clean
    <3> HIDE DEF k
    <3>2. Tail(inbox) \in Seq(Packet)
      BY <1>1, <2>4, TailType
    <3>3. /\ conn' = k /\ inbox' \in Seq(Packet)
          /\ peer' \in {"up", "eof", "closed", "none"}
      BY <2>4, <3>1, <3>2, LinkTypes DEF EnterChat, k
    <3>4. phase' = "chat" /\ running' = TRUE /\ batch' = batch
      BY <2>4 DEF EnterChat
    <3>5. TypeOK'
      BY <3>1, <3>3, <3>4 DEF IInv, TypeOK, Packet
    <3>6. QED
      BY <3>1, <3>3, <3>4, <3>5 DEF IInv, NoLostWakeup, NeverIgnored, Clean, Awake
  <2>5. QED BY <1>8, <2>2, <2>3, <2>4 DEF LoginAnswer
<1>9. QED BY <1>3, <1>4, <1>5, <1>6, <1>7, <1>8 DEF Start

-----------------------------------------------------------------------------
(***************************************************************************)
(* The loop                                                                *)
(***************************************************************************)

\* What a handler leaves unchanged or takes from the batch.
InLoop ==
    /\ phase = "chat"
    /\ phase' = "chat"
    /\ batch' \subseteq {"read", "write", "timer", "console"}

\* A step of the loop that leaves a good connection keeps the invariant.
LEMMA LoopStep ==
    ASSUME IInv, InLoop, running' \in BOOLEAN,
           NEW k, Good(k), NEW in \in Seq(Packet), Link(k, in)
    PROVE  IInv'
<1>1. /\ conn' = k /\ inbox' \in Seq(Packet)
      /\ peer' \in {"up", "eof", "closed", "none"}
  BY LinkTypes DEF Good
<1>2. TypeOK'
  BY <1>1 DEF InLoop, TypeOK, Packet, Good
<1>3. QED BY <1>1, <1>2 DEF InLoop, IInv, NoLostWakeup, NeverIgnored, Good

\* The same for one that drops the connection.
LEMMA DropStep ==
    ASSUME IInv, InLoop, running' \in BOOLEAN,
           NEW k \in Connection, Link(Disconnected(k), <<>>)
    PROVE  IInv'
<1>1. Good(Disconnected(k)) /\ <<>> \in Seq(Packet)
  BY DisconnectedFacts, EmptySeq DEF Good
<1>2. QED BY <1>1, LoopStep

\* The connection in the loop is good.
LEMMA LoopFacts ==
    ASSUME IInv, phase = "chat"
    PROVE  /\ Good(conn) /\ inbox \in Seq(Packet) /\ running \in BOOLEAN
           /\ batch \subseteq {"read", "write", "timer", "console"}
BY DEF IInv, TypeOK, Packet, Good, NoLostWakeup, NeverIgnored

\* handle_read works on a connection with no SSL call waiting.
LEMMA HandleReadInv ==
    ASSUME IInv, InLoop, NEW k, Good(k), ~k.rww, ~k.wwr, HandleRead(k)
    PROVE  IInv'
<1>1. k \in Connection /\ inbox \in Seq(Packet) /\ running \in BOOLEAN
  BY LoopFacts DEF InLoop, Good
<1>2. ASSUME inbox # <<>>, Received([k EXCEPT !.rww = FALSE], Head(inbox))
      PROVE  IInv'
  <2> DEFINE r == [k EXCEPT !.rww = FALSE]
             i == [r EXCEPT !.idle = 0]
  <2>1. r = k
    BY <1>1 DEF Connection
  <2>2. Good(i)
    <3>1. i \in Connection /\ i.open = k.open /\ i.status = k.status /\ i.tx = k.tx
            /\ i.rww = k.rww /\ i.wwr = k.wwr /\ i.writeOn = k.writeOn
      BY <1>1, <2>1, FreshAge DEF Connection
    <3>2. QED BY <3>1 DEF Good, Awake
  <2>3. Tail(inbox) \in Seq(Packet)
    BY <1>1, <1>2, TailType
  <2> HIDE DEF r, i
  <2>4. \/ Stay(i, Tail(inbox))
        \/ Drop(r)
        \/ Stay(r, Tail(inbox))
    BY <1>2 DEF Received, r, i
  <2>5. CASE Stay(i, Tail(inbox))
    BY <1>1, <2>2, <2>3, <2>5, LoopStep DEF Stay
  <2>6. CASE Drop(r)
    BY <1>1, <2>1, <2>6, DropStep DEF Drop
  <2>7. CASE Stay(r, Tail(inbox))
    BY <1>1, <2>1, <2>3, <2>7, LoopStep DEF Stay
  <2>8. QED BY <2>4, <2>5, <2>6, <2>7
<1>3. ASSUME Stay([k EXCEPT !.rww = FALSE], inbox) PROVE IInv'
  <2>1. [k EXCEPT !.rww = FALSE] = k
    BY <1>1 DEF Connection
  <2>2. QED BY <1>1, <1>3, <2>1, LoopStep DEF Stay
<1>4. ASSUME Stay([k EXCEPT !.rww = TRUE, !.writeOn = TRUE], inbox) PROVE IInv'
  <2> DEFINE w == [k EXCEPT !.rww = TRUE, !.writeOn = TRUE]
  <2>1. /\ w \in Connection /\ w.open = k.open /\ w.status = k.status /\ w.rww
        /\ w.wwr = k.wwr /\ w.writeOn
    BY <1>1 DEF Connection
  <2> HIDE DEF w
  <2>2. Good(w)
    BY <2>1 DEF Good, Awake
  <2>3. QED BY <1>1, <1>4, <2>2, LoopStep DEF Stay, w
<1>5. ASSUME Stop(k) PROVE IInv'
  BY <1>1, <1>5, DropStep DEF Stop
<1>6. ASSUME Drop(k) PROVE IInv'
  BY <1>1, <1>6, DropStep DEF Drop
<1>7. QED BY <1>2, <1>3, <1>4, <1>5, <1>6 DEF HandleRead

\* flush_write may be called on a connection that is not awake (its wait for
\* READ was just cleared): every outcome wakes it or drops it.
LEMMA HandleFlushInv ==
    ASSUME IInv, InLoop, NEW k \in Connection, ~k.rww,
           k.open => k.status # "Closing", HandleFlush(k)
    PROVE  IInv'
<1>1. inbox \in Seq(Packet) /\ running \in BOOLEAN
  BY LoopFacts DEF InLoop
<1>2. CASE ~k.open /\ Stop(k)
  BY <1>2, DropStep DEF Stop
<1>3. ASSUME k.open, NEW n \in 0..Len(k.tx),
             LET r    == [k EXCEPT !.tx = SubSeq(@, n + 1, Len(@)), !.wwr = FALSE]
                 more == r.tx # <<>>
             IN  \/ ~more /\ Stay([r EXCEPT !.writeOn = @ /\ r.rww], inbox)
                 \/ more /\ Stay([r EXCEPT !.wwr = TRUE, !.writeOn = FALSE], inbox)
                 \/ more /\ Stay([r EXCEPT !.writeOn = TRUE], inbox)
                 \/ Stop(r)
      PROVE  IInv'
  <2> DEFINE tx == SubSeq(k.tx, n + 1, Len(k.tx))
             r  == [k EXCEPT !.tx = tx, !.wwr = FALSE]
  <2>1. tx \in Seq(OutPacket)
    <3>1. k.tx \in Seq(OutPacket) /\ Len(k.tx) \in Nat
      BY LenProperties DEF Connection
    <3>2. \A m \in (n + 1)..Len(k.tx) : k.tx[m] \in OutPacket
      BY <3>1, ElementOfSeq
    <3>3. QED BY <3>1, <3>2, SubSeqProperties
  <2> HIDE DEF tx
  <2>2. r \in Connection /\ r.status # "Closing" /\ r.tx = tx /\ ~r.wwr /\ ~r.rww
    BY <1>3, <2>1 DEF Connection
  <2> HIDE DEF r
  <2>3. CASE tx = <<>> /\ Stay([r EXCEPT !.writeOn = @ /\ r.rww], inbox)
    <3> DEFINE w == [r EXCEPT !.writeOn = @ /\ r.rww]
    <3>1. (r.writeOn /\ r.rww) \in BOOLEAN
      OBVIOUS
    <3>2. w \in Connection /\ w.status # "Closing" /\ w.tx = <<>> /\ ~w.wwr /\ ~w.rww
      BY <2>2, <2>3, <3>1 DEF Connection
    <3>3. Good(w)
      BY <3>2 DEF Good, Awake
    <3>4. QED BY <1>1, <2>3, <3>3, LoopStep DEF Stay
  <2>4. CASE tx # <<>> /\ Stay([r EXCEPT !.wwr = TRUE, !.writeOn = FALSE], inbox)
    <3> DEFINE w == [r EXCEPT !.wwr = TRUE, !.writeOn = FALSE]
    <3>1. w \in Connection /\ w.status # "Closing" /\ w.tx # <<>> /\ w.wwr /\ ~w.rww
      BY <2>2, <2>4 DEF Connection
    <3>2. Good(w)
      BY <3>1 DEF Good, Awake
    <3>3. QED BY <1>1, <2>4, <3>2, LoopStep DEF Stay
  <2>5. CASE tx # <<>> /\ Stay([r EXCEPT !.writeOn = TRUE], inbox)
    <3> DEFINE w == [r EXCEPT !.writeOn = TRUE]
    <3>1. w \in Connection /\ w.status # "Closing" /\ w.tx # <<>> /\ ~w.wwr
            /\ ~w.rww /\ w.writeOn
      BY <2>2, <2>5 DEF Connection
    <3>2. Good(w)
      BY <3>1 DEF Good, Awake
    <3>3. QED BY <1>1, <2>5, <3>2, LoopStep DEF Stay
  <2>6. CASE Stop(r)
    BY <2>2, <2>6, DropStep DEF Stop
  <2>7. QED BY <1>3, <2>2, <2>3, <2>4, <2>5, <2>6 DEF r, tx
<1>4. QED BY <1>2, <1>3 DEF HandleFlush

\* read_event keeps the invariant, reading or resuming a write.
LEMMA ReadEventInv ==
    ASSUME IInv, ReadEvent
    PROVE  IInv'
<1>1. phase = "chat"
  BY DEF ReadEvent, IInv
<1>2. Good(conn) /\ inbox \in Seq(Packet) /\ running \in BOOLEAN
  BY <1>1, LoopFacts
<1>3. InLoop
  BY <1>1, LoopFacts DEF ReadEvent, InLoop
<1>4. CASE conn.rww /\ Stay(conn, inbox)
  BY <1>2, <1>3, <1>4, LoopStep DEF Stay
<1>5. CASE ~conn.rww /\ conn.wwr /\ HandleFlush([conn EXCEPT !.wwr = FALSE])
  <2> DEFINE k == [conn EXCEPT !.wwr = FALSE]
  <2>1. k \in Connection /\ ~k.rww /\ (k.open => k.status # "Closing")
    BY <1>2, <1>5 DEF Connection, Good
  <2>2. QED BY <1>3, <1>5, <2>1, HandleFlushInv
<1>6. CASE ~conn.rww /\ ~conn.wwr /\ HandleRead(conn)
  BY <1>2, <1>3, <1>6, HandleReadInv
<1>7. QED BY <1>4, <1>5, <1>6 DEF ReadEvent

\* write_event keeps the invariant, writing or resuming a read.
LEMMA WriteEventInv ==
    ASSUME IInv, WriteEvent
    PROVE  IInv'
<1>1. phase = "chat"
  BY DEF WriteEvent, IInv
<1>2. Good(conn) /\ inbox \in Seq(Packet) /\ running \in BOOLEAN
  BY <1>1, LoopFacts
<1>3. InLoop
  BY <1>1, LoopFacts DEF WriteEvent, InLoop
<1>4. CASE conn.wwr /\ Stay(conn, inbox)
  BY <1>2, <1>3, <1>4, LoopStep DEF Stay
<1>5. CASE ~conn.wwr /\ conn.rww /\ HandleRead([conn EXCEPT !.rww = FALSE])
  <2> DEFINE k == [conn EXCEPT !.rww = FALSE]
  <2>1. /\ k \in Connection /\ ~k.rww /\ ~k.wwr /\ k.open = conn.open
        /\ k.status = conn.status /\ k.tx = conn.tx /\ k.writeOn = conn.writeOn
    BY <1>2, <1>5 DEF Connection, Good
  <2>2. Good(k)
    BY <1>2, <1>5, <2>1 DEF Good, Awake
  <2>3. QED BY <1>3, <1>5, <2>1, <2>2, HandleReadInv
<1>6. CASE ~conn.wwr /\ ~conn.rww /\ HandleFlush(conn)
  BY <1>2, <1>3, <1>6, HandleFlushInv DEF Good
<1>7. QED BY <1>4, <1>5, <1>6 DEF WriteEvent

\* handle_timer_event keeps the invariant, giving up or pinging.
LEMMA TimerEventInv ==
    ASSUME IInv, TimerEvent
    PROVE  IInv'
<1>1. phase = "chat"
  BY DEF TimerEvent, IInv
<1>2. Good(conn) /\ inbox \in Seq(Packet) /\ running \in BOOLEAN
  BY <1>1, LoopFacts
<1>3. InLoop
  BY <1>1, LoopFacts DEF TimerEvent, InLoop
<1>4. CASE Stop(conn)
  BY <1>2, <1>3, <1>4, DropStep DEF Stop, Good
<1>5. CASE Stay(Queued(conn, [type |-> "Ping"]), inbox)
  BY <1>2, <1>3, <1>5, LoopStep, QueuedFacts, PacketTypes DEF Stay
<1>6. QED BY <1>4, <1>5 DEF TimerEvent

\* console_write_event keeps the invariant, even on a closed connection.
LEMMA ConsoleEventInv ==
    ASSUME IInv, ConsoleEvent
    PROVE  IInv'
<1>1. phase = "chat"
  BY DEF ConsoleEvent, IInv
<1>2. Good(conn) /\ inbox \in Seq(Packet) /\ running \in BOOLEAN
  BY <1>1, LoopFacts
<1>3. InLoop
  BY <1>1, LoopFacts DEF ConsoleEvent, InLoop
<1>4. ASSUME NEW m \in Text,
             Stay(Queued(conn, [type |-> "Message", text |-> m]), inbox)
      PROVE  IInv'
  <2>1. Good(Queued(conn, [type |-> "Message", text |-> m]))
    BY <1>2, QueuedFacts, PacketTypes
  <2>2. QED BY <1>2, <1>3, <1>4, <2>1, LoopStep DEF Stay
<1>5. CASE Link(conn, inbox) /\ running' = FALSE
  BY <1>2, <1>3, <1>5, LoopStep
<1>6. CASE Stay(conn, inbox)
  BY <1>2, <1>3, <1>6, LoopStep DEF Stay
<1>7. QED BY <1>4, <1>5, <1>6 DEF ConsoleEvent

\* kevent() changes only the batch.
LEMMA WaitInv ==
    ASSUME IInv, Wait
    PROVE  IInv'
<1>1. batch' \subseteq {"read", "write", "timer", "console"}
  BY DEF Wait, Ready
<1>2. QED BY <1>1 DEF Wait, IInv, TypeOK, NoLostWakeup, NeverIgnored, Clean

\* The server and the passing of time change nothing the client waits for.
LEMMA EnvironmentInv ==
    ASSUME IInv, ServerSends \/ HangUp \/ Tick
    PROVE  IInv'
<1>1. conn \in Connection /\ inbox \in Seq(Packet) /\ Packet = Answer \cup RoomPacket
  BY DEF IInv, TypeOK, Packet
<1>2. CASE ServerSends
  <2>1. inbox' \in Seq(Packet)
    BY <1>1, <1>2, AppendProperties DEF ServerSends
  <2>2. QED BY <1>1, <1>2, <2>1 DEF ServerSends, IInv, TypeOK, NoLostWakeup, NeverIgnored, Clean
<1>3. CASE HangUp
  <2>1. inbox' \in Seq(Packet) /\ peer' \in {"up", "eof", "closed", "none"}
    BY <1>1, <1>3, EmptySeq DEF HangUp
  <2>2. QED BY <1>1, <1>3, <2>1 DEF HangUp, IInv, TypeOK, NoLostWakeup, NeverIgnored, Clean
<1>4. CASE Tick
  <2>1. conn.idle + 1 \in 0..Silence
    BY <1>1, <1>4, ClientAssumption DEF Tick, Connection
  <2>2. /\ conn' \in Connection /\ conn'.open = conn.open /\ conn'.status = conn.status
        /\ conn'.tx = conn.tx /\ conn'.rww = conn.rww /\ conn'.wwr = conn.wwr
        /\ conn'.writeOn = conn.writeOn
    BY <1>1, <1>4, <2>1 DEF Tick, Connection
  <2>3. phase = "chat" /\ UNCHANGED <<phase, running, batch, inbox, peer>>
    BY <1>4 DEF Tick
  <2>4. TypeOK'
    BY <2>2, <2>3 DEF IInv, TypeOK
  <2>5. QED BY <2>2, <2>3, <2>4 DEF IInv, NoLostWakeup, NeverIgnored, Awake
<1>5. QED BY <1>2, <1>3, <1>4

-----------------------------------------------------------------------------
(***************************************************************************)
(* The invariant and the theorems                                          *)
(***************************************************************************)

\* A program that has just started satisfies the invariant.
LEMMA InitInv == Init => IInv
<1> SUFFICES ASSUME Init PROVE IInv
  OBVIOUS
<1>1. conn \in Connection
  BY EmptySeq, ClientAssumption DEF Init, Connection
<1>2. inbox \in Seq(Answer \cup RoomPacket)
  BY EmptySeq DEF Init
<1>3. TypeOK
  BY <1>1, <1>2 DEF Init, TypeOK
<1>4. QED BY <1>3 DEF Init, IInv, Clean, NoLostWakeup, NeverIgnored

\* Every step keeps the invariant.
LEMMA NextInv == IInv /\ [Next]_vars => IInv'
<1> SUFFICES ASSUME IInv, [Next]_vars PROVE IInv'
  OBVIOUS
<1>1. CASE Start
  BY <1>1, StartInv
<1>2. CASE Wait
  BY <1>2, WaitInv
<1>3. CASE Handle
  BY <1>3, ReadEventInv, WriteEventInv, TimerEventInv, ConsoleEventInv DEF Handle
<1>4. CASE LoopEnds \/ KeventFails
  BY <1>4, ExitInv DEF LoopEnds, KeventFails, IInv, TypeOK
<1>5. CASE ServerSends \/ HangUp \/ Tick
  BY <1>5, EnvironmentInv
<1>6. CASE UNCHANGED vars
  BY <1>6 DEF vars, IInv, TypeOK, NoLostWakeup, NeverIgnored, Clean
<1>7. QED BY <1>1, <1>2, <1>3, <1>4, <1>5, <1>6 DEF Next

\* The inductive invariant holds in every reachable state of the client.
THEOREM Invariance == Spec => []IInv
<1>1. QED BY InitInv, NextInv, PTL DEF Spec

\* Every variable keeps its type.
THEOREM TypeCorrect == Spec => []TypeOK
<1>1. IInv => TypeOK
  BY DEF IInv
<1>2. QED BY <1>1, Invariance, PTL

\* Whatever the client's SSL waits for, an event it is registered for resumes
\* it (client/app.cpp read_event, write_event, handle_flush_result,
\* handle_timer_event, handle_console_input_result).
THEOREM WakeupsAreNotLost == Spec => []NoLostWakeup
<1>1. IInv => NoLostWakeup
  BY DEF IInv
<1>2. QED BY <1>1, Invariance, PTL

\* An open connection is never marked Closing (client/connection.cpp
\* establish_connection, close_connection; client/io.cpp handle_read).
THEOREM OpenIsRead == Spec => []NeverIgnored
<1>1. IInv => NeverIgnored
  BY DEF IInv
<1>2. QED BY <1>1, Invariance, PTL

\* A connection on which credentials are asked for carries nothing over from
\* the one before (client/connection.cpp close_connection).
THEOREM FreshCredentials == Spec => []NothingCarriedOver
<1>1. IInv => NothingCarriedOver
  BY DEF IInv, NothingCarriedOver, Clean
<1>2. QED BY <1>1, Invariance, PTL
=============================================================================
