--------------------------- MODULE HeartbeatProofs ---------------------------
(***************************************************************************)
(* While the network works, neither program of Heartbeat gives up the      *)
(* other, for every Period, Timeout and Delay with                         *)
(* Period + 2 * Delay < Timeout and every phase of the two timers.         *)
(*                                                                         *)
(* NoFalseAlarm is not inductive: nothing in it says that a Ping or a Pong *)
(* is on its way.  Working bounds the age of each clock by the packet that *)
(* will reset it: the first one on the way to the program, else (for the   *)
(* client) the first Ping, else the next timer event.                      *)
(*                                                                         *)
(* Once the network is cut, each of them notices in time.  NoticedInTime   *)
(* is not inductive either: it lets cutFor reach its bound between two     *)
(* timer events.  Vigilant adds what each timer event leaves, a clock that *)
(* cannot pass the bound before the next one, and that nothing resets the  *)
(* clock after the cut.                                                    *)
(***************************************************************************)
EXTENDS Heartbeat, TLAPS

\* The next packet to reach the client answers a Ping sent at most Delay before
\* it, and a Ping is sent at most Period after the client's clock began.
ClientIsFresh ==
    client = "chat" =>
      IF Len(down) > 0 THEN activity <= Period + Delay + down[1].age
      ELSE IF Len(up) > 0 THEN activity <= Period + up[1].age
      ELSE activity <= Period - ping

\* The client's timer began at most Delay after the server's clock, and a Ping
\* was sent, or is due, at most Period later.
ServerIsFresh ==
    status = "Authenticated" =>
      IF client = "joining" THEN Len(down) = 1 /\ seen <= down[1].age
      ELSE IF Len(up) > 0 THEN seen <= Period + Delay + up[1].age
      ELSE client = "chat" /\ seen <= Period + Delay - ping

\* Who has left has said so.
Announced ==
    /\ client \in {"joining", "chat"} /\ status = "removed" =>
         Len(down) > 0 /\ down[Len(down)].type = "Fin"
    /\ client = "ended" /\ status = "Authenticated" =>
         Len(up) > 0 /\ up[Len(up)].type = "Fin"
    /\ client = "dropped" => status = "removed"
    /\ status # "Closing"

\* What may be on the way.
Traffic ==
    /\ client = "joining" => /\ Len(up) = 0
                             /\ Len(down) > 0 /\ down[1].type = "Ack"
                             /\ \A i \in 2..Len(down) : down[i].type # "Ack"
    /\ client = "chat" => /\ \A i \in 1..Len(up) : up[i].type = "Ping"
                          /\ \A i \in 1..Len(down) : down[i].type # "Ack"
    /\ status = "Authenticated" => \A i \in 1..Len(down) : down[i].type # "Fin"

Working == ClientIsFresh /\ ServerIsFresh /\ Announced /\ Traffic

IInv == TypeOK /\ (network = "works" => Working)

-----------------------------------------------------------------------------
(***************************************************************************)
(* Packets on the way                                                      *)
(***************************************************************************)

Item(T) == [type: T, age: 0..Delay]

\* What is sent becomes the last packet on the way, and the first one if there
\* was none.
LEMMA SentFacts ==
    ASSUME NEW T, NEW f \in Flight(T), NEW t \in T, network = "works"
    PROVE  /\ Sent(f, t) \in Flight(T)
           /\ Len(f) \in Nat /\ Len(Sent(f, t)) = Len(f) + 1
           /\ \A i \in 1..Len(f) : Sent(f, t)[i] = f[i]
           /\ Sent(f, t)[Len(f) + 1].type = t /\ Sent(f, t)[Len(f) + 1].age = 0
<1> DEFINE e == [type |-> t, age |-> 0]
<1>1. e \in Item(T) /\ e.type = t /\ e.age = 0
  BY HeartbeatAssumption DEF Item
<1> HIDE DEF e
<1>2. f \in Seq(Item(T)) /\ Sent(f, t) = Append(f, e)
  BY DEF Flight, Item, Sent, e
<1>3. /\ Append(f, e) \in Seq(Item(T)) /\ Len(f) \in Nat
      /\ Len(Append(f, e)) = Len(f) + 1
      /\ \A i \in 1..Len(f) : Append(f, e)[i] = f[i]
      /\ Append(f, e)[Len(f) + 1] = e
  BY <1>1, <1>2
<1>4. QED BY <1>1, <1>2, <1>3 DEF Flight, Item

\* On a network that is cut nothing is sent.
LEMMA SentTyped ==
    ASSUME NEW T, NEW f \in Flight(T), NEW t \in T
    PROVE  Sent(f, t) \in Flight(T)
<1>1. CASE network = "works"
  BY <1>1, SentFacts
<1>2. CASE network # "works"
  BY <1>2 DEF Sent
<1>3. QED BY <1>1, <1>2

LEMMA TailFacts ==
    ASSUME NEW T, NEW f \in Flight(T), f # <<>>
    PROVE  /\ Tail(f) \in Flight(T)
           /\ Len(f) \in Nat \ {0} /\ Len(Tail(f)) = Len(f) - 1
           /\ \A i \in 1..(Len(f) - 1) : Tail(f)[i] = f[i + 1]
           /\ Head(f) = f[1] /\ f[1].type \in T /\ f[1].age \in 0..Delay
<1>1. f \in Seq(Item(T))
  BY DEF Flight, Item
<1>2. /\ Tail(f) \in Seq(Item(T))
      /\ Len(f) \in Nat \ {0} /\ Len(Tail(f)) = Len(f) - 1
      /\ \A i \in 1..(Len(f) - 1) : Tail(f)[i] = f[i + 1]
      /\ Head(f) = f[1] /\ f[1] \in Item(T)
  BY <1>1
<1>3. QED BY <1>2 DEF Flight, Item

LEMMA LengthFacts ==
    ASSUME NEW T, NEW f \in Flight(T)
    PROVE  /\ Len(f) \in Nat /\ (f = <<>> <=> Len(f) = 0)
           /\ \A i \in 1..Len(f) : f[i].type \in T /\ f[i].age \in 0..Delay
<1>1. f \in Seq(Item(T))
  BY DEF Flight, Item
<1>2. /\ Len(f) \in Nat /\ (f = <<>> <=> Len(f) = 0)
      /\ \A i \in 1..Len(f) : f[i] \in Item(T)
  BY <1>1
<1>3. QED BY <1>2 DEF Item

LEMMA AgedFacts ==
    ASSUME NEW T, NEW f \in Flight(T), ~Overdue(f)
    PROVE  /\ Aged(f) \in Flight(T)
           /\ Len(Aged(f)) = Len(f)
           /\ \A i \in 1..Len(f) : /\ Aged(f)[i].type = f[i].type
                                   /\ Aged(f)[i].age = f[i].age + 1
<1>1. f \in Seq(Item(T)) /\ Len(f) \in Nat /\ DOMAIN f = 1..Len(f)
  BY DEF Flight, Item
<1>2. ASSUME NEW i \in 1..Len(f)
      PROVE  /\ [f[i] EXCEPT !.age = @ + 1] \in Item(T)
             /\ [f[i] EXCEPT !.age = @ + 1].type = f[i].type
             /\ [f[i] EXCEPT !.age = @ + 1].age = f[i].age + 1
  <2>1. f[i] \in Item(T)
    BY <1>1
  <2>2. f[i].age # Delay
    BY <1>1 DEF Overdue
  <2>3. QED BY <2>1, <2>2, HeartbeatAssumption DEF Item
<1>3. Aged(f) = [i \in 1..Len(f) |-> [f[i] EXCEPT !.age = @ + 1]]
  BY <1>1 DEF Aged
<1>4. Aged(f) \in Seq(Item(T)) /\ Len(Aged(f)) = Len(f)
  BY <1>1, <1>2, <1>3
<1>5. QED BY <1>2, <1>3, <1>4 DEF Flight, Item

UpTypes == {"Ping", "Fin"}
DownTypes == {"Ack", "Pong", "Fin"}

-----------------------------------------------------------------------------
(***************************************************************************)
(* Types                                                                   *)
(***************************************************************************)

LEMMA InitTyped == Init => TypeOK
<1> SUFFICES ASSUME Init PROVE TypeOK
  OBVIOUS
<1> DEFINE e == [type |-> "Ack", age |-> 0]
<1>1. e \in Item(DownTypes)
  BY HeartbeatAssumption DEF Item, DownTypes
<1> HIDE DEF e
<1>2. down \in Flight(DownTypes)
  BY <1>1 DEF Init, e, Flight, Item
<1>3. up \in Flight(UpTypes)
  BY DEF Init, Flight
<1>4. Notice \in Nat
  BY HeartbeatAssumption DEF Notice
<1>5. QED BY <1>2, <1>3, <1>4, HeartbeatAssumption DEF Init, TypeOK, UpTypes, DownTypes

LEMMA NextTyped ==
    ASSUME TypeOK, [Next]_vars
    PROVE  TypeOK'
<1>0. /\ up \in Flight(UpTypes) /\ down \in Flight(DownTypes)
      /\ Notice \in Nat /\ 0 \in 0..Notice /\ Period \in 0..Period
      /\ 0 \in 0..Period
  BY HeartbeatAssumption DEF TypeOK, UpTypes, DownTypes, Notice
<1>1. CASE ClientTimer
  <2>1. up' \in Flight(UpTypes)
    BY <1>0, <1>1, SentTyped DEF ClientTimer, UpTypes
  <2>2. QED BY <1>0, <1>1, <2>1 DEF ClientTimer, TypeOK, UpTypes, serverVars
<1>2. CASE ServerTimer
  <2>1. down' \in Flight(DownTypes) /\ status' \in {"Authenticated", "Closing", "removed"}
    BY <1>0, <1>2, SentTyped DEF ServerTimer, DownTypes, TypeOK
  <2>2. QED BY <1>0, <1>2, <2>1 DEF ServerTimer, TypeOK, DownTypes, clientVars
<1>3. CASE ClosingFlushed \/ ServerDrops
  <2>1. down' \in Flight(DownTypes) /\ status' = "removed"
    BY <1>0, <1>3, SentTyped DEF ClosingFlushed, ServerDrops, DownTypes
  <2>2. QED BY <1>3, <2>1 DEF ClosingFlushed, ServerDrops, TypeOK, DownTypes, clientVars
<1>4. CASE ServerReads
  <2>1. up' \in Flight(UpTypes)
    BY <1>0, <1>4, TailFacts DEF ServerReads
  <2>2. down' \in Flight(DownTypes)
    BY <1>0, <1>4, SentTyped DEF ServerReads, DownTypes, Answer
  <2>3. seen' \in 0..Notice /\ status' \in {"Authenticated", "Closing", "removed"}
    BY <1>0, <1>4 DEF ServerReads, Refreshed, TypeOK
  <2>4. QED BY <1>4, <2>1, <2>2, <2>3
            DEF ServerReads, TypeOK, UpTypes, DownTypes, clientVars
<1>5. CASE ClientReads
  <2>1. down' \in Flight(DownTypes)
    BY <1>0, <1>5, TailFacts DEF ClientReads
  <2>2. /\ client' \in {"joining", "chat", "dropped", "ended"}
        /\ activity' \in 0..Notice /\ ping' \in 0..Period
    BY <1>0, <1>5 DEF ClientReads, clientVars, TypeOK
  <2>3. QED BY <1>5, <2>1, <2>2 DEF ClientReads, TypeOK, DownTypes, serverVars
<1>6. CASE ClientQuits
  <2>1. up' \in Flight(UpTypes)
    BY <1>0, <1>6, SentTyped DEF ClientQuits, UpTypes
  <2>2. QED BY <1>6, <2>1 DEF ClientQuits, TypeOK, UpTypes, serverVars
<1>7. CASE Cut
  <2>1. up' \in Flight(UpTypes) /\ down' \in Flight(DownTypes)
    BY <1>7 DEF Cut, Flight
  <2>2. QED BY <1>7, <2>1 DEF Cut, TypeOK, UpTypes, DownTypes, clientVars, serverVars
<1>8. CASE Tick
  <2>1. up' \in Flight(UpTypes) /\ down' \in Flight(DownTypes)
    BY <1>0, <1>8, AgedFacts DEF Tick
  <2>2. activity' \in 0..Notice /\ seen' \in 0..Notice /\ cutFor' \in 0..Notice
    BY <1>0, <1>8 DEF Tick, Older, TypeOK
  <2>3. ping' \in 0..Period /\ sweep' \in 0..Period
    BY <1>8, HeartbeatAssumption DEF Tick, TypeOK
  <2>4. QED BY <1>8, <2>1, <2>2, <2>3 DEF Tick, TypeOK, UpTypes, DownTypes
<1>9. CASE UNCHANGED vars
  BY <1>9 DEF TypeOK, vars, clientVars, serverVars
<1>10. QED
  BY <1>1, <1>2, <1>3, <1>4, <1>5, <1>6, <1>7, <1>8, <1>9 DEF Next, Step, Ends

-----------------------------------------------------------------------------
(***************************************************************************)
(* The clocks, while the network works                                     *)
(***************************************************************************)

\* What TypeOK says of the packets,
LEMMA InFlight ==
    ASSUME TypeOK
    PROVE  /\ up \in Flight(UpTypes) /\ down \in Flight(DownTypes)
           /\ Len(up) \in Nat /\ (up = <<>> <=> Len(up) = 0)
           /\ Len(down) \in Nat /\ (down = <<>> <=> Len(down) = 0)
           /\ \A i \in 1..Len(up) : up[i].type \in UpTypes /\ up[i].age \in 0..Delay
           /\ \A i \in 1..Len(down) : down[i].type \in DownTypes /\ down[i].age \in 0..Delay
<1>1. up \in Flight(UpTypes) /\ down \in Flight(DownTypes)
  BY DEF TypeOK, UpTypes, DownTypes
<1>2. QED BY <1>1, LengthFacts

\* of the clocks and the first packets,
LEMMA Clocks ==
    ASSUME TypeOK
    PROVE  /\ Len(up) \in Nat /\ Len(down) \in Nat
           /\ Len(up) > 0 => up[1].age \in Nat /\ up[1].age <= Delay
           /\ Len(down) > 0 => down[1].age \in Nat /\ down[1].age <= Delay
           /\ activity \in Nat /\ seen \in Nat /\ ping \in Nat /\ ping <= Period
           /\ Period \in Nat \ {0} /\ Delay \in Nat /\ Timeout \in Nat
           /\ Period + 2 * Delay < Timeout
<1>1. Len(up) > 0 => up[1].age \in Nat /\ up[1].age <= Delay
  BY InFlight, HeartbeatAssumption
<1>2. Len(down) > 0 => down[1].age \in Nat /\ down[1].age <= Delay
  BY InFlight, HeartbeatAssumption
<1>3. activity \in Nat /\ seen \in Nat /\ ping \in Nat /\ ping <= Period
  BY HeartbeatAssumption DEF Notice, TypeOK
<1>4. QED BY <1>1, <1>2, <1>3, InFlight, HeartbeatAssumption

\* and of the programs.
LEMMA States ==
    ASSUME TypeOK
    PROVE  /\ client \in {"joining", "chat", "dropped", "ended"}
           /\ status \in {"Authenticated", "Closing", "removed"}
BY DEF TypeOK

\* The bounds leave both clocks below Timeout.
LEMMA NeverLate ==
    ASSUME TypeOK, Working
    PROVE  /\ client = "chat" => ~Late(activity)
           /\ status = "Authenticated" => ~Late(seen)
<1>1. client = "chat" => activity <= Period + 2 * Delay
  BY Clocks, States, SMTT(30) DEF Working, ClientIsFresh
<1>2. status = "Authenticated" => seen <= Period + 2 * Delay
  BY Clocks, States, SMTT(30) DEF Working, ServerIsFresh
<1>3. QED BY <1>1, <1>2, Clocks, States DEF Late

LEMMA InitWorks == Init => Working
<1> SUFFICES ASSUME Init PROVE Working
  OBVIOUS
<1>1. Len(up) = 0 /\ Len(down) = 1 /\ down[1].type = "Ack" /\ down[1].age = 0
  BY DEF Init
<1>2. ClientIsFresh /\ ServerIsFresh /\ Announced
  BY <1>1 DEF Init, ClientIsFresh, ServerIsFresh, Announced
<1>3. Traffic
  BY <1>1 DEF Init, Traffic
<1>4. QED BY <1>2, <1>3 DEF Working

LEMMA ClientTimerWorks ==
    ASSUME TypeOK, Working, network = "works", ClientTimer
    PROVE  Working'
<1>1. CASE client = "dropped"
  <2>1. /\ client' \in {"dropped", "ended"} /\ status = "removed"
        /\ UNCHANGED <<status, down>>
    BY <1>1 DEF ClientTimer, Working, Announced, serverVars
  <2>2. QED BY <1>1, <2>1
            DEF Working, ClientIsFresh, ServerIsFresh, Announced, Traffic
<1>2. CASE client = "chat"
  <2>1. /\ ping = 0 /\ client' = "chat" /\ up' = Sent(up, "Ping")
        /\ UNCHANGED <<activity, status, seen, down>> /\ ping' = Period
    BY <1>2, NeverLate DEF ClientTimer, serverVars
  <2>2. /\ Len(up') = Len(up) + 1
        /\ \A i \in 1..Len(up) : up'[i] = up[i]
        /\ up'[Len(up) + 1].type = "Ping" /\ up'[Len(up) + 1].age = 0
    BY <2>1, InFlight, States, SentFacts DEF UpTypes
  <2>3. Len(up) = 0 => up'[1].age = 0
    BY <2>2
  <2>4. Len(up) > 0 => up'[1] = up[1]
    BY <2>2, InFlight, States
  <2>0. Len(up') > 0
    BY <2>2, Clocks
  <2>5. ClientIsFresh'
    <3>1. Len(down) = 0 /\ Len(up) = 0 => activity <= Period
      BY <1>2, <2>1, Clocks DEF Working, ClientIsFresh
    <3>2. Len(down) = 0 => activity <= Period + up'[1].age
      BY <1>2, <2>3, <2>4, <3>1, Clocks DEF Working, ClientIsFresh
    <3>3. Len(down) > 0 => activity <= Period + Delay + down[1].age
      BY <1>2 DEF Working, ClientIsFresh
    <3>4. QED BY <2>0, <2>1, <3>2, <3>3, Clocks DEF ClientIsFresh
  <2>6. ServerIsFresh'
    BY <1>2, <2>1, <2>2, <2>3, <2>4, Clocks, States DEF Working, ServerIsFresh
  <2>7. Announced'
    BY <1>2, <2>1 DEF Working, Announced
  <2>8. \A i \in 1..Len(up') : up'[i].type = "Ping"
    BY <1>2, <2>2, InFlight, States DEF Working, Traffic
  <2>9. Traffic'
    BY <1>2, <2>1, <2>8 DEF Working, Traffic
  <2>10. QED BY <2>5, <2>6, <2>7, <2>9 DEF Working
<1>3. QED BY <1>1, <1>2 DEF ClientTimer, Looping

\* The end of the connection goes the same way from every cause.
LEMMA RemovedWorks ==
    ASSUME TypeOK, Working, network = "works", status = "Authenticated",
           status' = "removed", down' = Sent(down, "Fin"),
           UNCHANGED <<clientVars, up>>
    PROVE  Working'
<1>1. /\ Len(down') = Len(down) + 1
      /\ \A i \in 1..Len(down) : down'[i] = down[i]
      /\ down'[Len(down) + 1].type = "Fin" /\ down'[Len(down) + 1].age = 0
  BY InFlight, States, SentFacts DEF DownTypes
<1>2. UNCHANGED <<client, activity, ping, up>>
  BY DEF clientVars
<1>3. (Len(down) = 0 => down'[1].age = 0) /\ (Len(down) > 0 => down'[1] = down[1])
  BY <1>1, InFlight, States
<1>4. ClientIsFresh'
  BY <1>1, <1>2, <1>3, Clocks, States, SMTT(30) DEF Working, ClientIsFresh
<1>5. ServerIsFresh' /\ Announced'
  BY <1>1, <1>2, Clocks, States DEF Working, ServerIsFresh, Announced
<1>6. \A i \in 1..Len(down') : i \in 1..Len(down) \/ i = Len(down) + 1
  BY <1>1, InFlight, States
<1>7. Traffic'
  <2>1. client = "joining" => /\ Len(up') = 0 /\ Len(down') > 0
                              /\ down'[1].type = "Ack"
    BY <1>1, <1>2, <1>3, InFlight, States DEF Working, Traffic
  <2>2. client = "joining" => \A i \in 2..Len(down') : down'[i].type # "Ack"
    BY <1>1, <1>6, InFlight, States DEF Working, Traffic
  <2>3. client = "chat" => /\ \A i \in 1..Len(up') : up'[i].type = "Ping"
                           /\ \A i \in 1..Len(down') : down'[i].type # "Ack"
    BY <1>1, <1>2, <1>6 DEF Working, Traffic
  <2>4. QED BY <1>2, <2>1, <2>2, <2>3 DEF Traffic
<1>8. QED BY <1>4, <1>5, <1>7 DEF Working

LEMMA ServerTimerWorks ==
    ASSUME TypeOK, Working, network = "works", ServerTimer
    PROVE  Working'
<1>1. UNCHANGED <<status, down, seen, client, activity, ping, up>>
  BY NeverLate DEF ServerTimer, Working, Announced, clientVars
<1>2. QED
  BY <1>1 DEF Working, ClientIsFresh, ServerIsFresh, Announced, Traffic

LEMMA ServerReadsWorks ==
    ASSUME TypeOK, Working, network = "works", ServerReads
    PROVE  Working'
<1>1. /\ Len(up) > 0 /\ Len(up') = Len(up) - 1 /\ Head(up) = up[1]
      /\ \A i \in 1..(Len(up) - 1) : up'[i] = up[i + 1]
      /\ up[1].age \in 0..Delay /\ up[1].type \in {"Ping", "Fin"}
  BY InFlight, States, TailFacts DEF ServerReads, UpTypes
<1>2. UNCHANGED <<client, activity, ping>>
  BY DEF ServerReads, clientVars
<1>3. client # "joining"
  BY <1>1 DEF Working, Traffic
<1>4. \A i \in 1..Len(up') : i + 1 \in 1..Len(up) /\ up'[i] = up[i + 1]
  BY <1>1, InFlight, States
<1>5. client = "chat" => \A i \in 1..Len(up') : up'[i].type = "Ping"
  BY <1>4 DEF Working, Traffic
<1>6. CASE status # "Authenticated"
  <2>1. status = "removed" /\ UNCHANGED <<seen, status, down>>
    BY <1>1, <1>6, InFlight, States DEF ServerReads, Working, Announced
  <2>2. client = "chat" => Len(down) > 0
    BY <2>1 DEF Working, Announced
  <2>3. ClientIsFresh' /\ ServerIsFresh' /\ Announced'
    BY <1>2, <2>1, <2>2 DEF Working, ClientIsFresh, ServerIsFresh, Announced
  <2>4. Traffic'
    BY <1>2, <1>3, <1>5, <2>1 DEF Working, Traffic
  <2>5. QED BY <2>3, <2>4 DEF Working
<1>7. CASE status = "Authenticated" /\ up[1].type = "Fin"
  <2>1. status' = "removed" /\ UNCHANGED <<seen, down>>
    BY <1>1, <1>7 DEF ServerReads, Refreshed
  <2>2. client \in {"ended", "dropped"}
    BY <1>1, <1>3, <1>7, InFlight, States DEF Working, Traffic
  <2>3. QED BY <1>2, <2>1, <2>2
            DEF Working, ClientIsFresh, ServerIsFresh, Announced, Traffic
<1>8. CASE status = "Authenticated" /\ up[1].type = "Ping"
  <2>1. status' = "Authenticated" /\ seen' = 0 /\ down' = Sent(down, "Pong")
    BY <1>1, <1>8 DEF ServerReads, Refreshed, Answer
  <2>2. /\ Len(down') = Len(down) + 1
        /\ \A i \in 1..Len(down) : down'[i] = down[i]
        /\ down'[Len(down) + 1].type = "Pong" /\ down'[Len(down) + 1].age = 0
    BY <2>1, InFlight, States, SentFacts DEF DownTypes
  <2>3. (Len(down) = 0 => down'[1].age = 0) /\ (Len(down) > 0 => down'[1] = down[1])
    BY <2>2, InFlight, States
  <2>4. ClientIsFresh'
    BY <1>1, <1>2, <2>2, <2>3, Clocks, States, SMTT(30) DEF Working, ClientIsFresh
  <2>5. client = "ended" => Len(up') > 0 /\ up'[Len(up')].type = "Fin"
    BY <1>1, <1>8, <1>4, InFlight, States DEF Working, Announced
  <2>6. client \in {"chat", "ended"}
    BY <1>3, <1>8, InFlight, States DEF Working, Announced
  <2>7. \A i \in 1..Len(up') : up'[i].age \in 0..Delay
    BY <1>4, InFlight, States
  <2>8. ServerIsFresh'
    <3>1. Len(up') \in Nat /\ (Len(up') > 0 => up'[1].age \in Nat)
      BY <1>1, <2>7, InFlight, HeartbeatAssumption
    <3>2. QED BY <1>2, <2>1, <2>5, <2>6, <3>1, Clocks, SMTT(30) DEF ServerIsFresh
  <2>9. Announced'
    BY <1>2, <2>1, <2>5, <2>6 DEF Announced
  <2>10. \A i \in 1..Len(down') : down'[i].type = "Pong" \/ (i \in 1..Len(down) /\ down'[i] = down[i])
    BY <2>2, InFlight, States
  <2>11. Traffic'
    BY <1>2, <1>5, <1>8, <2>6, <2>10 DEF Working, Traffic
  <2>12. QED BY <2>4, <2>8, <2>9, <2>11 DEF Working
<1>9. QED BY <1>1, <1>6, <1>7, <1>8

LEMMA ClientReadsWorks ==
    ASSUME TypeOK, Working, network = "works", ClientReads
    PROVE  Working'
<1>1. /\ Len(down) > 0 /\ Len(down') = Len(down) - 1 /\ Head(down) = down[1]
      /\ \A i \in 1..(Len(down) - 1) : down'[i] = down[i + 1]
      /\ down[1].age \in 0..Delay /\ down[1].type \in {"Ack", "Pong", "Fin"}
  BY InFlight, States, TailFacts DEF ClientReads, DownTypes
<1>2. UNCHANGED <<status, seen, up>>
  BY DEF ClientReads, serverVars
<1>3. \A i \in 1..Len(down') : i + 1 \in 2..Len(down) /\ down'[i] = down[i + 1]
  BY <1>1, InFlight, States
<1>4. status = "Authenticated" => \A i \in 1..Len(down') : down'[i].type # "Fin"
  BY <1>3, InFlight, States DEF Working, Traffic
<1>5. Len(down') > 0 => down'[Len(down')] = down[Len(down)]
  BY <1>1, InFlight, States
<1>6. CASE client = "joining"
  <2>1. client' = "chat" /\ activity' = 0 /\ ping' = Period
    BY <1>1, <1>6 DEF ClientReads, Working, Traffic
  <2>2. Len(up) = 0
    BY <1>6 DEF Working, Traffic
  <2>3. \A i \in 1..Len(down') : down'[i].type # "Ack" /\ down'[i].age \in 0..Delay
    BY <1>3, <1>6, InFlight, States DEF Working, Traffic
  <2>4. ClientIsFresh'
    <3>1. Len(down') \in Nat /\ (Len(down') > 0 => down'[1].age \in Nat)
      BY <1>1, <2>3, InFlight, HeartbeatAssumption
    <3>2. QED BY <1>2, <2>1, <2>2, <3>1, Clocks DEF ClientIsFresh
  <2>5. ServerIsFresh'
    BY <1>1, <1>2, <1>6, <2>1, <2>2, Clocks, States DEF Working, ServerIsFresh
  <2>6. status = "removed" => Len(down') > 0
    BY <1>1, <1>6, InFlight, States DEF Working, Announced, Traffic
  <2>7. Announced'
    BY <1>2, <1>5, <1>6, <2>1, <2>6 DEF Working, Announced
  <2>8. Traffic'
    BY <1>2, <1>4, <2>1, <2>2, <2>3, InFlight, States DEF Traffic
  <2>9. QED BY <2>4, <2>5, <2>7, <2>8 DEF Working
<1>7. CASE client = "chat" /\ down[1].type = "Pong"
  <2>1. client' = "chat" /\ activity' = 0 /\ ping' = ping
    BY <1>1, <1>7 DEF ClientReads
  <2>2. \A i \in 1..Len(down') : down'[i].type # "Ack" /\ down'[i].age \in 0..Delay
    BY <1>3, <1>7, InFlight, States DEF Working, Traffic
  <2>3. ClientIsFresh'
    <3>1. Len(down') \in Nat /\ (Len(down') > 0 => down'[1].age \in Nat)
      BY <1>1, <2>2, InFlight, HeartbeatAssumption
    <3>2. Len(up) > 0 => 0 <= Period + up[1].age
      BY Clocks
    <3>3. 0 <= Period - ping
      BY Clocks
    <3>4. Len(down') > 0 => 0 <= Period + Delay + down'[1].age
      BY <3>1, HeartbeatAssumption
    <3>5. QED BY <1>2, <2>1, <3>2, <3>3, <3>4 DEF ClientIsFresh
  <2>4. ServerIsFresh'
    BY <1>2, <1>7, <2>1 DEF Working, ServerIsFresh
  <2>5. status = "removed" => Len(down') > 0
    BY <1>1, <1>7, InFlight, States DEF Working, Announced
  <2>6. Announced'
    BY <1>2, <1>5, <1>7, <2>1, <2>5 DEF Working, Announced
  <2>7. Traffic'
    BY <1>2, <1>4, <1>7, <2>1, <2>2 DEF Working, Traffic
  <2>8. QED BY <2>3, <2>4, <2>6, <2>7 DEF Working
<1>8. CASE client = "chat" /\ down[1].type = "Fin"
  <2>1. client' = "dropped"
    BY <1>1, <1>8 DEF ClientReads
  <2>2. status = "removed"
    BY <1>1, <1>8, InFlight, States DEF Working, Announced, Traffic
  <2>3. QED BY <1>2, <2>1, <2>2
            DEF Working, ClientIsFresh, ServerIsFresh, Announced, Traffic
<1>9. CASE client \in {"dropped", "ended"}
  <2>1. UNCHANGED <<client, activity, ping>>
    BY <1>9 DEF ClientReads, clientVars
  <2>2. QED BY <1>2, <1>4, <1>9, <2>1
            DEF Working, ClientIsFresh, ServerIsFresh, Announced, Traffic
<1>10. client = "chat" => down[1].type # "Ack"
  BY <1>1, InFlight, States DEF Working, Traffic
<1>11. QED BY <1>1, <1>6, <1>7, <1>8, <1>9, <1>10, InFlight, States

LEMMA ClientQuitsWorks ==
    ASSUME TypeOK, Working, network = "works", ClientQuits
    PROVE  Working'
<1>1. client' = "ended" /\ UNCHANGED <<activity, ping, status, seen, down>>
  BY DEF ClientQuits, serverVars
<1>2. CASE client = "chat"
  <2>1. /\ Len(up') = Len(up) + 1
        /\ \A i \in 1..Len(up) : up'[i] = up[i]
        /\ up'[Len(up) + 1].type = "Fin" /\ up'[Len(up) + 1].age = 0
    BY <1>2, InFlight, States, SentFacts DEF ClientQuits, UpTypes
  <2>2. (Len(up) = 0 => up'[1].age = 0) /\ (Len(up) > 0 => up'[1] = up[1])
    BY <2>1, InFlight, States
  <2>3. ServerIsFresh'
    BY <1>1, <1>2, <2>1, <2>2, Clocks, States DEF Working, ServerIsFresh
  <2>4. QED BY <1>1, <2>1, <2>3, Clocks, States DEF Working, ClientIsFresh, Announced, Traffic
<1>3. CASE client = "dropped"
  BY <1>1, <1>3 DEF Working, ClientIsFresh, ServerIsFresh, Announced, Traffic
<1>4. QED BY <1>2, <1>3 DEF ClientQuits, Looping

LEMMA TickWorks ==
    ASSUME TypeOK, Working, network = "works", Tick
    PROVE  Working'
<1>0. \A n \in Nat : Older(n, Notice) \in Nat /\ Older(n, Notice) <= n + 1
  BY DEF Older
<1>1. /\ UNCHANGED <<client, status>> /\ activity' <= activity + 1 /\ seen' <= seen + 1
      /\ activity' \in Nat /\ seen' \in Nat
  BY <1>0, Clocks DEF Tick
<1>2. /\ Len(up') = Len(up)
      /\ \A i \in 1..Len(up) : up'[i].type = up[i].type /\ up'[i].age = up[i].age + 1
  BY InFlight, States, AgedFacts DEF Tick
<1>3. /\ Len(down') = Len(down)
      /\ \A i \in 1..Len(down) :
           down'[i].type = down[i].type /\ down'[i].age = down[i].age + 1
  BY InFlight, States, AgedFacts DEF Tick
<1>4. client = "chat" => ping' = ping - 1
  BY DEF Tick, Looping
<1>5. /\ Len(up') = Len(up)
      /\ Len(up) > 0 => up'[1].age \in Nat /\ up'[1].age = up[1].age + 1
      /\ Len(down') = Len(down)
      /\ Len(down) > 0 => down'[1].age \in Nat /\ down'[1].age = down[1].age + 1
  BY <1>2, <1>3, Clocks, SMTT(30)
<1>6. ClientIsFresh'
  <2>1. CASE client # "chat"
    BY <1>1, <2>1 DEF ClientIsFresh
  <2>2. CASE client = "chat" /\ Len(down) > 0
    <3>1. activity <= Period + Delay + down[1].age
      BY <2>2 DEF Working, ClientIsFresh
    <3>2. down[1].age \in Nat /\ down'[1].age = down[1].age + 1
      BY <1>5, <2>2, Clocks
    <3>3. activity \in Nat /\ activity' \in Nat /\ activity' <= activity + 1
      BY <1>1, Clocks
    <3>4. activity' <= Period + Delay + down'[1].age
      BY <3>1, <3>2, <3>3, HeartbeatAssumption
    <3>5. QED BY <1>5, <2>2, <3>4 DEF ClientIsFresh
  <2>3. CASE client = "chat" /\ Len(down) = 0 /\ Len(up) > 0
    <3>1. activity <= Period + up[1].age
      BY <2>3, Clocks DEF Working, ClientIsFresh
    <3>2. up[1].age \in Nat /\ up'[1].age \in Nat /\ up'[1].age = up[1].age + 1
      BY <1>5, <2>3, Clocks
    <3>3. activity \in Nat /\ activity' \in Nat /\ activity' <= activity + 1 /\ Period \in Nat
      BY <1>1, Clocks
    <3>4. activity' <= Period + up'[1].age
      BY <3>1, <3>2, <3>3
    <3>5. QED BY <1>5, <2>3, <3>4, Clocks DEF ClientIsFresh
  <2>4. CASE client = "chat" /\ Len(down) = 0 /\ Len(up) = 0
    BY <1>1, <1>4, <1>5, <2>4, Clocks, SMTT(30) DEF Working, ClientIsFresh
  <2>5. QED BY <2>1, <2>2, <2>3, <2>4, Clocks
<1>7. ServerIsFresh'
  <2>1. CASE status # "Authenticated"
    BY <1>1, <2>1 DEF ServerIsFresh
  <2>2. CASE status = "Authenticated" /\ client = "joining"
    <3>1. Len(down) = 1 /\ seen <= down[1].age
      BY <2>2 DEF Working, ServerIsFresh
    <3>2. Len(down') = 1 /\ seen' <= down'[1].age
      BY <1>1, <1>5, <3>1, Clocks, SMTT(30)
    <3>3. QED BY <1>1, <2>2, <3>2 DEF ServerIsFresh
  <2>3. CASE status = "Authenticated" /\ client # "joining" /\ Len(up) > 0
    <3>1. seen <= Period + Delay + up[1].age
      BY <2>3 DEF Working, ServerIsFresh
    <3>2. up[1].age \in Nat /\ up'[1].age = up[1].age + 1
      BY <1>5, <2>3, Clocks
    <3>3. seen \in Nat /\ seen' \in Nat /\ seen' <= seen + 1
      BY <1>1, Clocks
    <3>4. seen' <= Period + Delay + up'[1].age
      BY <3>1, <3>2, <3>3, HeartbeatAssumption
    <3>5. QED BY <1>1, <1>5, <2>3, <3>4 DEF ServerIsFresh
  <2>4. CASE status = "Authenticated" /\ client # "joining" /\ Len(up) = 0
    BY <1>1, <1>4, <1>5, <2>4, Clocks, SMTT(30) DEF Working, ServerIsFresh
  <2>5. QED BY <2>1, <2>2, <2>3, <2>4, Clocks
<1>8. Announced'
  BY <1>1, <1>2, <1>3, InFlight, States DEF Working, Announced
<1>9. Traffic'
  BY <1>1, <1>2, <1>3, InFlight, States DEF Working, Traffic
<1>10. QED BY <1>6, <1>7, <1>8, <1>9 DEF Working

-----------------------------------------------------------------------------
(***************************************************************************)
(* The theorems                                                            *)
(***************************************************************************)

LEMMA InitIInv == Init => IInv
BY InitTyped, InitWorks DEF IInv

LEMMA NextIInv ==
    ASSUME IInv, [Next]_vars
    PROVE  IInv'
<1>1. TypeOK /\ TypeOK'
  BY NextTyped DEF IInv
<1>2. SUFFICES ASSUME network' = "works" PROVE Working'
  BY <1>1 DEF IInv
<1>3. network = "works"
  BY <1>2 DEF Next, Step, Ends, vars, ClientTimer, ServerTimer, ClosingFlushed,
              ServerReads, ClientReads, ClientQuits, ServerDrops, Cut, Tick
<1>4. Working
  BY <1>3 DEF IInv
<1>5. CASE ServerDrops
  <2>1. status = "Authenticated"
    BY <1>4, <1>5, States, <1>1 DEF ServerDrops, Working, Announced
  <2>2. QED BY <1>1, <1>3, <1>4, <1>5, <2>1, RemovedWorks DEF ServerDrops
<1>6. CASE ClosingFlushed
  BY <1>4, <1>6 DEF ClosingFlushed, Working, Announced
<1>7. CASE Cut
  BY <1>2, <1>7 DEF Cut
<1>8. CASE UNCHANGED vars
  BY <1>4, <1>8 DEF vars, Working, ClientIsFresh, ServerIsFresh, Announced, Traffic
<1>9. QED
  BY <1>1, <1>3, <1>4, <1>5, <1>6, <1>7, <1>8, ClientTimerWorks, ServerTimerWorks,
     ServerReadsWorks, ClientReadsWorks, ClientQuitsWorks, TickWorks
     DEF Next, Step, Ends

LEMMA IInvHolds == Spec => []IInv
<1>1. IInv /\ [Next]_vars => IInv'
  BY NextIInv
<1>2. QED BY InitIInv, <1>1, PTL DEF Spec

\* The state keeps its types: no packet is under way longer than Delay.
THEOREM TypeCorrect == Spec => []TypeOK
<1>1. IInv => TypeOK
  BY DEF IInv
<1>2. QED BY IInvHolds, <1>1, PTL

\* While the network works, no client that pings is dropped for its silence, and
\* no client gives up a server that answers.
THEOREM AlarmsAreTrue == Spec => []NoFalseAlarm
<1>1. IInv => NoFalseAlarm
  BY NeverLate DEF IInv, NoFalseAlarm
<1>2. QED BY IInvHolds, <1>1, PTL

-----------------------------------------------------------------------------
(***************************************************************************)
(* After the cut                                                           *)
(***************************************************************************)

\* At its next timer event a program's clock is still below the bound,
InReach ==
    /\ Looping => activity + ping < Notice
    /\ status = "Authenticated" => seen + sweep < Notice

\* and it shows at least the time that has passed since the cut, as no packet is
\* left that would reset it.
Unanswered ==
    IF network = "cut"
      THEN /\ up = <<>> /\ down = <<>>
           /\ Looping => cutFor <= activity
           /\ status = "Authenticated" => cutFor <= seen
      ELSE cutFor = 0

Vigilant == InReach /\ Unanswered

\* What TypeOK and the constants say of the numbers.
LEMMA Numbers ==
    ASSUME TypeOK
    PROVE  /\ activity \in Nat /\ seen \in Nat /\ ping \in Nat /\ sweep \in Nat
           /\ ping <= Period /\ sweep <= Period /\ cutFor \in Nat
           /\ activity <= Notice /\ seen <= Notice /\ cutFor <= Notice
           /\ Notice \in Nat /\ Notice = Timeout + Period
           /\ Timeout \in Nat \ {0} /\ Period \in Nat \ {0}
<1>1. /\ Period \in Nat \ {0} /\ Timeout \in Nat \ {0}
  BY HeartbeatAssumption
<1>2. Notice \in Nat /\ Notice = Timeout + Period
  BY <1>1 DEF Notice
<1>3. QED BY <1>1, <1>2 DEF TypeOK

LEMMA OlderFacts ==
    ASSUME NEW a \in Nat, NEW b \in Nat, NEW limit \in Nat, a <= limit
    PROVE  /\ Older(a, limit) \in Nat /\ Older(a, limit) <= a + 1
           /\ b <= a => Older(b, limit) <= Older(a, limit)
BY DEF Older

LEMMA InitVigilant == Init => Vigilant
<1> SUFFICES ASSUME Init PROVE Vigilant
  OBVIOUS
<1>1. TypeOK
  BY InitTyped
<1>2. QED BY <1>1, Numbers DEF Init, Vigilant, InReach, Unanswered, Looping

\* A timer event that does not give up starts the next period below Timeout.
LEMMA TimersVigilant ==
    ASSUME TypeOK, Vigilant, ClientTimer \/ ServerTimer
    PROVE  Vigilant'
<1>1. CASE ClientTimer
  <2>1. /\ UNCHANGED <<activity, status, seen, sweep, down, network, cutFor>>
        /\ Looping' => Looping /\ activity < Timeout /\ ping' = Period
    BY <1>1, Numbers DEF ClientTimer, serverVars, Looping, Late
  <2>2. InReach'
    BY <2>1, Numbers DEF Vigilant, InReach
  <2>3. network = "cut" => up' = up
    BY <1>1 DEF ClientTimer, Sent
  <2>4. QED BY <2>1, <2>2, <2>3 DEF Vigilant, Unanswered
<1>2. CASE ServerTimer
  <2>1. /\ UNCHANGED <<seen, client, activity, ping, up, network, cutFor>>
        /\ sweep' = Period
        /\ status' = "Authenticated" => status = "Authenticated" /\ seen < Timeout
    BY <1>2, Numbers DEF ServerTimer, clientVars, Late
  <2>2. InReach'
    BY <2>1, Numbers DEF Vigilant, InReach, Looping
  <2>3. network = "cut" => down' = down
    BY <1>2 DEF ServerTimer, Sent
  <2>4. QED BY <2>1, <2>2, <2>3 DEF Vigilant, Unanswered, Looping
<1>3. QED BY <1>1, <1>2

\* A packet is read only while the network works, and only resets a clock.
LEMMA ReadsVigilant ==
    ASSUME TypeOK, Vigilant, ServerReads \/ ClientReads
    PROVE  Vigilant'
<1>1. network # "cut" /\ cutFor = 0 /\ UNCHANGED <<network, cutFor>>
  BY DEF ServerReads, ClientReads, Vigilant, Unanswered
<1>2. CASE ServerReads
  <2>1. /\ UNCHANGED <<client, activity, ping, sweep>>
        /\ seen' \in {0, seen}
        /\ status' = "Authenticated" => status = "Authenticated"
    BY <1>2 DEF ServerReads, clientVars, Refreshed
  <2>2. QED BY <1>1, <2>1, Numbers DEF Vigilant, InReach, Unanswered, Looping
<1>3. CASE ClientReads
  <2>1. /\ UNCHANGED <<status, seen, sweep>>
        /\ \/ activity' = 0 /\ ping' = Period
           \/ activity' = 0 /\ ping' = ping
           \/ UNCHANGED <<activity, ping>> /\ (Looping' => Looping)
    BY <1>3 DEF ClientReads, clientVars, serverVars, Looping
  <2>2. QED BY <1>1, <2>1, Numbers DEF Vigilant, InReach, Unanswered
<1>4. QED BY <1>2, <1>3

\* Between two timer events a clock ages by what the timer counts down.
LEMMA TickVigilant ==
    ASSUME TypeOK, Vigilant, Tick
    PROVE  Vigilant'
<1>1. /\ UNCHANGED <<client, status, network>>
      /\ activity' = Older(activity, Notice) /\ seen' = Older(seen, Notice)
      /\ Looping => ping > 0 /\ ping' = ping - 1
      /\ sweep > 0 /\ sweep' = sweep - 1
      /\ cutFor' = IF network = "cut" THEN Older(cutFor, Notice) ELSE cutFor
  BY Numbers DEF Tick
<1>2. Looping' <=> Looping
  BY <1>1 DEF Looping
<1>3. InReach'
  <2>1. activity' <= activity + 1 /\ activity' \in Nat /\ seen' <= seen + 1 /\ seen' \in Nat
    BY <1>1, Numbers, OlderFacts
  <2>2. Looping => activity' + ping' < Notice
    BY <1>1, <2>1, Numbers DEF Vigilant, InReach
  <2>3. status = "Authenticated" => seen' + sweep' < Notice
    BY <1>1, <2>1, Numbers DEF Vigilant, InReach
  <2>4. Notice' = Notice
    BY DEF Notice
  <2>5. QED BY <1>1, <1>2, <2>2, <2>3, <2>4 DEF InReach
<1>4. CASE network = "cut"
  <2>1. up' = <<>> /\ down' = <<>>
    BY <1>4 DEF Tick, Aged, Vigilant, Unanswered
  <2>2. /\ cutFor' = Older(cutFor, Notice)
        /\ cutFor <= activity => cutFor' <= activity'
        /\ cutFor <= seen => cutFor' <= seen'
    BY <1>1, <1>4, Numbers, OlderFacts
  <2>3. QED BY <1>1, <1>2, <1>3, <1>4, <2>1, <2>2 DEF Vigilant, Unanswered
<1>5. CASE network # "cut"
  BY <1>1, <1>3, <1>5 DEF Vigilant, Unanswered
<1>6. QED BY <1>4, <1>5

LEMMA NextVigilant ==
    ASSUME TypeOK, Vigilant, [Next]_vars
    PROVE  Vigilant'
<1>1. CASE ClosingFlushed \/ ServerDrops
  <2>1. /\ UNCHANGED <<client, activity, ping, seen, sweep, up, network, cutFor>>
        /\ status' = "removed" /\ down' = Sent(down, "Fin")
    BY <1>1 DEF ClosingFlushed, ServerDrops, clientVars
  <2>2. network = "cut" => down' = down
    BY <2>1 DEF Sent
  <2>3. QED BY <2>1, <2>2 DEF Vigilant, InReach, Unanswered, Looping
<1>2. CASE ClientQuits
  <2>1. /\ UNCHANGED <<activity, ping, status, seen, sweep, down, network, cutFor>>
        /\ ~Looping'
    BY <1>2 DEF ClientQuits, serverVars, Looping
  <2>2. network = "cut" => up' = up
    BY <1>2 DEF ClientQuits, Sent
  <2>3. QED BY <2>1, <2>2 DEF Vigilant, InReach, Unanswered
<1>3. CASE Cut
  <2>1. UNCHANGED <<client, activity, ping, status, seen, sweep, cutFor>>
    BY <1>3 DEF Cut, clientVars, serverVars
  <2>2. /\ network = "works" /\ network' = "cut" /\ cutFor = 0
        /\ up' = <<>> /\ down' = <<>>
    BY <1>3 DEF Cut, Vigilant, Unanswered
  <2>3. QED BY <2>1, <2>2, Numbers DEF Vigilant, InReach, Unanswered, Looping
<1>4. CASE UNCHANGED vars
  BY <1>4 DEF vars, Vigilant, InReach, Unanswered, Looping
<1>5. QED BY <1>1, <1>2, <1>3, <1>4, TimersVigilant, ReadsVigilant, TickVigilant
          DEF Next, Step, Ends

\* A program that is left alone without a word gives the other one up at a timer
\* event no later than Timeout + Period after the cut (client app.cpp
\* handle_timer_event, server manager.cpp mark_timed_out_connections).
THEOREM SilenceIsNoticed == Spec => []NoticedInTime
<1>1. TypeOK /\ Vigilant /\ [Next]_vars => Vigilant'
  BY NextVigilant
<1>2. TypeOK /\ Vigilant => NoticedInTime
  BY Numbers DEF Vigilant, InReach, Unanswered, NoticedInTime
<1>3. QED BY TypeCorrect, InitVigilant, <1>1, <1>2, PTL DEF Spec
=============================================================================
