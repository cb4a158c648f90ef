---------------------------- MODULE ProcessProofs ----------------------------
(***************************************************************************)
(* The safety of ServerProcess for any users and passwords, any limit on   *)
(* descriptors and any number of calls and restarts.                       *)
(*                                                                         *)
(* AnswersHold is inductive with TypeOK because a row is written only for  *)
(* a name that has none (Kept): that one fact carries every answer given so*)
(* far over every later step, and a call has only its own answer to add.   *)
(* LeaksAreMisses is inductive because each path that leaves a handle open *)
(* ends in an answer that is a miss.                                       *)
(***************************************************************************)
EXTENDS ServerProcess, TLAPS

\* A row is never overwritten.
Kept == \A u \in User : account[u] # None => account'[u] = account[u]

\* The fields of a call.
LEMMA CallFields ==
    ASSUME NEW op \in {"verify", "register"}, NEW u \in User, NEW p \in Password,
           NEW s, op = "verify" => s \in VerifyStatus,
           op = "register" => s \in RegisterStatus
    PROVE  /\ Call(op, u, p, s) \in Calls
           /\ Call(op, u, p, s).op = op
           /\ Call(op, u, p, s).user = u
           /\ Call(op, u, p, s).password = p
           /\ Call(op, u, p, s).status = s
BY DEF Call, Calls

\* An answer stays true when rows are kept.
LEMMA AnswerStays ==
    ASSUME NEW a \in Calls, Kept, Holds(a)
    PROVE  Holds(a)'
<1>1. a.user \in User /\ a.password \in Password
  BY DEF Calls
<1>2. account[a.user] # None => account'[a.user] = account[a.user]
  BY <1>1 DEF Kept
<1>3. QED BY <1>1, <1>2, ProcessAssumption DEF Holds

LEMMA AnswersStay ==
    ASSUME TypeOK, AnswersHold, answers' = answers, Kept
    PROVE  AnswersHold'
<1>1. \A a \in answers : a \in Calls /\ Holds(a)
  BY DEF TypeOK, AnswersHold
<1>2. \A a \in answers : Holds(a)'
  BY <1>1, AnswerStays
<1>3. QED BY <1>2 DEF AnswersHold

-----------------------------------------------------------------------------
(***************************************************************************)
(* The two calls                                                           *)
(***************************************************************************)

\* What a call must leave: descriptors within the limit, an open handle that is
\* counted as a miss, and answers that are true.
Accounted ==
    /\ leaked' \in Nat /\ misses' \in Nat
    /\ Used' <= Limit
    /\ leaked' <= misses'
    /\ answers' \subseteq Calls /\ AnswersHold'

\* A call adds nothing but its own answer.
LEMMA AnsweredFacts ==
    ASSUME TypeOK, AnswersHold, Kept, NEW call \in Calls, Answered(call),
           call.status \in Telling => Holds(call)'
    PROVE  /\ answers' \subseteq Calls /\ AnswersHold'
           /\ misses' = misses + (IF Missed(call) THEN 1 ELSE 0)
<1>1. misses' = misses + (IF Missed(call) THEN 1 ELSE 0)
  BY DEF Answered, TypeOK
<1>2. answers' = IF call.status \in Telling THEN answers \cup {call} ELSE answers
  BY DEF Answered
<1>3. \A a \in answers : a \in Calls /\ Holds(a)'
  BY AnswerStays DEF TypeOK, AnswersHold
<1>4. \A a \in answers' : a \in Calls /\ Holds(a)'
  BY <1>2, <1>3
<1>5. QED BY <1>1, <1>4 DEF AnswersHold

LEMMA ClosedAccounted ==
    ASSUME TypeOK, AnswersHold, LeaksAreMisses, Kept, clients' = clients,
           NEW call \in Calls, Closed(call),
           call.status \in Telling => Holds(call)'
    PROVE  Accounted
<1>1. Answered(call) /\ leaked' = leaked
  BY DEF Closed
<1>2. misses' \in Nat /\ misses <= misses'
  BY <1>1, AnsweredFacts DEF TypeOK
<1>3. leaked' \in Nat /\ Used' <= Limit /\ leaked' <= misses'
  BY <1>1, <1>2 DEF TypeOK, LeaksAreMisses, Used
<1>4. QED BY <1>1, <1>2, <1>3, AnsweredFacts DEF Accounted

\* An open handle needs an answer that is a miss.
LEMMA StillOpenAccounted ==
    ASSUME TypeOK, AnswersHold, LeaksAreMisses, Kept, clients' = clients, CanOpen,
           NEW call \in Calls, StillOpen(call), Missed(call),
           call.status \in Telling => Holds(call)'
    PROVE  Accounted
<1>1. Answered(call) /\ leaked' = leaked + 1
  BY DEF StillOpen
<1>2. misses' = misses + 1
  BY <1>1, AnsweredFacts
<1>3. /\ leaked' \in Nat /\ misses' \in Nat /\ Used' <= Limit
      /\ leaked' <= misses'
  BY <1>1, <1>2, ProcessAssumption DEF TypeOK, LeaksAreMisses, CanOpen, Used
<1>4. QED BY <1>1, <1>3, AnsweredFacts DEF Accounted

LEMMA VerifyFacts ==
    ASSUME TypeOK, AnswersHold, LeaksAreMisses, clients' = clients,
           NEW u \in User, NEW p \in Password, VerifyClient(u, p)
    PROVE  Accounted /\ UNCHANGED disk
<1>1. UNCHANGED disk /\ Kept
  BY DEF VerifyClient, disk, Kept
<1>2. CASE /\ CanPrepare /\ account[u] # None
           /\ Closed(Call("verify", u, p,
                          IF Matches(u, p) THEN "Authorized" ELSE "NotAuthorized"))
  <2>1. PICK s \in {"Authorized", "NotAuthorized"} :
               s = IF Matches(u, p) THEN "Authorized" ELSE "NotAuthorized"
    OBVIOUS
  <2> DEFINE call == Call("verify", u, p, s)
  <2>2. Closed(call)
    BY <1>2, <2>1
  <2>3. /\ s = "Authorized" => account'[u] = p
        /\ s = "NotAuthorized" => account'[u] \notin {None, p}
    BY <1>1, <1>2, <2>1 DEF Matches, disk
  <2>4. call \in Calls /\ call.user = u /\ call.password = p /\ call.status = s
    BY CallFields DEF VerifyStatus
  <2> HIDE DEF call
  <2>5. Holds(call)'
    BY <2>3, <2>4 DEF Holds
  <2>6. QED BY <1>1, <2>2, <2>4, <2>5, ClosedAccounted
<1>3. ASSUME NEW s \in {"UserNotFound", "ExecFailed"},
             \/ CanOpen /\ StillOpen(Call("verify", u, p, s))
             \/ Closed(Call("verify", u, p, s))
      PROVE  Accounted
  <2> DEFINE call == Call("verify", u, p, s)
  <2>1. call \in Calls /\ call.op = "verify" /\ call.status = s
    BY CallFields DEF VerifyStatus
  <2>2. (CanOpen /\ StillOpen(call)) \/ Closed(call)
    BY <1>3
  <2> HIDE DEF call
  <2>3. Missed(call) /\ call.status \notin Telling
    BY <2>1 DEF Missed, Telling
  <2>4. QED BY <1>1, <2>1, <2>2, <2>3, ClosedAccounted, StillOpenAccounted
<1>4. QED
  BY <1>1, <1>2, <1>3 DEF VerifyClient, CanPrepare

LEMMA RegisterFacts ==
    ASSUME TypeOK, AnswersHold, LeaksAreMisses, clients' = clients,
           NEW u \in User, NEW p \in Password, RegisterClient(u, p)
    PROVE  /\ Accounted /\ Kept
           /\ account' \in [User -> Password \cup {None}]
           /\ table' = table /\ (~table => UNCHANGED account)
<1>1. table' = table
  BY DEF RegisterClient
<1>2. CASE CanPrepare /\ Inserted(u, p)
  <2> DEFINE call == Call("register", u, p, "ClientRegistered")
  <2>1. Closed(call)
    BY <1>2 DEF Inserted
  <2>2. /\ call \in Calls /\ call.user = u /\ call.password = p
        /\ call.status = "ClientRegistered"
    BY CallFields DEF RegisterStatus
  <2> HIDE DEF call
  <2>3. account'[u] = p /\ Kept /\ account' \in [User -> Password \cup {None}]
    BY <1>2 DEF Inserted, TypeOK, Kept
  <2>4. Holds(call)'
    BY <2>2, <2>3 DEF Holds
  <2>5. Accounted
    BY <2>1, <2>2, <2>3, <2>4, ClosedAccounted
  <2>6. QED BY <1>1, <1>2, <2>3, <2>5 DEF CanPrepare
<1>3. CASE CanPrepare /\ Refused(u, p)
  <2> DEFINE call == Call("register", u, p, "UsernameExists")
  <2>1. Closed(call) /\ account' = account /\ account[u] # None
    BY <1>3 DEF Refused
  <2>2. call \in Calls /\ call.user = u /\ call.status = "UsernameExists"
    BY CallFields DEF RegisterStatus
  <2> HIDE DEF call
  <2>3. Holds(call)' /\ Kept
    BY <2>1, <2>2 DEF Holds, Kept
  <2>4. Accounted
    BY <2>1, <2>2, <2>3, ClosedAccounted
  <2>5. QED BY <1>1, <2>1, <2>3, <2>4 DEF TypeOK
<1>4. ASSUME account' = account,
             NEW s \in {"ExecFailed", "UnableToOpenDatabase", "UnknownError"},
             \/ CanOpen /\ s = "UnknownError" /\ StillOpen(Call("register", u, p, s))
             \/ Closed(Call("register", u, p, s))
      PROVE  Accounted
  <2> DEFINE call == Call("register", u, p, s)
  <2>1. call \in Calls /\ call.op = "register" /\ call.status = s
    BY CallFields DEF RegisterStatus
  <2>2. (CanOpen /\ s = "UnknownError" /\ StillOpen(call)) \/ Closed(call)
    BY <1>4
  <2> HIDE DEF call
  <2>3. call.status \notin Telling /\ (s = "UnknownError" => Missed(call)) /\ Kept
    BY <1>4, <2>1 DEF Missed, Telling, Kept
  <2>4. QED BY <2>1, <2>2, <2>3, ClosedAccounted, StillOpenAccounted
<1>5. CASE /\ UNCHANGED account
           /\ \/ CanPrepare /\ Closed(Call("register", u, p, "ExecFailed"))
              \/ Closed(Call("register", u, p, "UnableToOpenDatabase"))
              \/ CanOpen /\ StillOpen(Call("register", u, p, "UnknownError"))
  <2>1. Accounted
    BY <1>4, <1>5
  <2>2. QED BY <1>1, <1>5, <2>1 DEF TypeOK, Kept
<1>6. QED
  BY <1>2, <1>3, <1>5 DEF RegisterClient

-----------------------------------------------------------------------------
(***************************************************************************)
(* The invariant                                                           *)
(***************************************************************************)

IInv == TypeOK /\ AnswersHold /\ LeaksAreMisses

LEMMA InitIInv == Init => IInv
<1> SUFFICES ASSUME Init PROVE IInv
  OBVIOUS
<1>1. Used <= Limit /\ LeaksAreMisses
  BY ProcessAssumption DEF Init, Used, LeaksAreMisses
<1>2. account \in [User -> Password \cup {None}] /\ \A u \in User : account[u] = None
  BY DEF Init
<1>3. TypeOK
  BY <1>1, <1>2 DEF Init, TypeOK
<1>4. QED BY <1>1, <1>3 DEF Init, IInv, AnswersHold

\* One step keeps every row and the invariant.
LEMMA NextFacts ==
    ASSUME IInv, [Next]_vars
    PROVE  Kept /\ IInv'
<1> USE DEF IInv
<1>1. CASE Initialize
  <2>1. UNCHANGED <<account, clients, leaked, answers, misses>> /\ (table => table')
    BY <1>1 DEF Initialize, CreateUserDatabase, TableCreated, disk
  <2>2. phase' = "loop" /\ running' \in BOOLEAN /\ queue' \in BOOLEAN /\ table' \in BOOLEAN
    BY <1>1 DEF Initialize, CreateUserDatabase, TableCreated, disk, TypeOK
  <2>3. Kept
    BY <2>1 DEF Kept
  <2>4. TypeOK' /\ LeaksAreMisses'
    BY <2>1, <2>2 DEF TypeOK, LeaksAreMisses, Used
  <2>5. QED BY <2>1, <2>3, <2>4, AnswersStay
<1>2. CASE End \/ Killed
  <2>1. /\ UNCHANGED <<disk, answers>> /\ phase' = "off" /\ running' = FALSE
        /\ queue' = FALSE /\ clients' = 0 /\ leaked' = 0 /\ misses' = 0
    BY <1>2 DEF End, Killed, Exited
  <2>2. Kept
    BY <2>1 DEF Kept, disk
  <2>3. Used' <= Limit /\ LeaksAreMisses'
    BY <2>1, ProcessAssumption DEF LeaksAreMisses, Used
  <2>4. TypeOK'
    BY <2>1, <2>3 DEF TypeOK, disk
  <2>5. QED BY <2>1, <2>2, <2>3, <2>4, AnswersStay
<1>3. CASE Accept \/ Disconnect \/ Quit \/ UNCHANGED vars
  <2>1. UNCHANGED <<disk, phase, queue, leaked, answers, misses>>
    BY <1>3 DEF Accept, Disconnect, Quit, vars, process
  <2>2. running' \in BOOLEAN
    BY <1>3 DEF Accept, Disconnect, Quit, vars, process, TypeOK
  <2>3. clients' \in Nat /\ Used' <= Limit
    <3>1. CASE Accept
      BY <2>1, <3>1, ProcessAssumption DEF Accept, TypeOK, Used
    <3>2. CASE Disconnect
      BY <2>1, <3>2, ProcessAssumption DEF Disconnect, TypeOK, Used
    <3>3. CASE clients' = clients
      BY <2>1, <3>3 DEF TypeOK, Used
    <3>4. QED BY <1>3, <3>1, <3>2, <3>3 DEF Quit, vars
  <2>4. Kept
    BY <2>1 DEF Kept, disk
  <2>5. TypeOK' /\ LeaksAreMisses'
    BY <2>1, <2>2, <2>3 DEF TypeOK, LeaksAreMisses, disk
  <2>6. QED BY <2>1, <2>4, <2>5, AnswersStay
<1>4. CASE Authenticate
  <2>1. UNCHANGED <<process, clients>>
    BY <1>4 DEF Authenticate
  <2>2. PICK u \in User, p \in Password : VerifyClient(u, p) \/ RegisterClient(u, p)
    BY <1>4 DEF Authenticate
  <2>3. /\ Accounted /\ Kept
        /\ account' \in [User -> Password \cup {None}]
        /\ table' = table /\ (~table => account' = account)
    <3>1. CASE VerifyClient(u, p)
      BY <2>1, <3>1, VerifyFacts DEF Kept, disk, TypeOK
    <3>2. CASE RegisterClient(u, p)
      BY <2>1, <3>2, RegisterFacts
    <3>3. QED BY <2>2, <3>1, <3>2
  <2>4. TypeOK' /\ LeaksAreMisses'
    BY <2>1, <2>3 DEF TypeOK, LeaksAreMisses, Accounted, process
  <2>5. QED BY <2>3, <2>4 DEF Accounted
<1>5. QED
  BY <1>1, <1>2, <1>3, <1>4 DEF Next

LEMMA IInvHolds == Spec => []IInv
<1>1. IInv /\ [Next]_vars => IInv'
  BY NextFacts
<1>2. QED BY InitIInv, <1>1, PTL DEF Spec

\* The process never holds more descriptors than it may, and its state keeps
\* its types: accept_client and the database helpers check what they open.
THEOREM TypeCorrect == Spec => []TypeOK
<1>1. IInv => TypeOK
  BY DEF IInv
<1>2. QED BY IInvHolds, <1>1, PTL

\* Every answer verify_client and register_client ever gave about an account
\* stays true, whatever is called, fails or is killed afterwards.
THEOREM AnswersAreLasting == Spec => []AnswersHold
<1>1. IInv => AnswersHold
  BY DEF IInv
<1>2. QED BY IInvHolds, <1>1, PTL

\* A server has leaked no more handles than it has answered misses: no path of
\* the two helpers that ends in another answer leaves one open.
THEOREM OnlyMissesLeak == Spec => []LeaksAreMisses
<1>1. IInv => LeaksAreMisses
  BY DEF IInv
<1>2. QED BY IInvHolds, <1>1, PTL

\* No registration, restart or crash changes an account.
THEOREM AccountsAreKept == Spec => AccountsKept
<1>1. IInv /\ [Next]_vars =>
        [\A u \in User : account[u] # None => account'[u] = account[u]]_vars
  BY NextFacts DEF Kept
<1>2. QED BY IInvHolds, <1>1, PTL DEF Spec, AccountsKept
=============================================================================
