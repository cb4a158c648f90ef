--------------------------- MODULE ServerObserver ---------------------------
(***************************************************************************)
(* ChatServer with a history variable: what an onlooker remembers of each  *)
(* user.  It follows the server and never constrains it.                   *)
(***************************************************************************)
EXTENDS ChatServer

VARIABLE away    \* ticks since the user's session lost its connection

obsVars == <<vars, away>>

Away(u) == session[u] # None /\ ~Attached(u)

ObsInit == Init /\ away = [u \in User |-> 0]

ObsTick ==
    /\ Tick
    /\ away' = [u \in User |-> IF Away(u) THEN Older(away[u], Grace) ELSE 0]

\* A kick, or an event of a connection, the timer or the console.
ObsEvent ==
    /\ Event \/ \E u \in User : Kick(u)
    /\ away' = [u \in User |-> IF Away(u) /\ Away(u)' THEN away[u] ELSE 0]

ObsNext == ObsTick \/ ObsEvent

ObsSpec == ObsInit /\ [][ObsNext]_obsVars

-----------------------------------------------------------------------------
\* The server forgets a session only after its user has been away for the whole
\* grace period, however often connections came and went before and whatever
\* state the session was in.
GraceHonoured ==
    [][\A u \in User :
         session[u] # None /\ session'[u] = None => away[u] >= Grace]_obsVars
=============================================================================
