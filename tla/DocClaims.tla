------------------------------ MODULE DocClaims ------------------------------
(***************************************************************************)
(* Statements the repository makes about the server that its code does not *)
(* keep; each is refuted by a run.                                         *)
(***************************************************************************)
EXTENDS ServerLiveness

\* "Admin quitting ends the room" (plan/ARCHITECTURE.md:252): nothing a client
\* sends ends it.  The next message from a connection that lost its session to a
\* second login dereferences a null session.
OnlyAdminEndsRoom == server # "crashed"

\* "In case client disconnects from a running session [...] Client has an
\* option to reconnect" (plan/ARCHITECTURE.md:91): a session that lost its
\* connection is one reconnect_client accepts.  disconnect() leaves a session
\* that had reconnected once in state Reconnected, which it never accepts and
\* the timer never expires.
DetachedCanReconnect ==
    \A u \in User :
      session[u] # None /\ ~Attached(u) => session[u].state = "Disconnected"
=============================================================================
