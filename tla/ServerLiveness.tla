--------------------------- MODULE ServerLiveness ---------------------------
(***************************************************************************)
(* What must eventually happen in ChatServer, and why it does.             *)
(***************************************************************************)
EXTENDS ChatServer

(***************************************************************************)
(* The kernel: the repeating timer fires and time passes; EVFILT_READ is   *)
(* level triggered, so the end of a stream is reported until it is dealt   *)
(* with; an enabled EVFILT_WRITE reports a socket whose peer is gone.      *)
(* The loop gets to an event again and again, not continuously, because it *)
(* may be inside SSL_accept.                                               *)
(***************************************************************************)
EndOfStream(c) == Live(c) /\ conn[c].peer = "eof" /\ ReadEvent(c)
WriteReady(c)  == Live(c) /\ conn[c].writeOn /\ WriteEvent(c)
Broken(c)      == Live(c) /\ conn[c].peer = "eof" /\ WriteReady(c)

KernelFairness ==
    /\ SF_vars(TimerEvent)
    /\ WF_vars(Tick)
    /\ \A c \in Fd : SF_vars(EndOfStream(c)) /\ SF_vars(Broken(c))

KernelSpec == Spec /\ KernelFairness

(***************************************************************************)
(* Peers finish or abort the TLS handshake they started.                   *)
(***************************************************************************)
HandshakesEnd == WF_vars(AcceptDone)

LoopSpec == KernelSpec /\ HandshakesEnd

(***************************************************************************)
(* Peers keep reading: a flush is retried and does not fail to empty the   *)
(* queue every time.                                                       *)
(***************************************************************************)
Drained(c) ==
    /\ Live(c)
    /\ conn[c].wwr \/ conn[c].writeOn
    /\ IF conn[c].wwr THEN ReadEvent(c) ELSE WriteEvent(c)
    /\ conn'[c] = None \/ conn'[c].tx = <<>>

PeersRead == \A c \in Fd : SF_vars(WriteReady(c)) /\ SF_vars(Drained(c))

-----------------------------------------------------------------------------
\* A connection whose peer vanished is removed, whatever it was waiting for
\* and whether or not it had logged in.
HungUpRemoved ==
    \A c \in Fd : (Alive /\ Live(c) /\ conn[c].peer = "eof") ~> ~(Alive /\ Live(c))

\* A disconnected session does not linger: it expires or is reclaimed.
Disconnected(u) ==
    session[u] # None /\ ~Attached(u) /\ session[u].state = "Disconnected"

SessionSettles == \A u \in User : (Alive /\ Disconnected(u)) ~> ~(Alive /\ Disconnected(u))

\* A connection left without a session by a second login does not stay joined:
\* its pings no longer count, so the timer finds it (or it crashes the server
\* first).
Orphan(c) == Live(c) /\ conn[c].status = "Authenticated" /\ Holders(c) = {}

OrphanReaped == \A c \in Fd : (Alive /\ Orphan(c)) ~> ~(Alive /\ Orphan(c))

\* If the peers keep reading, a Closing connection is flushed and removed.
Closing(c) == Alive /\ Live(c) /\ conn[c].status = "Closing"

ClosingRemoved == PeersRead => \A c \in Fd : Closing(c) ~> ~Closing(c)

\* A joined client that stays silent is dropped: the timer marks it although its
\* connection produces no event.  What other peers do in their TLS handshakes
\* can only delay that, as long as they finish them.
Silent(c) ==
    /\ Alive
    /\ Live(c)
    /\ conn[c].status = "Authenticated"
    /\ conn[c].seen >= ConnTimeout

SilentClientLeaves == \A c \in Fd : Silent(c) ~> ~Silent(c)
=============================================================================
