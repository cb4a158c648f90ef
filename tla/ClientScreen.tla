---------------------------- MODULE ClientScreen ----------------------------
(***************************************************************************)
(* One client's screen: what Payloads delivers to the client Viewer is     *)
(* shown in the colours that Colours gives to the senders.                 *)
(*                                                                         *)
(* The viewer's program is run once, the other clients' as often as their  *)
(* users like.                                                             *)
(***************************************************************************)
EXTENDS Colours, Sequences

CONSTANTS Clients, Viewer, Letters, Names, Passwords, Texts, MaxSaid

VARIABLES accounts, registrations, stage, typed, session, inbox, shown, heard, said

P == INSTANCE Payloads

\* What is typed are sequences of letters, and Users are the names under which
\* the server may know whoever typed them.
ASSUME ScreenAssumption ==
    /\ Viewer \in Clients
    /\ P!Bar \in Letters /\ "none" \notin Letters
    /\ Names \cup Passwords \cup Texts \subseteq Seq(Letters)
    /\ MaxSaid \in Nat
    /\ \A t \in P!Typed :
         P!Request(P!HandshakePayload(t)).username \in Users \cup {<<>>}

payloads   == <<accounts, registrations, stage, typed, session, inbox, shown, heard, said>>
screenVars == <<vars, payloads>>

\* initialize sets the terminal up before login and again after it.
StartUp ==
    /\ stage[Viewer] = "out"
    /\ SetupNcurses \/ CleanupNcurses
    /\ UNCHANGED payloads

EnterChat == P!Login(Viewer) /\ Run

\* A message of a user is shown in his colour, which he may have already.
Coloured(sender) ==
    IF colors_ready /\ available_slots > 0 /\ sender \notin DOMAIN user_pairs
    THEN PrintMessage(sender)
    ELSE UNCHANGED vars

Show ==
    /\ P!Receive(Viewer)
    /\ LET result == P!Message(Head(inbox[Viewer]))
       IN  IF P!Acceptable(result) /\ result.sender # P!SERVER
           THEN Coloured(result.sender)
           ELSE UNCHANGED vars

\* The loop ends, by /quit or after the client closed its connection.
End == P!Leave(Viewer) /\ CleanupNcurses

\* Everything that happens elsewhere, or shows nothing of others.
Elsewhere ==
    /\ \/ P!Say(Viewer) \/ P!Announce
       \/ \E c \in Clients \ {Viewer} :
            P!Register(c) \/ P!Login(c) \/ P!Say(c) \/ P!Receive(c) \/ P!Leave(c)
    /\ UNCHANGED vars

ScreenInit == Init /\ P!Init

ScreenNext == StartUp \/ EnterChat \/ Show \/ End \/ Elsewhere

ScreenSpec == ScreenInit /\ [][ScreenNext]_screenVars

-----------------------------------------------------------------------------
\* The variables of Payloads have their types; TypeOK is for those of Colours.
PayloadsTyped == P!TypeOK

\* Windows show what was said, in its order, under the name of who said it;
\* what ends that is the message of a user whose name is empty.
ShownAsSaid == P!ShownAsSaid

\* Whoever is in typed what someone had registered with.
LoginAsRegistered == P!LoginAsRegistered
=============================================================================
