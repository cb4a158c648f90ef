------------------------------ MODULE ChatRoom ------------------------------
(***************************************************************************)
(* What the server promises the people in the room: a post reaches every   *)
(* member but its author in one step, what is queued for a member is       *)
(* handed over in order, and nothing queued is dropped, repeated or        *)
(* overtaken unless its reader leaves.                                     *)
(***************************************************************************)
EXTENDS Integers, Sequences

CONSTANTS
    Peer,     \* who may be in the room
    Private,  \* packets the server sends to one peer
    Public,   \* packets that members post to the room
    Notice    \* packets that the server's operator posts to the room

VARIABLES
    member,   \* the peers in the room
    inbox     \* what is queued for each peer

vars == <<member, inbox>>

Init ==
    /\ member = {}
    /\ inbox = [p \in Peer |-> <<>>]

Put(q, m) == [inbox EXCEPT ![q] = Append(@, m)]

\* p joins, perhaps with a welcome.
Join(p) ==
    /\ p \notin member
    /\ member' = member \cup {p}
    /\ inbox' = inbox \/ \E m \in Private : inbox' = Put(p, m)

Tell(p) ==
    /\ \E m \in Private : inbox' = Put(p, m)
    /\ UNCHANGED member

PostTo(readers, M) ==
    /\ \E m \in M :
         inbox' = [q \in Peer |-> IF q \in readers THEN Append(inbox[q], m)
                                                   ELSE inbox[q]]
    /\ UNCHANGED member

Say(p) == p \in member /\ PostTo(member \ {p}, Public)

Announce == PostTo(member, Notice)

\* The first n queued packets of p are handed over.
Deliver(p) ==
    /\ \E n \in 1..Len(inbox[p]) :
         inbox' = [inbox EXCEPT ![p] = SubSeq(@, n + 1, Len(@))]
    /\ UNCHANGED member

\* Everybody in S leaves; what is queued for D, all of them outside, is lost.
Leave ==
    \E S \in SUBSET member :
      /\ member' = member \ S
      /\ \E D \in SUBSET (Peer \ member') :
           inbox' = [q \in Peer |-> IF q \in D THEN <<>> ELSE inbox[q]]

Next ==
    \/ \E p \in Peer : Join(p) \/ Tell(p) \/ Say(p) \/ Deliver(p)
    \/ Announce
    \/ Leave

Spec == Init /\ [][Next]_vars
=============================================================================
