-------------------------------- MODULE Pipe --------------------------------
(***************************************************************************)
(* One direction of a connection as its users see it: what is sent arrives *)
(* whole, once and in order.                                               *)
(***************************************************************************)
EXTENDS Integers, Sequences

CONSTANT Packet     \* whole packets

VARIABLES
    sent,    \* every packet given to queue_write
    got      \* every packet the other program has taken from its buffer

pipeVars == <<sent, got>>

PipeInit == sent = <<>> /\ got = <<>>

Send ==
    /\ \E p \in Packet : sent' = Append(sent, p)
    /\ UNCHANGED got

\* One or more packets are handled.
Deliver ==
    /\ \E n \in (Len(got) + 1)..Len(sent) : got' = SubSeq(sent, 1, n)
    /\ UNCHANGED sent

PipeSpec == PipeInit /\ [][Send \/ Deliver]_pipeVars
=============================================================================
