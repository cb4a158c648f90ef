------------------------------- MODULE Stream -------------------------------
(***************************************************************************)
(* One direction of a TChat connection, from queue_write in one program to *)
(* the packet handler of the other: flush_write hands the packets to       *)
(* SSL_write, TLS carries records, handle_read collects their data in      *)
(* rx_buffer, and process_client_stream (in the server) or                 *)
(* process_data_stream (in the client) takes whole packets out of it.      *)
(*                                                                         *)
(* A unit stands for a stretch of bytes, so that a packet can be cut       *)
(* anywhere.  It knows which packet it belongs to and its place there; the *)
(* first Header units of a packet are its header, which holds its length.  *)
(***************************************************************************)
EXTENDS Integers, Sequences

CONSTANTS
    Header,       \* units in a PacketHeader
    Sizes,        \* sizes of whole packets, in units
    ServerRead,   \* units the server reads at once (buffer of 1024 bytes)
    ClientRead,   \* units the client reads at once (8 KiB)
    ShortWrites,  \* SSL_write may accept part of the data
    MaxSent       \* bound: packets sent

\* The client's editor takes lines of 1024 bytes, so a packet may exceed the
\* server's buffer, and never the client's.
ASSUME StreamAssumption ==
    /\ Header \in Nat \ {0}
    /\ Sizes \subseteq {s \in Nat : Header <= s /\ s <= ClientRead}
    /\ ServerRead \in Nat \ {0}
    /\ ClientRead \in Nat
    /\ ShortWrites \in BOOLEAN
    /\ MaxSent \in Nat

VARIABLES
    dir,      \* "up", from a client to the server, or "down"
    sent,     \* every packet given to queue_write
    queue,    \* tx_queue
    offset,   \* tx_offset
    held,     \* the data of an SSL_write that has to be retried
    wire,     \* TLS records that have not been decrypted
    pending,  \* data of the current record that SSL_read has not returned yet
    rx,       \* rx_buffer
    got       \* every packet taken from rx_buffer

vars == <<dir, sent, queue, offset, held, wire, pending, rx, got>>

Unit == [packet: 1..MaxSent, at: Nat \ {0}, total: Sizes]

PacketOf(n, size) == [i \in 1..size |-> [packet |-> n, at |-> i, total |-> size]]

Packets == UNION {{PacketOf(n, s) : s \in Sizes} : n \in 1..MaxSent}

\* tx_offset is inside the first packet: flush_write's FatalError for an offset
\* behind it is never returned.
TypeOK ==
    /\ dir \in {"up", "down"}
    /\ sent \in Seq(Packets) /\ got \in Seq(Seq(Unit))
    /\ queue \in Seq(Packets)
    /\ offset \in Nat
    /\ offset > 0 => queue # <<>> /\ offset < Len(Head(queue))
    /\ wire \in Seq(Seq(Unit) \ {<<>>})
    /\ held \in Seq(Unit) /\ pending \in Seq(Unit) /\ rx \in Seq(Unit)

From(s, n) == SubSeq(s, n + 1, Len(s))
Prefix(s, n) == SubSeq(s, 1, n)

-----------------------------------------------------------------------------
(***************************************************************************)
(* The sender                                                              *)
(***************************************************************************)

\* Mutation: an urgent packet goes first.
EnqueuedFirst(p) == <<p>> \o queue

\* queue_write
Enqueued(p) == Append(queue, p)

QueueWrite ==
    /\ Len(sent) < MaxSent
    /\ \E size \in Sizes :
         LET p == PacketOf(Len(sent) + 1, size)
         IN  sent' = Append(sent, p) /\ queue' = Enqueued(p)
    /\ UNCHANGED <<dir, offset, held, wire, pending, rx, got>>

\* What SSL_write is given: the first packet from tx_offset on.
Remaining == From(Head(queue), offset)

\* Mutation: tx_offset is not reset.
AcceptedKeepOffset(n) ==
    /\ offset' = offset + n
    /\ queue' = IF n = Len(Remaining) THEN Tail(queue) ELSE queue

\* result > 0.
Accepted(n) ==
    IF n = Len(Remaining)
      THEN queue' = Tail(queue) /\ offset' = 0
      ELSE queue' = queue /\ offset' = offset + n

\* One round of flush_write's loop: SSL_write makes a record of what it
\* accepts, all of it unless short writes are enabled, or it asks to wait.  A
\* flush is a series of rounds; in between only the other program can act, or
\* queue_write, which touches the other end of the queue.
Write ==
    /\ queue # <<>>
    /\ \/ \E n \in 1..Len(Remaining) :
            /\ ShortWrites \/ n = Len(Remaining)
            /\ wire' = Append(wire, Prefix(Remaining, n))
            /\ Accepted(n)
            /\ held' = <<>>
       \/ /\ held' = Remaining
          /\ UNCHANGED <<queue, offset, wire>>
    /\ UNCHANGED <<dir, sent, pending, rx, got>>

-----------------------------------------------------------------------------
(***************************************************************************)
(* The receiver                                                            *)
(***************************************************************************)

\* The header at the front of b has the magic: it is the header of a packet.
Valid(b) == \A i \in 1..Header : b[i].at = i /\ b[i].packet = b[1].packet

\* A whole packet is at the front of b.
Whole(b) == Len(b) >= Header /\ Valid(b) /\ Len(b) >= b[1].total

First(b) == Prefix(b, b[1].total)
Rest(b)  == From(b, b[1].total)

\* One packet at most is handled: process_handshake_packet, and
\* process_client_stream with packets of the types it handles.
HandleOne(b) ==
    IF Whole(b) THEN [done |-> <<First(b)>>, rx |-> Rest(b)]
                ELSE [done |-> <<>>, rx |-> b]

\* process_received_data calls process_data_stream until no packet is whole.
HandleAll[b \in Seq(Unit)] ==
    IF Whole(b)
      THEN LET r == HandleAll[Rest(b)]
           IN  [done |-> <<First(b)>> \o r.done, rx |-> r.rx]
      ELSE [done |-> <<>>, rx |-> b]

Handled(b) == IF dir = "up" THEN HandleOne(b) ELSE HandleAll[b]

\* Mutation: both programs read 1024 bytes at a time.
ReadSizeSmall == ServerRead

ReadSize == IF dir = "up" THEN ServerRead ELSE ClientRead

\* What SSL_read can return without another record: the rest of the current
\* one, or a new one.
Record == IF pending # <<>> THEN pending
          ELSE IF wire # <<>> THEN Head(wire) ELSE <<>>

\* Mutation: handle_read goes on until SSL_read has nothing more to return, and
\* the dispatcher is called once.
TakenAll ==
    LET flat[i \in 0..Len(wire)] ==
          IF i = 0 THEN pending ELSE flat[i - 1] \o wire[i]
    IN  [data |-> flat[Len(wire)], pending |-> <<>>, wire |-> <<>>]

\* One SSL_read.
Taken ==
    LET n == IF Len(Record) < ReadSize THEN Len(Record) ELSE ReadSize
    IN  [data    |-> Prefix(Record, n),
         pending |-> From(Record, n),
         wire    |-> IF pending # <<>> THEN wire ELSE Tail(wire)]

\* handle_read, DataReceived, and what follows it.
Read ==
    /\ Record # <<>>
    /\ LET t == Taken
           h == Handled(rx \o t.data)
       IN  /\ wire' = t.wire
           /\ pending' = t.pending
           /\ rx' = h.rx
           /\ got' = got \o h.done
    /\ UNCHANGED <<dir, sent, queue, offset, held>>

\* A READ event: there are bytes in the socket.  What is left in pending is in
\* OpenSSL, where kevent() does not look; a read that resumes at a WRITE event
\* finds it.
ReadEvent == wire # <<>> /\ Read

-----------------------------------------------------------------------------
Init ==
    /\ dir \in {"up", "down"}
    /\ sent = <<>> /\ queue = <<>> /\ offset = 0 /\ held = <<>>
    /\ wire = <<>> /\ pending = <<>>
    /\ rx = <<>> /\ got = <<>>

Next == QueueWrite \/ Write \/ Read

Spec == Init /\ [][Next]_vars

\* The writer is resumed when its wait is over and the socket takes data
\* sometimes; kevent() reports a socket with bytes in it.
Progress == Write /\ wire' # wire

FairSpec == Spec /\ SF_vars(Progress) /\ WF_vars(ReadEvent)

-----------------------------------------------------------------------------
P == INSTANCE Pipe WITH Packet <- Packets

\* Packets arrive whole, once and in the order in which they were queued,
\* however TLS cuts them into records and reads.
PipeSpec == P!PipeSpec

\* A retried SSL_write gets the data of the call that has to be retried, which
\* OpenSSL demands ("bad write retry"), whatever was queued meanwhile.
RetriesMatch == held # <<>> => queue # <<>> /\ Remaining = held

\* The server handles one packet per read and is not woken for a second: no
\* whole packet is left in its buffer when the handler returns.
NoneLeftBehind == ~Whole(rx)

\* A packet from a client is handled at the latest when the next one has
\* arrived: a line longer than one read leaves its end in OpenSSL until then.
OneBehind ==
    \A n \in 1..(MaxSent - 1) :
      dir = "up" /\ Len(sent) > n ~> dir = "up" /\ Len(got) >= n

\* Everything the server queues is handled by the client, without waiting for
\* anything else to be sent.
AllArrive ==
    \A n \in 1..MaxSent :
      dir = "down" /\ Len(sent) >= n ~> dir = "down" /\ Len(got) >= n
=============================================================================
