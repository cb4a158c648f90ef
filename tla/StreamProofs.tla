---------------------------- MODULE StreamProofs ----------------------------
(***************************************************************************)
(* Stream for packets of any size and number, writes and reads of any      *)
(* size.                                                                   *)
(*                                                                         *)
(* The sender's half is Sender: tx_offset stays inside the first packet,   *)
(* so that a write always has something to accept and offset and queue     *)
(* move together, and whatever is queued during a wait goes behind that    *)
(* packet.  The other half is Linked: what is on the way is a chain of     *)
(* pieces of packets, each of which begins where the one before it ends,   *)
(* from the receiver's place in the stream to the sender's; so a read can  *)
(* only add to rx_buffer the next piece of the packet it has begun.        *)
(***************************************************************************)
EXTENDS Stream, LeastElement

-----------------------------------------------------------------------------
(***************************************************************************)
(* HandleAll is what its definition says                                   *)
(***************************************************************************)

Short(n) == {b \in Seq(Unit) : Len(b) <= n}

\* What the definition of HandleAll makes of b, with h for HandleAll.
Made(h, b) ==
    IF Whole(b) THEN [done |-> <<First(b)>> \o h[Rest(b)].done, rx |-> h[Rest(b)].rx]
                ELSE [done |-> <<>>, rx |-> b]

Solves(h, n) == \A b \in Short(n) : h[b] = Made(h, b)

\* A packet is as long as its header, at least.
LEMMA SizeFacts ==
    ASSUME NEW s \in Sizes
    PROVE  s \in Nat \ {0} /\ Header <= s /\ s <= ClientRead
<1>1. s \in {n \in Nat : Header <= n /\ n <= ClientRead}
  BY StreamAssumption
<1>2. QED BY <1>1, StreamAssumption

\* A packet has a header, so that what is behind it is shorter.
LEMMA RestFacts ==
    ASSUME NEW b \in Seq(Unit), Whole(b)
    PROVE  Rest(b) \in Seq(Unit) /\ Len(Rest(b)) \in Nat /\ Len(Rest(b)) < Len(b)
<1>1. Len(b) \in Nat /\ Len(b) > 0 /\ b[1].total <= Len(b)
  BY StreamAssumption DEF Whole
<1>2. b[1].total \in Nat \ {0}
  <2>1. b[1] \in Unit
    BY <1>1
  <2>2. b[1].total \in Sizes
    BY <2>1 DEF Unit
  <2>3. QED BY <2>2, SizeFacts
<1>3. QED BY <1>1, <1>2 DEF Rest, From

\* Two solutions agree where both are ones.
LEMMA SolutionsAgree ==
    ASSUME NEW h, NEW n \in Nat, Solves(h, n),
           NEW g, NEW m \in Nat, Solves(g, m),
           NEW b \in Short(n) \cap Short(m)
    PROVE  h[b] = g[b]
<1> SUFFICES ASSUME h[b] # g[b] PROVE FALSE
  OBVIOUS
<1> DEFINE B == {c \in Short(n) \cap Short(m) : h[c] # g[c]}
           L == {Len(c) : c \in B}
<1>1. L \in SUBSET Nat /\ L # {}
  BY DEF Short
<1>2. PICK k \in L : \A l \in L : k <= l
  BY <1>1, HasLeast
<1>3. PICK c \in B : Len(c) = k
  OBVIOUS
<1>4. c \in Seq(Unit) /\ Len(c) \in Nat /\ Len(c) <= n /\ Len(c) <= m
  BY DEF Short
<1>5. Made(h, c) # Made(g, c)
  BY <1>3 DEF Solves
<1>6. Whole(c) /\ h[Rest(c)] # g[Rest(c)]
  BY <1>5 DEF Made
<1>7. Rest(c) \in Seq(Unit) /\ Len(Rest(c)) \in Nat /\ Len(Rest(c)) < Len(c)
  BY <1>4, <1>6, RestFacts
<1>8. Rest(c) \in B
  BY <1>4, <1>6, <1>7 DEF Short
<1>9. Len(Rest(c)) \in L
  BY <1>8
<1>10. QED BY <1>1, <1>2, <1>3, <1>7, <1>9

\* For buffers of any length there is one.
LEMMA SolutionsExist == \A n \in Nat : \E h : Solves(h, n)
<1> DEFINE S == {n \in Nat : \E h : Solves(h, n)}
<1>1. 0 \in S
  <2> DEFINE h == [b \in Short(0) |-> [done |-> <<>>, rx |-> b]]
  <2>1. \A b \in Short(0) : ~Whole(b)
    BY StreamAssumption DEF Short, Whole
  <2>2. \A b \in Short(0) : h[b] = [done |-> <<>>, rx |-> b]
    OBVIOUS
  <2> HIDE DEF h
  <2>3. Solves(h, 0)
    BY <2>1, <2>2 DEF Solves, Made
  <2>4. QED BY <2>3
<1>2. ASSUME NEW n \in S PROVE n + 1 \in S
  <2>1. PICK h : Solves(h, n)
    OBVIOUS
  <2> DEFINE g == [b \in Short(n + 1) |-> Made(h, b)]
  <2>2. \A b \in Short(n + 1) : g[b] = Made(h, b)
    OBVIOUS
  <2> HIDE DEF g
  <2>3. \A b \in Short(n) : b \in Short(n + 1)
    BY DEF Short
  <2>4. \A b \in Short(n) : g[b] = h[b]
    BY <2>1, <2>2, <2>3 DEF Solves
  <2>5. \A b \in Short(n + 1) : Whole(b) => Rest(b) \in Short(n)
    BY RestFacts DEF Short
  <2>6. \A b \in Short(n + 1) : g[b] = Made(g, b)
    BY <2>2, <2>4, <2>5 DEF Made
  <2>7. Solves(g, n + 1)
    BY <2>6 DEF Solves
  <2>8. QED BY <2>7
<1>3. S = Nat
  <2> HIDE DEF S
  <2>1. S \in SUBSET Nat
    BY DEF S
  <2>2. QED BY <1>1, <1>2, <2>1, SetInduction
<1>4. QED BY <1>3

\* Taken together they are HandleAll, which is the function of its definition.
LEMMA HandleAllDef ==
    \A b \in Seq(Unit) : HandleAll[b] = Made(HandleAll, b)
<1> DEFINE h(n) == CHOOSE h : Solves(h, n)
           f == [b \in Seq(Unit) |-> h(Len(b))[b]]
           IsHandleAll(g) == g = [b \in Seq(Unit) |-> Made(g, b)]
<1>1. \A n \in Nat : Solves(h(n), n)
  BY SolutionsExist
<1> HIDE DEF h
<1>2. \A b \in Seq(Unit) : f[b] = h(Len(b))[b]
  OBVIOUS
<1>3. ASSUME NEW b \in Seq(Unit) PROVE f[b] = Made(f, b)
  <2>1. f[b] = Made(h(Len(b)), b)
    BY <1>1, <1>2 DEF Solves, Short
  <2>2. CASE ~Whole(b)
    BY <2>1, <2>2 DEF Made
  <2>3. CASE Whole(b)
    <3> DEFINE r == Rest(b)
    <3>1. r \in Seq(Unit) /\ Len(r) \in Nat /\ Len(r) < Len(b) /\ Len(b) \in Nat
      BY <2>3, RestFacts
    <3> HIDE DEF r
    <3>2. f[r] = h(Len(r))[r]
      BY <1>2, <3>1
    <3>3. r \in Short(Len(r)) \cap Short(Len(b))
      BY <3>1 DEF Short
    <3>4. h(Len(r))[r] = h(Len(b))[r]
      BY <1>1, <3>1, <3>3, SolutionsAgree
    <3>5. QED BY <2>1, <2>3, <3>2, <3>4 DEF Made, r
  <2>4. QED BY <2>2, <2>3
<1>4. IsHandleAll(f)
  <2> DEFINE g == [b \in Seq(Unit) |-> Made(f, b)]
  <2>1. \A b \in Seq(Unit) : f[b] = g[b]
    BY <1>3
  <2>2. QED BY <2>1
<1>5. HandleAll = CHOOSE g : IsHandleAll(g)
  BY DEF HandleAll, Made
<1> HIDE DEF IsHandleAll, f
<1>6. IsHandleAll(HandleAll)
  BY <1>4, <1>5
<1>7. QED BY <1>6 DEF IsHandleAll

-----------------------------------------------------------------------------
(***************************************************************************)
(* The sender                                                              *)
(***************************************************************************)

Sender ==
    /\ queue \in Seq(Packets)
    /\ offset \in Nat
    /\ offset > 0 => queue # <<>> /\ offset < Len(Head(queue))

SenderInv == Sender /\ RetriesMatch

\* A packet is a sequence of units, and not empty.
LEMMA PacketFacts ==
    ASSUME NEW p \in Packets
    PROVE  p \in Seq(Unit) /\ Len(p) \in Nat \ {0}
<1>1. PICK n \in 1..MaxSent, s \in Sizes : p = PacketOf(n, s)
  BY DEF Packets
<1>2. s \in Nat \ {0}
  BY StreamAssumption
<1>3. \A i \in 1..s : [packet |-> n, at |-> i, total |-> s] \in Unit
  BY <1>2 DEF Unit
<1>4. QED BY <1>1, <1>2, <1>3 DEF PacketOf

LEMMA PacketOfType ==
    ASSUME NEW n \in 1..MaxSent, NEW s \in Sizes
    PROVE  PacketOf(n, s) \in Packets
BY DEF Packets

\* Something of the first packet is left to write.
LEMMA RemainingFacts ==
    ASSUME Sender, queue # <<>>
    PROVE  /\ Head(queue) \in Packets
           /\ Len(Head(queue)) \in Nat
           /\ Len(Remaining) = Len(Head(queue)) - offset
           /\ Len(Remaining) > 0
<1>1. Head(queue) \in Packets
  BY DEF Sender
<1>2. Head(queue) \in Seq(Unit) /\ Len(Head(queue)) \in Nat \ {0}
  BY <1>1, PacketFacts
<1>3. offset \in Nat /\ offset < Len(Head(queue))
  BY <1>2 DEF Sender
<1>4. Len(Remaining) = Len(Head(queue)) - offset
  BY <1>2, <1>3 DEF Remaining, From
<1>5. QED BY <1>1, <1>2, <1>3, <1>4

LEMMA QueueWriteSender == ASSUME SenderInv, QueueWrite, sent \in Seq(Packets) PROVE SenderInv'
<1>1. Len(sent) + 1 \in 1..MaxSent
  BY StreamAssumption DEF QueueWrite
<1>2. PICK size \in Sizes : queue' = Append(queue, PacketOf(Len(sent) + 1, size))
  BY DEF QueueWrite, Enqueued
<1>3. PacketOf(Len(sent) + 1, size) \in Packets
  BY <1>1, PacketOfType
<1>4. queue' \in Seq(Packets) /\ queue' # <<>> /\ (queue # <<>> => Head(queue') = Head(queue))
  BY <1>2, <1>3 DEF SenderInv, Sender
<1>5. UNCHANGED <<offset, held>>
  BY DEF QueueWrite
<1>6. Sender'
  BY <1>4, <1>5 DEF SenderInv, Sender
<1>7. RetriesMatch'
  BY <1>4, <1>5 DEF SenderInv, RetriesMatch, Remaining
<1>8. QED BY <1>6, <1>7 DEF SenderInv

LEMMA WriteSender == ASSUME SenderInv, Write PROVE SenderInv'
<1>1. /\ queue \in Seq(Packets) /\ queue # <<>> /\ offset \in Nat
      /\ Len(Head(queue)) \in Nat
      /\ Len(Remaining) = Len(Head(queue)) - offset
  BY RemainingFacts DEF SenderInv, Sender, Write
<1>2. CASE held' = Remaining /\ UNCHANGED <<queue, offset, wire>>
  BY <1>2, <1>1 DEF SenderInv, Sender, RetriesMatch, Remaining
<1>3. ASSUME NEW n \in 1..Len(Remaining), Accepted(n), held' = <<>>
      PROVE  SenderInv'
  <2>1. CASE n = Len(Remaining)
    <3>1. queue' = Tail(queue) /\ offset' = 0
      BY <1>3, <2>1 DEF Accepted
    <3>2. queue' \in Seq(Packets)
      BY <1>1, <3>1
    <3>3. QED BY <1>3, <3>1, <3>2 DEF SenderInv, Sender, RetriesMatch
  <2>2. CASE n # Len(Remaining)
    <3>1. queue' = queue /\ offset' = offset + n /\ n < Len(Remaining)
      BY <1>1, <1>3, <2>2 DEF Accepted
    <3>2. offset' \in Nat /\ offset' < Len(Head(queue))
      BY <1>1, <3>1
    <3>3. QED BY <1>1, <1>3, <3>1, <3>2 DEF SenderInv, Sender, RetriesMatch
  <2>3. QED BY <2>1, <2>2
<1>4. QED BY <1>2, <1>3 DEF Write

\* The packets given to queue_write keep their type.
SentTyped == sent \in Seq(Packets)

LEMMA NextSender == ASSUME SenderInv, SentTyped, [Next]_vars PROVE SenderInv' /\ SentTyped'
<1>1. CASE QueueWrite
  <2>1. PICK size \in Sizes : sent' = Append(sent, PacketOf(Len(sent) + 1, size))
    BY <1>1 DEF QueueWrite
  <2>2. Len(sent) + 1 \in 1..MaxSent
    BY <1>1, StreamAssumption DEF QueueWrite, SentTyped
  <2>3. SentTyped'
    BY <2>1, <2>2, PacketOfType DEF SentTyped
  <2>4. QED BY <1>1, <2>3, QueueWriteSender DEF SentTyped
<1>2. CASE Write
  BY <1>2, WriteSender DEF Write, SentTyped
<1>3. CASE Read \/ UNCHANGED vars
  BY <1>3 DEF Read, vars, SenderInv, Sender, RetriesMatch, Remaining, SentTyped
<1>4. QED BY <1>1, <1>2, <1>3 DEF Next

-----------------------------------------------------------------------------
(***************************************************************************)
(* Pieces of packets                                                       *)
(***************************************************************************)

\* s is a piece of one packet.
Piece(s) ==
    /\ s \in Seq(Unit) /\ Len(s) > 0
    /\ \A i \in 1..Len(s) :
         /\ s[i].packet = s[1].packet /\ s[i].total = s[1].total
         /\ s[i].at = s[1].at + i - 1
    /\ s[1].at + Len(s) - 1 <= s[1].total

\* Where it begins and where the next piece has to begin.
Here(s) == [packet |-> s[1].packet, at |-> s[1].at]
Place(n, size, at) == IF at > size THEN [packet |-> n + 1, at |-> 1]
                                   ELSE [packet |-> n, at |-> at]
Past(s) == Place(s[1].packet, s[1].total, s[1].at + Len(s))

\* The packet is one of packets.
Known(s, packets) ==
    s[1].packet <= Len(packets) /\ s[1].total = Len(packets[s[1].packet])

LEMMA PieceFacts ==
    ASSUME NEW s, Piece(s)
    PROVE  /\ s \in Seq(Unit) /\ Len(s) \in Nat \ {0}
           /\ s[1].packet \in 1..MaxSent /\ s[1].packet \in Nat \ {0}
           /\ s[1].at \in Nat \ {0}
           /\ s[1].total \in Sizes /\ s[1].total \in Nat \ {0}
           /\ s[1].at + Len(s) - 1 <= s[1].total
<1>1. s \in Seq(Unit) /\ Len(s) \in Nat \ {0} /\ s[1].at + Len(s) - 1 <= s[1].total
  BY DEF Piece
<1>2. s[1] \in Unit
  BY <1>1
<1>3. s[1].packet \in 1..MaxSent /\ s[1].at \in Nat \ {0} /\ s[1].total \in Sizes
  BY <1>2 DEF Unit
<1>4. s[1].total \in Nat \ {0}
  BY <1>3, SizeFacts
<1>5. QED BY <1>1, <1>3, <1>4

LEMMA UnitOf ==
    ASSUME NEW n \in 1..MaxSent, NEW a \in Nat \ {0}, NEW t \in Sizes
    PROVE  [packet |-> n, at |-> a, total |-> t] \in Unit
BY DEF Unit

\* A piece cut in two is two pieces, the second where the first ends.
LEMMA PrefixPiece ==
    ASSUME NEW s, Piece(s), NEW n \in 1..Len(s)
    PROVE  /\ Piece(Prefix(s, n)) /\ Prefix(s, n)[1] = s[1] /\ Len(Prefix(s, n)) = n
           /\ n = Len(s) => Prefix(s, n) = s
<1>1. s \in Seq(Unit) /\ Len(s) \in Nat \ {0} /\ n \in Nat
  BY PieceFacts
<1> DEFINE p == Prefix(s, n)
<1>2. p \in Seq(Unit) /\ Len(p) = n /\ \A i \in 1..n : p[i] = s[i]
  BY <1>1 DEF Prefix
<1>3. n = Len(s) => p = s
  BY <1>1 DEF Prefix
<1> HIDE DEF p
<1>4. p[1] = s[1]
  BY <1>1, <1>2
<1>5. p[1].at + Len(p) - 1 <= p[1].total
  BY <1>2, <1>4, PieceFacts
<1>6. ASSUME NEW i \in 1..Len(p)
      PROVE  /\ p[i].packet = p[1].packet /\ p[i].total = p[1].total
             /\ p[i].at = p[1].at + i - 1
  <2>1. i \in 1..Len(s) /\ p[i] = s[i]
    BY <1>1, <1>2
  <2>2. QED BY <1>4, <2>1 DEF Piece
<1>7. Piece(p)
  BY <1>1, <1>2, <1>5, <1>6 DEF Piece
<1>8. QED BY <1>2, <1>3, <1>4, <1>7 DEF p

LEMMA FromPiece ==
    ASSUME NEW s, Piece(s), NEW n \in 1..Len(s)
    PROVE  /\ n = Len(s) => From(s, n) = <<>>
           /\ n < Len(s) => /\ Piece(From(s, n))
                            /\ Here(From(s, n)) = Past(Prefix(s, n))
                            /\ Past(From(s, n)) = Past(s)
                            /\ From(s, n)[1].packet = s[1].packet
                            /\ From(s, n)[1].total = s[1].total
                            /\ Len(From(s, n)) = Len(s) - n
<1>1. s \in Seq(Unit) /\ Len(s) \in Nat \ {0} /\ n \in Nat
  BY PieceFacts
<1>2. n = Len(s) => From(s, n) = <<>>
  BY <1>1 DEF From
<1> SUFFICES ASSUME n < Len(s)
             PROVE  /\ Piece(From(s, n))
                    /\ Here(From(s, n)) = Past(Prefix(s, n))
                    /\ Past(From(s, n)) = Past(s)
                    /\ From(s, n)[1].packet = s[1].packet
                    /\ From(s, n)[1].total = s[1].total
                    /\ Len(From(s, n)) = Len(s) - n
  BY <1>2
<1> DEFINE q == From(s, n)
<1>3. q \in Seq(Unit) /\ Len(q) = Len(s) - n /\ \A i \in 1..(Len(s) - n) : q[i] = s[n + i]
  BY <1>1 DEF From
<1> HIDE DEF q
<1> DEFINE a == s[1].at
           t == s[1].total
<1>0. a \in Nat \ {0} /\ t \in Nat /\ a + Len(s) - 1 <= t
  BY PieceFacts
<1>4. ASSUME NEW i \in 1..Len(q)
      PROVE  /\ q[i].packet = s[1].packet /\ q[i].total = t
             /\ q[i].at = a + (n + i) - 1
  <2>1. n + i \in 1..Len(s) /\ q[i] = s[n + i]
    BY <1>1, <1>3
  <2>2. QED BY <2>1 DEF Piece
<1> HIDE DEF a, t
<1>5. q[1].packet = s[1].packet /\ q[1].total = t /\ q[1].at = a + n
  <2>1. 1 \in 1..Len(q) /\ a + (n + 1) - 1 = a + n
    BY <1>0, <1>1, <1>3
  <2>2. QED BY <1>4, <2>1
<1>6. ASSUME NEW i \in 1..Len(q)
      PROVE  /\ q[i].packet = q[1].packet /\ q[i].total = q[1].total
             /\ q[i].at = q[1].at + i - 1
  <2>1. a + (n + i) - 1 = (a + n) + i - 1
    BY <1>0, <1>1, <1>3
  <2>2. QED BY <1>4, <1>5, <2>1
<1>7. q[1].at + Len(q) - 1 <= q[1].total
  BY <1>0, <1>1, <1>3, <1>5
<1>8. Piece(q)
  BY <1>1, <1>3, <1>6, <1>7 DEF Piece
<1>9. Past(q) = Past(s)
  <2>1. (a + n) + Len(q) = a + Len(s)
    BY <1>0, <1>1, <1>3
  <2>2. QED BY <1>5, <2>1 DEF Past, a, t
<1>10. Prefix(s, n)[1] = s[1] /\ Len(Prefix(s, n)) = n
  BY PrefixPiece
<1>11. Past(Prefix(s, n)) = [packet |-> s[1].packet, at |-> s[1].at + n]
  <2>1. ~(a + n > t)
    BY <1>0, <1>1
  <2>2. QED BY <1>10, <2>1 DEF Past, Place, a, t
<1>12. QED BY <1>3, <1>5, <1>8, <1>9, <1>11 DEF q, Here, a, t

\* Two pieces of a packet, the second where the first ends, are a piece.
LEMMA JoinedPiece ==
    ASSUME NEW s, Piece(s), NEW t, Piece(t), s[1].at + Len(s) <= s[1].total,
           Here(t) = Past(s), s[1].total = t[1].total
    PROVE  /\ Piece(s \o t) /\ (s \o t)[1] = s[1]
           /\ Len(s \o t) = Len(s) + Len(t) /\ Past(s \o t) = Past(t)
<1>1. /\ s \in Seq(Unit) /\ Len(s) \in Nat \ {0}
      /\ t \in Seq(Unit) /\ Len(t) \in Nat \ {0}
  BY PieceFacts
<1> DEFINE b == s \o t
<1>2. /\ b \in Seq(Unit) /\ Len(b) = Len(s) + Len(t)
      /\ \A i \in 1..Len(s) : b[i] = s[i]
      /\ \A i \in (Len(s) + 1)..Len(b) : b[i] = t[i - Len(s)]
  BY <1>1
<1> HIDE DEF b
<1>3. Past(s) = [packet |-> s[1].packet, at |-> s[1].at + Len(s)]
  BY <1>1, PieceFacts DEF Past, Place
<1>4. t[1].packet = s[1].packet /\ t[1].at = s[1].at + Len(s)
  BY <1>3 DEF Here
<1>5. b[1] = s[1]
  BY <1>1, <1>2
<1> DEFINE a == s[1].at
<1>0. a \in Nat \ {0}
  BY PieceFacts
<1> HIDE DEF a
<1>6. ASSUME NEW i \in 1..Len(b)
      PROVE  /\ b[i].packet = b[1].packet /\ b[i].total = b[1].total
             /\ b[i].at = b[1].at + i - 1
  <2>1. CASE i \in 1..Len(s)
    BY <1>2, <1>5, <2>1 DEF Piece
  <2>2. CASE i \in (Len(s) + 1)..Len(b)
    <3>1. i - Len(s) \in 1..Len(t)
      BY <1>1, <1>2, <2>2
    <3>2. /\ b[i].packet = t[1].packet /\ b[i].total = t[1].total
          /\ b[i].at = t[1].at + (i - Len(s)) - 1
      BY <1>2, <2>2, <3>1 DEF Piece
    <3>3. (a + Len(s)) + (i - Len(s)) - 1 = a + i - 1
      BY <1>0, <1>1, <1>2
    <3>4. QED BY <1>4, <1>5, <3>2, <3>3 DEF a
  <2>3. QED BY <1>1, <1>2, <2>1, <2>2
<1>7. b[1].at + Len(b) - 1 <= b[1].total
  BY <1>1, <1>2, <1>4, <1>5, PieceFacts, SMTT(30)
<1>8. Piece(b)
  BY <1>1, <1>2, <1>6, <1>7 DEF Piece
<1>9. Past(b) = Past(t)
  <2>1. a + Len(b) = (a + Len(s)) + Len(t)
    BY <1>0, <1>1, <1>2
  <2>2. QED BY <1>4, <1>5, <2>1 DEF Past, a
<1>10. QED BY <1>2, <1>5, <1>8, <1>9 DEF b

\* A packet is a piece of itself.
LEMMA PacketPiece ==
    ASSUME NEW n \in 1..MaxSent, NEW s \in Sizes
    PROVE  /\ Piece(PacketOf(n, s)) /\ Len(PacketOf(n, s)) = s
           /\ PacketOf(n, s)[1] = [packet |-> n, at |-> 1, total |-> s]
<1> DEFINE p == PacketOf(n, s)
<1>1. s \in Nat \ {0}
  BY SizeFacts
<1>2. \A i \in 1..s : [packet |-> n, at |-> i, total |-> s] \in Unit
  BY <1>1, UnitOf
<1>3. /\ p \in Seq(Unit) /\ Len(p) = s
      /\ \A i \in 1..s : p[i] = [packet |-> n, at |-> i, total |-> s]
  BY <1>1, <1>2 DEF PacketOf
<1> HIDE DEF p
<1>4. p[1] = [packet |-> n, at |-> 1, total |-> s]
  BY <1>1, <1>3
<1>5. \A i \in 1..Len(p) :
        /\ p[i].packet = p[1].packet /\ p[i].total = p[1].total
        /\ p[i].at = p[1].at + i - 1
  BY <1>1, <1>3, <1>4
<1>6. Piece(p)
  BY <1>1, <1>3, <1>4, <1>5 DEF Piece
<1>7. QED BY <1>3, <1>4, <1>6 DEF p

\* What begins a packet is it when it is as long.
LEMMA WholePiece ==
    ASSUME NEW b, Piece(b), b[1].at = 1
    PROVE  /\ Whole(b) <=> Len(b) = b[1].total
           /\ Len(b) <= b[1].total
           /\ Len(b) = b[1].total =>
                /\ b = PacketOf(b[1].packet, b[1].total)
                /\ First(b) = b /\ Rest(b) = <<>>
<1>1. /\ b \in Seq(Unit) /\ Len(b) \in Nat \ {0} /\ Len(b) <= b[1].total
      /\ b[1].total \in Nat \ {0} /\ Header <= b[1].total /\ Header \in Nat
  BY PieceFacts, SizeFacts, StreamAssumption
<1>2. ASSUME NEW i \in 1..Len(b)
      PROVE  /\ b[i] = [packet |-> b[1].packet, at |-> i, total |-> b[1].total]
             /\ b[i].at = i /\ b[i].packet = b[1].packet
  <2>1. b[i] \in Unit /\ 1 + i - 1 = i
    BY <1>1
  <2>2. b[i].packet = b[1].packet /\ b[i].total = b[1].total /\ b[i].at = i
    BY <2>1 DEF Piece
  <2>3. QED BY <2>1, <2>2 DEF Unit
<1>3. Len(b) = b[1].total => Whole(b)
  <2>1. Len(b) = b[1].total => \A i \in 1..Header : i \in 1..Len(b)
    BY <1>1
  <2>2. Len(b) = b[1].total => Valid(b)
    BY <1>2, <2>1 DEF Valid
  <2>3. QED BY <1>1, <2>2 DEF Whole
<1>4. Whole(b) => Len(b) = b[1].total
  BY <1>1 DEF Whole
<1>5. Len(b) = b[1].total => b = PacketOf(b[1].packet, b[1].total)
  <2>1. b = [i \in 1..Len(b) |-> b[i]]
    BY <1>1
  <2>2. QED BY <1>2, <2>1 DEF PacketOf
<1>6. Len(b) = b[1].total => First(b) = b /\ Rest(b) = <<>>
  BY <1>1 DEF First, Rest, Prefix, From
<1>7. QED BY <1>1, <1>3, <1>4, <1>5, <1>6

-----------------------------------------------------------------------------
(***************************************************************************)
(* Records that follow one another                                         *)
(***************************************************************************)

\* Each record is a piece of a packet and begins where the one before it ends.
Chain(records, from, to) ==
    /\ \A i \in 1..Len(records) : Piece(records[i])
    /\ \A i \in 1..(Len(records) - 1) : Here(records[i + 1]) = Past(records[i])
    /\ IF Len(records) = 0
         THEN from = to
         ELSE Here(records[1]) = from /\ Past(records[Len(records)]) = to

Records == Seq(Seq(Unit) \ {<<>>})

LEMMA ChainAppend ==
    ASSUME NEW records \in Records, NEW from, NEW to, Chain(records, from, to),
           NEW s, Piece(s), Here(s) = to
    PROVE  Append(records, s) \in Records /\ Chain(Append(records, s), from, Past(s))
<1> DEFINE all == Append(records, s)
<1>1. s \in Seq(Unit) \ {<<>>}
  BY PieceFacts
<1>2. /\ all \in Records /\ Len(records) \in Nat /\ Len(all) = Len(records) + 1
      /\ \A i \in 1..Len(records) : all[i] = records[i]
      /\ all[Len(records) + 1] = s
  BY <1>1 DEF Records
<1> HIDE DEF all
<1>3. ASSUME NEW i \in 1..Len(all) PROVE Piece(all[i])
  <2>1. CASE i \in 1..Len(records)
    BY <1>2, <2>1 DEF Chain
  <2>2. CASE i = Len(records) + 1
    BY <1>2, <2>2
  <2>3. QED BY <1>2, <2>1, <2>2
<1>4. ASSUME NEW i \in 1..(Len(all) - 1) PROVE Here(all[i + 1]) = Past(all[i])
  <2>1. CASE i \in 1..(Len(records) - 1)
    <3>1. i + 1 \in 1..Len(records) /\ i \in 1..Len(records)
      BY <1>2, <2>1
    <3>2. QED BY <1>2, <2>1, <3>1 DEF Chain
  <2>2. CASE i = Len(records)
    <3>1. Len(records) # 0 /\ all[i] = records[Len(records)] /\ all[i + 1] = s
      BY <1>2, <2>2
    <3>2. QED BY <3>1 DEF Chain
  <2>3. QED BY <1>2, <2>1, <2>2
<1>5. Here(all[1]) = from
  <2>1. CASE Len(records) = 0
    BY <1>2, <2>1 DEF Chain
  <2>2. CASE Len(records) # 0
    BY <1>2, <2>2 DEF Chain
  <2>3. QED BY <2>1, <2>2
<1>6. Len(all) # 0 /\ all[Len(all)] = s
  BY <1>2
<1>7. Chain(all, from, Past(s))
  BY <1>3, <1>4, <1>5, <1>6 DEF Chain
<1>8. QED BY <1>2, <1>7 DEF all

LEMMA ChainTail ==
    ASSUME NEW records \in Records, NEW from, NEW to, Chain(records, from, to),
           records # <<>>
    PROVE  /\ Tail(records) \in Records
           /\ Piece(Head(records)) /\ Here(Head(records)) = from
           /\ Chain(Tail(records), Past(Head(records)), to)
<1> DEFINE rest == Tail(records)
<1>1. /\ rest \in Records /\ Len(records) \in Nat \ {0} /\ Len(rest) = Len(records) - 1
      /\ \A i \in 1..Len(rest) : rest[i] = records[i + 1] /\ i + 1 \in 1..Len(records)
      /\ Head(records) = records[1]
  BY DEF Records
<1> HIDE DEF rest
<1>2. Piece(records[1]) /\ Here(records[1]) = from
  BY <1>1 DEF Chain
<1>3. \A i \in 1..Len(rest) : Piece(rest[i])
  BY <1>1 DEF Chain
<1>4. ASSUME NEW i \in 1..(Len(rest) - 1) PROVE Here(rest[i + 1]) = Past(rest[i])
  <2>1. /\ i \in 1..Len(rest) /\ i + 1 \in 1..Len(rest)
        /\ i + 1 \in 1..(Len(records) - 1)
    BY <1>1
  <2>2. rest[i + 1] = records[(i + 1) + 1] /\ rest[i] = records[i + 1]
    BY <1>1, <2>1
  <2>3. QED BY <2>1, <2>2 DEF Chain
<1>5. CASE Len(rest) = 0
  <2>1. Len(records) = 1
    BY <1>1, <1>5
  <2>2. Past(records[1]) = to
    BY <2>1 DEF Chain
  <2>3. QED BY <1>1, <1>2, <1>3, <1>4, <1>5, <2>2 DEF Chain, rest
<1>6. CASE Len(rest) # 0
  <2>1. 1 \in 1..Len(rest) /\ Len(rest) \in 1..Len(rest) /\ 1 \in 1..(Len(records) - 1)
    BY <1>1, <1>6
  <2>2. rest[1] = records[1 + 1] /\ rest[Len(rest)] = records[Len(records)]
    BY <1>1, <2>1
  <2>3. Here(rest[1]) = Past(records[1]) /\ Past(rest[Len(rest)]) = to
    BY <1>1, <2>1, <2>2 DEF Chain
  <2>4. QED BY <1>1, <1>2, <1>3, <1>4, <1>6, <2>3 DEF Chain, rest
<1>7. QED BY <1>5, <1>6

-----------------------------------------------------------------------------
(***************************************************************************)
(* The link between the programs                                           *)
(***************************************************************************)

\* Where the receiver, and the sender, are.
Reader == [packet |-> Len(got) + 1, at |-> Len(rx) + 1]
Writer == [packet |-> Len(sent) - Len(queue) + 1, at |-> offset + 1]

Numbered ==
    /\ sent \in Seq(Packets)
    /\ \A n \in 1..Len(sent) :
         n \in 1..MaxSent /\ Len(sent[n]) \in Sizes /\ sent[n] = PacketOf(n, Len(sent[n]))

\* What is queued is what was sent last, and what was handled what was first.
QueueIsLast ==
    /\ Len(queue) <= Len(sent)
    /\ \A i \in 1..Len(queue) : queue[i] = sent[(Len(sent) - Len(queue)) + i]

GotIsFirst ==
    /\ got \in Seq(Seq(Unit)) /\ Len(got) <= Len(sent)
    /\ \A i \in 1..Len(got) : got[i] = sent[i]

\* rx_buffer is empty or the first part of the next packet, never all of it.
BufferIsPart ==
    /\ rx \in Seq(Unit)
    /\ rx # <<>> => /\ Piece(rx) /\ Known(rx, sent) /\ Len(rx) < rx[1].total
                    /\ Here(rx) = [packet |-> Len(got) + 1, at |-> 1]

\* What is on the way begins at the receiver's place and ends at the sender's.
OnTheWay ==
    /\ wire \in Records
    /\ \A i \in 1..Len(wire) : Known(wire[i], sent)
    /\ IF pending = <<>>
         THEN Chain(wire, Reader, Writer)
         ELSE /\ Piece(pending) /\ Known(pending, sent) /\ Here(pending) = Reader
              /\ Chain(wire, Past(pending), Writer)

Linked == Numbered /\ QueueIsLast /\ GotIsFirst /\ BufferIsPart /\ OnTheWay

IInv == TypeOK /\ RetriesMatch /\ Linked

\* Whatever is sent later, packets that were known still are.
LEMMA StillKnown ==
    ASSUME NEW packets \in Seq(Packets), NEW p, NEW s, Piece(s), Known(s, packets)
    PROVE  Known(s, Append(packets, p))
<1>1. s[1].packet \in 1..Len(packets) /\ Len(packets) \in Nat
  BY PieceFacts DEF Known
<1>2. /\ Len(Append(packets, p)) = Len(packets) + 1
      /\ Append(packets, p)[s[1].packet] = packets[s[1].packet]
  BY <1>1
<1>3. QED BY <1>1, <1>2 DEF Known

\* Everything on the way is a piece of a packet.
LEMMA WayFacts ==
    ASSUME Linked
    PROVE  /\ wire \in Records /\ pending \in Seq(Unit)
           /\ \A i \in 1..Len(wire) : Piece(wire[i]) /\ Known(wire[i], sent)
<1>1. pending \in Seq(Unit)
  <2>1. <<>> \in Seq(Unit)
    OBVIOUS
  <2>2. QED BY <2>1, PieceFacts DEF Linked, OnTheWay
<1>2. QED BY <1>1 DEF Linked, OnTheWay, Chain

LEMMA InitLinked == Init => TypeOK /\ Linked
<1> SUFFICES ASSUME Init PROVE TypeOK /\ Linked
  OBVIOUS
<1>1. TypeOK
  BY DEF Init, TypeOK
<1>2. Len(sent) = 0 /\ Len(queue) = 0 /\ Len(got) = 0 /\ Len(wire) = 0 /\ Len(rx) = 0
  BY DEF Init
<1>3. Numbered /\ QueueIsLast /\ GotIsFirst /\ BufferIsPart
  BY <1>2 DEF Init, Numbered, QueueIsLast, GotIsFirst, BufferIsPart
<1>4. Chain(wire, Reader, Writer)
  BY <1>2 DEF Init, Chain, Reader, Writer
<1>5. OnTheWay
  BY <1>2, <1>4 DEF Init, OnTheWay, Records
<1>6. QED BY <1>1, <1>3, <1>5 DEF Linked

\* queue_write changes neither end of what is on the way.
LEMMA QueueWriteLinked ==
    ASSUME TypeOK, Linked, QueueWrite
    PROVE  Linked'
<1>1. PICK size \in Sizes : /\ sent' = Append(sent, PacketOf(Len(sent) + 1, size))
                            /\ queue' = Append(queue, PacketOf(Len(sent) + 1, size))
  BY DEF QueueWrite, Enqueued
<1> DEFINE p == PacketOf(Len(sent) + 1, size)
<1>2. sent \in Seq(Packets) /\ queue \in Seq(Packets) /\ Len(sent) \in Nat /\ Len(queue) \in Nat
  BY DEF TypeOK
<1>3. Len(sent) + 1 \in 1..MaxSent
  BY <1>2, StreamAssumption DEF QueueWrite
<1>4. p \in Packets /\ Len(p) = size
  BY <1>3, PacketOfType, PacketPiece
<1>5. UNCHANGED <<offset, wire, pending, rx, got>>
  BY DEF QueueWrite
<1>6. p = PacketOf(Len(sent) + 1, Len(p))
  BY <1>4
<1> HIDE DEF p
<1>7. /\ sent' \in Seq(Packets) /\ Len(sent') = Len(sent) + 1
      /\ sent'[Len(sent) + 1] = p
      /\ \A n \in 1..Len(sent) : sent'[n] = sent[n]
  BY <1>1, <1>2, <1>4 DEF p
<1>8. /\ Len(queue') = Len(queue) + 1 /\ queue'[Len(queue) + 1] = p
      /\ \A i \in 1..Len(queue) : queue'[i] = queue[i]
  BY <1>1, <1>2, <1>4 DEF p
<1>9. Numbered'
  <2>1. ASSUME NEW n \in 1..Len(sent')
        PROVE  /\ n \in 1..MaxSent /\ Len(sent'[n]) \in Sizes
               /\ sent'[n] = PacketOf(n, Len(sent'[n]))
    <3>1. CASE n \in 1..Len(sent)
      BY <1>7, <3>1 DEF Linked, Numbered
    <3>2. CASE n = Len(sent) + 1
      BY <1>3, <1>4, <1>6, <1>7, <3>2
    <3>3. QED BY <1>2, <1>7, <3>1, <3>2
  <2>2. QED BY <1>7, <2>1 DEF Numbered
<1>10. Len(sent') - Len(queue') = Len(sent) - Len(queue)
  BY <1>2, <1>7, <1>8
<1>11. QueueIsLast'
  <2>1. Len(queue) <= Len(sent)
    BY DEF Linked, QueueIsLast
  <2>2. ASSUME NEW i \in 1..Len(queue')
        PROVE  queue'[i] = sent'[(Len(sent) - Len(queue)) + i]
    <3>1. CASE i \in 1..Len(queue)
      <4>1. (Len(sent) - Len(queue)) + i \in 1..Len(sent)
        BY <1>2, <2>1, <3>1
      <4>2. QED BY <1>7, <1>8, <3>1, <4>1 DEF Linked, QueueIsLast
    <3>2. CASE i = Len(queue) + 1
      <4>1. (Len(sent) - Len(queue)) + i = Len(sent) + 1
        BY <1>2, <3>2
      <4>2. QED BY <1>7, <1>8, <3>2, <4>1
    <3>3. QED BY <1>2, <1>8, <3>1, <3>2
  <2>3. Len(queue') <= Len(sent')
    BY <1>2, <1>7, <1>8, <2>1
  <2>4. QED BY <1>10, <2>2, <2>3 DEF QueueIsLast
<1>12. GotIsFirst'
  <2>1. Len(got) \in Nat /\ Len(got) <= Len(sent)
    BY DEF Linked, GotIsFirst
  <2>2. \A i \in 1..Len(got) : i \in 1..Len(sent)
    BY <1>2, <2>1
  <2>3. QED BY <1>2, <1>5, <1>7, <2>1, <2>2 DEF Linked, GotIsFirst
<1>13. BufferIsPart'
  BY <1>1, <1>2, <1>5, StillKnown DEF Linked, BufferIsPart
<1>14. Reader' = Reader /\ Writer' = Writer
  BY <1>5, <1>10 DEF Reader, Writer
<1>15. OnTheWay'
  <2>1. \A i \in 1..Len(wire) : Known(wire[i], sent')
    BY <1>1, <1>2, WayFacts, StillKnown
  <2>2. pending # <<>> => Known(pending, sent')
    BY <1>1, <1>2, StillKnown DEF Linked, OnTheWay
  <2>3. QED BY <1>5, <1>14, <2>1, <2>2 DEF Linked, OnTheWay
<1>16. QED BY <1>9, <1>11, <1>12, <1>13, <1>15 DEF Linked

\* What is left to write of the first packet begins at the sender's place and
\* ends its packet.
LEMMA RemainingPiece ==
    ASSUME TypeOK, Linked, queue # <<>>
    PROVE  /\ Piece(Remaining) /\ Known(Remaining, sent) /\ Here(Remaining) = Writer
           /\ Past(Remaining) = [packet |-> Writer.packet + 1, at |-> 1]
           /\ Len(Remaining) = Len(Head(queue)) - offset
<1> DEFINE n == (Len(sent) - Len(queue)) + 1
           p == sent[n]
<1>1. /\ sent \in Seq(Packets) /\ queue \in Seq(Packets) /\ offset \in Nat
      /\ Len(sent) \in Nat /\ Len(queue) \in Nat \ {0} /\ Len(queue) <= Len(sent)
  BY DEF TypeOK, Linked, QueueIsLast
<1>2. n \in 1..Len(sent) /\ n \in Nat /\ 1 \in 1..Len(queue)
  BY <1>1
<1>3. Head(queue) = p
  BY <1>1, <1>2 DEF Linked, QueueIsLast
<1>4. n \in 1..MaxSent /\ Len(p) \in Sizes /\ p = PacketOf(n, Len(p))
  BY <1>2 DEF Linked, Numbered
<1>5. Writer = [packet |-> n, at |-> offset + 1]
  BY DEF Writer
<1> HIDE DEF n
<1>6. Piece(p) /\ p[1] = [packet |-> n, at |-> 1, total |-> Len(p)]
  BY <1>4, PacketPiece
<1>7. Len(p) \in Nat \ {0}
  BY <1>4, SizeFacts
<1>8. offset < Len(p)
  BY <1>1, <1>3, <1>7 DEF TypeOK
<1>9. Past(p) = [packet |-> n + 1, at |-> 1]
  BY <1>6, <1>7 DEF Past, Place
<1> HIDE DEF p
<1>10. Remaining = From(p, offset)
  BY <1>3 DEF Remaining
<1>11. CASE offset = 0
  <2>1. From(p, offset) = p
    BY <1>6, <1>11, PieceFacts DEF From
  <2>2. Known(p, sent) /\ Here(p) = Writer
    BY <1>2, <1>5, <1>6, <1>11 DEF Known, Here, p
  <2>3. Len(p) = Len(p) - offset /\ Writer.packet = n
    BY <1>5, <1>7, <1>11
  <2>4. QED BY <1>3, <1>6, <1>9, <1>10, <2>1, <2>2, <2>3
<1>12. CASE offset # 0
  <2>1. offset \in 1..Len(p) /\ offset < Len(p)
    BY <1>1, <1>7, <1>8, <1>12
  <2>2. /\ Piece(From(p, offset))
        /\ Here(From(p, offset)) = Past(Prefix(p, offset))
        /\ Past(From(p, offset)) = Past(p)
        /\ From(p, offset)[1].packet = p[1].packet
        /\ From(p, offset)[1].total = p[1].total
        /\ Len(From(p, offset)) = Len(p) - offset
    BY <1>6, <2>1, FromPiece
  <2>3. Prefix(p, offset)[1] = p[1] /\ Len(Prefix(p, offset)) = offset
    BY <1>6, <2>1, PrefixPiece
  <2>4. Past(Prefix(p, offset)) = [packet |-> n, at |-> offset + 1]
    <3>1. ~(1 + offset > Len(p)) /\ 1 + offset = offset + 1
      BY <1>1, <1>7, <1>8
    <3>2. QED BY <1>6, <2>3, <3>1 DEF Past, Place
  <2>5. Known(From(p, offset), sent)
    BY <1>2, <1>6, <2>2 DEF Known, p
  <2>6. QED BY <1>3, <1>5, <1>9, <1>10, <2>2, <2>4, <2>5
<1>13. QED BY <1>11, <1>12

\* A record that SSL_write makes is the next piece, and the sender's place moves
\* behind it.
LEMMA WriteLinked ==
    ASSUME TypeOK, Linked, Write
    PROVE  Linked'
<1>1. UNCHANGED <<sent, pending, rx, got>> /\ queue # <<>>
  BY DEF Write
<1>2. CASE UNCHANGED <<queue, offset, wire>>
  BY <1>1, <1>2 DEF Linked, Numbered, QueueIsLast, GotIsFirst, BufferIsPart, OnTheWay,
                    Reader, Writer
<1>3. ASSUME NEW n \in 1..Len(Remaining),
             wire' = Append(wire, Prefix(Remaining, n)), Accepted(n)
      PROVE  Linked'
  <2> DEFINE r == Prefix(Remaining, n)
  <2>1. /\ sent \in Seq(Packets) /\ queue \in Seq(Packets) /\ offset \in Nat
        /\ Len(sent) \in Nat /\ Len(queue) \in Nat \ {0} /\ Len(queue) <= Len(sent)
    BY <1>1 DEF TypeOK, Linked, QueueIsLast
  <2>2. /\ Piece(Remaining) /\ Known(Remaining, sent) /\ Here(Remaining) = Writer
        /\ Past(Remaining) = [packet |-> Writer.packet + 1, at |-> 1]
    BY <1>1, RemainingPiece
  <2>3. /\ Piece(r) /\ r[1] = Remaining[1] /\ Len(r) = n
        /\ n = Len(Remaining) => r = Remaining
    BY <2>2, PrefixPiece
  <2> HIDE DEF r
  <2>4. Known(r, sent) /\ Here(r) = Writer
    BY <2>2, <2>3 DEF Known, Here
  <2>5. QueueIsLast' /\ Past(r) = Writer'
    <3>1. CASE n = Len(Remaining)
      <4>1. queue' = Tail(queue) /\ offset' = 0
        BY <1>3, <3>1 DEF Accepted
      <4>2. /\ Len(queue') = Len(queue) - 1
            /\ \A i \in 1..Len(queue') : i + 1 \in 1..Len(queue) /\ queue'[i] = queue[i + 1]
        BY <2>1, <4>1
      <4>3. \A i \in 1..Len(queue') : queue'[i] = sent[(Len(sent) - Len(queue')) + i]
        <5>1. ASSUME NEW i \in 1..Len(queue')
              PROVE  (Len(sent) - Len(queue)) + (i + 1) = (Len(sent) - Len(queue')) + i
          BY <2>1, <4>2
        <5>2. QED BY <4>2, <5>1 DEF Linked, QueueIsLast
      <4>4. QueueIsLast'
        BY <1>1, <2>1, <4>2, <4>3 DEF QueueIsLast
      <4>5. Writer' = [packet |-> Writer.packet + 1, at |-> 1]
        BY <1>1, <2>1, <4>1, <4>2 DEF Writer
      <4>6. QED BY <2>2, <2>3, <3>1, <4>4, <4>5
    <3>2. CASE n # Len(Remaining)
      <4>1. queue' = queue /\ offset' = offset + n
        BY <1>3, <3>2 DEF Accepted
      <4>2. QueueIsLast'
        BY <1>1, <4>1 DEF Linked, QueueIsLast
      <4>3. /\ r[1].packet = Writer.packet /\ r[1].at = offset + 1
            /\ r[1].at + Len(Remaining) - 1 <= r[1].total /\ r[1].total \in Nat
            /\ Len(Remaining) \in Nat
        <5>1. Remaining[1].packet = Writer.packet /\ Remaining[1].at = Writer.at
          BY <2>2 DEF Here
        <5>2. QED BY <2>2, <2>3, <5>1, PieceFacts DEF Writer
      <4>4. ~(r[1].at + Len(r) > r[1].total) /\ r[1].at + Len(r) = offset + n + 1
        BY <2>1, <2>3, <3>2, <4>3
      <4>5. Past(r) = [packet |-> Writer.packet, at |-> offset + n + 1]
        BY <4>3, <4>4 DEF Past, Place
      <4>6. QED BY <1>1, <4>1, <4>2, <4>5 DEF Writer
    <3>3. QED BY <3>1, <3>2
  <2>6. wire' = Append(wire, r) /\ wire \in Records
    BY <1>3, WayFacts DEF r
  <2>7. ASSUME NEW from, Chain(wire, from, Writer)
        PROVE  wire' \in Records /\ Chain(wire', from, Writer')
    BY <2>3, <2>4, <2>5, <2>6, <2>7, ChainAppend
  <2>8. \A i \in 1..Len(wire') : Known(wire'[i], sent)
    <3>1. /\ Len(wire) \in Nat /\ Len(wire') = Len(wire) + 1 /\ wire'[Len(wire) + 1] = r
          /\ \A i \in 1..Len(wire) : wire'[i] = wire[i]
      BY <2>3, <2>6, PieceFacts DEF Records
    <3>2. QED BY <2>4, <3>1, WayFacts
  <2>9. Reader' = Reader
    BY <1>1 DEF Reader
  <2>10. OnTheWay'
    <3>1. CASE pending = <<>>
      BY <1>1, <2>7, <2>8, <2>9, <3>1 DEF Linked, OnTheWay
    <3>2. CASE pending # <<>>
      BY <1>1, <2>7, <2>8, <2>9, <3>2 DEF Linked, OnTheWay
    <3>3. QED BY <3>1, <3>2
  <2>11. QED BY <1>1, <2>5, <2>10 DEF Linked, Numbered, GotIsFirst, BufferIsPart
<1>4. QED BY <1>1, <1>2, <1>3 DEF Write

\* rx_buffer with the next piece behind it: the packet that was begun, whole or
\* still a part of it.  HandleOne and HandleAll do the same with it.
LEMMA HandledFacts ==
    ASSUME TypeOK, Linked, NEW d, Piece(d), Known(d, sent), Here(d) = Reader
    PROVE  LET b == rx \o d
               h == Handled(b)
           IN  /\ Piece(b) /\ Known(b, sent) /\ Past(b) = Past(d)
               /\ Here(b) = [packet |-> Len(got) + 1, at |-> 1]
               /\ Whole(b) => h.done = <<b>> /\ h.rx = <<>>
               /\ ~Whole(b) => h.done = <<>> /\ h.rx = b
<1> DEFINE b == rx \o d
           h == Handled(b)
<1>1. rx \in Seq(Unit) /\ d \in Seq(Unit) /\ Len(rx) \in Nat /\ Len(got) \in Nat
  BY PieceFacts DEF TypeOK
<1>2. /\ Piece(b) /\ Known(b, sent) /\ Past(b) = Past(d)
      /\ Here(b) = [packet |-> Len(got) + 1, at |-> 1]
  <2>1. CASE rx = <<>>
    <3>1. b = d /\ Len(rx) = 0
      BY <1>1, <2>1
    <3>2. Reader = [packet |-> Len(got) + 1, at |-> 1]
      BY <3>1 DEF Reader
    <3>3. QED BY <3>1, <3>2
  <2>2. CASE rx # <<>>
    <3>1. /\ Piece(rx) /\ Known(rx, sent) /\ Len(rx) < rx[1].total
          /\ Here(rx) = [packet |-> Len(got) + 1, at |-> 1]
      BY <2>2 DEF Linked, BufferIsPart
    <3>2. rx[1].packet = Len(got) + 1 /\ rx[1].at = 1
      BY <3>1 DEF Here
    <3>3. 1 + Len(rx) = Len(rx) + 1 /\ 1 + Len(rx) <= rx[1].total /\ ~(1 + Len(rx) > rx[1].total)
      BY <1>1, <3>1, PieceFacts
    <3>4. Past(rx) = Reader
      BY <3>2, <3>3 DEF Past, Place, Reader
    <3>5. d[1].packet = Len(got) + 1
      BY DEF Here, Reader
    <3>6. rx[1].total = d[1].total
      BY <3>1, <3>2, <3>5 DEF Known
    <3>7. Piece(b) /\ b[1] = rx[1] /\ Past(b) = Past(d)
      BY <3>1, <3>2, <3>3, <3>4, <3>6, JoinedPiece
    <3>8. QED BY <3>1, <3>7 DEF Known, Here
  <2>3. QED BY <2>1, <2>2
<1> HIDE DEF b
<1>3. b \in Seq(Unit) /\ b[1].at = 1
  BY <1>2, PieceFacts DEF Here
<1>4. Whole(b) => First(b) = b /\ Rest(b) = <<>>
  BY <1>2, <1>3, WholePiece
<1>5. CASE ~Whole(b)
  <2>1. HandleOne(b) = [done |-> <<>>, rx |-> b]
    BY <1>5 DEF HandleOne
  <2>2. HandleAll[b] = [done |-> <<>>, rx |-> b]
    BY <1>3, <1>5, HandleAllDef DEF Made
  <2>3. QED BY <1>2, <1>5, <2>1, <2>2 DEF Handled, b
<1>6. CASE Whole(b)
  <2>1. HandleOne(b) = [done |-> <<b>>, rx |-> <<>>]
    BY <1>4, <1>6 DEF HandleOne
  <2>2. <<>> \in Seq(Unit) /\ ~Whole(<<>>)
    BY StreamAssumption DEF Whole
  <2>3. HandleAll[<<>>] = [done |-> <<>>, rx |-> <<>>]
    BY <2>2, HandleAllDef DEF Made
  <2>4. HandleAll[b] = [done |-> <<b>> \o <<>>, rx |-> <<>>]
    <3>1. HandleAll[b] = Made(HandleAll, b)
      BY <1>3, HandleAllDef
    <3>2. HandleAll[Rest(b)].done = <<>> /\ HandleAll[Rest(b)].rx = <<>>
      BY <1>4, <1>6, <2>3
    <3>3. QED BY <1>4, <1>6, <3>1, <3>2 DEF Made
  <2>5. <<b>> \o <<>> = <<b>>
    <3>1. <<b>> \in Seq(Seq(Unit))
      BY <1>3
    <3>2. QED BY <3>1
  <2>6. QED BY <1>2, <1>6, <2>1, <2>4, <2>5 DEF Handled, b
<1>7. QED BY <1>5, <1>6

\* The next record, or what is left of it, is the next piece.
LEMMA RecordFacts ==
    ASSUME TypeOK, Linked, Record # <<>>
    PROVE  LET rest == IF pending # <<>> THEN wire ELSE Tail(wire)
           IN  /\ Piece(Record) /\ Known(Record, sent) /\ Here(Record) = Reader
               /\ rest \in Records /\ Chain(rest, Past(Record), Writer)
               /\ \A i \in 1..Len(rest) : Known(rest[i], sent)
<1>1. CASE pending # <<>>
  BY <1>1, WayFacts DEF Record, Linked, OnTheWay
<1>2. CASE pending = <<>>
  <2>1. wire # <<>> /\ Record = Head(wire)
    BY <1>2 DEF Record
  <2>2. wire \in Records /\ Chain(wire, Reader, Writer)
    BY <1>2 DEF Linked, OnTheWay
  <2>3. /\ Tail(wire) \in Records /\ Piece(Head(wire)) /\ Here(Head(wire)) = Reader
        /\ Chain(Tail(wire), Past(Head(wire)), Writer)
    BY <2>1, <2>2, ChainTail
  <2>4. /\ Len(wire) \in Nat \ {0} /\ Head(wire) = wire[1] /\ Len(Tail(wire)) = Len(wire) - 1
        /\ \A i \in 1..Len(Tail(wire)) : i + 1 \in 1..Len(wire) /\ Tail(wire)[i] = wire[i + 1]
    BY <2>1, <2>2 DEF Records
  <2>5. Known(Head(wire), sent) /\ \A i \in 1..Len(Tail(wire)) : Known(Tail(wire)[i], sent)
    BY <2>4, WayFacts
  <2>6. QED BY <1>2, <2>1, <2>3, <2>5
<1>3. QED BY <1>1, <1>2

\* A read takes the next piece; whole packets go to their handler.
LEMMA ReadLinked ==
    ASSUME TypeOK, Linked, Read
    PROVE  /\ Linked'
           /\ UNCHANGED sent
           /\ \/ got' = got
              \/ Len(got) < Len(sent) /\ got' = SubSeq(sent, 1, Len(got) + 1)
<1> DEFINE rest == IF pending # <<>> THEN wire ELSE Tail(wire)
           n == IF Len(Record) < ReadSize THEN Len(Record) ELSE ReadSize
           d == Prefix(Record, n)
           b == rx \o d
           h == Handled(b)
<1>1. /\ wire' = rest /\ pending' = From(Record, n)
      /\ rx' = h.rx /\ got' = got \o h.done
      /\ UNCHANGED <<sent, queue, offset>> /\ Record # <<>>
  BY DEF Read, Taken
<1>2. /\ Piece(Record) /\ Known(Record, sent) /\ Here(Record) = Reader
      /\ rest \in Records /\ Chain(rest, Past(Record), Writer)
      /\ \A i \in 1..Len(rest) : Known(rest[i], sent)
  BY <1>1, RecordFacts
<1>3. n \in 1..Len(Record)
  <2>1. Record[1].total \in Sizes /\ Len(Record) \in Nat \ {0}
    BY <1>2, PieceFacts
  <2>2. ReadSize \in Nat \ {0}
    <3>1. ClientRead \in Nat \ {0}
      BY <2>1, SizeFacts, StreamAssumption
    <3>2. QED BY <3>1, StreamAssumption DEF ReadSize
  <2>3. QED BY <2>1, <2>2
<1> HIDE DEF n, rest
<1>4. /\ Piece(d) /\ d[1] = Record[1] /\ (n = Len(Record) => d = Record)
  BY <1>2, <1>3, PrefixPiece
<1>5. /\ n = Len(Record) => From(Record, n) = <<>>
      /\ n < Len(Record) => /\ Piece(From(Record, n))
                            /\ Here(From(Record, n)) = Past(d)
                            /\ Past(From(Record, n)) = Past(Record)
                            /\ From(Record, n)[1].packet = Record[1].packet
                            /\ From(Record, n)[1].total = Record[1].total
  BY <1>2, <1>3, FromPiece
<1> HIDE DEF d
<1>6. Known(d, sent) /\ Here(d) = Reader
  BY <1>2, <1>4 DEF Known, Here
<1>7. /\ Piece(b) /\ Known(b, sent) /\ Past(b) = Past(d)
      /\ Here(b) = [packet |-> Len(got) + 1, at |-> 1]
      /\ Whole(b) => h.done = <<b>> /\ h.rx = <<>>
      /\ ~Whole(b) => h.done = <<>> /\ h.rx = b
  BY <1>4, <1>6, HandledFacts
<1> HIDE DEF h, b
<1>8. b[1].packet = Len(got) + 1 /\ b[1].at = 1
  BY <1>7 DEF Here
<1>9. /\ b \in Seq(Unit) /\ Len(b) \in Nat \ {0} /\ b[1].total \in Nat
      /\ got \in Seq(Seq(Unit)) /\ Len(got) \in Nat
      /\ sent \in Seq(Packets) /\ Len(sent) \in Nat /\ Len(got) + 1 <= Len(sent)
  BY <1>7, <1>8, PieceFacts, SMTT(30) DEF TypeOK, Known
<1>10. ASSUME Whole(b)
      PROVE  /\ GotIsFirst' /\ BufferIsPart' /\ Reader' = Past(d)
             /\ \/ got' = got
                \/ Len(got) < Len(sent) /\ got' = SubSeq(sent, 1, Len(got) + 1)
  <2>1. rx' = <<>> /\ got' = got \o <<b>> /\ Len(rx') = 0
    BY <1>1, <1>7, <1>10
  <2>2. Len(b) = b[1].total /\ b = PacketOf(b[1].packet, b[1].total)
    BY <1>7, <1>8, <1>10, WholePiece
  <2>3. b = sent[Len(got) + 1]
    <3>1. Len(got) + 1 \in 1..Len(sent)
      BY <1>9
    <3>2. sent[Len(got) + 1] = PacketOf(Len(got) + 1, Len(sent[Len(got) + 1]))
      BY <3>1 DEF Linked, Numbered
    <3>3. b[1].total = Len(sent[Len(got) + 1])
      BY <1>7, <1>8 DEF Known
    <3>4. QED BY <1>8, <2>2, <3>2, <3>3
  <2>4. /\ got' \in Seq(Seq(Unit)) /\ Len(got') = Len(got) + 1 /\ got'[Len(got) + 1] = b
        /\ \A i \in 1..Len(got) : got'[i] = got[i]
    BY <1>9, <2>1
  <2>5. ASSUME NEW i \in 1..Len(got') PROVE got'[i] = sent[i]
    <3>1. CASE i \in 1..Len(got)
      BY <2>4, <3>1 DEF Linked, GotIsFirst
    <3>2. CASE i = Len(got) + 1
      BY <2>3, <2>4, <3>2
    <3>3. QED BY <1>9, <2>4, <3>1, <3>2
  <2>6. GotIsFirst'
    BY <1>1, <1>9, <2>4, <2>5 DEF GotIsFirst
  <2>7. got' = SubSeq(sent, 1, Len(got) + 1)
    BY <1>9, <2>4, <2>5
  <2>8. BufferIsPart'
    BY <2>1 DEF BufferIsPart
  <2>9. Reader' = Past(d)
    <3>1. 1 + Len(b) > b[1].total
      BY <1>9, <2>2
    <3>2. Past(b) = [packet |-> (Len(got) + 1) + 1, at |-> 1]
      BY <1>8, <3>1 DEF Past, Place
    <3>3. QED BY <1>7, <2>1, <2>4, <3>2 DEF Reader
  <2>10. QED BY <1>9, <2>6, <2>7, <2>8, <2>9
<1>11. ASSUME ~Whole(b)
      PROVE  /\ GotIsFirst' /\ BufferIsPart' /\ Reader' = Past(d)
             /\ \/ got' = got
                \/ Len(got) < Len(sent) /\ got' = SubSeq(sent, 1, Len(got) + 1)
  <2>1. rx' = b /\ got' = got
    <3>1. got \o <<>> = got
      BY <1>9
    <3>2. QED BY <1>1, <1>7, <1>11, <3>1
  <2>2. Len(b) < b[1].total
    BY <1>7, <1>8, <1>9, <1>11, WholePiece
  <2>3. GotIsFirst' /\ BufferIsPart'
    BY <1>1, <1>7, <1>9, <2>1, <2>2 DEF Linked, GotIsFirst, BufferIsPart
  <2>4. Reader' = Past(d)
    <3>1. ~(1 + Len(b) > b[1].total) /\ 1 + Len(b) = Len(b) + 1
      BY <1>9, <2>2
    <3>2. Past(b) = [packet |-> Len(got) + 1, at |-> Len(b) + 1]
      BY <1>8, <3>1 DEF Past, Place
    <3>3. QED BY <1>7, <2>1, <3>2 DEF Reader
  <2>5. QED BY <2>1, <2>3, <2>4
<1>12. /\ GotIsFirst' /\ BufferIsPart' /\ Reader' = Past(d)
       /\ \/ got' = got
          \/ Len(got) < Len(sent) /\ got' = SubSeq(sent, 1, Len(got) + 1)
  BY <1>9, <1>10, <1>11
<1>13. Numbered' /\ QueueIsLast' /\ Writer' = Writer
  BY <1>1 DEF Linked, Numbered, QueueIsLast, Writer
<1>14. OnTheWay'
  <2>1. wire' \in Records /\ \A i \in 1..Len(wire') : Known(wire'[i], sent')
    BY <1>1, <1>2
  <2>2. CASE n = Len(Record)
    <3>1. pending' = <<>> /\ Chain(wire', Reader', Writer')
      BY <1>1, <1>2, <1>4, <1>5, <1>12, <1>13, <2>2
    <3>2. QED BY <2>1, <3>1 DEF OnTheWay
  <2>3. CASE n < Len(Record)
    <3>1. Piece(pending') /\ Here(pending') = Reader' /\ Chain(wire', Past(pending'), Writer')
      BY <1>1, <1>2, <1>5, <1>12, <1>13, <2>3
    <3>2. Known(pending', sent') /\ pending' # <<>>
      BY <1>1, <1>2, <1>5, <2>3, <3>1, PieceFacts DEF Known
    <3>3. QED BY <2>1, <3>1, <3>2 DEF OnTheWay
  <2>4. QED BY <1>2, <1>3, <2>2, <2>3, PieceFacts
<1>15. QED BY <1>1, <1>12, <1>13, <1>14 DEF Linked

\* Every step keeps the types and the link, and is a step of the pipe or none.
LEMMA NextIInv ==
    ASSUME IInv, [Next]_vars
    PROVE  IInv' /\ [P!Send \/ P!Deliver]_(P!pipeVars)
<1>1. TypeOK /\ RetriesMatch /\ Linked /\ SenderInv /\ SentTyped
  BY DEF IInv, TypeOK, SenderInv, Sender, SentTyped
<1>2. SenderInv' /\ SentTyped'
  BY <1>1, NextSender
<1>3. Linked' /\ [P!Send \/ P!Deliver]_(P!pipeVars)
  <2>1. CASE QueueWrite
    <3>1. PICK size \in Sizes : sent' = Append(sent, PacketOf(Len(sent) + 1, size))
      BY <2>1 DEF QueueWrite
    <3>2. PacketOf(Len(sent) + 1, size) \in Packets
      BY <1>1, <2>1, PacketOfType, StreamAssumption DEF QueueWrite, SentTyped
    <3>3. P!Send
      BY <2>1, <3>1, <3>2 DEF QueueWrite, P!Send
    <3>4. QED BY <1>1, <2>1, <3>3, QueueWriteLinked
  <2>2. CASE Write
    BY <1>1, <2>2, WriteLinked DEF Write, P!pipeVars
  <2>3. CASE Read
    <3>1. /\ Linked' /\ UNCHANGED sent
          /\ \/ got' = got
             \/ Len(got) < Len(sent) /\ got' = SubSeq(sent, 1, Len(got) + 1)
      BY <1>1, <2>3, ReadLinked
    <3>2. CASE got' = got
      BY <3>1, <3>2 DEF P!pipeVars
    <3>3. CASE Len(got) < Len(sent) /\ got' = SubSeq(sent, 1, Len(got) + 1)
      <4>1. Len(got) + 1 \in (Len(got) + 1)..Len(sent)
        BY <1>1, <3>3 DEF TypeOK
      <4>2. P!Deliver
        BY <3>1, <3>3, <4>1 DEF P!Deliver
      <4>3. QED BY <3>1, <4>2
    <3>4. QED BY <3>1, <3>2, <3>3
  <2>4. CASE UNCHANGED vars
    BY <1>1, <2>4 DEF vars, P!pipeVars, Linked, Numbered, QueueIsLast, GotIsFirst,
                      BufferIsPart, OnTheWay, Reader, Writer
  <2>5. QED BY <2>1, <2>2, <2>3, <2>4 DEF Next
<1>4. held' \in Seq(Unit) /\ dir' \in {"up", "down"}
  <2>1. <<>> \in Seq(Unit)
    OBVIOUS
  <2>2. CASE Write
    BY <1>1, <2>1, <2>2, RemainingPiece, PieceFacts DEF Write, TypeOK
  <2>3. CASE QueueWrite \/ Read \/ UNCHANGED vars
    BY <1>1, <2>3 DEF QueueWrite, Read, vars, TypeOK
  <2>4. QED BY <2>2, <2>3 DEF Next
<1>5. pending' \in Seq(Unit)
  <2>1. <<>> \in Seq(Unit)
    OBVIOUS
  <2>2. QED BY <1>3, <2>1, PieceFacts DEF Linked, OnTheWay
<1>6. TypeOK'
  BY <1>2, <1>3, <1>4, <1>5
     DEF TypeOK, SenderInv, Sender, SentTyped, Linked, GotIsFirst, BufferIsPart,
         OnTheWay, Records
<1>7. QED BY <1>2, <1>3, <1>6 DEF IInv, SenderInv

LEMMA IInvHolds == Spec => []IInv
<1>1. Init => IInv
  BY InitLinked DEF IInv, Init, RetriesMatch
<1>2. IInv /\ [Next]_vars => IInv'
  BY NextIInv
<1>3. QED BY <1>1, <1>2, PTL DEF Spec

-----------------------------------------------------------------------------
(***************************************************************************)
(* The theorems                                                            *)
(***************************************************************************)

\* The state keeps its types: tx_offset never reaches the end of a packet, and no
\* record is empty.
THEOREM TypeCorrect == Spec => []TypeOK
<1>1. IInv => TypeOK
  BY DEF IInv
<1>2. QED BY IInvHolds, <1>1, PTL

\* OpenSSL gets the same data again in every retry of a write, and tx_offset
\* never leaves the first packet.
THEOREM RetriesAreFaithful == Spec => [](Sender /\ RetriesMatch)
<1>1. IInv => Sender /\ RetriesMatch
  BY DEF IInv, TypeOK, Sender
<1>2. QED BY IInvHolds, <1>1, PTL

\* Neither program returns from its handler with a whole packet in rx_buffer,
\* although the server handles only one per read (process_client_stream).
THEOREM NothingLeftBehind == Spec => []NoneLeftBehind
<1>1. IInv => NoneLeftBehind
  <2> SUFFICES ASSUME IInv PROVE ~Whole(rx)
    BY DEF NoneLeftBehind
  <2>1. CASE rx = <<>>
    BY <2>1, StreamAssumption DEF Whole
  <2>2. CASE rx # <<>>
    <3>1. Piece(rx) /\ Len(rx) < rx[1].total /\ rx[1].at = 1
      BY <2>2 DEF IInv, Linked, BufferIsPart, Here
    <3>2. QED BY <3>1, WholePiece, PieceFacts
  <2>3. QED BY <2>1, <2>2
<1>2. QED BY IInvHolds, <1>1, PTL

\* Stream implements Pipe: packets arrive whole, once and in the order in which
\* they were queued, however they are cut into writes, records and reads.
THEOREM PacketsArriveInOrder == Spec => PipeSpec
<1>1. Init => P!PipeInit
  BY DEF Init, P!PipeInit
<1>2. IInv /\ [Next]_vars => [P!Send \/ P!Deliver]_(P!pipeVars)
  BY NextIInv
<1>3. QED BY IInvHolds, <1>1, <1>2, PTL DEF Spec, PipeSpec, P!PipeSpec

-----------------------------------------------------------------------------
(***************************************************************************)
(* Where everything rests                                                  *)
(***************************************************************************)

\* The client reads whole records, as no packet is longer than its buffer.
ClientReadsAll == dir = "down" => pending = <<>>

\* Nothing is queued and no socket has data: no event will move what was sent.
AtRest == queue = <<>> /\ wire = <<>>

\* Then everything the server sent has been handled, and of what a client sent
\* all but the packet whose end is still in OpenSSL.
LittleIsLeft ==
    AtRest => /\ dir = "down" => got = sent
              /\ dir = "up" => Len(got) >= Len(sent) - 1

LEMMA NextReadsAll ==
    ASSUME IInv, ClientReadsAll, [Next]_vars
    PROVE  ClientReadsAll'
<1>1. CASE Read
  <2>1. dir' = dir /\ pending' = Taken.pending /\ Record # <<>>
    BY <1>1 DEF Read
  <2>2. ASSUME dir = "down" PROVE Taken.pending = <<>>
    <3>1. Piece(Record)
      BY <2>1, RecordFacts DEF IInv
    <3>2. /\ Record \in Seq(Unit) /\ Len(Record) \in Nat \ {0} /\ Record[1].at \in Nat \ {0}
          /\ Record[1].total \in Nat /\ Record[1].at + Len(Record) - 1 <= Record[1].total
          /\ Record[1].total \in Sizes
      BY <3>1, PieceFacts
    <3>3. Record[1].total <= ClientRead /\ ClientRead \in Nat
      BY <3>2, SizeFacts, StreamAssumption
    <3>4. Len(Record) <= ReadSize /\ ReadSize \in Nat
      BY <2>2, <3>2, <3>3 DEF ReadSize
    <3>5. Taken.pending = From(Record, Len(Record))
      BY <3>2, <3>4 DEF Taken
    <3>6. From(Record, Len(Record)) = <<>>
      BY <3>1, <3>2, FromPiece
    <3>7. QED BY <3>5, <3>6
  <2>3. QED BY <2>1, <2>2 DEF ClientReadsAll
<1>2. CASE QueueWrite \/ Write \/ UNCHANGED vars
  BY <1>2 DEF QueueWrite, Write, vars, ClientReadsAll
<1>3. QED BY <1>1, <1>2 DEF Next

\* The two ends of the chain meet where everything rests.
LEMMA RestingPlace ==
    ASSUME IInv, ClientReadsAll
    PROVE  LittleIsLeft
<1> SUFFICES ASSUME AtRest
             PROVE  /\ dir = "down" => got = sent
                    /\ dir = "up" => Len(got) >= Len(sent) - 1
  BY DEF LittleIsLeft
<1>1. /\ sent \in Seq(Packets) /\ got \in Seq(Seq(Unit))
      /\ Len(sent) \in Nat /\ Len(got) \in Nat /\ dir \in {"up", "down"}
  BY DEF IInv, TypeOK
<1>2. Writer = [packet |-> Len(sent) + 1, at |-> 1]
  <2>1. offset = 0
    BY DEF AtRest, IInv, TypeOK
  <2>2. QED BY <1>1, <2>1 DEF AtRest, Writer
<1>3. CASE pending = <<>>
  <2>1. Reader = Writer
    BY <1>3 DEF AtRest, IInv, Linked, OnTheWay, Chain
  <2>2. Len(got) = Len(sent)
    BY <1>1, <1>2, <2>1 DEF Reader
  <2>3. \A i \in 1..Len(got) : got[i] = sent[i]
    BY DEF IInv, Linked, GotIsFirst
  <2>4. got = sent
    <3>1. got = [i \in 1..Len(got) |-> got[i]]
      BY <1>1
    <3>2. sent = [i \in 1..Len(sent) |-> sent[i]]
      BY <1>1
    <3>3. [i \in 1..Len(got) |-> got[i]] = [i \in 1..Len(sent) |-> sent[i]]
      BY <2>2, <2>3
    <3>4. QED BY <3>1, <3>2, <3>3
  <2>5. QED BY <1>1, <2>4
<1>4. CASE pending # <<>>
  <2>1. Piece(pending) /\ Here(pending) = Reader /\ Past(pending) = Writer
    BY <1>4 DEF AtRest, IInv, Linked, OnTheWay, Chain
  <2>2. pending[1].packet = Len(got) + 1 /\ pending[1].packet \in Nat
    BY <2>1, PieceFacts DEF Here, Reader
  <2>3. Past(pending).packet <= pending[1].packet + 1
    BY <2>1, <2>2, PieceFacts DEF Past, Place
  <2>4. Len(sent) + 1 <= Len(got) + 2
    BY <1>1, <1>2, <2>1, <2>2, <2>3
  <2>5. dir = "up"
    BY <1>1, <1>4 DEF ClientReadsAll
  <2>6. QED BY <1>1, <2>4, <2>5
<1>5. QED BY <1>3, <1>4

\* The safe half of AllArrive and OneBehind: whenever neither a flush nor kevent()
\* has anything to go on with, the client has handled all that the server sent, and
\* the server all that a client sent but for one packet at most.
THEOREM NothingIsStranded == Spec => []LittleIsLeft
<1>1. Init => ClientReadsAll
  BY DEF Init, ClientReadsAll
<1>2. IInv /\ ClientReadsAll /\ [Next]_vars => ClientReadsAll'
  BY NextReadsAll
<1>3. IInv /\ ClientReadsAll => LittleIsLeft
  BY RestingPlace
<1>4. QED BY IInvHolds, <1>1, <1>2, <1>3, PTL DEF Spec
=============================================================================
