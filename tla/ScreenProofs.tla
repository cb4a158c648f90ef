----------------------------- MODULE ScreenProofs -----------------------------
(***************************************************************************)
(* Proofs about ClientScreen, Colours and Payloads: for any users, hash    *)
(* and palette, any number of clients and messages, and any names,         *)
(* passwords and texts that can be typed.                                  *)
(*                                                                         *)
(* The payloads come first: what is put together on one side is what is    *)
(* found on the other, up to the bars that a name may hold.  Then what a   *)
(* client has shown and what is on its way to it are, in this order, what  *)
(* others said since it joined.  Colour pairs are given out in order, so   *)
(* those that are defined are 4..(next_pair - 1), and no two users have    *)
(* one of them unless max_pair has been passed.                            *)
(***************************************************************************)
EXTENDS ClientScreen, LeastElement, SequenceTheorems

Typing == Seq(Letters)

-----------------------------------------------------------------------------
(***************************************************************************)
(* Payloads                                                                *)
(***************************************************************************)

\* The least element of a set of numbers is the one that is not above any other.
LEMMA MinFacts ==
    ASSUME NEW S \in SUBSET Nat, S # {}
    PROVE  P!Min(S) \in S /\ \A n \in S : P!Min(S) <= n
<1>1. \E m \in S : \A n \in S : m <= n
  BY HasLeast
<1>2. QED BY <1>1 DEF P!Min

\* An element that is not above any other is the least.
LEMMA MinIs ==
    ASSUME NEW S \in SUBSET Nat, NEW m \in S, \A n \in S : m <= n
    PROVE  P!Min(S) = m
<1>1. P!Min(S) \in S /\ \A n \in S : P!Min(S) <= n
  BY MinFacts
<1>2. m \in Nat /\ P!Min(S) \in Nat /\ m <= P!Min(S) /\ P!Min(S) <= m
  BY <1>1
<1>3. QED BY <1>2

\* What is typed are letters.
LEMMA TypedFacts ==
    ASSUME NEW t \in P!Typed
    PROVE  /\ t = [username |-> t.username, password |-> t.password]
           /\ t.username \in Typing /\ t.password \in Typing
<1>1. t.username \in Names /\ t.password \in Passwords
      /\ t = [username |-> t.username, password |-> t.password]
  BY DEF P!Typed
<1>2. QED BY <1>1, ScreenAssumption DEF Typing

\* Two sequences one behind the other.
LEMMA Concat ==
    ASSUME NEW S, NEW s \in Seq(S), NEW t \in Seq(S)
    PROVE  /\ s \o t \in Seq(S)
           /\ Len(s) \in Nat /\ Len(t) \in Nat /\ Len(s \o t) = Len(s) + Len(t)
           /\ \A i \in 1..Len(s) : (s \o t)[i] = s[i]
           /\ \A i \in 1..Len(t) : (s \o t)[Len(s) + i] = t[i]
<1>1. /\ s \o t \in Seq(S) /\ Len(s \o t) = Len(s) + Len(t)
      /\ \A i \in 1..(Len(s) + Len(t)) :
           (s \o t)[i] = IF i <= Len(s) THEN s[i] ELSE t[i - Len(s)]
  BY ConcatProperties, Zenon
<1>2. Len(s) \in Nat /\ Len(t) \in Nat
  OBVIOUS
<1>3. ASSUME NEW i \in 1..Len(s) PROVE (s \o t)[i] = s[i]
  BY <1>1, <1>2
<1>4. ASSUME NEW i \in 1..Len(t) PROVE (s \o t)[Len(s) + i] = t[i]
  <2>1. /\ Len(s) + i \in 1..(Len(s) + Len(t)) /\ ~(Len(s) + i <= Len(s))
        /\ (Len(s) + i) - Len(s) = i
    BY <1>2
  <2>2. QED BY <1>1, <2>1
<1>5. QED BY <1>1, <1>2, <1>3, <1>4

\* Two sequences with a letter between them.
LEMMA SplitFacts ==
    ASSUME NEW S, NEW u \in Seq(S), NEW b \in S, NEW w \in Seq(S),
           NEW p, p = u \o <<b>> \o w
    PROVE  /\ p \in Seq(S) /\ Len(u) \in Nat /\ Len(w) \in Nat
           /\ Len(p) = Len(u) + 1 + Len(w)
           /\ \A i \in 1..Len(u) : p[i] = u[i]
           /\ p[Len(u) + 1] = b
           /\ \A i \in 1..Len(w) : p[Len(u) + 1 + i] = w[i]
<1> DEFINE v == u \o <<b>>
<1>1. <<b>> \in Seq(S) /\ Len(<<b>>) = 1 /\ <<b>>[1] = b
  OBVIOUS
<1>2. /\ v \in Seq(S) /\ Len(u) \in Nat /\ Len(v) = Len(u) + 1
      /\ \A i \in 1..Len(u) : v[i] = u[i]
      /\ \A i \in 1..1 : v[Len(u) + i] = <<b>>[i]
  BY <1>1, Concat
<1>p. p = v \o w
  OBVIOUS
<1> HIDE DEF v
<1>3. /\ v \o w \in Seq(S)
      /\ Len(v) \in Nat /\ Len(w) \in Nat /\ Len(v \o w) = Len(v) + Len(w)
      /\ \A i \in 1..Len(v) : (v \o w)[i] = v[i]
      /\ \A i \in 1..Len(w) : (v \o w)[Len(v) + i] = w[i]
  <2>1. v \in Seq(S)
    BY <1>2
  <2>2. QED BY <2>1, Concat
<1>4. /\ p \in Seq(S) /\ Len(w) \in Nat /\ Len(p) = Len(v) + Len(w)
      /\ \A i \in 1..Len(v) : p[i] = v[i]
      /\ \A i \in 1..Len(w) : p[Len(v) + i] = w[i]
  BY <1>3, <1>p
<1>5. \A i \in 1..Len(u) : p[i] = u[i]
  <2>1. \A i \in 1..Len(u) : i \in 1..Len(v)
    BY <1>2
  <2>2. QED BY <1>2, <1>4, <2>1
<1>6. p[Len(u) + 1] = b
  <2>1. Len(u) + 1 \in 1..Len(v) /\ 1 \in 1..1
    BY <1>2
  <2>2. QED BY <1>1, <1>2, <1>4, <2>1
<1>7. \A i \in 1..Len(w) : p[Len(u) + 1 + i] = w[i]
  BY <1>2, <1>4
<1>8. QED BY <1>2, <1>4, <1>5, <1>6, <1>7

\* A stretch of a sequence that has the length and the elements of another is it.
LEMMA StretchIs ==
    ASSUME NEW S, NEW p \in Seq(S), NEW w \in Seq(S), NEW a \in Nat,
           a + Len(w) <= Len(p), \A i \in 1..Len(w) : p[a + i] = w[i]
    PROVE  SubSeq(p, a + 1, a + Len(w)) = w
<1> DEFINE q == SubSeq(p, a + 1, a + Len(w))
<1>1. Len(p) \in Nat /\ Len(w) \in Nat
  OBVIOUS
<1>2. q \in Seq(S) /\ Len(q) = Len(w) /\ \A i \in 1..Len(w) : q[i] = p[a + i]
  BY <1>1
<1> HIDE DEF q
<1>3. q = w
  BY <1>1, <1>2
<1>4. QED BY <1>3 DEF q

\* A name is free of bars.
Plain(u) == \A i \in 1..Len(u) : u[i] # P!Bar

\* What a request is made of: the client puts name and password together, and the
\* server takes them apart at the first bar.  Only if the name has none does it
\* find what was typed, but it always finds all of it.
LEMMA RequestFacts ==
    ASSUME NEW t \in P!Typed
    PROVE  LET r == P!Request(P!HandshakePayload(t))
           IN  /\ r = [username |-> r.username, password |-> r.password]
               /\ r.username \in Typing /\ r.password \in Typing /\ Plain(r.username)
               /\ P!HandshakePayload(r) = P!HandshakePayload(t)
               /\ Plain(t.username) => r = t
<1> DEFINE u == t.username
           w == t.password
           b == P!Bar
           p == P!HandshakePayload(t)
           bars == P!Bars(p, 1)
           d == P!Min(bars)
           r == P!Request(p)
<1>1. u \in Seq(Letters) /\ w \in Seq(Letters) /\ b \in Letters
  BY TypedFacts, ScreenAssumption DEF Typing
<1>2. p = u \o <<b>> \o w
  BY DEF P!HandshakePayload
<1>3. t = [username |-> u, password |-> w]
  BY TypedFacts
<1> HIDE DEF u, w, b
<1>4. /\ p \in Seq(Letters) /\ Len(u) \in Nat /\ Len(w) \in Nat
      /\ Len(p) = Len(u) + 1 + Len(w)
      /\ \A i \in 1..Len(u) : p[i] = u[i]
      /\ p[Len(u) + 1] = b
      /\ \A i \in 1..Len(w) : p[Len(u) + 1 + i] = w[i]
  BY <1>1, <1>2, SplitFacts
<1> DEFINE name == SubSeq(p, 1, d - 1)
           rest == SubSeq(p, d + 1, Len(p))
<1>5. r = [username |-> name, password |-> rest]
  BY DEF P!Request, P!Before, P!After
<1> HIDE DEF name, rest, r
<1> HIDE DEF p
<1>6. /\ bars \in SUBSET Nat
      /\ \A i : i \in bars <=> i \in 1..Len(p) /\ p[i] = b
  BY DEF P!Bars, b
<1> HIDE DEF bars
<1>7. Len(u) + 1 \in bars
  BY <1>4, <1>6
<1>8. d \in bars /\ \A n \in bars : d <= n
  BY <1>6, <1>7, MinFacts
<1>9. d \in 1..Len(p) /\ p[d] = b /\ d \in Nat /\ Len(p) \in Nat
  BY <1>4, <1>6, <1>8
<1>10. ASSUME NEW i \in 1..(d - 1) PROVE p[i] # b
  <2>1. i \in 1..Len(p) /\ ~(d <= i)
    BY <1>9
  <2>2. QED BY <1>6, <1>8, <2>1
<1>11. Plain(u) => d = Len(u) + 1
  <2>1. Plain(u) => \A i \in bars : Len(u) + 1 <= i
    <3>1. ASSUME Plain(u), NEW i \in bars, ~(Len(u) + 1 <= i) PROVE FALSE
      <4>1. i \in 1..Len(u) /\ p[i] = b
        BY <1>4, <1>6, <3>1
      <4>2. QED BY <1>4, <3>1, <4>1 DEF Plain, b
    <3>2. QED BY <3>1
  <2>2. QED BY <1>6, <1>7, <2>1, MinIs
<1> HIDE DEF d
<1>12. /\ name \in Seq(Letters) /\ Len(name) = d - 1
       /\ \A i \in 1..(d - 1) : name[i] = p[i]
  BY <1>4, <1>9 DEF name
<1>13. /\ rest \in Seq(Letters) /\ Len(rest) = Len(p) - d
       /\ \A i \in 1..(Len(p) - d) : rest[i] = p[d + i]
  BY <1>4, <1>9 DEF rest
<1>14. Plain(u) => name = u /\ rest = w
  <2> SUFFICES ASSUME Plain(u) PROVE name = u /\ rest = w
    OBVIOUS
  <2>1. d = Len(u) + 1
    BY <1>11
  <2>2. name = u
    BY <1>1, <1>4, <1>12, <2>1
  <2>3. Len(rest) = Len(w) /\ \A i \in 1..Len(w) : rest[i] = w[i]
    BY <1>4, <1>13, <2>1
  <2>4. rest = w
    BY <1>1, <1>13, <2>3
  <2>5. QED BY <2>2, <2>4
<1>15. r.username = name /\ r.password = rest /\ r = [username |-> name, password |-> rest]
  BY <1>5
<1>16. Plain(name)
  BY <1>10, <1>12 DEF Plain, b
<1>17. P!HandshakePayload(r) = p
  <2> DEFINE q == name \o <<b>> \o rest
  <2>1. P!HandshakePayload(r) = q
    BY <1>15 DEF P!HandshakePayload, b
  <2>0. q = name \o <<b>> \o rest
    OBVIOUS
  <2> HIDE DEF q
  <2>2. /\ q \in Seq(Letters) /\ Len(q) = Len(name) + 1 + Len(rest)
        /\ \A i \in 1..Len(name) : q[i] = name[i]
        /\ q[Len(name) + 1] = b
        /\ \A i \in 1..Len(rest) : q[Len(name) + 1 + i] = rest[i]
    <3>1. name \in Seq(Letters) /\ rest \in Seq(Letters) /\ b \in Letters
      BY <1>1, <1>12, <1>13
    <3>2. QED BY <2>0, <3>1, SplitFacts
  <2>3. Len(q) = Len(p)
    BY <1>9, <1>12, <1>13, <2>2
  <2>4. ASSUME NEW i \in 1..Len(p) PROVE q[i] = p[i]
    <3>1. CASE i \in 1..(d - 1)
      BY <1>12, <2>2, <3>1
    <3>2. CASE i = d
      <4>1. Len(name) + 1 = d
        BY <1>9, <1>12
      <4>2. QED BY <1>9, <2>2, <3>2, <4>1
    <3>3. CASE i \in (d + 1)..Len(p)
      <4>1. /\ i - d \in 1..(Len(p) - d) /\ Len(name) + 1 + (i - d) = i
            /\ d + (i - d) = i
        BY <1>9, <1>12, <3>3
      <4>2. QED BY <1>13, <2>2, <4>1
    <3>4. QED BY <1>9, <3>1, <3>2, <3>3
  <2>5. q = p
    BY <1>4, <2>2, <2>3, <2>4
  <2>6. QED BY <2>1, <2>5
<1>18. QED BY <1>3, <1>12, <1>13, <1>14, <1>15, <1>16, <1>17 DEF r, p, u, Typing

\* Letters, and the marks that tell a user's message from the server's.
Signs == Letters \cup {"U", "S"}

\* What a message decodes to: a user whose name is empty cannot send any.
Decoded(result) == IF result.sender = <<>> THEN P!InvalidProtocolError ELSE result

\* process_data_stream: under a name without bars, a user's message is what he said,
\* or invalid if the name is empty; bars in the text do no harm.
LEMMA UserDecoded ==
    ASSUME NEW u \in Typing, NEW text \in Typing, Plain(u)
    PROVE  P!Message(P!UserPayload(u, text)) = Decoded(P!PrintMessage(u, text))
<1> DEFINE b == P!Bar
           mark == <<"U", b>>
           h == mark \o u
           p == P!UserPayload(u, text)
           bars == P!Bars(p, 3)
           e == 3 + Len(u)
<1>1. b \in Signs /\ u \in Seq(Signs) /\ text \in Seq(Signs) /\ "U" \in Signs
  <2>1. Letters \subseteq Signs
    BY DEF Signs
  <2>2. b \in Signs /\ "U" \in Signs
    BY <2>1, ScreenAssumption DEF Signs
  <2>3. \A s \in Seq(Letters) : s \in Seq(Signs)
    BY <2>1
  <2>4. QED BY <2>2, <2>3 DEF Typing
<1>2. p = mark \o u \o <<b>> \o text
  BY DEF P!UserPayload
<1>3. \A i \in 1..Len(u) : u[i] # b
  BY DEF Plain
<1> HIDE DEF b
<1>4. mark \in Seq(Signs) /\ Len(mark) = 2 /\ mark[1] = "U" /\ mark[2] = b
  BY <1>1
<1> HIDE DEF mark
<1>5. /\ h \in Seq(Signs) /\ Len(u) \in Nat /\ Len(h) = 2 + Len(u)
      /\ \A i \in 1..2 : h[i] = mark[i]
      /\ \A i \in 1..Len(u) : h[2 + i] = u[i]
  <2>1. mark \in Seq(Signs) /\ u \in Seq(Signs)
    BY <1>1, <1>4
  <2>2. /\ h \in Seq(Signs)
        /\ Len(u) \in Nat /\ Len(h) = Len(mark) + Len(u)
        /\ \A i \in 1..Len(mark) : h[i] = mark[i]
        /\ \A i \in 1..Len(u) : h[Len(mark) + i] = u[i]
    BY <2>1, Concat
  <2> HIDE DEF h
  <2>3. QED BY <1>4, <2>2
<1>6. p = h \o <<b>> \o text
  BY <1>2
<1> HIDE DEF p, h
<1>7. /\ p \in Seq(Signs) /\ Len(text) \in Nat /\ Len(p) = Len(h) + 1 + Len(text)
      /\ \A i \in 1..Len(h) : p[i] = h[i]
      /\ p[Len(h) + 1] = b
      /\ \A i \in 1..Len(text) : p[Len(h) + 1 + i] = text[i]
  <2>1. h \in Seq(Signs) /\ b \in Signs /\ text \in Seq(Signs)
    BY <1>1, <1>5
  <2>2. QED BY <1>6, <2>1, SplitFacts
<1>8. /\ Len(p) \in Nat /\ Len(p) = e + Len(text) /\ e \in Nat /\ e >= 3
      /\ p[1] = "U" /\ p[2] = b /\ p[e] = b
      /\ \A i \in 1..Len(text) : p[e + i] = text[i]
  BY <1>4, <1>5, <1>7
<1>9. \A i \in 1..Len(u) : p[2 + i] = u[i]
  <2>1. \A i \in 1..Len(u) : 2 + i \in 1..Len(h)
    BY <1>5
  <2>2. QED BY <1>5, <1>7, <2>1
<1>10. /\ bars \in SUBSET Nat
       /\ \A i : i \in bars <=> i \in 3..Len(p) /\ p[i] = b
  BY <1>8 DEF P!Bars, b
<1> HIDE DEF bars
<1>11. e \in bars /\ bars # {}
  BY <1>8, <1>10
<1>12. \A i \in bars : e <= i
  <2>1. ASSUME NEW i \in bars, ~(e <= i) PROVE FALSE
    <3>1. i \in 3..Len(p) /\ p[i] = b /\ i - 2 \in 1..Len(u) /\ 2 + (i - 2) = i
      BY <1>5, <1>8, <1>10, <2>1
    <3>2. QED BY <1>3, <1>9, <3>1
  <2>2. QED BY <2>1
<1>13. P!Min(bars) = e
  BY <1>10, <1>11, <1>12, MinIs
<1>14. P!Before(p, 3, e) = u
  <2>1. SubSeq(p, 2 + 1, 2 + Len(u)) = u
    BY <1>1, <1>5, <1>7, <1>8, <1>9, StretchIs
  <2>2. e - 1 = 2 + Len(u) /\ 2 + 1 = 3
    BY <1>5
  <2>3. QED BY <2>1, <2>2 DEF P!Before
<1>15. P!After(p, e) = text
  <2>1. SubSeq(p, e + 1, e + Len(text)) = text
    BY <1>1, <1>7, <1>8, StretchIs
  <2>2. QED BY <1>8, <2>1 DEF P!After
<1>16. P!Message(p) = P!FromUser(p)
  <2>1. Head(p) = "U" /\ ~(Len(p) < 2) /\ p[2] = P!Bar
    BY <1>7, <1>8 DEF b
  <2>2. QED BY <2>1 DEF P!Message
<1>17. P!FromUser(p) = IF 3 \in bars THEN P!InvalidProtocolError ELSE P!PrintMessage(u, text)
  BY <1>11, <1>13, <1>14, <1>15 DEF P!FromUser, bars
<1>18. 3 \in bars <=> u = <<>>
  <2>1. CASE u = <<>>
    <3>1. e = 3
      BY <2>1
    <3>2. QED BY <1>11, <2>1, <3>1
  <2>2. CASE u # <<>>
    <3>1. Len(u) # 0
      BY <1>1, <2>2
    <3>2. ~(e <= 3)
      BY <1>5, <3>1
    <3>3. QED BY <1>12, <2>2, <3>2
  <2>3. QED BY <2>1, <2>2
<1>19. P!PrintMessage(u, text).sender = u
  BY DEF P!PrintMessage, P!Result
<1>20. QED BY <1>16, <1>17, <1>18, <1>19 DEF Decoded, p

\* What a line of the server's console decodes to.
LEMMA ServerDecoded ==
    ASSUME NEW text \in Typing
    PROVE  P!Message(P!ServerPayload(text)) = Decoded(P!PrintMessage(P!SERVER, text))
<1> DEFINE b == P!Bar
           mark == <<"S", b>>
           p == P!ServerPayload(text)
<1>1. b \in Signs /\ text \in Seq(Signs) /\ "S" \in Signs
  <2>1. Letters \subseteq Signs
    BY DEF Signs
  <2>2. b \in Signs /\ "S" \in Signs
    BY <2>1, ScreenAssumption DEF Signs
  <2>3. \A s \in Seq(Letters) : s \in Seq(Signs)
    BY <2>1
  <2>4. QED BY <2>2, <2>3 DEF Typing
<1>2. p = mark \o text
  BY DEF P!ServerPayload
<1> HIDE DEF b
<1>3. mark \in Seq(Signs) /\ Len(mark) = 2 /\ mark[1] = "S" /\ mark[2] = b
  BY <1>1
<1> HIDE DEF mark
<1>4. /\ p \in Seq(Signs) /\ Len(text) \in Nat /\ Len(p) = 2 + Len(text)
      /\ \A i \in 1..2 : p[i] = mark[i]
      /\ \A i \in 1..Len(text) : p[2 + i] = text[i]
  <2>1. /\ mark \o text \in Seq(Signs) /\ Len(text) \in Nat
        /\ Len(mark \o text) = Len(mark) + Len(text)
        /\ \A i \in 1..Len(mark) : (mark \o text)[i] = mark[i]
        /\ \A i \in 1..Len(text) : (mark \o text)[Len(mark) + i] = text[i]
    <3>1. mark \in Seq(Signs) /\ text \in Seq(Signs)
      BY <1>1, <1>3
    <3>2. QED BY <3>1, Concat
  <2> DEFINE q == mark \o text
  <2>2. p = q
    BY <1>2
  <2> HIDE DEF q
  <2>3. QED BY <1>3, <2>1, <2>2 DEF q
<1> HIDE DEF p
<1>5. P!After(p, 2) = text
  <2>1. SubSeq(p, 2 + 1, 2 + Len(text)) = text
    BY <1>1, <1>4, StretchIs
  <2>2. QED BY <1>4, <2>1 DEF P!After
<1>6. Head(p) = "S" /\ ~(Len(p) < 2) /\ p[2] = P!Bar
  BY <1>3, <1>4 DEF b
<1>7. P!Message(p) = P!PrintMessage(P!SERVER, text)
  BY <1>5, <1>6 DEF P!Message
<1>8. P!PrintMessage(P!SERVER, text).sender # <<>>
  BY DEF P!PrintMessage, P!Result, P!SERVER
<1>9. QED BY <1>7, <1>8 DEF Decoded, p

-----------------------------------------------------------------------------
(***************************************************************************)
(* What a client has heard, has shown and has yet to receive               *)
(***************************************************************************)

Prefix(short, long) ==
    /\ Len(short) <= Len(long)
    /\ \A i \in 1..Len(short) : short[i] = long[i]

\* In the room: what is not shown yet is on its way, and decodes to what was said.
Waiting(coming, window, all) ==
    /\ Prefix(window, all)
    /\ Len(all) = Len(window) + Len(coming)
    /\ \A i \in 1..Len(coming) : P!Message(coming[i]) = Decoded(all[Len(window) + i])

\* Dropped: the message it did not show has no sender.
Missed(coming, window, all) ==
    /\ Prefix(window, all)
    /\ Len(window) < Len(all) /\ all[Len(window) + 1].sender = <<>>
    /\ coming = <<>>

Consistent(at, coming, window, all) ==
    /\ at = "in" => Waiting(coming, window, all)
    /\ at = "dropped" => Missed(coming, window, all)
    /\ at = "out" => coming = <<>> /\ window = <<>> /\ all = <<>>

\* A payload is sent that decodes to what is said.
LEMMA WaitingSent ==
    ASSUME NEW coming \in Seq(Seq(Signs)), NEW window \in Seq(P!Said), NEW all \in Seq(P!Said),
           Waiting(coming, window, all),
           NEW payload \in Seq(Signs), NEW m \in P!Said, P!Message(payload) = Decoded(m)
    PROVE  Waiting(Append(coming, payload), window, Append(all, m))
<1> DEFINE coming2 == Append(coming, payload)
           all2 == Append(all, m)
<1>1. /\ coming2 \in Seq(Seq(Signs)) /\ Len(coming) \in Nat /\ Len(coming2) = Len(coming) + 1
      /\ \A i \in 1..Len(coming) : coming2[i] = coming[i]
      /\ coming2[Len(coming) + 1] = payload
  OBVIOUS
<1>2. /\ all2 \in Seq(P!Said) /\ Len(all) \in Nat /\ Len(all2) = Len(all) + 1
      /\ \A i \in 1..Len(all) : all2[i] = all[i]
      /\ all2[Len(all) + 1] = m
  OBVIOUS
<1>3. Len(window) \in Nat
  OBVIOUS
<1> HIDE DEF coming2, all2
<1>4. /\ Len(window) <= Len(all) /\ \A i \in 1..Len(window) : window[i] = all[i]
      /\ Len(all) = Len(window) + Len(coming)
      /\ \A i \in 1..Len(coming) : P!Message(coming[i]) = Decoded(all[Len(window) + i])
  BY DEF Waiting, Prefix
<1>5. Prefix(window, all2)
  <2>1. \A i \in 1..Len(window) : i \in 1..Len(all)
    BY <1>2, <1>3, <1>4
  <2>2. QED BY <1>2, <1>3, <1>4, <2>1 DEF Prefix
<1>6. ASSUME NEW i \in 1..Len(coming2)
      PROVE  P!Message(coming2[i]) = Decoded(all2[Len(window) + i])
  <2>1. CASE i \in 1..Len(coming)
    <3>1. Len(window) + i \in 1..Len(all)
      BY <1>1, <1>3, <1>4, <2>1
    <3>2. coming2[i] = coming[i] /\ all2[Len(window) + i] = all[Len(window) + i]
      BY <1>1, <1>2, <2>1, <3>1
    <3>3. QED BY <1>4, <2>1, <3>2
  <2>2. CASE i = Len(coming) + 1
    <3>1. Len(window) + i = Len(all) + 1
      BY <1>1, <1>3, <1>4, <2>2
    <3>2. coming2[i] = payload /\ all2[Len(window) + i] = m
      BY <1>1, <1>2, <2>2, <3>1
    <3>3. QED BY <3>2
  <2>3. QED BY <1>1, <2>1, <2>2
<1>7. Len(all2) = Len(window) + Len(coming2)
  BY <1>1, <1>2, <1>3, <1>4
<1>8. QED BY <1>5, <1>6, <1>7 DEF Waiting, coming2, all2

\* What a received payload decodes to.
LEMMA WaitingHead ==
    ASSUME NEW coming \in Seq(Seq(Signs)), NEW window \in Seq(P!Said), NEW all \in Seq(P!Said),
           Waiting(coming, window, all), coming # <<>>
    PROVE  /\ Len(window) + 1 \in 1..Len(all)
           /\ P!Message(Head(coming)) = Decoded(all[Len(window) + 1])
           /\ all[Len(window) + 1] \in P!Said
           /\ P!Acceptable(P!Message(Head(coming))) <=> all[Len(window) + 1].sender # <<>>
<1>1. /\ Len(window) \in Nat /\ Len(coming) \in Nat \ {0} /\ Len(all) \in Nat
      /\ Head(coming) = coming[1]
  OBVIOUS
<1>2. Len(all) = Len(window) + Len(coming)
      /\ \A i \in 1..Len(coming) : P!Message(coming[i]) = Decoded(all[Len(window) + i])
  BY DEF Waiting
<1>3. Len(window) + 1 \in 1..Len(all) /\ 1 \in 1..Len(coming)
  BY <1>1, <1>2
<1> DEFINE m == all[Len(window) + 1]
<1>4. P!Message(Head(coming)) = Decoded(m)
  BY <1>1, <1>2, <1>3
<1>5. m \in P!Said
  BY <1>3
<1> HIDE DEF m
<1>6. m.status = "PrintMessage"
  BY <1>5 DEF P!Said
<1>7. P!Acceptable(Decoded(m)) <=> m.sender # <<>>
  BY <1>6 DEF P!Acceptable, Decoded, P!InvalidProtocolError, P!Result
<1>8. QED BY <1>3, <1>4, <1>5, <1>7 DEF m

\* The client shows the first payload on its way.
LEMMA WaitingShown ==
    ASSUME NEW coming \in Seq(Seq(Signs)), NEW window \in Seq(P!Said), NEW all \in Seq(P!Said),
           Waiting(coming, window, all), coming # <<>>,
           P!Acceptable(P!Message(Head(coming)))
    PROVE  /\ P!Message(Head(coming)) \in P!Said
           /\ Waiting(Tail(coming), Append(window, P!Message(Head(coming))), all)
<1> DEFINE m == P!Message(Head(coming))
           window2 == Append(window, m)
           coming2 == Tail(coming)
<1>1. /\ Len(window) + 1 \in 1..Len(all)
      /\ m = all[Len(window) + 1] /\ m \in P!Said
  BY WaitingHead DEF Decoded
<1> HIDE DEF m
<1>2. /\ window2 \in Seq(P!Said) /\ Len(window) \in Nat /\ Len(window2) = Len(window) + 1
      /\ \A i \in 1..Len(window) : window2[i] = window[i]
      /\ window2[Len(window) + 1] = m
  BY <1>1
<1>3. /\ coming2 \in Seq(Seq(Signs)) /\ Len(coming2) \in Nat /\ Len(coming) = Len(coming2) + 1
      /\ \A i \in 1..Len(coming2) : coming2[i] = coming[i + 1]
  OBVIOUS
<1> HIDE DEF window2, coming2
<1>4. /\ Len(window) <= Len(all) /\ \A i \in 1..Len(window) : window[i] = all[i]
      /\ Len(all) = Len(window) + Len(coming)
      /\ \A i \in 1..Len(coming) : P!Message(coming[i]) = Decoded(all[Len(window) + i])
  BY DEF Waiting, Prefix
<1>5. Prefix(window2, all)
  <2>1. ASSUME NEW i \in 1..Len(window2) PROVE window2[i] = all[i]
    <3>1. CASE i \in 1..Len(window)
      BY <1>2, <1>4, <3>1
    <3>2. CASE i = Len(window) + 1
      BY <1>1, <1>2, <3>2
    <3>3. QED BY <1>2, <3>1, <3>2
  <2>2. Len(window2) <= Len(all)
    BY <1>1, <1>2
  <2>3. QED BY <2>1, <2>2 DEF Prefix
<1>6. ASSUME NEW i \in 1..Len(coming2)
      PROVE  P!Message(coming2[i]) = Decoded(all[Len(window2) + i])
  <2>1. i + 1 \in 1..Len(coming) /\ Len(window) + (i + 1) = Len(window2) + i
    BY <1>2, <1>3
  <2>2. P!Message(coming[i + 1]) = Decoded(all[Len(window) + (i + 1)])
    BY <1>4, <2>1
  <2>3. QED BY <1>3, <2>1, <2>2
<1>7. Len(all) = Len(window2) + Len(coming2)
  BY <1>2, <1>3, <1>4
<1>8. QED BY <1>1, <1>5, <1>6, <1>7 DEF Waiting, m, window2, coming2

-----------------------------------------------------------------------------
(***************************************************************************)
(* The invariant of the programs                                           *)
(***************************************************************************)

Asked(t) == P!Request(P!HandshakePayload(t))

\* Who may stand behind a message: Users are the names that are not empty.
Senders == Users \cup {<<>>, P!SERVER}

PayloadTypes ==
    /\ \A n \in DOMAIN accounts : n \in Typing /\ accounts[n] \in Typing
    /\ registrations \subseteq P!Typed
    /\ stage \in [Clients -> {"out", "in", "dropped"}]
    /\ typed \in [Clients -> P!Typed \cup {P!None}]
    /\ session \in [Clients -> DOMAIN accounts \cup {P!None}]
    /\ inbox \in [Clients -> Seq(Seq(Signs))]
    /\ shown \in [Clients -> Seq(P!Said)]
    /\ heard \in [Clients -> Seq(P!Said)]
    /\ said \in 0..MaxSaid

\* Accounts hold what the server found in the payloads of registrations ...
AccountsKept ==
    \A n \in DOMAIN accounts :
      \E r \in registrations : Asked(r) = [username |-> n, password |-> accounts[n]]

\* ... and whoever is in sent a payload in which it found the same.
LoggedIn(c) ==
    /\ typed[c] \in P!Typed
    /\ session[c] \in DOMAIN accounts
    /\ Asked(typed[c]) = [username |-> session[c], password |-> accounts[session[c]]]

Settled(c) ==
    /\ stage[c] = "in" => LoggedIn(c)
    /\ Consistent(stage[c], inbox[c], shown[c], heard[c])
    /\ \A i \in 1..Len(heard[c]) : heard[c][i].sender \in Senders

PInv == PayloadTypes /\ AccountsKept /\ \A c \in Clients : Settled(c)

\* What the server finds in a payload that a client can send.
LEMMA AskedFacts ==
    ASSUME NEW t \in P!Typed
    PROVE  /\ Asked(t) = [username |-> Asked(t).username, password |-> Asked(t).password]
           /\ Asked(t).username \in Typing /\ Asked(t).password \in Typing
           /\ Plain(Asked(t).username)
           /\ P!HandshakePayload(Asked(t)) = P!HandshakePayload(t)
           /\ Plain(t.username) => Asked(t) = t
           /\ Asked(t).username \in Users \cup {<<>>}
<1>1. Asked(t).username \in Users \cup {<<>>}
  BY ScreenAssumption DEF Asked
<1>2. QED BY <1>1, RequestFacts DEF Asked

\* None stands for no name that can be typed.
LEMMA NoAccountsName == P!None \notin Typing
<1>1. ASSUME P!None \in Typing PROVE FALSE
  <2>1. P!None[1] = "none" /\ Len(P!None) = 1
    BY DEF P!None
  <2>2. P!None[1] \in Letters
    BY <1>1, <2>1 DEF Typing
  <2>3. QED BY <2>1, <2>2, ScreenAssumption
<1>2. QED BY <1>1

\* In the beginning everybody is out.
LEMMA PInit == ASSUME P!Init PROVE PInv
<1>1. DOMAIN accounts = {} /\ registrations = {} /\ said = 0
  BY DEF P!Init
<1>2. MaxSaid \in Nat
  BY ScreenAssumption
<1>3. PayloadTypes
  <2>1. /\ stage \in [Clients -> {"out", "in", "dropped"}]
        /\ typed \in [Clients -> P!Typed \cup {P!None}]
        /\ session \in [Clients -> DOMAIN accounts \cup {P!None}]
    BY DEF P!Init
  <2>2. /\ inbox \in [Clients -> Seq(Seq(Signs))]
        /\ shown \in [Clients -> Seq(P!Said)] /\ heard \in [Clients -> Seq(P!Said)]
    BY DEF P!Init
  <2>3. said \in 0..MaxSaid
    BY <1>1, <1>2
  <2>4. QED BY <1>1, <2>1, <2>2, <2>3 DEF PayloadTypes
<1>4. ASSUME NEW c \in Clients PROVE Settled(c)
  <2>1. stage[c] = "out" /\ inbox[c] = <<>> /\ shown[c] = <<>> /\ heard[c] = <<>>
    BY DEF P!Init
  <2>2. QED BY <2>1 DEF Settled, Consistent
<1>5. QED BY <1>1, <1>3, <1>4 DEF PInv, AccountsKept

\* A step that leaves a client alone and keeps its account.
LEMMA SettledStays ==
    ASSUME NEW c \in Clients, Settled(c), stage'[c] = stage[c], typed'[c] = typed[c],
           session'[c] = session[c], inbox'[c] = inbox[c], shown'[c] = shown[c],
           heard'[c] = heard[c],
           \A n \in DOMAIN accounts : n \in DOMAIN accounts' /\ accounts'[n] = accounts[n]
    PROVE  Settled(c)'
<1>1. stage'[c] = "in" => LoggedIn(c)'
  BY DEF Settled, LoggedIn
<1>2. QED BY <1>1 DEF Settled

\* A registration adds an account that nobody is in under.
LEMMA RegisterKeeps ==
    ASSUME PInv, NEW c \in Clients, P!Register(c)
    PROVE  PInv'
<1>1. PICK t \in P!Typed :
        /\ Asked(t).username \notin DOMAIN accounts
        /\ accounts' = [n \in DOMAIN accounts \cup {Asked(t).username} |->
              IF n = Asked(t).username THEN Asked(t).password ELSE accounts[n]]
        /\ registrations' = registrations \cup {t}
  BY DEF P!Register, Asked
<1> DEFINE r == Asked(t)
<1>2. r = [username |-> r.username, password |-> r.password]
      /\ r.username \in Typing /\ r.password \in Typing
  BY AskedFacts
<1>3. /\ DOMAIN accounts' = DOMAIN accounts \cup {r.username}
      /\ accounts'[r.username] = r.password
      /\ \A n \in DOMAIN accounts : accounts'[n] = accounts[n]
  BY <1>1
<1>4. /\ stage' = stage /\ typed' = typed /\ session' = session /\ inbox' = inbox
      /\ shown' = shown /\ heard' = heard /\ said' = said
  BY DEF P!Register, P!room
<1>r. r = Asked(t) 
  OBVIOUS
<1> HIDE DEF r
<1>5. PayloadTypes'
  <2>1. \A n \in DOMAIN accounts' : n \in Typing /\ accounts'[n] \in Typing
    BY <1>2, <1>3 DEF PInv, PayloadTypes
  <2>2. registrations' \subseteq P!Typed
    BY <1>1 DEF PInv, PayloadTypes
  <2>3. session' \in [Clients -> DOMAIN accounts' \cup {P!None}]
    BY <1>3, <1>4 DEF PInv, PayloadTypes
  <2>4. QED BY <1>4, <2>1, <2>2, <2>3 DEF PInv, PayloadTypes
<1>6. AccountsKept'
  <2> SUFFICES ASSUME NEW n \in DOMAIN accounts'
               PROVE  \E q \in registrations' :
                        Asked(q) = [username |-> n, password |-> accounts'[n]]
    BY DEF AccountsKept, Asked
  <2>1. CASE n = r.username
    BY <1>1, <1>2, <1>3, <1>r, <2>1
  <2>2. CASE n \in DOMAIN accounts
    <3>1. PICK q \in registrations : Asked(q) = [username |-> n, password |-> accounts[n]]
      BY <2>2 DEF PInv, AccountsKept
    <3>2. QED BY <1>1, <1>3, <2>2, <3>1
  <2>3. QED BY <1>3, <2>1, <2>2
<1>7. ASSUME NEW d \in Clients PROVE Settled(d)'
  <2>1. Settled(d)
    BY DEF PInv
  <2>2. \A n \in DOMAIN accounts : n \in DOMAIN accounts' /\ accounts'[n] = accounts[n]
    BY <1>3
  <2>3. QED BY <1>4, <2>1, <2>2, SettledStays
<1>8. QED BY <1>5, <1>6, <1>7 DEF PInv

\* A login makes the client a member that has heard nothing yet.
LEMMA LoginKeeps ==
    ASSUME PInv, NEW c \in Clients, P!Login(c)
    PROVE  PInv'
<1>1. PICK t \in P!Typed :
        /\ Asked(t).username \in DOMAIN accounts
        /\ Asked(t).password = accounts[Asked(t).username]
        /\ typed' = [typed EXCEPT ![c] = t]
        /\ session' = [session EXCEPT ![c] = Asked(t).username]
  BY DEF P!Login, Asked
<1>2. Asked(t) = [username |-> Asked(t).username, password |-> Asked(t).password]
  BY AskedFacts
<1>3. /\ accounts' = accounts /\ registrations' = registrations /\ inbox' = inbox
      /\ shown' = shown /\ heard' = heard /\ said' = said
      /\ stage[c] = "out" /\ stage' = [stage EXCEPT ![c] = "in"]
  BY DEF P!Login, P!room
<1>4. PayloadTypes'
  <2>1. /\ stage' \in [Clients -> {"out", "in", "dropped"}]
        /\ typed' \in [Clients -> P!Typed \cup {P!None}]
        /\ session' \in [Clients -> DOMAIN accounts \cup {P!None}]
    BY <1>1, <1>3 DEF PInv, PayloadTypes
  <2>2. QED BY <1>3, <2>1 DEF PInv, PayloadTypes
<1>5. AccountsKept'
  BY <1>3 DEF PInv, AccountsKept, Asked
<1>6. ASSUME NEW d \in Clients PROVE Settled(d)'
  <2>1. Settled(d)
    BY DEF PInv
  <2>2. CASE d # c
    <3>1. /\ stage'[d] = stage[d] /\ typed'[d] = typed[d] /\ session'[d] = session[d]
      BY <1>1, <1>3, <2>2 DEF PInv, PayloadTypes
    <3>2. QED BY <1>3, <2>1, <3>1, SettledStays
  <2>3. CASE d = c
    <3>1. typed'[c] = t /\ session'[c] = Asked(t).username /\ stage'[c] = "in"
      BY <1>1, <1>3 DEF PInv, PayloadTypes
    <3>2. LoggedIn(c)'
      BY <1>1, <1>2, <1>3, <3>1 DEF LoggedIn, Asked
    <3>3. inbox'[c] = <<>> /\ shown'[c] = <<>> /\ heard'[c] = <<>>
      BY <1>3, <2>1, <2>3 DEF Settled, Consistent
    <3>4. Waiting(inbox'[c], shown'[c], heard'[c])
      BY <3>3 DEF Waiting, Prefix
    <3>5. QED BY <2>3, <3>1, <3>2, <3>3, <3>4 DEF Settled, Consistent
  <2>4. QED BY <2>2, <2>3
<1>7. QED BY <1>4, <1>5, <1>6 DEF PInv

\* A payload is sent to some members of the room.
LEMMA BroadcastKeeps ==
    ASSUME PInv, NEW recipients \in SUBSET P!Joined,
           NEW payload \in Seq(Signs), NEW m \in P!Said, m.sender \in Senders,
           P!Message(payload) = Decoded(m), P!Broadcast(recipients, payload, m)
    PROVE  PInv'
<1>1. /\ accounts' = accounts /\ registrations' = registrations /\ stage' = stage
      /\ typed' = typed /\ session' = session /\ shown' = shown
      /\ said < MaxSaid /\ said' = said + 1
      /\ inbox' = [d \in Clients |-> IF d \in recipients THEN Append(inbox[d], payload)
                                                        ELSE inbox[d]]
      /\ heard' = [d \in Clients |-> IF d \in recipients THEN Append(heard[d], m)
                                                        ELSE heard[d]]
  BY DEF P!Broadcast
<1>2. PayloadTypes'
  <2>1. inbox' \in [Clients -> Seq(Seq(Signs))]
    BY <1>1 DEF PInv, PayloadTypes
  <2>2. heard' \in [Clients -> Seq(P!Said)]
    BY <1>1 DEF PInv, PayloadTypes
  <2>3. said' \in 0..MaxSaid
    BY <1>1, ScreenAssumption DEF PInv, PayloadTypes
  <2>4. QED BY <1>1, <2>1, <2>2, <2>3 DEF PInv, PayloadTypes
<1>3. AccountsKept'
  BY <1>1 DEF PInv, AccountsKept, Asked
<1>4. ASSUME NEW d \in Clients PROVE Settled(d)'
  <2>1. Settled(d)
    BY DEF PInv
  <2>2. CASE d \notin recipients
    <3>1. inbox'[d] = inbox[d] /\ heard'[d] = heard[d]
      BY <1>1, <2>2
    <3>2. QED BY <1>1, <2>1, <3>1, SettledStays
  <2>3. CASE d \in recipients
    <3>1. inbox'[d] = Append(inbox[d], payload) /\ heard'[d] = Append(heard[d], m)
      BY <1>1, <2>3
    <3>2. stage[d] = "in"
      BY <2>3 DEF P!Joined
    <3>3. /\ inbox[d] \in Seq(Seq(Signs)) /\ shown[d] \in Seq(P!Said)
          /\ heard[d] \in Seq(P!Said)
      BY DEF PInv, PayloadTypes
    <3>4. Waiting(inbox'[d], shown'[d], heard'[d])
      <4>1. Waiting(inbox[d], shown[d], heard[d])
        BY <2>1, <3>2 DEF Settled, Consistent
      <4>2. QED BY <1>1, <3>1, <3>3, <4>1, WaitingSent
    <3>5. \A i \in 1..Len(heard'[d]) : heard'[d][i].sender \in Senders
      <4>1. \A i \in 1..Len(heard[d]) : heard[d][i].sender \in Senders
        BY <2>1 DEF Settled
      <4>2. QED BY <3>1, <3>3, <4>1
    <3>6. stage'[d] = "in" /\ LoggedIn(d)'
      BY <1>1, <2>1, <3>2 DEF Settled, LoggedIn, Asked
    <3>7. QED BY <3>4, <3>5, <3>6 DEF Settled, Consistent, Senders, P!SERVER
  <2>4. QED BY <2>2, <2>3
<1>5. QED BY <1>2, <1>3, <1>4 DEF PInv

\* What clients and server send.
LEMMA SentFacts ==
    ASSUME NEW u \in Typing, NEW text \in Texts
    PROVE  /\ P!UserPayload(u, text) \in Seq(Signs) /\ P!ServerPayload(text) \in Seq(Signs)
           /\ P!PrintMessage(u, text) \in P!Said /\ P!PrintMessage(u, text).sender = u
           /\ P!PrintMessage(P!SERVER, text) \in P!Said
           /\ P!PrintMessage(P!SERVER, text).sender = P!SERVER
<1>1. Letters \subseteq Signs
  BY DEF Signs
<1>2. text \in Seq(Letters) /\ u \in Seq(Letters)
  BY ScreenAssumption DEF Typing
<1>3. text \in Seq(Signs) /\ u \in Seq(Signs)
  BY <1>1, <1>2
<1>4. P!Bar \in Signs /\ "U" \in Signs /\ "S" \in Signs
  BY <1>1, ScreenAssumption DEF Signs
<1>5. /\ P!PrintMessage(u, text) \in P!Said /\ P!PrintMessage(u, text).sender = u
      /\ P!PrintMessage(P!SERVER, text) \in P!Said
      /\ P!PrintMessage(P!SERVER, text).sender = P!SERVER
  BY <1>2 DEF P!PrintMessage, P!Result, P!Said
<1>6. P!UserPayload(u, text) \in Seq(Signs)
  <2>1. <<"U", P!Bar>> \in Seq(Signs) /\ <<P!Bar>> \in Seq(Signs)
    BY <1>4
  <2>2. <<"U", P!Bar>> \o u \in Seq(Signs)
    BY <1>3, <2>1
  <2>3. <<"U", P!Bar>> \o u \o <<P!Bar>> \in Seq(Signs)
    BY <2>1, <2>2
  <2>4. QED BY <1>3, <2>3 DEF P!UserPayload
<1>7. P!ServerPayload(text) \in Seq(Signs)
  <2>1. <<"S", P!Bar>> \in Seq(Signs)
    BY <1>4
  <2>2. QED BY <1>3, <2>1 DEF P!ServerPayload
<1>8. QED BY <1>5, <1>6, <1>7

\* A member's name has no bars, so that what he says is decoded to it.
LEMMA SayKeeps ==
    ASSUME PInv, NEW c \in Clients, P!Say(c)
    PROVE  PInv'
<1>1. PICK text \in Texts :
        P!Broadcast(P!Joined \ {c}, P!UserPayload(session[c], text),
                    P!PrintMessage(session[c], text))
  BY DEF P!Say
<1> DEFINE u == session[c]
           m == P!PrintMessage(u, text)
           payload == P!UserPayload(u, text)
<1>2. /\ u \in DOMAIN accounts /\ u \in Typing /\ Plain(u) /\ u \in Users \cup {<<>>}
  <2>1. LoggedIn(c)
    BY DEF P!Say, P!Joined, PInv, Settled
  <2>2. typed[c] \in P!Typed /\ u \in DOMAIN accounts /\ Asked(typed[c]).username = u
    BY <2>1 DEF LoggedIn
  <2>3. QED BY <2>2, AskedFacts
<1> HIDE DEF u
<1>3. m \in P!Said /\ m.sender = u /\ payload \in Seq(Signs)
  BY <1>2, SentFacts
<1>4. m.sender \in Senders
  BY <1>2, <1>3 DEF Senders
<1>5. P!Message(payload) = Decoded(m)
  <2>1. text \in Typing
    BY ScreenAssumption DEF Typing
  <2>2. QED BY <1>2, <2>1, UserDecoded
<1> HIDE DEF m, payload
<1>6. P!Broadcast(P!Joined \ {c}, payload, m)
  BY <1>1 DEF m, payload, u
<1>7. P!Joined \ {c} \in SUBSET P!Joined
  OBVIOUS
<1>8. QED BY <1>3, <1>4, <1>5, <1>6, <1>7, BroadcastKeeps

\* So is what the server's console says.
LEMMA AnnounceKeeps ==
    ASSUME PInv, P!Announce
    PROVE  PInv'
<1>1. PICK text \in Texts :
        P!Broadcast(P!Joined, P!ServerPayload(text), P!PrintMessage(P!SERVER, text))
  BY DEF P!Announce
<1> DEFINE m == P!PrintMessage(P!SERVER, text)
           payload == P!ServerPayload(text)
<1>2. text \in Typing
  BY ScreenAssumption DEF Typing
<1>3. m \in P!Said /\ m.sender = P!SERVER /\ payload \in Seq(Signs)
  BY <1>2, SentFacts
<1>4. m.sender \in Senders
  BY <1>3 DEF Senders
<1>5. P!Message(payload) = Decoded(m)
  BY <1>2, ServerDecoded
<1> HIDE DEF m, payload
<1>6. P!Broadcast(P!Joined, payload, m)
  BY <1>1 DEF m, payload
<1>7. QED BY <1>3, <1>4, <1>5, <1>6, BroadcastKeeps

\* The message a client receives, and what it was when it was said.
LEMMA ReceiveFacts ==
    ASSUME PInv, NEW c \in Clients, P!Receive(c)
    PROVE  LET result == P!Message(Head(inbox[c]))
               m == heard[c][Len(shown[c]) + 1]
           IN  /\ inbox[c] \in Seq(Seq(Signs)) /\ shown[c] \in Seq(P!Said)
               /\ heard[c] \in Seq(P!Said)
               /\ stage[c] = "in" /\ inbox[c] # <<>>
               /\ Waiting(inbox[c], shown[c], heard[c])
               /\ Len(shown[c]) + 1 \in 1..Len(heard[c])
               /\ result = Decoded(m) /\ m.sender \in Senders
               /\ P!Acceptable(result) <=> m.sender # <<>>
<1>1. /\ inbox[c] \in Seq(Seq(Signs)) /\ shown[c] \in Seq(P!Said)
      /\ heard[c] \in Seq(P!Said) /\ Settled(c)
  BY DEF PInv, PayloadTypes
<1>2. stage[c] = "in" /\ inbox[c] # <<>>
  BY DEF P!Receive, P!Joined
<1>3. Waiting(inbox[c], shown[c], heard[c])
  BY <1>1, <1>2 DEF Settled, Consistent
<1>4. /\ Len(shown[c]) + 1 \in 1..Len(heard[c])
      /\ P!Message(Head(inbox[c])) = Decoded(heard[c][Len(shown[c]) + 1])
      /\ P!Acceptable(P!Message(Head(inbox[c]))) <=> heard[c][Len(shown[c]) + 1].sender # <<>>
  BY <1>1, <1>2, <1>3, WaitingHead
<1>5. heard[c][Len(shown[c]) + 1].sender \in Senders
  BY <1>1, <1>4 DEF Settled
<1>6. QED BY <1>1, <1>2, <1>3, <1>4, <1>5

\* What is received is shown, or is where the client stops.
LEMMA ReceiveKeeps ==
    ASSUME PInv, NEW c \in Clients, P!Receive(c)
    PROVE  PInv'
<1> DEFINE result == P!Message(Head(inbox[c]))
<1>1. /\ accounts' = accounts /\ registrations' = registrations /\ typed' = typed
      /\ session' = session /\ heard' = heard /\ said' = said
      /\ \/ /\ P!Acceptable(result) /\ stage' = stage
            /\ shown' = [shown EXCEPT ![c] = Append(@, result)]
            /\ inbox' = [inbox EXCEPT ![c] = Tail(@)]
         \/ /\ ~P!Acceptable(result) /\ shown' = shown
            /\ stage' = [stage EXCEPT ![c] = "dropped"]
            /\ inbox' = [inbox EXCEPT ![c] = <<>>]
  BY DEF P!Receive
<1>2. /\ inbox[c] \in Seq(Seq(Signs)) /\ shown[c] \in Seq(P!Said)
      /\ heard[c] \in Seq(P!Said)
      /\ stage[c] = "in" /\ inbox[c] # <<>>
      /\ Waiting(inbox[c], shown[c], heard[c])
      /\ Len(shown[c]) + 1 \in 1..Len(heard[c])
      /\ P!Acceptable(result) <=> heard[c][Len(shown[c]) + 1].sender # <<>>
  BY ReceiveFacts
<1>3. P!Acceptable(result) => /\ result \in P!Said
                              /\ Waiting(Tail(inbox[c]), Append(shown[c], result), heard[c])
  BY <1>2, WaitingShown
<1> HIDE DEF result
<1>4. PayloadTypes'
  <2>1. stage' \in [Clients -> {"out", "in", "dropped"}]
    BY <1>1 DEF PInv, PayloadTypes
  <2>2. inbox' \in [Clients -> Seq(Seq(Signs))] /\ shown' \in [Clients -> Seq(P!Said)]
    <3>1. <<>> \in Seq(Seq(Signs)) /\ Tail(inbox[c]) \in Seq(Seq(Signs))
      BY <1>2
    <3>2. P!Acceptable(result) => Append(shown[c], result) \in Seq(P!Said)
      BY <1>2, <1>3
    <3>3. inbox \in [Clients -> Seq(Seq(Signs))] /\ shown \in [Clients -> Seq(P!Said)]
      BY DEF PInv, PayloadTypes
    <3>4. QED BY <1>1, <3>1, <3>2, <3>3
  <2>3. QED BY <1>1, <2>1, <2>2 DEF PInv, PayloadTypes
<1>5. AccountsKept'
  BY <1>1 DEF PInv, AccountsKept, Asked
<1>6. ASSUME NEW d \in Clients PROVE Settled(d)'
  <2>1. Settled(d)
    BY DEF PInv
  <2>2. CASE d # c
    <3>1. stage'[d] = stage[d] /\ shown'[d] = shown[d] /\ inbox'[d] = inbox[d]
      BY <1>1, <2>2 DEF PInv, PayloadTypes
    <3>2. QED BY <1>1, <2>1, <3>1, SettledStays
  <2>3. CASE d = c /\ P!Acceptable(result)
    <3>1. /\ stage'[c] = "in" /\ shown'[c] = Append(shown[c], result)
          /\ inbox'[c] = Tail(inbox[c])
      BY <1>1, <1>2, <2>3 DEF PInv, PayloadTypes
    <3>2. Waiting(inbox'[c], shown'[c], heard'[c])
      BY <1>1, <1>3, <2>3, <3>1
    <3>3. LoggedIn(c)'
      BY <1>1, <1>2, <2>1, <2>3 DEF Settled, LoggedIn, Asked
    <3>4. QED BY <1>1, <2>1, <2>3, <3>1, <3>2, <3>3 DEF Settled, Consistent, Senders, P!SERVER
  <2>4. CASE d = c /\ ~P!Acceptable(result)
    <3>1. stage'[c] = "dropped" /\ shown'[c] = shown[c] /\ inbox'[c] = <<>>
      BY <1>1, <2>4 DEF PInv, PayloadTypes
    <3>2. Missed(inbox'[c], shown'[c], heard'[c])
      <4>1. Len(shown[c]) \in Nat /\ Len(heard[c]) \in Nat /\ Len(shown[c]) < Len(heard[c])
        BY <1>2
      <4>2. QED BY <1>1, <1>2, <2>4, <3>1, <4>1 DEF Missed, Waiting
    <3>3. QED BY <1>1, <2>1, <2>4, <3>1, <3>2 DEF Settled, Consistent, Senders, P!SERVER
  <2>5. QED BY <2>2, <2>3, <2>4
<1>7. QED BY <1>4, <1>5, <1>6 DEF PInv

\* Who leaves has nothing on his screen.
LEMMA LeaveKeeps ==
    ASSUME PInv, NEW c \in Clients, P!Leave(c)
    PROVE  PInv'
<1>1. /\ accounts' = accounts /\ registrations' = registrations /\ said' = said
      /\ stage' = [stage EXCEPT ![c] = "out"]
      /\ typed' = [typed EXCEPT ![c] = P!None] /\ session' = [session EXCEPT ![c] = P!None]
      /\ inbox' = [inbox EXCEPT ![c] = <<>>]
      /\ shown' = [shown EXCEPT ![c] = <<>>] /\ heard' = [heard EXCEPT ![c] = <<>>]
  BY DEF P!Leave
<1>2. PayloadTypes'
  <2>1. /\ stage' \in [Clients -> {"out", "in", "dropped"}]
        /\ typed' \in [Clients -> P!Typed \cup {P!None}]
        /\ session' \in [Clients -> DOMAIN accounts \cup {P!None}]
    BY <1>1 DEF PInv, PayloadTypes
  <2>2. /\ inbox' \in [Clients -> Seq(Seq(Signs))]
        /\ shown' \in [Clients -> Seq(P!Said)] /\ heard' \in [Clients -> Seq(P!Said)]
    <3>1. <<>> \in Seq(Seq(Signs)) /\ <<>> \in Seq(P!Said)
      OBVIOUS
    <3>2. QED BY <1>1, <3>1 DEF PInv, PayloadTypes
  <2>3. QED BY <1>1, <2>1, <2>2 DEF PInv, PayloadTypes
<1>3. AccountsKept'
  BY <1>1 DEF PInv, AccountsKept, Asked
<1>4. ASSUME NEW d \in Clients PROVE Settled(d)'
  <2>1. Settled(d)
    BY DEF PInv
  <2>2. CASE d # c
    <3>1. /\ stage'[d] = stage[d] /\ typed'[d] = typed[d] /\ session'[d] = session[d]
          /\ inbox'[d] = inbox[d] /\ shown'[d] = shown[d] /\ heard'[d] = heard[d]
      BY <1>1, <2>2 DEF PInv, PayloadTypes
    <3>2. QED BY <1>1, <2>1, <3>1, SettledStays
  <2>3. CASE d = c
    <3>1. /\ stage'[c] = "out" /\ inbox'[c] = <<>> /\ shown'[c] = <<>> /\ heard'[c] = <<>>
      BY <1>1 DEF PInv, PayloadTypes
    <3>2. QED BY <2>3, <3>1 DEF Settled, Consistent
  <2>4. QED BY <2>2, <2>3
<1>5. QED BY <1>2, <1>3, <1>4 DEF PInv

\* Every step of clients and server keeps the invariant.
LEMMA PStepKeeps ==
    ASSUME PInv, [P!Next]_P!vars
    PROVE  PInv'
<1>1. CASE UNCHANGED P!vars
  <2>1. /\ accounts' = accounts /\ registrations' = registrations /\ stage' = stage
        /\ typed' = typed /\ session' = session /\ inbox' = inbox /\ shown' = shown
        /\ heard' = heard /\ said' = said
    BY <1>1 DEF P!vars, P!room
  <2>2. PayloadTypes'
    BY <2>1 DEF PInv, PayloadTypes
  <2>3. AccountsKept'
    BY <2>1 DEF PInv, AccountsKept, Asked
  <2>4. ASSUME NEW c \in Clients PROVE Settled(c)'
    BY <2>1, SettledStays DEF PInv
  <2>5. QED BY <2>2, <2>3, <2>4 DEF PInv
<1>2. QED BY <1>1, RegisterKeeps, LoginKeeps, SayKeeps, AnnounceKeeps, ReceiveKeeps,
             LeaveKeeps DEF P!Next

-----------------------------------------------------------------------------
(***************************************************************************)
(* Colours                                                                 *)
(***************************************************************************)

\* Pairs are taken up to max_pair and never beyond it.
InOrder == next_pair = 4 \/ next_pair <= max_pair + 1

IInv == TypeOK /\ InOrder /\ SharedOnlyWhenFull

\* A remainder is smaller than the divisor.
LEMMA Remainder == ASSUME NEW n \in Nat, NEW d \in Nat \ {0}
                   PROVE  n % d \in 0..(d - 1)
  BY SMT

\* max_pair is a pair ncurses has, and fits in eight bits.
LEMMA MaxPair == ASSUME TypeOK PROVE max_pair \in Int /\ max_pair <= 255
  BY DEF TypeOK, max_pair

\* The first message of a user for whom there is a pair.
LEMMA OwnPairKeeps ==
  ASSUME IInv, NEW u \in Users, OwnPair(u), u \notin DOMAIN user_pairs,
         UNCHANGED terminal
  PROVE  IInv' /\ DOMAIN user_pairs \subseteq DOMAIN user_pairs'
         /\ \A v \in DOMAIN user_pairs :
              /\ user_pairs'[v] = user_pairs[v]
              /\ foreground'[user_pairs[v]] = foreground[user_pairs[v]]
<1>1. max_pair \in Int /\ max_pair <= 255 /\ max_pair' = max_pair
  BY MaxPair DEF IInv, terminal, max_pair
<1>2. next_pair \in 4..255 /\ next_pair' = next_pair + 1 /\ next_pair <= max_pair
  BY <1>1 DEF IInv, TypeOK, OwnPair, PairsLeft, After
<1>3. DOMAIN foreground' = 4..(next_pair' - 1)
  BY <1>2 DEF IInv, TypeOK, OwnPair
<1>4. next_palette % Palette \in 0..(Palette - 1)
  BY Remainder, ColoursAssumption DEF IInv, TypeOK
<1>5. \A v \in DOMAIN user_pairs : user_pairs[v] \in 4..(next_pair - 1)
  BY DEF IInv, TypeOK, SharedOnlyWhenFull
<1>6. \A v \in DOMAIN user_pairs : v # u /\ user_pairs[v] # next_pair
  BY <1>2, <1>5
<1>7. /\ DOMAIN user_pairs' = DOMAIN user_pairs \cup {u}
      /\ user_pairs'[u] = next_pair
      /\ \A v \in DOMAIN user_pairs : user_pairs'[v] = user_pairs[v]
  BY <1>6 DEF OwnPair, Emplaced
<1>8. \A pair \in DOMAIN foreground : pair # next_pair /\ foreground'[pair] = foreground[pair]
  BY <1>2 DEF IInv, TypeOK, OwnPair
<1>9. TypeOK'
  <2>1. COLOR_PAIRS' \in Nat /\ windows' \in BOOLEAN /\ looping' \in BOOLEAN
        /\ colors_ready' \in BOOLEAN
    BY DEF IInv, TypeOK, terminal
  <2>2. \A pair \in DOMAIN foreground' : foreground'[pair] \in 0..(Palette - 1)
    BY <1>4, <1>8 DEF IInv, TypeOK, OwnPair
  <2>3. next_pair' \in 4..256 /\ next_palette' \in Nat
    BY <1>2 DEF IInv, TypeOK, OwnPair
  <2>4. /\ DOMAIN user_pairs' \subseteq Users
        /\ \A v \in DOMAIN user_pairs' : user_pairs'[v] \in 4..255
    <3>1. \A v \in DOMAIN user_pairs : v \in Users /\ user_pairs[v] \in 4..255
      BY DEF IInv, TypeOK
    <3> QED BY <1>2, <1>7, <3>1
  <2> QED BY <1>3, <2>1, <2>2, <2>3, <2>4 DEF TypeOK
<1>10. InOrder'
  BY <1>1, <1>2 DEF InOrder
<1>11. SharedOnlyWhenFull'
  <2> SUFFICES ASSUME NEW v \in DOMAIN user_pairs', NEW w \in DOMAIN user_pairs'
               PROVE  /\ user_pairs'[v] \in DOMAIN foreground'
                      /\ v # w /\ user_pairs'[v] = user_pairs'[w] =>
                           foreground' # <<>> /\ DOMAIN foreground' = 4..max_pair'
    BY DEF SharedOnlyWhenFull
  <2>1. user_pairs'[v] \in DOMAIN foreground'
    <3>1. CASE v = u
      <4>1. next_pair \in 4..(next_pair' - 1)
        BY <1>2
      <4>2. user_pairs'[v] = next_pair
        BY <1>7, <3>1
      <4>3. QED BY <1>3, <4>1, <4>2
    <3>2. CASE v \in DOMAIN user_pairs
      <4>1. user_pairs'[v] = user_pairs[v] /\ user_pairs[v] \in 4..(next_pair - 1)
        BY <1>5, <1>7, <3>2
      <4>2. user_pairs[v] \in 4..(next_pair' - 1)
        BY <1>2, <4>1
      <4>3. QED BY <1>3, <4>1, <4>2
    <3>3. QED BY <1>7, <3>1, <3>2
  <2>2. ASSUME v # w, user_pairs'[v] = user_pairs'[w] PROVE FALSE
    <3>1. v \in DOMAIN user_pairs /\ w \in DOMAIN user_pairs
      BY <1>6, <1>7, <2>2
    <3>2. DOMAIN foreground = 4..max_pair
      BY <1>7, <2>2, <3>1 DEF IInv, SharedOnlyWhenFull
    <3>3. next_pair \in 4..max_pair /\ next_pair \notin 4..(next_pair - 1)
      BY <1>1, <1>2
    <3> QED BY <3>2, <3>3 DEF IInv, TypeOK
  <2> QED BY <2>1, <2>2
<1> QED BY <1>5, <1>7, <1>8, <1>9, <1>10, <1>11 DEF IInv, TypeOK

\* The first message of a user for whom there is none.
LEMMA SharedPairKeeps ==
  ASSUME IInv, NEW u \in Users, SharedPair(u), u \notin DOMAIN user_pairs,
         available_slots > 0, UNCHANGED terminal
  PROVE  IInv' /\ DOMAIN user_pairs \subseteq DOMAIN user_pairs'
         /\ \A v \in DOMAIN user_pairs :
              /\ user_pairs'[v] = user_pairs[v]
              /\ foreground'[user_pairs[v]] = foreground[user_pairs[v]]
<1>1. max_pair \in Int /\ max_pair <= 255 /\ max_pair' = max_pair
  BY MaxPair DEF IInv, terminal, max_pair
<1>2. max_pair >= 4 /\ next_pair = max_pair + 1 /\ DOMAIN foreground = 4..max_pair
  BY <1>1 DEF IInv, TypeOK, InOrder, SharedPair, PairsLeft, available_slots
<1>3. Shared(u) \in 4..max_pair
  <2>1. Hash[u] \in Nat /\ available_slots \in Nat \ {0}
    BY <1>1, ColoursAssumption DEF available_slots
  <2>2. Hash[u] % available_slots \in 0..(available_slots - 1)
    BY <2>1, Remainder
  <2> QED BY <1>1, <2>1, <2>2 DEF Shared, available_slots
<1>4. /\ DOMAIN user_pairs' = DOMAIN user_pairs \cup {u}
      /\ user_pairs'[u] = Shared(u)
      /\ \A v \in DOMAIN user_pairs : user_pairs'[v] = user_pairs[v]
  BY DEF SharedPair, Emplaced
<1>5. /\ foreground' = foreground /\ next_pair' = next_pair
      /\ next_palette' = next_palette
  BY DEF SharedPair
<1>6. TypeOK'
  <2>1. \A v \in DOMAIN user_pairs : v \in Users /\ user_pairs[v] \in 4..255
    BY DEF IInv, TypeOK
  <2>2. /\ DOMAIN user_pairs' \subseteq Users
        /\ \A v \in DOMAIN user_pairs' : user_pairs'[v] \in 4..255
    BY <1>1, <1>3, <1>4, <2>1
  <2> QED BY <1>5, <2>2 DEF IInv, TypeOK, terminal
<1>7. InOrder'
  BY <1>1, <1>5 DEF IInv, InOrder
<1>8. foreground # <<>>
  BY <1>1, <1>2
<1>9. SharedOnlyWhenFull'
  BY <1>1, <1>2, <1>3, <1>4, <1>5, <1>8 DEF IInv, SharedOnlyWhenFull
<1> QED BY <1>4, <1>5, <1>6, <1>7, <1>9 DEF IInv

\* Every step keeps the invariant, and the colours users have.
LEMMA StepKeeps ==
  ASSUME IInv, [Next]_vars
  PROVE  IInv' /\ DOMAIN user_pairs \subseteq DOMAIN user_pairs'
         /\ \A v \in DOMAIN user_pairs :
              /\ user_pairs'[v] = user_pairs[v]
              /\ foreground'[user_pairs[v]] = foreground[user_pairs[v]]
<1> DEFINE Painted == <<foreground, user_pairs, next_pair, next_palette>>
<1>1. ASSUME UNCHANGED <<COLOR_PAIRS, Painted>>,
             windows' \in BOOLEAN, looping' \in BOOLEAN, colors_ready' \in BOOLEAN
      PROVE  IInv'
  BY <1>1 DEF IInv, TypeOK, InOrder, SharedOnlyWhenFull, max_pair
<1>2. CASE SetupNcurses
  BY <1>1, <1>2 DEF SetupNcurses, IInv, TypeOK
<1>3. CASE CleanupNcurses
  BY <1>1, <1>3 DEF CleanupNcurses, IInv, TypeOK
<1>4. CASE Run
  BY <1>1, <1>4 DEF Run, IInv, TypeOK
<1>5. ASSUME NEW u \in Users, PrintMessage(u)
      PROVE  IInv' /\ DOMAIN user_pairs \subseteq DOMAIN user_pairs'
             /\ \A v \in DOMAIN user_pairs :
                  /\ user_pairs'[v] = user_pairs[v]
                  /\ foreground'[user_pairs[v]] = foreground[user_pairs[v]]
  <2>1. CASE OwnPair(u)
    BY <1>5, <2>1, OwnPairKeeps DEF PrintMessage
  <2>2. CASE NoPair
    BY <1>1, <1>5, <2>2 DEF PrintMessage, NoPair, terminal, IInv, TypeOK
  <2>3. CASE SharedPair(u)
    BY <1>5, <2>3, SharedPairKeeps DEF PrintMessage
  <2> QED BY <1>5, <2>1, <2>2, <2>3 DEF PrintMessage
<1>6. CASE UNCHANGED vars
  BY <1>1, <1>6 DEF vars, terminal, IInv, TypeOK
<1> QED BY <1>2, <1>3, <1>4, <1>5, <1>6 DEF Next

\* Spec is Colours': the terminal of either program.
LEMMA IInvHolds == Spec => []IInv
<1>1. Init => IInv
  <2>1. ASSUME Init PROVE DOMAIN foreground = {} /\ DOMAIN user_pairs = {}
    BY <2>1 DEF Init
  <2>2. Init => TypeOK
    <3>1. ASSUME Init PROVE DOMAIN foreground = 4..(next_pair - 1)
      BY <2>1, <3>1 DEF Init
    <3>2. ASSUME Init
          PROVE  /\ \A pair \in DOMAIN foreground : foreground[pair] \in 0..(Palette - 1)
                 /\ \A u \in DOMAIN user_pairs : user_pairs[u] \in 4..255
                 /\ DOMAIN user_pairs \subseteq Users
      BY <2>1, <3>2
    <3>3. ASSUME Init
          PROVE  COLOR_PAIRS \in Nat /\ next_pair \in 4..256 /\ next_palette \in Nat
      <4>1. COLOR_PAIRS \in Nat
        BY <3>3, ColoursAssumption, Zenon DEF Init
      <4>2. next_pair = 4 /\ next_palette = 0
        BY <3>3 DEF Init
      <4> QED BY <4>1, <4>2
    <3>4. ASSUME Init
          PROVE  windows \in BOOLEAN /\ looping \in BOOLEAN /\ colors_ready \in BOOLEAN
      BY <3>4, Zenon DEF Init
    <3> QED BY <3>1, <3>2, <3>3, <3>4, Zenon DEF TypeOK
  <2> QED BY <2>1, <2>2 DEF Init, IInv, InOrder, SharedOnlyWhenFull
<1>2. IInv /\ [Next]_vars => IInv'
  BY StepKeeps
<1> QED BY <1>1, <1>2, PTL DEF Spec

\* Pairs and palette stay in their ranges, for any terminal.
THEOREM TypeCorrect == Spec => []TypeOK
  BY IInvHolds, PTL DEF IInv

\* getUserColorPair: two users share a colour pair only when all are taken,
\* and whoever has one has one that init_pair defined.
THEOREM ColoursApart == Spec => []SharedOnlyWhenFull
  BY IInvHolds, PTL DEF IInv

\* getUserColorPair: a user's colour never changes.
THEOREM ColoursStay == Spec => ColourKept
<1>1. IInv /\ [Next]_vars =>
        [\A u \in DOMAIN user_pairs :
          /\ u \in DOMAIN user_pairs' /\ user_pairs'[u] = user_pairs[u]
          /\ foreground'[user_pairs[u]] = foreground[user_pairs[u]]]_vars
  BY StepKeeps
<1> QED BY <1>1, IInvHolds, PTL DEF Spec, ColourKept

-----------------------------------------------------------------------------
(***************************************************************************)
(* The client's screen                                                     *)
(***************************************************************************)

\* A message that is shown in a colour has a sender among Users.
LEMMA ShowColours ==
    ASSUME PInv, Show
    PROVE  [Next]_vars
<1> DEFINE result == P!Message(Head(inbox[Viewer]))
           m == heard[Viewer][Len(shown[Viewer]) + 1]
<1>1. P!Receive(Viewer) /\ Viewer \in Clients
  BY ScreenAssumption DEF Show
<1>2. /\ result = Decoded(m) /\ m.sender \in Senders
      /\ P!Acceptable(result) <=> m.sender # <<>>
  BY <1>1, ReceiveFacts
<1> HIDE DEF m
<1>3. P!Acceptable(result) /\ result.sender # P!SERVER => result.sender \in Users
  BY <1>2 DEF Decoded, Senders
<1>4. IF P!Acceptable(result) /\ result.sender # P!SERVER
      THEN Coloured(result.sender) ELSE UNCHANGED vars
  BY DEF Show
<1> HIDE DEF result
<1>5. QED BY <1>3, <1>4 DEF Coloured, Next

\* Each step of the screen is one of the payloads' or leaves them alone ...
LEMMA StepsFeed ==
    ASSUME [ScreenNext]_screenVars
    PROVE  [P!Next]_P!vars
<1>1. UNCHANGED payloads => UNCHANGED P!vars
  BY DEF payloads, P!vars, P!room
<1>2. Viewer \in Clients
  BY ScreenAssumption
<1>3. CASE StartUp
  BY <1>1, <1>3 DEF StartUp
<1>4. CASE EnterChat
  BY <1>2, <1>4 DEF EnterChat, P!Next
<1>5. CASE Show
  BY <1>2, <1>5 DEF Show, P!Next
<1>6. CASE End
  BY <1>2, <1>6 DEF End, P!Next
<1>7. CASE Elsewhere
  BY <1>2, <1>7 DEF Elsewhere, P!Next
<1>8. CASE UNCHANGED screenVars
  BY <1>1, <1>8 DEF screenVars
<1>9. QED BY <1>3, <1>4, <1>5, <1>6, <1>7, <1>8 DEF ScreenNext

\* ... and one of the colours' or leaves them alone.
LEMMA StepsColour ==
    ASSUME PInv, [ScreenNext]_screenVars
    PROVE  [Next]_vars
<1>1. CASE StartUp
  BY <1>1 DEF StartUp, Next
<1>2. CASE EnterChat
  BY <1>2 DEF EnterChat, Next
<1>3. CASE Show
  BY <1>3, ShowColours
<1>4. CASE End
  BY <1>4 DEF End, Next
<1>5. CASE Elsewhere
  BY <1>5 DEF Elsewhere
<1>6. CASE UNCHANGED screenVars
  BY <1>6 DEF screenVars
<1>7. QED BY <1>1, <1>2, <1>3, <1>4, <1>5, <1>6 DEF ScreenNext

\* The invariant of the payloads holds whichever screen is looked at.
LEMMA PInvHolds == ScreenSpec => []PInv
<1>1. ScreenInit => PInv
  BY PInit DEF ScreenInit
<1>2. PInv /\ [ScreenNext]_screenVars => PInv'
  BY StepsFeed, PStepKeeps
<1>3. QED BY <1>1, <1>2, PTL DEF ScreenSpec

\* print_message on what the server relays: whatever a client receives,
\* getUserColorPair is called as Colours says, for a name that is not empty and
\* inside the loop.
THEOREM ScreenIsColoured == ScreenSpec => Spec
<1>1. ScreenInit => Init
  BY DEF ScreenInit
<1>2. PInv /\ [ScreenNext]_screenVars => [Next]_vars
  BY StepsColour
<1>3. QED BY <1>1, <1>2, PInvHolds, PTL DEF ScreenSpec, Spec

\* The invariant gives the types of Payloads' variables,
LEMMA PInvTyped == ASSUME PInv PROVE PayloadsTyped
<1>1. \A n \in DOMAIN accounts : n # P!None /\ accounts[n] \in Seq(Letters)
  BY NoAccountsName DEF PInv, PayloadTypes, Typing
<1>2. QED BY <1>1 DEF PInv, PayloadTypes, PayloadsTyped, P!TypeOK

\* that windows show what was said,
LEMMA PInvShown == ASSUME PInv PROVE ShownAsSaid
<1> SUFFICES ASSUME NEW c \in Clients
             PROVE  LET missed == Len(shown[c]) + 1
                    IN  /\ P!IsPrefix(shown[c], heard[c])
                        /\ inbox[c] = <<>> /\ missed \in DOMAIN heard[c] =>
                             heard[c][missed].sender = <<>>
  BY DEF ShownAsSaid, P!ShownAsSaid
<1>1. /\ inbox[c] \in Seq(Seq(Signs)) /\ shown[c] \in Seq(P!Said)
      /\ heard[c] \in Seq(P!Said) /\ stage[c] \in {"out", "in", "dropped"}
      /\ Consistent(stage[c], inbox[c], shown[c], heard[c])
  BY DEF PInv, PayloadTypes, Settled
<1>2. /\ Len(shown[c]) \in Nat /\ Len(heard[c]) \in Nat
      /\ DOMAIN heard[c] = 1..Len(heard[c])
  BY <1>1
<1>3. Prefix(shown[c], heard[c])
  <2>1. CASE stage[c] # "out"
    BY <1>1, <2>1 DEF Consistent, Waiting, Missed
  <2>2. CASE stage[c] = "out"
    <3>1. shown[c] = <<>> /\ heard[c] = <<>>
      BY <1>1, <2>2 DEF Consistent
    <3>2. QED BY <3>1 DEF Prefix
  <2>3. QED BY <2>1, <2>2
<1>4. P!IsPrefix(shown[c], heard[c])
  <2>1. /\ Len(shown[c]) <= Len(heard[c])
        /\ \A i \in 1..Len(shown[c]) : heard[c][0 + i] = shown[c][i]
        /\ \A i \in 1..Len(shown[c]) : shown[c][0 + i] = shown[c][i]
        /\ 0 + Len(shown[c]) <= Len(heard[c]) /\ 0 + Len(shown[c]) <= Len(shown[c])
    BY <1>2, <1>3 DEF Prefix
  <2>2. SubSeq(heard[c], 0 + 1, 0 + Len(shown[c])) = shown[c]
    BY <1>1, <2>1, StretchIs
  <2>3. SubSeq(shown[c], 0 + 1, 0 + Len(shown[c])) = shown[c]
    BY <1>1, <2>1, StretchIs
  <2>4. 0 + 1 = 1 /\ 0 + Len(shown[c]) = Len(shown[c])
    BY <1>2
  <2>5. QED BY <2>1, <2>2, <2>3, <2>4 DEF P!IsPrefix
<1>5. ASSUME inbox[c] = <<>>, Len(shown[c]) + 1 \in DOMAIN heard[c]
      PROVE  heard[c][Len(shown[c]) + 1].sender = <<>>
  <2>1. CASE stage[c] = "in"
    <3>1. Len(heard[c]) = Len(shown[c])
      BY <1>1, <1>2, <1>5, <2>1 DEF Consistent, Waiting
    <3>2. QED BY <1>2, <1>5, <3>1
  <2>2. CASE stage[c] = "dropped"
    BY <1>1, <2>2 DEF Consistent, Missed
  <2>3. CASE stage[c] = "out"
    BY <1>1, <1>2, <1>5, <2>3 DEF Consistent
  <2>4. QED BY <1>1, <2>1, <2>2, <2>3
<1>6. QED BY <1>4, <1>5

\* and that nobody is in with what nobody had registered with.
LEMMA PInvLogin == ASSUME PInv PROVE LoginAsRegistered
<1> SUFFICES ASSUME NEW c \in P!Joined
             PROVE  /\ \E r \in registrations :
                         P!HandshakePayload(r) = P!HandshakePayload(typed[c])
                    /\ P!Bar \notin P!Range(typed[c].username) =>
                         /\ session[c] = typed[c].username
                         /\ accounts[session[c]] = typed[c].password
  BY DEF LoginAsRegistered, P!LoginAsRegistered
<1>1. typed[c] \in P!Typed /\ session[c] \in DOMAIN accounts
      /\ Asked(typed[c]) = [username |-> session[c], password |-> accounts[session[c]]]
  BY DEF PInv, Settled, LoggedIn, P!Joined
<1>2. PICK r \in registrations :
        Asked(r) = [username |-> session[c], password |-> accounts[session[c]]]
  BY <1>1 DEF PInv, AccountsKept
<1>3. P!HandshakePayload(r) = P!HandshakePayload(typed[c])
  <2>1. r \in P!Typed
    BY DEF PInv, PayloadTypes
  <2>2. P!HandshakePayload(Asked(r)) = P!HandshakePayload(r)
        /\ P!HandshakePayload(Asked(typed[c])) = P!HandshakePayload(typed[c])
    BY <1>1, <2>1, AskedFacts
  <2>3. Asked(r) = Asked(typed[c])
    BY <1>1, <1>2
  <2>4. QED BY <2>2, <2>3
<1>4. ASSUME P!Bar \notin P!Range(typed[c].username)
      PROVE  session[c] = typed[c].username /\ accounts[session[c]] = typed[c].password
  <2>1. typed[c].username \in Typing
    BY <1>1, TypedFacts
  <2>2. Plain(typed[c].username)
    BY <1>4, <2>1 DEF Plain, P!Range, Typing
  <2>3. Asked(typed[c]) = typed[c]
    BY <1>1, <2>2, AskedFacts
  <2>4. QED BY <1>1, <2>3
<1>5. QED BY <1>3, <1>4

\* The accounts, sessions, payloads and windows stay in their types.
THEOREM PayloadsTypeCorrect == ScreenSpec => []PayloadsTyped
  BY PInvHolds, PInvTyped, PTL

\* process_data_stream on what the server's handlers put together and broadcast:
\* each window shows what others said, in its order and under the
\* name of who said it, until a message comes from a user whose name is empty.
THEOREM WindowsShowWhatWasSaid == ScreenSpec => []ShownAsSaid
  BY PInvHolds, PInvShown, PTL

\* process_handshake_packet: whoever is in sent the payload of a registration,
\* and is in under the name he typed when that has no bar.
THEOREM NobodyElseGetsIn == ScreenSpec => []LoginAsRegistered
  BY PInvHolds, PInvLogin, PTL

\* The same of the screen as of Colours alone.
THEOREM ScreenKeepsColours ==
    ScreenSpec => [](TypeOK /\ SharedOnlyWhenFull) /\ ColourKept
<1>1. ScreenSpec => []TypeOK
  BY ScreenIsColoured, TypeCorrect
<1>2. ScreenSpec => []SharedOnlyWhenFull
  BY ScreenIsColoured, ColoursApart
<1>3. ScreenSpec => ColourKept
  BY ScreenIsColoured, ColoursStay
<1>4. QED BY <1>1, <1>2, <1>3, PTL
===============================================================================
