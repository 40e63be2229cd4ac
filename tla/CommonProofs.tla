---------------------------- MODULE CommonProofs ----------------------------
(***************************************************************************)
(* What the proofs about servers, clients and sessions share: what the     *)
(* replay ring holds and what since() makes of it, for every capacity and  *)
(* however often the ring has wrapped; and what the operations of a        *)
(* WebSocket keep, whatever frames U go up it and D go down it.            *)
(***************************************************************************)
EXTENDS ReplayBuffer, WebSocketLink, SequenceTheorems, WellFoundedInduction, TLAPS

\* The arithmetic of one wrap: an index of the array that has run at most one
\* lap past the end comes back by one capacity.
LEMMA OneLap ==
    \A x \in 0 .. 2 * Cap - 1 : x % Cap = IF x < Cap THEN x ELSE x - Cap
<1> SUFFICES ASSUME NEW x \in 0 .. 2 * Cap - 1
             PROVE  x % Cap = IF x < Cap THEN x ELSE x - Cap
    OBVIOUS
<1>1. Cap \in Nat /\ Cap > 0
    BY CapAssumption
<1>2. CASE x < Cap
    BY <1>1, <1>2
<1>3. CASE x >= Cap
    BY <1>1, <1>3
<1> QED
    BY <1>1, <1>2, <1>3

\* Nonempty sets of naturals have a least element.
LEMMA NatLeast ==
    ASSUME NEW S, S # {}, S \subseteq Nat
    PROVE  \E i \in S : \A j \in S : i <= j
<1>1. PICK i \in S : \A j \in S : <<j, i>> \notin OpToRel(<, Nat)
    BY NatLessThanWellFounded, WFMin
<1>2. ASSUME NEW j \in S, ~(i <= j) PROVE FALSE
    <2>1. j \in Nat /\ i \in Nat /\ j < i
        BY <1>2
    <2>2. <<j, i>> \in OpToRel(<, Nat)
        BY <2>1 DEF OpToRel
    <2> QED
        BY <1>1, <2>2
<1> QED
    BY <1>2

-----------------------------------------------------------------------------
\* How many numbers are retained once `seq` has been taken.  Number 1 is the
\* initial state, never recorded.
RetainedAt(seq) == IF seq - 1 < Cap THEN seq - 1 ELSE Cap

(***************************************************************************)
(* The content of every slot by its position relative to head: the slots   *)
(* before head were written on the current lap and the others, once the    *)
(* ring has filled, on the lap before.                                     *)
(***************************************************************************)
Holds(ring, seq) ==
    /\ ring \in Rings
    /\ ring.size = RetainedAt(seq)
    /\ ring.size < Cap => ring.head = ring.size
    /\ \A j \in 0 .. ring.head - 1 :
           ring.records[j] = (seq + 1 + j) - ring.head
    /\ ring.size = Cap =>
           \A j \in ring.head .. Cap - 1 :
               ring.records[j] = (seq + 1 + j) - (ring.head + Cap)

LEMMA EmptyHolds == Holds(EmptyRing, 1)
BY CapAssumption DEF Holds, RetainedAt, EmptyRing, Rings, Slots, NoRecord

LEMMA PushedHolds ==
    ASSUME NEW seq \in Nat \ {0}, NEW ring, Holds(ring, seq)
    PROVE  Holds(Pushed(ring, seq + 1), seq + 1)
<1> DEFINE next == Pushed(ring, seq + 1)
<1>1. PICK h \in Nat, n \in Nat, s \in Nat, r \in [Slots -> Nat] :
          /\ h = ring.head /\ n = ring.size /\ s = seq /\ r = ring.records
          /\ h < Cap /\ n <= Cap /\ s > 0
    <2>1. /\ ring.head \in 0 .. Cap - 1 /\ ring.size \in 0 .. Cap
          /\ ring.records \in [Slots -> Nat]
        BY DEF Holds, Rings, Slots
    <2>2. /\ ring.head \in Nat /\ ring.head < Cap
          /\ ring.size \in Nat /\ ring.size <= Cap
          /\ seq \in Nat /\ seq > 0
        BY <2>1, CapAssumption
    <2> QED
        BY <2>1, <2>2
<1>2. Cap \in Nat /\ Cap > 0
    BY CapAssumption
<1>3. (h + 1) % Cap = IF h + 1 < Cap THEN h + 1 ELSE 0
    <2>1. h + 1 \in 0 .. 2 * Cap - 1
        BY <1>1, <1>2
    <2>2. (h + 1) % Cap = IF h + 1 < Cap THEN h + 1 ELSE (h + 1) - Cap
        BY <2>1, OneLap
    <2> QED
        BY <1>1, <1>2, <2>2
<1>4. /\ seq + 1 = s + 1
      /\ next.head = IF h + 1 < Cap THEN h + 1 ELSE 0
      /\ next.size = IF n < Cap THEN n + 1 ELSE n
    BY <1>1, <1>3 DEF Pushed
<1>5. ASSUME NEW j \in Slots
      PROVE  next.records[j] = IF j = h THEN s + 1 ELSE r[j]
    BY <1>1, <1>5 DEF Pushed
<1>6. /\ n < Cap => h = n
      /\ n = IF s - 1 < Cap THEN s - 1 ELSE Cap
    BY <1>1 DEF Holds, RetainedAt
<1>7. ASSUME NEW j \in Slots
      PROVE  /\ j < h => r[j] = (s + 1 + j) - h
             /\ n = Cap /\ j >= h => r[j] = (s + 1 + j) - (h + Cap)
    <2>1. j \in Nat /\ j < Cap
        BY <1>2 DEF Slots
    <2>2. j < h => j \in 0 .. ring.head - 1
        BY <1>1, <2>1
    <2>3. j >= h => j \in ring.head .. Cap - 1
        BY <1>1, <1>2, <2>1
    <2> QED
        BY <1>1, <2>2, <2>3 DEF Holds
<1>8. next.size = RetainedAt(seq + 1)
    BY <1>1, <1>2, <1>4, <1>6 DEF RetainedAt
<1>9. next.size < Cap => next.head = next.size
    BY <1>1, <1>2, <1>4, <1>6
<1>10. ASSUME NEW j \in 0 .. next.head - 1
       PROVE  next.records[j] = ((seq + 1) + 1 + j) - next.head
    <2>1. h + 1 < Cap /\ next.head = h + 1
        BY <1>1, <1>4
    <2>2. j \in Slots /\ j \in Nat /\ j <= h
        BY <1>1, <1>2, <2>1 DEF Slots
    <2>3. CASE j = h
        BY <1>1, <1>4, <1>5, <2>1, <2>2, <2>3
    <2>4. CASE j < h
        <3>1. next.records[j] = (s + 1 + j) - h
            BY <1>5, <1>7, <2>2, <2>4
        <3> QED
            BY <1>1, <1>4, <2>1, <2>2, <3>1
    <2> QED
        BY <1>1, <2>2, <2>3, <2>4
<1>11. ASSUME next.size = Cap, NEW j \in next.head .. Cap - 1
       PROVE  next.records[j] = ((seq + 1) + 1 + j) - (next.head + Cap)
    <2>1. j \in Slots /\ j \in Nat /\ j < Cap
        BY <1>1, <1>2, <1>4 DEF Slots
    <2>2. CASE h + 1 < Cap
        <3>1. n = Cap /\ j > h
            BY <1>1, <1>2, <1>4, <1>6, <1>11, <2>1, <2>2
        <3>2. next.records[j] = (s + 1 + j) - (h + Cap)
            BY <1>1, <1>5, <1>7, <2>1, <3>1
        <3> QED
            BY <1>1, <1>2, <1>4, <2>1, <2>2, <3>2
    <2>3. CASE h + 1 = Cap
        <3>1. next.head = 0
            BY <1>1, <1>2, <1>4, <2>3
        <3>2. CASE j = h
            BY <1>1, <1>2, <1>4, <1>5, <2>1, <2>3, <3>1, <3>2
        <3>3. CASE j # h
            <4>1. next.records[j] = (s + 1 + j) - h
                BY <1>1, <1>2, <1>5, <1>7, <2>1, <2>3, <3>3
            <4> QED
                BY <1>1, <1>2, <1>4, <2>1, <2>3, <3>1, <4>1
        <3> QED
            BY <3>2, <3>3
    <2> QED
        BY <1>1, <1>2, <2>2, <2>3
<1>12. next \in Rings
    <2>1. next.head \in Slots
        BY <1>1, <1>2, <1>4 DEF Slots
    <2>2. next.size \in 0 .. Cap
        BY <1>1, <1>2, <1>4
    <2>3. next.records \in [Slots -> Nat]
        <3>1. next.records = [r EXCEPT ![h] = s + 1]
            BY <1>1 DEF Pushed
        <3> QED
            BY <1>1, <3>1
    <2>4. next = [records |-> next.records, head |-> next.head, size |-> next.size]
        BY DEF Pushed
    <2> HIDE DEF next
    <2> QED
        BY <2>1, <2>2, <2>3, <2>4 DEF Rings
<1> QED
    BY <1>8, <1>9, <1>10, <1>11, <1>12 DEF Holds

-----------------------------------------------------------------------------
\* From slots to the window: the i-th record since() walks is the i-th of the
\* last emissions.
LEMMA WindowContent ==
    ASSUME NEW seq \in Nat \ {0}, NEW ring, Holds(ring, seq),
           NEW i \in 1 .. ring.size
    PROVE  /\ Window(ring)[i] = ring.records[(Oldest(ring) + (i - 1)) % Cap]
           /\ Window(ring)[i] = seq - RetainedAt(seq) + i
<1>1. PICK h \in Nat, n \in Nat, s \in Nat :
          /\ h = ring.head /\ n = ring.size /\ s = seq
          /\ h < Cap /\ n <= Cap /\ s > 0
    <2>1. /\ ring.head \in 0 .. Cap - 1 /\ ring.size \in 0 .. Cap
          /\ ring.records \in [Slots -> Nat]
        BY DEF Holds, Rings, Slots
    <2>2. /\ ring.head \in Nat /\ ring.head < Cap
          /\ ring.size \in Nat /\ ring.size <= Cap
          /\ seq \in Nat /\ seq > 0
        BY <2>1, CapAssumption
    <2> QED
        BY <2>1, <2>2
<1>2. Cap \in Nat /\ Cap > 0 /\ i \in Nat /\ i >= 1 /\ i <= n
    BY <1>1, CapAssumption
<1>3. n = RetainedAt(seq) /\ (n < Cap => h = n)
    BY <1>1 DEF Holds
<1>4. Oldest(ring) = IF n < Cap THEN 0 ELSE h
    <2>1. (h - n) + Cap \in 0 .. 2 * Cap - 1
        BY <1>1, <1>2, <1>3
    <2>2. ((h - n) + Cap) % Cap = IF (h - n) + Cap < Cap THEN (h - n) + Cap
                                                         ELSE ((h - n) + Cap) - Cap
        BY <2>1, OneLap
    <2>3. ((h - n) + Cap) % Cap = IF n < Cap THEN 0 ELSE h
        BY <1>1, <1>2, <1>3, <2>2
    <2> QED
        BY <1>1, <2>3 DEF Oldest
<1>5. PICK t \in Nat : t = Oldest(ring) /\ t < Cap
    BY <1>1, <1>2, <1>4
<1>6. (t + (i - 1)) % Cap = IF t + (i - 1) < Cap THEN t + (i - 1)
                                                ELSE (t + (i - 1)) - Cap
    <2>1. t + (i - 1) \in 0 .. 2 * Cap - 1
        BY <1>1, <1>2, <1>5
    <2> QED
        BY <2>1, OneLap
<1>7. PICK j \in Nat : /\ j = (Oldest(ring) + (i - 1)) % Cap
                       /\ j = IF t + (i - 1) < Cap THEN t + (i - 1)
                                                   ELSE (t + (i - 1)) - Cap
    BY <1>1, <1>2, <1>5, <1>6
<1>8. Window(ring)[i] = ring.records[j]
    BY <1>7 DEF Window
<1>9. ring.records[j] = (s - n) + i
    <2>1. CASE n < Cap
        <3>1. j = i - 1 /\ j < h
            BY <1>1, <1>2, <1>3, <1>4, <1>5, <1>7, <2>1
        <3>2. j \in 0 .. ring.head - 1
            BY <1>1, <1>7, <3>1
        <3>3. ring.records[j] = (s + 1 + j) - h
            BY <1>1, <3>2 DEF Holds
        <3> QED
            BY <1>1, <1>2, <1>3, <2>1, <3>1, <3>3
    <2>2. CASE n = Cap /\ h + (i - 1) < Cap
        <3>1. j = h + (i - 1)
            BY <1>1, <1>2, <1>4, <1>5, <1>7, <2>2
        <3>2. j \in ring.head .. Cap - 1
            BY <1>1, <1>2, <1>7, <2>2, <3>1
        <3>3. ring.records[j] = (s + 1 + j) - (h + Cap)
            BY <1>1, <2>2, <3>2 DEF Holds
        <3> QED
            BY <1>1, <1>2, <2>2, <3>1, <3>3
    <2>3. CASE n = Cap /\ h + (i - 1) >= Cap
        <3>1. j = (h + (i - 1)) - Cap
            BY <1>1, <1>2, <1>4, <1>5, <1>7, <2>3
        <3>2. j \in 0 .. ring.head - 1
            BY <1>1, <1>2, <1>7, <2>3, <3>1
        <3>3. ring.records[j] = (s + 1 + j) - h
            BY <1>1, <3>2 DEF Holds
        <3> QED
            BY <1>1, <1>2, <2>3, <3>1, <3>3
    <2> QED
        BY <1>1, <1>2, <2>1, <2>2, <2>3
<1> QED
    BY <1>1, <1>3, <1>7, <1>8, <1>9

\* The oldest retained record is the one the coverage test looks at.
LEMMA OldestRecord ==
    ASSUME NEW seq \in Nat \ {0}, NEW ring, Holds(ring, seq),
           ring.size > 0
    PROVE  ring.records[Oldest(ring)] = (seq - RetainedAt(seq)) + 1
<1>1. 1 \in 1 .. ring.size
    BY DEF Holds, Rings
<1>2. PICK t \in Nat : t = Oldest(ring) /\ t < Cap
    <2>1. (ring.head - ring.size + Cap) \in 0 .. 2 * Cap - 1
        BY CapAssumption DEF Holds, Rings, Slots
    <2> QED
        BY <2>1, OneLap, CapAssumption DEF Oldest
<1>3. (t + (1 - 1)) % Cap = t
    BY <1>2, OneLap, CapAssumption
<1>4. Window(ring)[1] = ring.records[t]
    BY <1>1, <1>2, <1>3, WindowContent
<1> QED
    BY <1>1, <1>2, <1>4, WindowContent

\* A cursor the ring covers lies in the window or just before it.
LEMMA CoveredFromWindow ==
    ASSUME NEW seq \in Nat \ {0}, NEW ring, Holds(ring, seq),
           NEW since \in 1 .. seq, Covered(ring, since)
    PROVE  seq - RetainedAt(seq) <= since
<1>1. seq \in Nat /\ Cap \in Nat /\ seq > 0 /\ Cap > 0 /\ since \in Nat
    BY CapAssumption DEF Holds
<1>2. ring.size \in Nat /\ ring.size = RetainedAt(seq)
    BY DEF Holds, Rings
<1>3. CASE ring.size = 0
    BY <1>1, <1>2, <1>3 DEF RetainedAt
<1>4. CASE ring.size > 0
    BY <1>1, <1>2, <1>4, OldestRecord DEF Covered, RetainedAt
<1> QED
    BY <1>2, <1>3, <1>4

\* The walk of since(), record by record: after i of them it has collected the
\* numbers from the cursor's successor to the i-th record's.
LEMMA PastContent ==
    ASSUME NEW seq \in Nat \ {0}, NEW ring, Holds(ring, seq),
           NEW cursor \in Nat, seq - RetainedAt(seq) <= cursor, cursor <= seq
    PROVE  Past(ring, cursor) = [k \in 1 .. seq - cursor |-> cursor + k]
<1> DEFINE n == ring.size
           base == seq - RetainedAt(seq)
           Step(f, i) == IF i = 0 THEN <<>>
                         ELSE IF Window(ring)[i] > cursor THEN Append(f[i - 1], Window(ring)[i])
                         ELSE f[i - 1]
           out == CHOOSE f : f = [i \in 0 .. n |-> Step(f, i)]
           L(i) == IF base + i > cursor THEN (base + i) - cursor ELSE 0
           W(i) == [k \in 1 .. L(i) |-> cursor + k]
<1>1. seq \in Nat /\ n \in Nat /\ base \in Nat /\ base + n = seq /\ base <= cursor
    BY CapAssumption DEF Holds, Rings, RetainedAt
<1>2. ASSUME NEW i \in 1 .. n PROVE Window(ring)[i] = base + i
    BY <1>2, WindowContent
<1>3. Past(ring, cursor) = out[n]
    BY DEF Past
<1> HIDE DEF n, base, out
<1>4. ASSUME NEW i \in 0 .. n
      PROVE  L(i) \in Nat /\ W(i) \in Seq(Nat) /\ Len(W(i)) = L(i)
    <2>1. L(i) \in Nat
        BY <1>1, <1>4
    <2> HIDE DEF L
    <2>2. \A k \in 1 .. L(i) : cursor + k \in Nat
        BY <2>1
    <2> QED
        BY <2>1, <2>2
<1>5. ASSUME NEW i \in 1 .. n, base + i > cursor
      PROVE  Append(W(i - 1), base + i) = W(i)
    <2>1. i - 1 \in 0 .. n /\ i \in 0 .. n /\ L(i) = L(i - 1) + 1 /\ base + i = cursor + L(i)
        BY <1>1, <1>5
    <2>2. L(i) \in Nat /\ L(i - 1) \in Nat
        BY <1>4, <2>1
    <2> HIDE DEF L
    <2> QED
        BY <2>1, <2>2
<1>6. ASSUME NEW i \in 1 .. n, ~(base + i > cursor)
      PROVE  W(i - 1) = W(i)
    <2>1. L(i) = L(i - 1)
        BY <1>1, <1>6
    <2> HIDE DEF L
    <2> QED
        BY <2>1
<1>7. W(0) = <<>>
    <2>1. L(0) = 0
        BY <1>1
    <2> HIDE DEF L
    <2> QED
        BY <2>1
<1> HIDE DEF W, L
<1>8. ASSUME NEW f, NEW i \in 0 .. n, i > 0 => f[i - 1] = W(i - 1)
      PROVE  Step(f, i) = W(i)
    <2>1. CASE i = 0
        BY <2>1, <1>7
    <2>2. CASE i > 0
        <3>1. i \in 1 .. n /\ i # 0
            BY <1>1, <2>2
        <3>2. Window(ring)[i] = base + i /\ f[i - 1] = W(i - 1)
            BY <1>2, <1>8, <2>2, <3>1
        <3>3. Step(f, i) = IF base + i > cursor THEN Append(W(i - 1), base + i) ELSE W(i - 1)
            BY <3>1, <3>2
        <3> QED
            BY <1>5, <1>6, <3>1, <3>3
    <2> QED
        BY <2>1, <2>2, <1>1
<1>9. \E f : f = [i \in 0 .. n |-> Step(f, i)]
    <2> DEFINE w == [i \in 0 .. n |-> W(i)]
    <2>1. \A i \in 0 .. n : i > 0 => w[i - 1] = W(i - 1)
        BY <1>1
    <2> HIDE DEF w
    <2>2. \A i \in 0 .. n : Step(w, i) = W(i)
        BY <2>1, <1>8
    <2>3. w = [i \in 0 .. n |-> Step(w, i)]
        BY <2>2 DEF w
    <2> QED
        BY <2>3
<1>10. out = [i \in 0 .. n |-> Step(out, i)]
    BY <1>9 DEF out
<1>11. \A i \in 0 .. n : out[i] = W(i)
    <2> DEFINE odd == {i \in 0 .. n : out[i] # W(i)}
    <2>1. SUFFICES ASSUME odd # {} PROVE FALSE
        OBVIOUS
    <2>2. PICK i \in odd : \A j \in odd : i <= j
        <3>1. odd # {} /\ odd \subseteq Nat
            BY <2>1, <1>1
        <3> HIDE DEF odd
        <3> QED
            BY <3>1, NatLeast
    <2>3. i > 0 => out[i - 1] = W(i - 1)
        BY <2>2, <1>1
    <2>4. out[i] = W(i)
        <3>1. out[i] = Step(out, i)
            BY <1>10, <2>2
        <3> QED
            BY <1>8, <2>2, <2>3, <3>1
    <2> QED
        BY <2>2, <2>4
<1>12. L(n) = seq - cursor
    BY <1>1 DEF L
<1> QED
    BY <1>1, <1>3, <1>11, <1>12 DEF W

\* A covered since() answers with every later number, once each and in order.
LEMMA MissedContent ==
    ASSUME NEW seq \in Nat \ {0}, NEW ring, Holds(ring, seq),
           NEW since \in 1 .. seq, Covered(ring, since)
    PROVE  Missed(ring, since) = [i \in 1 .. seq - since |-> since + i]
<1>1. since \in Nat /\ since <= seq
    OBVIOUS
<1>2. seq - RetainedAt(seq) <= since
    BY CoveredFromWindow
<1> QED
    BY <1>1, <1>2, PastContent DEF Missed

-----------------------------------------------------------------------------
(***************************************************************************)
(* The link                                                                *)
(***************************************************************************)
ServerStates == {"none", "open", "closing", "closed"}

\* A link between whose ends the messages of U travel up, and of D down.
Link(U, D) ==
    [client : EndStates, server : ServerStates, protocol : Protocols \cup {None},
     up : Seq(U), down : Seq(D), cut : BOOLEAN]

\* What an operation leaves alone: everything but the queue that leads up.
SameButUp(w, x) ==
    x.client = w.client /\ x.server = w.server /\ x.protocol = w.protocol
    /\ x.down = w.down /\ x.cut = w.cut
SameButDown(w, x) ==
    x.client = w.client /\ x.server = w.server /\ x.protocol = w.protocol
    /\ x.up = w.up /\ x.cut = w.cut

LEMMA UpLink ==
  ASSUME NEW U, NEW D, NEW w \in Link(U, D), NEW m \in U
  PROVE  /\ Up(w, m) \in Link(U, D)
         /\ SameButUp(w, Up(w, m))
         /\ Up(w, m).up = IF w.cut \/ w.server = "closed" THEN w.up ELSE Append(w.up, m)
  <1>1. CASE w.cut \/ w.server = "closed"
    BY <1>1 DEF Up, SameButUp
  <1>2. CASE ~(w.cut \/ w.server = "closed")
    <2>1. Up(w, m) = [w EXCEPT !.up = Append(@, m)]
      BY <1>2 DEF Up
    <2>2. Append(w.up, m) \in Seq(U)
      BY DEF Link
    <2> QED
      BY <1>2, <2>1, <2>2 DEF Link, SameButUp
  <1> QED
    BY <1>1, <1>2

LEMMA DownLink ==
  ASSUME NEW U, NEW D, NEW w \in Link(U, D), NEW ms \in Seq(D)
  PROVE  /\ Down(w, ms) \in Link(U, D)
         /\ SameButDown(w, Down(w, ms))
         /\ Down(w, ms).down = IF w.cut THEN w.down ELSE w.down \o ms
  <1>1. CASE w.cut
    BY <1>1 DEF Down, SameButDown
  <1>2. CASE ~w.cut
    <2>1. Down(w, ms) = [w EXCEPT !.down = @ \o ms]
      BY <1>2 DEF Down
    <2>2. w.down \o ms \in Seq(D)
      BY DEF Link
    <2> QED
      BY <1>2, <2>1, <2>2 DEF Link, SameButDown
  <1> QED
    BY <1>1, <1>2

LEMMA SeveredLink ==
  ASSUME NEW U, NEW D, NEW w \in Link(U, D)
  PROVE  /\ Severed(w) \in Link(U, D)
         /\ Severed(w).client = w.client /\ Severed(w).server = w.server
         /\ Severed(w).cut = TRUE /\ Severed(w).up = <<>> /\ Severed(w).down = <<>>
  <1>1. <<>> \in Seq(U) /\ <<>> \in Seq(D)
    OBVIOUS
  <1>2. Severed(w) \in Link(U, D)
    BY <1>1 DEF Severed, Link
  <1>3. /\ Severed(w).client = w.client /\ Severed(w).server = w.server
        /\ Severed(w).cut = TRUE /\ Severed(w).up = <<>> /\ Severed(w).down = <<>>
    BY DEF Severed, Link
  <1> QED
    BY <1>2, <1>3

LEMMA CloseOnlyType ==
  ASSUME NEW D, NEW q \in Seq(D)
  PROVE  CloseOnly(q) \in Seq(D)
  BY DEF CloseOnly, Last

\* The queue up of a socket that has been asked to close.
LEMMA ClientCloseLink ==
  ASSUME NEW U, NEW D, NEW w \in Link(U, D), CloseFrame(1000) \in U
  PROVE  /\ ClientClose(w) \in Link(U, D)
         /\ ClientClose(w).server = w.server
         /\ ClientClose(w).client = IF w.client \in {"connecting", "open"} THEN "closing"
                                    ELSE w.client
         /\ ClientClose(w).up \in {w.up, <<>>, Append(w.up, CloseFrame(1000))}
         /\ ClientClose(w).down \in {w.down, <<>>, CloseOnly(w.down)}
  <1>1. CASE w.client = "connecting"
    <2>1. ClientClose(w) = [Severed(w) EXCEPT !.client = "closing"]
      BY <1>1 DEF ClientClose
    <2> DEFINE u == Severed(w)
    <2>2. u \in Link(U, D) /\ u.server = w.server /\ u.up = <<>> /\ u.down = <<>>
      BY SeveredLink
    <2> HIDE DEF u
    <2>3. ClientClose(w) \in Link(U, D)
      BY <2>1, <2>2 DEF Link, EndStates, u
    <2>4. /\ ClientClose(w).server = w.server /\ ClientClose(w).client = "closing"
          /\ ClientClose(w).up = <<>> /\ ClientClose(w).down = <<>>
      BY <2>1, <2>2 DEF Link, u
    <2> QED
      BY <1>1, <2>3, <2>4
  <1>2. CASE w.client = "open"
    <2> DEFINE u == Up(w, CloseFrame(1000))
    <2>1. ClientClose(w) = [u EXCEPT !.client = "closing", !.down = CloseOnly(@)]
      BY <1>2 DEF ClientClose
    <2>2. /\ u \in Link(U, D) /\ SameButUp(w, u)
          /\ u.up = IF w.cut \/ w.server = "closed" THEN w.up
                    ELSE Append(w.up, CloseFrame(1000))
      BY UpLink
    <2> HIDE DEF u
    <2>3. CloseOnly(u.down) \in Seq(D)
      BY <2>2, CloseOnlyType DEF Link
    <2>4. u \in Link(U, D)
      BY <2>2
    <2>5. ClientClose(w) \in Link(U, D)
      BY <2>1, <2>3, <2>4 DEF Link, EndStates
    <2>6. /\ ClientClose(w).server = w.server /\ ClientClose(w).client = "closing"
          /\ ClientClose(w).up = u.up /\ ClientClose(w).down = CloseOnly(w.down)
      BY <2>1, <2>2 DEF Link, SameButUp
    <2> QED
      BY <1>2, <2>2, <2>5, <2>6 DEF SameButUp
  <1>3. CASE w.client \notin {"connecting", "open"}
    BY <1>3 DEF ClientClose
  <1> QED
    BY <1>1, <1>2, <1>3

LEMMA ClientSendLink ==
  ASSUME NEW U, NEW D, NEW w \in Link(U, D), NEW m \in U
  PROVE  /\ ClientSend(w, m) \in Link(U, D)
         /\ SameButUp(w, ClientSend(w, m))
         /\ ClientSend(w, m).up = IF w.cut \/ w.server = "closed" \/ w.client # "open"
                                  THEN w.up ELSE Append(w.up, m)
  BY UpLink DEF ClientSend, SameButUp

LEMMA ServerSendLink ==
  ASSUME NEW U, NEW D, NEW w \in Link(U, D), NEW ms \in Seq(D)
  PROVE  /\ ServerSend(w, ms) \in Link(U, D)
         /\ SameButDown(w, ServerSend(w, ms))
         /\ ServerSend(w, ms).down =
               IF w.server = "open" /\ w.client \notin {"closing", "closed"} /\ ~w.cut
               THEN w.down \o ms ELSE w.down
  <1>1. CASE w.server = "open" /\ w.client \notin {"closing", "closed"}
    <2>1. /\ Down(w, ms) \in Link(U, D)
          /\ SameButDown(w, Down(w, ms))
          /\ Down(w, ms).down = IF w.cut THEN w.down ELSE w.down \o ms
      BY DownLink
    <2>2. ServerSend(w, ms) = Down(w, ms)
      BY <1>1 DEF ServerSend
    <2> QED
      BY <1>1, <2>1, <2>2
  <1>2. CASE ~(w.server = "open" /\ w.client \notin {"closing", "closed"})
    BY <1>2 DEF ServerSend, SameButDown
  <1> QED
    BY <1>1, <1>2

LEMMA ServerCloseLink ==
  ASSUME NEW U, NEW D, NEW w \in Link(U, D), NEW code, CloseFrame(code) \in D
  PROVE  /\ ServerClose(w, code) \in Link(U, D)
         /\ ServerClose(w, code).server = IF w.server = "open" THEN "closing" ELSE w.server
         /\ ServerClose(w, code).client = w.client /\ ServerClose(w, code).up = w.up
         /\ ServerClose(w, code).cut = w.cut
         /\ ServerClose(w, code).down = IF w.server = "open" /\ ~w.cut
                                        THEN w.down \o <<CloseFrame(code)>> ELSE w.down
  <1>1. CASE w.server = "open"
    <2> DEFINE ms == <<CloseFrame(code)>>
               d == Down(w, ms)
    <2>1. ServerClose(w, code) = [d EXCEPT !.server = "closing"]
      BY <1>1 DEF ServerClose
    <2>2. ms \in Seq(D)
      OBVIOUS
    <2> HIDE DEF ms
    <2>3. /\ d \in Link(U, D) /\ SameButDown(w, d)
          /\ d.down = IF w.cut THEN w.down ELSE w.down \o ms
      BY <2>2, DownLink
    <2> HIDE DEF d
    <2>4. ServerClose(w, code) \in Link(U, D)
      BY <2>1, <2>3 DEF Link, ServerStates
    <2>5. /\ ServerClose(w, code).server = "closing"
          /\ ServerClose(w, code).client = d.client /\ ServerClose(w, code).up = d.up
          /\ ServerClose(w, code).cut = d.cut /\ ServerClose(w, code).down = d.down
      BY <2>1, <2>3 DEF Link
    <2> QED
      BY <1>1, <2>3, <2>4, <2>5 DEF SameButDown, ms
  <1>2. CASE w.server # "open"
    BY <1>2 DEF ServerClose
  <1> QED
    BY <1>1, <1>2

\* The close event: the end is closed and its queue is empty; an end that did not
\* ask for the close answers it.
LEMMA ClientClosedLink ==
  ASSUME NEW U, NEW D, NEW w \in Link(U, D), ClientClosable(w),
         w.client = "open" /\ ~w.cut => CloseFrame(Head(w.down).code) \in U
  PROVE  /\ ClientClosed(w) \in Link(U, D)
         /\ ClientClosed(w).client = "closed" /\ ClientClosed(w).server = w.server
         /\ ClientClosed(w).cut = w.cut /\ ClientClosed(w).down = <<>>
         /\ ClientClosed(w).up \in {w.up, Append(w.up, CloseFrame(Head(w.down).code))}
  <1> DEFINE u == IF w.client = "open" /\ ~w.cut
                  THEN Up(w, CloseFrame(Head(w.down).code)) ELSE w
  <1>1. ClientClosed(w) = [u EXCEPT !.client = "closed", !.down = <<>>]
    BY DEF ClientClosed
  <1>2. /\ u \in Link(U, D) /\ u.server = w.server /\ u.cut = w.cut
        /\ u.up \in {w.up, Append(w.up, CloseFrame(Head(w.down).code))}
    <2>1. CASE w.client = "open" /\ ~w.cut
      <3> DEFINE m == CloseFrame(Head(w.down).code)
      <3>1. m \in U
        BY <2>1
      <3> HIDE DEF m
      <3>2. /\ Up(w, m) \in Link(U, D) /\ SameButUp(w, Up(w, m))
            /\ Up(w, m).up = IF w.cut \/ w.server = "closed" THEN w.up ELSE Append(w.up, m)
        BY <3>1, UpLink
      <3>3. u = Up(w, m)
        BY <2>1 DEF m
      <3>4. /\ u \in Link(U, D) /\ u.server = w.server /\ u.cut = w.cut
            /\ u.up \in {w.up, Append(w.up, m)}
        BY <3>2, <3>3 DEF SameButUp
      <3> QED
        BY <3>4 DEF m
    <2>2. CASE ~(w.client = "open" /\ ~w.cut)
      BY <2>2
    <2> QED
      BY <2>1, <2>2
  <1> HIDE DEF u
  <1>3. <<>> \in Seq(D)
    OBVIOUS
  <1>4. ClientClosed(w) \in Link(U, D)
    BY <1>1, <1>2, <1>3 DEF Link, EndStates
  <1>5. /\ ClientClosed(w).client = "closed" /\ ClientClosed(w).server = u.server
        /\ ClientClosed(w).cut = u.cut /\ ClientClosed(w).down = <<>>
        /\ ClientClosed(w).up = u.up
    BY <1>1, <1>2 DEF Link
  <1> QED
    BY <1>2, <1>4, <1>5

LEMMA ServerClosedLink ==
  ASSUME NEW U, NEW D, NEW w \in Link(U, D),
         w.server = "open" /\ ~w.cut => CloseFrame(Head(w.up).code) \in D
  PROVE  /\ ServerClosed(w) \in Link(U, D)
         /\ ServerClosed(w).server = "closed" /\ ServerClosed(w).client = w.client
         /\ ServerClosed(w).cut = w.cut /\ ServerClosed(w).up = <<>>
         /\ ServerClosed(w).down =
               IF w.server = "open" /\ ~w.cut /\ w.client # "closed"
               THEN w.down \o <<CloseFrame(Head(w.up).code)>> ELSE w.down
  <1> DEFINE answered == w.server = "open" /\ ~w.cut /\ w.client # "closed"
             d == IF answered THEN Down(w, <<CloseFrame(Head(w.up).code)>>) ELSE w
  <1>1. ServerClosed(w) = [d EXCEPT !.server = "closed", !.up = <<>>]
    BY DEF ServerClosed
  <1>2. /\ d \in Link(U, D) /\ d.client = w.client /\ d.cut = w.cut
        /\ d.down = IF answered THEN w.down \o <<CloseFrame(Head(w.up).code)>> ELSE w.down
    <2>1. CASE answered
      <3> DEFINE ms == <<CloseFrame(Head(w.up).code)>>
      <3>1. ms \in Seq(D)
        BY <2>1
      <3>2. d = Down(w, ms)
        BY <2>1
      <3> HIDE DEF ms, d
      <3>3. /\ Down(w, ms) \in Link(U, D) /\ SameButDown(w, Down(w, ms))
            /\ Down(w, ms).down = IF w.cut THEN w.down ELSE w.down \o ms
        BY <3>1, DownLink
      <3>4. /\ d \in Link(U, D) /\ d.client = w.client /\ d.cut = w.cut
            /\ d.down = w.down \o ms
        BY <2>1, <3>2, <3>3 DEF SameButDown
      <3> QED
        BY <2>1, <3>4 DEF ms
    <2>2. CASE ~answered
      BY <2>2
    <2> QED
      BY <2>1, <2>2
  <1> HIDE DEF d
  <1>3. <<>> \in Seq(U)
    OBVIOUS
  <1>4. ServerClosed(w) \in Link(U, D)
    BY <1>1, <1>2, <1>3 DEF Link, ServerStates
  <1>5. /\ ServerClosed(w).server = "closed" /\ ServerClosed(w).client = d.client
        /\ ServerClosed(w).cut = d.cut /\ ServerClosed(w).down = d.down
        /\ ServerClosed(w).up = <<>>
    BY <1>1, <1>2 DEF Link
  <1> QED
    BY <1>2, <1>4, <1>5

-----------------------------------------------------------------------------
\* What is where in a queue that was read or that has grown.
LEMMA TailQueue ==
  ASSUME NEW S, NEW u \in Seq(S), u # <<>>
  PROVE  /\ Tail(u) \in Seq(S) /\ Len(Tail(u)) = Len(u) - 1 /\ Len(u) \in Nat \ {0}
         /\ DOMAIN u = 1 .. Len(u) /\ DOMAIN Tail(u) = 1 .. Len(u) - 1
         /\ \A i \in DOMAIN Tail(u) : Tail(u)[i] = u[i + 1]
         /\ Head(u) = u[1] /\ Head(u) \in S
  BY HeadTailProperties, LenProperties, ElementOfSeq

LEMMA JoinedQueue ==
  ASSUME NEW S, NEW p \in Seq(S), NEW ms \in Seq(S)
  PROVE  /\ p \o ms \in Seq(S) /\ Len(p) \in Nat /\ Len(ms) \in Nat
         /\ DOMAIN p = 1 .. Len(p) /\ DOMAIN ms = 1 .. Len(ms)
         /\ DOMAIN (p \o ms) = 1 .. Len(p) + Len(ms)
         /\ \A i \in 1 .. Len(p) : (p \o ms)[i] = p[i]
         /\ \A i \in 1 .. Len(ms) : (p \o ms)[Len(p) + i] = ms[i]
  <1>1. /\ p \o ms \in Seq(S) /\ Len(p) \in Nat /\ Len(ms) \in Nat
        /\ Len(p \o ms) = Len(p) + Len(ms)
    BY ConcatProperties, LenProperties
  <1>2. \A i \in 1 .. Len(p) + Len(ms) :
           (p \o ms)[i] = IF i <= Len(p) THEN p[i] ELSE ms[i - Len(p)]
    BY ConcatProperties
  <1>3. ASSUME NEW i \in 1 .. Len(ms) PROVE (p \o ms)[Len(p) + i] = ms[i]
    BY <1>1, <1>2
  <1> QED
    BY <1>1, <1>2, <1>3, LenProperties
=============================================================================
