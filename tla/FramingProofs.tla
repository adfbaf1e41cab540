---------------------------- MODULE FramingProofs ----------------------------
(***************************************************************************)
(* What the framer computes, for every stream of bytes, every format of    *)
(* telegrams and every way the stream is split into reads.  A fact about   *)
(* all buffers is proved by looking at a shortest one without it.          *)
(***************************************************************************)
EXTENDS Framing, SequenceTheorems, WellFoundedInduction, TLAPS

\* The length of a buffer, for steps that do arithmetic.
Size(s) == Len(s.buffer)

-----------------------------------------------------------------------------
(* Sequences.                                                              *)

\* A piece of a sequence.
LEMMA Piece ==
    ASSUME NEW S, NEW q \in Seq(S), NEW m \in Nat, NEW n \in Nat, m >= 1, n <= Len(q)
    PROVE  /\ SubSeq(q, m, n) \in Seq(S)
           /\ Len(SubSeq(q, m, n)) = IF m <= n THEN n - m + 1 ELSE 0
           /\ \A i \in 1..n - m + 1 : SubSeq(q, m, n)[i] = q[m + i - 1]
BY SubSeqProperties

\* The end of a sequence, when it is continued.
LEMMA RestOfConcat ==
    ASSUME NEW S, NEW b \in Seq(S), NEW d \in Seq(S), NEW n \in Nat, n <= Len(b)
    PROVE  SubSeq(b \o d, n + 1, Len(b \o d)) = SubSeq(b, n + 1, Len(b)) \o d
<1> DEFINE w == b \o d
           x == SubSeq(w, n + 1, Len(w))
           y == SubSeq(b, n + 1, Len(b))
<1>1. /\ w \in Seq(S) /\ Len(b) \in Nat /\ Len(d) \in Nat /\ Len(w) = Len(b) + Len(d)
      /\ \A i \in 1..Len(b) + Len(d) : w[i] = IF i <= Len(b) THEN b[i] ELSE d[i - Len(b)]
  BY ConcatProperties
<1>2. n + 1 \in Nat /\ n + 1 >= 1 /\ Len(w) \in Nat /\ Len(w) <= Len(w) /\ Len(b) <= Len(b)
  BY <1>1
<1>3. /\ y \in Seq(S) /\ Len(y) = IF n + 1 <= Len(b) THEN Len(b) - (n + 1) + 1 ELSE 0
      /\ \A i \in 1..Len(b) - (n + 1) + 1 : y[i] = b[n + 1 + i - 1]
  BY <1>1, <1>2, Piece
<1>4. /\ x \in Seq(S) /\ Len(x) = IF n + 1 <= Len(w) THEN Len(w) - (n + 1) + 1 ELSE 0
      /\ \A i \in 1..Len(w) - (n + 1) + 1 : x[i] = w[n + 1 + i - 1]
  <2> HIDE DEF w
  <2> QED
    BY <1>1, <1>2, Piece
<1> HIDE DEF w, x, y
<1>5. /\ y \o d \in Seq(S) /\ Len(y \o d) = Len(y) + Len(d) /\ Len(y) \in Nat
      /\ \A i \in 1..Len(y) + Len(d) : (y \o d)[i] = IF i <= Len(y) THEN y[i] ELSE d[i - Len(y)]
  <2>1. y \in Seq(S)
    BY <1>3
  <2>2. Len(y) \in Nat
    BY <2>1
  <2> QED
    BY <2>1, <2>2, ConcatProperties
<1>6. \A B, D \in Nat : n <= B =>
         /\ (IF n + 1 <= B THEN B - (n + 1) + 1 ELSE 0) = B - n /\ B - n \in Nat
         /\ (IF n + 1 <= B + D THEN B + D - (n + 1) + 1 ELSE 0) = B + D - n
         /\ B - n + D = B + D - n /\ B - (n + 1) + 1 = B - n /\ B + D - (n + 1) + 1 = B + D - n
  OBVIOUS
<1>7. /\ Len(y) = Len(b) - n /\ Len(x) = Len(b) + Len(d) - n /\ Len(y \o d) = Len(b) + Len(d) - n
      /\ \A i \in 1..Len(b) - n : y[i] = b[n + 1 + i - 1]
      /\ \A i \in 1..Len(b) + Len(d) - n : x[i] = w[n + 1 + i - 1]
  BY <1>1, <1>3, <1>4, <1>5, <1>6
<1>8. ASSUME NEW i \in 1..Len(b) + Len(d) - n PROVE x[i] = (y \o d)[i]
  <2>1. \A B, D \in Nat : n <= B => \A j \in 1..B + D - n :
           /\ n + 1 + j - 1 = n + j /\ n + j \in 1..B + D /\ j \in 1..(B - n) + D
           /\ (j <= B - n <=> n + j <= B) /\ (j <= B - n => j \in 1..B - n) /\ n + j - B = j - (B - n)
    OBVIOUS
  <2>2. /\ n + 1 + i - 1 = n + i /\ n + i \in 1..Len(b) + Len(d) /\ i \in 1..(Len(b) - n) + Len(d)
        /\ (i <= Len(b) - n <=> n + i <= Len(b)) /\ (i <= Len(b) - n => i \in 1..Len(b) - n)
        /\ n + i - Len(b) = i - (Len(b) - n)
    BY <1>1, <2>1
  <2>3. x[i] = IF n + i <= Len(b) THEN b[n + i] ELSE d[n + i - Len(b)]
    BY <1>1, <1>7, <2>2
  <2>4. (y \o d)[i] = IF i <= Len(b) - n THEN y[i] ELSE d[i - (Len(b) - n)]
    BY <1>5, <1>7, <2>2
  <2> QED
    BY <1>7, <2>2, <2>3, <2>4
<1>9. x = y \o d
  <2>1. Len(x) = Len(y \o d) /\ \A i \in 1..Len(x) : x[i] = (y \o d)[i]
    BY <1>7, <1>8
  <2> HIDE DEF x, y
  <2> QED
    BY <1>4, <1>5, <2>1, SeqEqual
<1> QED
  BY <1>9 DEF w, x, y

\* The end of a sequence.
Rest(q, n) == SubSeq(q, n + 1, Len(q))

LEMMA RestIs ==
    ASSUME NEW S, NEW q \in Seq(S), NEW n \in Nat, n <= Len(q)
    PROVE  /\ Rest(q, n) \in Seq(S) /\ Len(Rest(q, n)) = Len(q) - n
           /\ \A i \in 1..Len(q) - n : Rest(q, n)[i] = q[n + i]
<1>1. Len(q) \in Nat /\ n + 1 \in Nat /\ n + 1 >= 1 /\ Len(q) <= Len(q)
  OBVIOUS
<1>2. /\ Rest(q, n) \in Seq(S) /\ Len(Rest(q, n)) = IF n + 1 <= Len(q) THEN Len(q) - (n + 1) + 1 ELSE 0
      /\ \A i \in 1..Len(q) - (n + 1) + 1 : Rest(q, n)[i] = q[n + 1 + i - 1]
  BY <1>1, Piece DEF Rest
<1>3. \A l \in Nat : n <= l => /\ (IF n + 1 <= l THEN l - (n + 1) + 1 ELSE 0) = l - n
                               /\ l - (n + 1) + 1 = l - n /\ \A i \in Nat : n + 1 + i - 1 = n + i
  OBVIOUS
<1>4. \A l \in Nat : n <= l => \A i \in 1..l - n : i \in Nat
  OBVIOUS
<1>5. /\ Rest(q, n) \in Seq(S) /\ Len(Rest(q, n)) = Len(q) - n
      /\ \A i \in 1..Len(q) - n : Rest(q, n)[i] = q[n + 1 + i - 1]
  BY <1>1, <1>2, <1>3
<1> QED
  BY <1>1, <1>3, <1>4, <1>5

\* A piece of the end, and the end of the end.
LEMMA RestPieces ==
    ASSUME NEW S, NEW q \in Seq(S), NEW n \in Nat, n <= Len(q), NEW k \in Nat, k <= Len(q) - n
    PROVE  /\ SubSeq(Rest(q, n), 1, k) = SubSeq(q, n + 1, n + k)
           /\ Rest(Rest(q, n), k) = Rest(q, n + k)
<1> DEFINE r == Rest(q, n)
           x == SubSeq(r, 1, k)
           y == SubSeq(q, n + 1, n + k)
<1>1. /\ r \in Seq(S) /\ Len(r) = Len(q) - n /\ \A i \in 1..Len(q) - n : r[i] = q[n + i]
  BY RestIs
<1>2. Len(q) \in Nat
  OBVIOUS
<1>3. \A l \in Nat : n <= l /\ k <= l - n =>
         /\ n + k \in Nat /\ n + k <= l /\ l - (n + k) = l - n - k /\ l - n \in Nat
         /\ \A i \in 1..l - n - k : k + i \in 1..l - n /\ n + (k + i) = n + k + i
         /\ \A i \in 1..k : i \in 1..l - n
  OBVIOUS
<1>4. /\ n + k \in Nat /\ n + k <= Len(q) /\ Len(q) - (n + k) = Len(q) - n - k /\ Len(q) - n \in Nat
      /\ \A i \in 1..Len(q) - n - k : k + i \in 1..Len(q) - n /\ n + (k + i) = n + k + i
      /\ \A i \in 1..k : i \in 1..Len(q) - n
  BY <1>2, <1>3
<1>5. /\ Rest(q, n + k) \in Seq(S) /\ Len(Rest(q, n + k)) = Len(q) - (n + k)
      /\ \A i \in 1..Len(q) - (n + k) : Rest(q, n + k)[i] = q[n + k + i]
  BY <1>4, RestIs
<1>6. k <= Len(r)
  BY <1>1
<1>7. /\ x \in Seq(S) /\ Len(x) = IF 1 <= k THEN k - 1 + 1 ELSE 0
      /\ \A i \in 1..k - 1 + 1 : x[i] = r[1 + i - 1]
  <2>1. 1 \in Nat /\ 1 >= 1
    OBVIOUS
  <2> HIDE DEF r
  <2> QED
    BY <1>1, <1>6, <2>1, Piece
<1>8. /\ y \in Seq(S) /\ Len(y) = IF n + 1 <= n + k THEN n + k - (n + 1) + 1 ELSE 0
      /\ \A i \in 1..n + k - (n + 1) + 1 : y[i] = q[n + 1 + i - 1]
  <2>1. n + 1 \in Nat /\ n + 1 >= 1
    OBVIOUS
  <2> QED
    BY <1>4, <2>1, Piece
<1> HIDE DEF r
<1>9. /\ Rest(r, k) \in Seq(S) /\ Len(Rest(r, k)) = Len(r) - k
      /\ \A i \in 1..Len(r) - k : Rest(r, k)[i] = r[k + i]
  BY <1>1, <1>6, RestIs, SMTT(30)
<1>10. Rest(r, k) = Rest(q, n + k)
  <2>1. Len(Rest(r, k)) = Len(q) - n - k /\ Len(Rest(q, n + k)) = Len(q) - n - k
    BY <1>1, <1>4, <1>5, <1>9
  <2>2. \A i \in 1..Len(q) - n - k : Rest(r, k)[i] = r[k + i]
    BY <1>1, <1>9
  <2>3. \A i \in 1..Len(q) - n - k : Rest(q, n + k)[i] = q[n + k + i]
    BY <1>4, <1>5
  <2>4. \A i \in 1..Len(q) - n - k : Rest(r, k)[i] = Rest(q, n + k)[i]
    BY <1>1, <1>4, <2>2, <2>3
  <2> QED
    BY <1>5, <1>9, <2>1, <2>4, SeqEqual
<1> HIDE DEF x, y
<1>11. x = y
  <2>1. /\ (IF 1 <= k THEN k - 1 + 1 ELSE 0) = k /\ (IF n + 1 <= n + k THEN n + k - (n + 1) + 1 ELSE 0) = k
        /\ k - 1 + 1 = k /\ n + k - (n + 1) + 1 = k
        /\ \A i \in 1..k : 1 + i - 1 = i /\ n + 1 + i - 1 = n + i
    OBVIOUS
  <2>2. Len(x) = k /\ Len(y) = k
    BY <1>7, <1>8, <2>1
  <2>3. \A i \in 1..k : x[i] = r[i]
    BY <1>7, <2>1
  <2>4. \A i \in 1..k : y[i] = q[n + i]
    BY <1>8, <2>1
  <2>5. \A i \in 1..k : x[i] = y[i]
    BY <1>1, <1>4, <2>3, <2>4
  <2> QED
    BY <1>7, <1>8, <2>2, <2>5, SeqEqual
<1> QED
  BY <1>10, <1>11 DEF r, x, y

\* A shortest element of a set of states.
LEMMA Shortest ==
    ASSUME NEW T, T \subseteq State, T # {}
    PROVE  \E s \in T : \A t \in T : Size(s) <= Size(t)
<1> DEFINE W == {Size(t) : t \in T}
<1>1. W \subseteq Nat /\ W # {}
  BY DEF State, Size
<1>2. IsWellFoundedOn(OpToRel(<, Nat), Nat)
  BY NatLessThanWellFounded
<1>3. PICK m \in W : \A n \in W : ~(<<n, m>> \in OpToRel(<, Nat))
  <2> HIDE DEF W
  <2> QED
    BY <1>1, <1>2, WFMin, Zenon
<1>4. \A n \in W : ~(n < m)
  BY <1>1, <1>3 DEF OpToRel
<1>5. \A n \in W : m <= n
  BY <1>1, <1>4
<1> QED
  BY <1>5

-----------------------------------------------------------------------------
(* One turn of the loop.                                                   *)

\* The header is there, and its length is a number.
LEMMA HeaderType ==
    ASSUME NEW b \in Seq(Byte), Len(b) >= HeaderLen
    PROVE  SubSeq(b, 1, HeaderLen) \in [1..HeaderLen -> Byte] /\ Announced(b) \in Nat
<1>1. HeaderLen \in Nat /\ 1 \in Nat /\ Len(b) \in Nat /\ HeaderLen >= 1
  BY FramerAssumption
<1>2. /\ SubSeq(b, 1, HeaderLen) \in Seq(Byte) /\ Len(SubSeq(b, 1, HeaderLen)) = HeaderLen
  BY <1>1, Piece
<1>3. SubSeq(b, 1, HeaderLen) \in [1..HeaderLen -> Byte]
  <2>1. \A q \in Seq(Byte) : q \in [1..Len(q) -> Byte]
    BY LenProperties, ElementOfSeq
  <2> QED
    BY <1>2, <2>1
<1> QED
  BY <1>3, FramerAssumption DEF Announced

\* A turn takes at least one byte and no more than there are.
LEMMA TakenBounds ==
    ASSUME NEW b \in Seq(Byte), ~Waits(b)
    PROVE  Taken(b) \in Nat /\ 1 <= Taken(b) /\ Taken(b) <= Len(b) /\ Len(b) \in Nat
<1>1. Len(b) \in Nat /\ Len(b) >= 1 /\ HeaderLen \in Nat
  BY FramerAssumption DEF Waits
<1>2. CASE Head(b) # STX \/ ~IsTelegram(b)
  BY <1>1, <1>2 DEF Taken, Skipped
<1>3. CASE Head(b) = STX /\ IsTelegram(b)
  <2>1. ~Incomplete(b)
    BY <1>3 DEF Waits
  <2>2. Len(b) >= HeaderLen
    BY <1>1, <2>1 DEF Incomplete
  <2>3. Announced(b) \in Nat /\ Announced(b) # 0
    BY <1>3, <2>2, HeaderType DEF IsTelegram
  <2>4. Announced(b) <= Len(b)
    BY <1>1, <2>1, <2>3 DEF Incomplete
  <2>5. Taken(b) = Announced(b)
    BY <1>3 DEF Taken
  <2>6. \A n \in Nat : n # 0 => 1 <= n
    OBVIOUS
  <2> QED
    BY <1>1, <2>3, <2>4, <2>5, <2>6
<1> QED
  BY <1>2, <1>3

\* What is left after a turn.
LEMMA Discarded ==
    ASSUME NEW s \in State, NEW n \in Nat, 1 <= n, n <= Len(s.buffer)
    PROVE  /\ Discard(s, n) \in State /\ Discard(s, n).offset = s.offset + n
           /\ Size(Discard(s, n)) = Size(s) - n
<1>1. s.buffer \in Seq(Byte) /\ s.offset \in Nat /\ Len(s.buffer) \in Nat
  BY DEF State
<1>2. /\ SubSeq(s.buffer, n + 1, Len(s.buffer)) \in Seq(Byte)
      /\ Len(SubSeq(s.buffer, n + 1, Len(s.buffer))) = Len(s.buffer) - n
  <2>1. n + 1 \in Nat /\ n + 1 >= 1 /\ Len(s.buffer) <= Len(s.buffer)
    BY <1>1
  <2>2. /\ SubSeq(s.buffer, n + 1, Len(s.buffer)) \in Seq(Byte)
        /\ Len(SubSeq(s.buffer, n + 1, Len(s.buffer))) =
             IF n + 1 <= Len(s.buffer) THEN Len(s.buffer) - (n + 1) + 1 ELSE 0
    BY <1>1, <2>1, Piece
  <2>3. \A m \in Nat : n <= m => (IF n + 1 <= m THEN m - (n + 1) + 1 ELSE 0) = m - n
    OBVIOUS
  <2> QED
    BY <1>1, <2>2, <2>3
<1> QED
  BY <1>1, <1>2 DEF Discard, State, Size

LEMMA Turn ==
    ASSUME NEW s \in State, ~Waits(s.buffer)
    PROVE  /\ Discard(s, Taken(s.buffer)) \in State /\ Size(Discard(s, Taken(s.buffer))) < Size(s)
           /\ Size(s) \in Nat /\ Size(Discard(s, Taken(s.buffer))) \in Nat
<1> DEFINE n == Taken(s.buffer)
<1>1. n \in Nat /\ 1 <= n /\ n <= Size(s) /\ Size(s) \in Nat
  BY TakenBounds DEF State, Size
<1>2. Discard(s, n) \in State /\ Size(Discard(s, n)) = Size(s) - n
  BY <1>1, Discarded DEF Size
<1> HIDE DEF n
<1>3. Size(s) - n < Size(s) /\ Size(s) - n \in Nat
  BY <1>1
<1> QED
  BY <1>1, <1>2, <1>3 DEF n

-----------------------------------------------------------------------------
(* The recursion of Scan is well founded.                                  *)

\* The loop, in terms of what it does to a shorter buffer.
Body(f, s) ==
    IF Waits(s.buffer)
    THEN [events |-> <<>>, offset |-> s.offset, buffer |-> s.buffer]
    ELSE LET n == Taken(s.buffer)
             rest == f[Discard(s, n)]
         IN [rest EXCEPT !.events = IF Found(s.buffer) THEN <<Item(s, n)>> \o @ ELSE @]

\* It uses nothing but what is shorter.
LEMMA Local ==
    ASSUME NEW f, NEW g, NEW s \in State,
           \A t \in State : Size(t) < Size(s) => f[t] = g[t]
    PROVE  Body(f, s) = Body(g, s)
<1>1. CASE Waits(s.buffer)
  BY <1>1 DEF Body
<1>2. CASE ~Waits(s.buffer)
  <2>1. f[Discard(s, Taken(s.buffer))] = g[Discard(s, Taken(s.buffer))]
    BY <1>2, Turn
  <2> QED
    BY <1>2, <2>1 DEF Body
<1> QED
  BY <1>1, <1>2

\* A function that is right up to a length.
Solves(f, n) == \A s \in State : Size(s) <= n => f[s] = Body(f, s)

LEMMA SizeType == \A s \in State : Size(s) \in Nat
BY DEF State, Size

\* Two of them agree up to that length.
LEMMA Unique ==
    ASSUME NEW f, NEW g, NEW n \in Nat, Solves(f, n), Solves(g, n)
    PROVE  \A s \in State : Size(s) <= n => f[s] = g[s]
<1> DEFINE T == {s \in State : Size(s) <= n /\ f[s] # g[s]}
<1>1. SUFFICES ASSUME T # {} PROVE FALSE
  OBVIOUS
<1>2. PICK s \in T : \A t \in T : Size(s) <= Size(t)
  <2>1. T \subseteq State
    OBVIOUS
  <2> HIDE DEF T
  <2> QED
    BY <1>1, <2>1, Shortest
<1>3. \A t \in State : Size(t) < Size(s) => f[t] = g[t]
  <2>1. SUFFICES ASSUME NEW t \in State, Size(t) < Size(s), f[t] # g[t] PROVE FALSE
    OBVIOUS
  <2>2. Size(t) <= n /\ ~(Size(s) <= Size(t))
    BY <1>2, <2>1, SizeType
  <2> QED
    BY <1>2, <2>1, <2>2
<1>4. f[s] = Body(f, s) /\ g[s] = Body(g, s)
  BY <1>2 DEF Solves
<1> QED
  BY <1>2, <1>3, <1>4, Local

\* There is one for every length.
LEMMA Solvable ==
    ASSUME NEW n \in Nat
    PROVE  \E f : Solves(f, n)
<1> DEFINE W == {m \in Nat : ~\E f : Solves(f, m)}
<1>1. SUFFICES ASSUME W # {} PROVE FALSE
  OBVIOUS
<1>2. PICK m \in W : \A k \in W : ~(<<k, m>> \in OpToRel(<, Nat))
  <2>1. W \subseteq Nat /\ IsWellFoundedOn(OpToRel(<, Nat), Nat)
    BY NatLessThanWellFounded
  <2> HIDE DEF W
  <2> QED
    BY <1>1, <2>1, WFMin, Zenon
<1>3. m \in Nat /\ ~(\E f : Solves(f, m)) /\ \A k \in Nat : k < m => k \notin W
  BY <1>2 DEF OpToRel
<1>4. \A k \in Nat : k < m => \E f : Solves(f, k)
  BY <1>3
<1> HIDE DEF W
<1>5. PICK f : \A t \in State : Size(t) < m => f[t] = Body(f, t)
  <2>1. CASE m = 0
    <3>1. \A k \in Nat : ~(k < 0)
      OBVIOUS
    <3> QED
      BY <2>1, <3>1, SizeType
  <2>2. CASE m # 0
    <3>1. \A k \in Nat : k # 0 => k - 1 \in Nat /\ k - 1 < k /\ \A j \in Nat : j < k => j <= k - 1
      OBVIOUS
    <3>2. m - 1 \in Nat /\ m - 1 < m /\ \A k \in Nat : k < m => k <= m - 1
      BY <1>3, <2>2, <3>1
    <3>3. PICK f : Solves(f, m - 1)
      BY <1>4, <3>2
    <3>4. \A k \in Nat : k < m => k <= m - 1
      BY <3>2
    <3> QED
      BY <3>3, <3>4, SizeType DEF Solves
  <2> QED
    BY <2>1, <2>2
<1> DEFINE h == [s \in State |-> Body(f, s)]
<1>6. \A s \in State : h[s] = Body(f, s)
  OBVIOUS
<1> HIDE DEF h
<1>7. Solves(h, m)
  <2>1. SUFFICES ASSUME NEW s \in State, Size(s) <= m PROVE h[s] = Body(h, s)
    BY DEF Solves
  <2>2. \A t \in State : Size(t) < Size(s) => f[t] = h[t]
    <3>1. \A t \in State : Size(t) < Size(s) => Size(t) < m
      <4>1. \A i, j, k \in Nat : i < j /\ j <= k => i < k
        OBVIOUS
      <4> QED
        BY <1>3, <2>1, <4>1, SizeType
    <3> QED
      BY <1>5, <1>6, <3>1
  <2> QED
    BY <1>6, <2>2, Local
<1> QED
  BY <1>3, <1>7

\* Scan is the function its definition says.
THEOREM ScanDefined == \A s \in State : Scan[s] = Body(Scan, s)
<1> DEFINE At0(n) == CHOOSE f : Solves(f, n)
           g == [s \in State |-> At0(Size(s))[s]]
<1>1. \A n \in Nat : Solves(At0(n), n)
  BY Solvable
<1> HIDE DEF At0
<1>2. \A s \in State : g[s] = At0(Size(s))[s]
  OBVIOUS
<1> HIDE DEF g
<1>3. ASSUME NEW s \in State PROVE g[s] = Body(g, s)
  <2> DEFINE n == Size(s)
             f == At0(n)
  <2>1. n \in Nat /\ Solves(f, n)
    BY <1>1, SizeType
  <2>2. \A t \in State : Size(t) < n => f[t] = g[t]
    <3>1. SUFFICES ASSUME NEW t \in State, Size(t) < n PROVE f[t] = g[t]
      OBVIOUS
    <3>2. Size(t) \in Nat /\ Solves(At0(Size(t)), Size(t))
      BY <1>1, SizeType
    <3>3. Solves(f, Size(t))
      <4>1. \A k \in Nat : k <= Size(t) => k <= n
        BY <2>1, <3>1, <3>2
      <4> QED
        BY <2>1, <4>1, SizeType DEF Solves
    <3>4. f[t] = At0(Size(t))[t]
      <4> HIDE DEF f, n
      <4>1. Size(t) <= Size(t)
        BY <3>2
      <4> QED
        BY <3>2, <3>3, <4>1, Unique
    <3> QED
      BY <1>2, <3>4
  <2>3. Body(f, s) = Body(g, s)
    <3> HIDE DEF f
    <3> QED
      BY <2>2, Local
  <2>4. f[s] = Body(f, s)
    <3>1. n <= n
      BY <2>1
    <3> HIDE DEF f
    <3> QED
      BY <2>1, <3>1 DEF Solves
  <2> QED
    BY <1>2, <2>3, <2>4
<1>4. g = [s \in State |-> Body(g, s)]
  <2>1. DOMAIN g = State /\ g = [s \in State |-> g[s]]
    BY DEF g
  <2> QED
    BY <1>3, <2>1
<1>5. \E f : f = [s \in State |-> Body(f, s)]
  BY <1>4
<1>6. Scan = CHOOSE f : f = [s \in State |-> Body(f, s)]
  BY DEF Scan, Body
<1>7. Scan = [s \in State |-> Body(Scan, s)]
  BY <1>5, <1>6
<1> QED
  BY <1>7

-----------------------------------------------------------------------------
(* What a scan returns.                                                    *)

Event == [at : Nat, bytes : Seq(Byte)]
Result == [events : Seq(Event), offset : Nat, buffer : Seq(Byte)]

\* The event that a turn finds.
New(s) == IF Found(s.buffer) THEN <<Item(s, Taken(s.buffer))>> ELSE <<>>
After(s) == Discard(s, Taken(s.buffer))

LEMMA NewType ==
    ASSUME NEW s \in State, ~Waits(s.buffer)
    PROVE  Item(s, Taken(s.buffer)) \in Event /\ New(s) \in Seq(Event)
<1>1. s.buffer \in Seq(Byte) /\ s.offset \in Nat
  BY DEF State
<1>2. /\ Taken(s.buffer) \in Nat /\ Taken(s.buffer) <= Len(s.buffer)
  BY <1>1, TakenBounds
<1>3. SubSeq(s.buffer, 1, Taken(s.buffer)) \in Seq(Byte)
  BY <1>1, <1>2, Piece
<1>4. Item(s, Taken(s.buffer)) \in Event
  BY <1>1, <1>3 DEF Item, Event
<1> QED
  BY <1>4 DEF New

LEMMA ScanStops ==
    ASSUME NEW s \in State, Waits(s.buffer)
    PROVE  Scan[s] = [events |-> <<>>, offset |-> s.offset, buffer |-> s.buffer]
BY ScanDefined DEF Body

LEMMA ScanType ==
    ASSUME NEW s \in State
    PROVE  Scan[s] \in Result
<1> DEFINE T == {t \in State : Scan[t] \notin Result}
<1>1. SUFFICES ASSUME T # {} PROVE FALSE
  OBVIOUS
<1>2. PICK t \in T : \A u \in T : Size(t) <= Size(u)
  <2>1. T \subseteq State
    OBVIOUS
  <2> HIDE DEF T
  <2> QED
    BY <1>1, <2>1, Shortest
<1>3. t \in State /\ Scan[t] \notin Result
  BY <1>2
<1>4. CASE Waits(t.buffer)
  <2>1. Scan[t] = [events |-> <<>>, offset |-> t.offset, buffer |-> t.buffer]
    BY <1>3, <1>4, ScanStops
  <2>2. t.offset \in Nat /\ t.buffer \in Seq(Byte) /\ <<>> \in Seq(Event)
    BY <1>3, EmptySeq DEF State
  <2> QED
    BY <1>3, <2>1, <2>2 DEF Result
<1>5. CASE ~Waits(t.buffer)
  <2>1. After(t) \in State /\ Size(After(t)) < Size(t) /\ Size(t) \in Nat /\ Size(After(t)) \in Nat
    BY <1>3, <1>5, Turn DEF After
  <2>2. ~(Size(t) <= Size(After(t)))
    BY <2>1
  <2>3. Scan[After(t)] \in Result
    BY <1>2, <2>1, <2>2
  <2>4. Scan[t] = [Scan[After(t)] EXCEPT !.events =
                     IF Found(t.buffer) THEN <<Item(t, Taken(t.buffer))>> \o @ ELSE @]
    BY <1>3, <1>5, ScanDefined DEF Body, After
  <2>5. <<Item(t, Taken(t.buffer))>> \o Scan[After(t)].events \in Seq(Event)
    <3>1. <<Item(t, Taken(t.buffer))>> \in Seq(Event)
      BY <1>3, <1>5, NewType
    <3>2. Scan[After(t)].events \in Seq(Event)
      BY <2>3 DEF Result
    <3> QED
      BY <3>1, <3>2, ConcatProperties
  <2>6. Scan[t] \in Result
    <3> DEFINE a == Scan[After(t)]
               e == <<Item(t, Taken(t.buffer))>> \o a.events
    <3>1. a \in Result /\ e \in Seq(Event)
      BY <2>3, <2>5
    <3>2. Scan[t] = [a EXCEPT !.events = IF Found(t.buffer) THEN e ELSE a.events]
      BY <2>4
    <3> HIDE DEF a, e
    <3> QED
      BY <3>1, <3>2 DEF Result
  <2> QED
    BY <1>3, <2>6
<1> QED
  BY <1>4, <1>5

\* A turn, and the scan of what it leaves.
LEMMA ScanTurns ==
    ASSUME NEW s \in State, ~Waits(s.buffer)
    PROVE  /\ After(s) \in State /\ Scan[After(s)] \in Result
           /\ Scan[s].events = New(s) \o Scan[After(s)].events
           /\ Scan[s].offset = Scan[After(s)].offset /\ Scan[s].buffer = Scan[After(s)].buffer
<1>1. After(s) \in State
  BY Turn DEF After
<1>2. Scan[After(s)] \in Result
  BY <1>1, ScanType
<1>3. Scan[s] = [Scan[After(s)] EXCEPT !.events =
                   IF Found(s.buffer) THEN <<Item(s, Taken(s.buffer))>> \o @ ELSE @]
  BY ScanDefined DEF Body, After
<1>4. Scan[After(s)].events = <<>> \o Scan[After(s)].events
  BY <1>2, ConcatEmptySeq DEF Result
<1> DEFINE a == Scan[After(s)]
           e == <<Item(s, Taken(s.buffer))>> \o a.events
<1>5. /\ a \in Result /\ a.events = <<>> \o a.events
      /\ Scan[s] = [a EXCEPT !.events = IF Found(s.buffer) THEN e ELSE a.events]
      /\ New(s) \o a.events = IF Found(s.buffer) THEN e ELSE <<>> \o a.events
  BY <1>2, <1>3, <1>4 DEF New
<1>6. Scan[s].events = New(s) \o a.events /\ Scan[s].offset = a.offset /\ Scan[s].buffer = a.buffer
  <2> HIDE DEF a, e
  <2> QED
    BY <1>5 DEF Result
<1> QED
  BY <1>1, <1>2, <1>6

-----------------------------------------------------------------------------
(* Bytes that come later change nothing of what was decided.               *)

\* A candidate that is complete stays what it is.
LEMMA Stable ==
    ASSUME NEW b \in Seq(Byte), NEW d \in Seq(Byte), b # <<>>
    PROVE  /\ b \o d # <<>> /\ Head(b \o d) = Head(b)
           /\ ~Incomplete(b) => /\ ~Incomplete(b \o d) /\ Announced(b \o d) = Announced(b)
                                /\ IsTelegram(b \o d) <=> IsTelegram(b)
<1>1. /\ b \o d \in Seq(Byte) /\ Len(b \o d) = Len(b) + Len(d)
      /\ Len(b) \in Nat \ {0} /\ Len(d) \in Nat /\ (b \o d)[1] = b[1]
  BY ConcatProperties, EmptySeq
<1>2. \A m \in Nat, n \in Nat : m <= m + n
  OBVIOUS
<1>3. b \o d # <<>>
  BY <1>1
<1>4. Head(b \o d) = (b \o d)[1] /\ Head(b) = b[1]
  BY <1>3
<1>5. ASSUME NEW n \in Nat, 1 <= n, n <= Len(b) PROVE SubSeq(b \o d, 1, n) = SubSeq(b, 1, n)
  <2>1. 1 \in 1..Len(b) /\ n \in 1..Len(b)
    BY <1>1, <1>5
  <2> QED
    BY <2>1, SubSeqOfConcat1
<1>6. ASSUME ~Incomplete(b)
      PROVE  /\ ~Incomplete(b \o d) /\ Announced(b \o d) = Announced(b)
             /\ IsTelegram(b \o d) <=> IsTelegram(b)
  <2>1. HeaderLen \in Nat /\ 1 <= HeaderLen /\ HeaderLen <= Len(b)
    BY <1>1, <1>6, FramerAssumption DEF Incomplete
  <2>2. Announced(b \o d) = Announced(b)
    BY <1>5, <2>1 DEF Announced
  <2>3. Announced(b) \in Nat
    BY <2>1, HeaderType
  <2>4. Announced(b) = 0 \/ (1 <= Announced(b) /\ Announced(b) <= Len(b))
    <3>1. Announced(b) = 0 \/ ~(Len(b) < Announced(b))
      BY <1>6 DEF Incomplete
    <3>2. \A m, n \in Nat : n = 0 \/ ~(m < n) => n = 0 \/ (1 <= n /\ n <= m)
      OBVIOUS
    <3> QED
      BY <1>1, <2>3, <3>1, <3>2
  <2>5. IsTelegram(b \o d) <=> IsTelegram(b)
    BY <1>5, <2>2, <2>3, <2>4 DEF IsTelegram
  <2>6. ~Incomplete(b \o d)
    <3>1. \A l, m, n \in Nat : l <= m => ~(m + n < l)
      OBVIOUS
    <3> QED
      BY <1>1, <2>1, <2>2, <2>3, <2>4, <3>1 DEF Incomplete
  <2> QED
    BY <2>2, <2>5, <2>6
<1> QED
  BY <1>1, <1>3, <1>4, <1>6

\* The framer's state when more bytes are there.
Longer(s, d) == [offset |-> s.offset, buffer |-> s.buffer \o d]

LEMMA LongerType ==
    ASSUME NEW s \in State, NEW d \in Seq(Byte)
    PROVE  /\ Longer(s, d) \in State /\ Longer(s, d).offset = s.offset
           /\ Longer(s, d).buffer = s.buffer \o d
BY ConcatProperties DEF Longer, State

\* A turn is the same.
LEMMA SameTurn ==
    ASSUME NEW s \in State, NEW d \in Seq(Byte), ~Waits(s.buffer)
    PROVE  /\ ~Waits(s.buffer \o d) /\ New(Longer(s, d)) = New(s)
           /\ After(Longer(s, d)) = Longer(After(s), d)
<1> DEFINE b == s.buffer
           n == Taken(b)
           l == Longer(s, d)
<1>1. b \in Seq(Byte) /\ b # <<>> /\ (Head(b) # STX \/ ~Incomplete(b))
  BY DEF State, Waits
<1>2. n \in Nat /\ 1 <= n /\ n <= Len(b) /\ Len(b) \in Nat /\ Len(d) \in Nat
  BY <1>1, TakenBounds
<1>3. l.offset = s.offset /\ l.buffer = b \o d
  BY LongerType
<1>4. /\ b \o d # <<>> /\ Head(b \o d) = Head(b)
      /\ Head(b) = STX => /\ ~Incomplete(b \o d) /\ Announced(b \o d) = Announced(b)
                          /\ IsTelegram(b \o d) <=> IsTelegram(b)
  <2> HIDE DEF b
  <2> QED
    BY <1>1, Stable
<1>5. ~Waits(b \o d) /\ Taken(b \o d) = n /\ (Found(b \o d) <=> Found(b))
  BY <1>4 DEF Waits, Taken, Found, Skipped
<1>6. SubSeq(b \o d, 1, n) = SubSeq(b, 1, n)
  <2> HIDE DEF b, n
  <2>1. 1 \in 1..Len(b) /\ n \in 1..Len(b)
    BY <1>2
  <2> QED
    BY <1>1, <2>1, SubSeqOfConcat1
<1>7. SubSeq(b \o d, n + 1, Len(b \o d)) = SubSeq(b, n + 1, Len(b)) \o d
  <2> HIDE DEF b, n
  <2> QED
    BY <1>1, <1>2, RestOfConcat
<1>8. New(l) = New(s)
  BY <1>3, <1>5, <1>6 DEF New, Item
<1>9. After(l) = Longer(After(s), d)
  <2>1. After(l) = [offset |-> s.offset + n, buffer |-> SubSeq(b \o d, n + 1, Len(b \o d))]
    BY <1>3, <1>5 DEF After, Discard
  <2>2. After(s).offset = s.offset + n /\ After(s).buffer = SubSeq(b, n + 1, Len(b))
    BY DEF After, Discard
  <2> QED
    BY <1>7, <2>1, <2>2 DEF Longer
<1> QED
  BY <1>5, <1>8, <1>9

\* A scan of more bytes goes on where the scan of the first ones stopped.
THEOREM ScanGoesOn ==
    ASSUME NEW s \in State, NEW d \in Seq(Byte)
    PROVE  LET r == Scan[s]
               q == Scan[[offset |-> r.offset, buffer |-> r.buffer \o d]]
           IN Scan[Longer(s, d)] = [events |-> r.events \o q.events, offset |-> q.offset, buffer |-> q.buffer]
<1> DEFINE More(t) == Scan[[offset |-> Scan[t].offset, buffer |-> Scan[t].buffer \o d]]
           Right(t) == Scan[Longer(t, d)] =
               [events |-> Scan[t].events \o More(t).events, offset |-> More(t).offset, buffer |-> More(t).buffer]
           T == {t \in State : ~Right(t)}
<1>1. SUFFICES ASSUME T # {} PROVE FALSE
  OBVIOUS
<1>2. PICK t \in T : \A u \in T : Size(t) <= Size(u)
  <2>1. T \subseteq State
    OBVIOUS
  <2> HIDE DEF T
  <2> QED
    BY <1>1, <2>1, Shortest
<1>3. t \in State /\ ~Right(t) /\ Longer(t, d) \in State
  BY <1>2, LongerType
<1>4. Scan[Longer(t, d)] \in Result /\ Scan[t] \in Result
  BY <1>3, ScanType
<1>5. CASE Waits(t.buffer)
  <2>1. Scan[t] = [events |-> <<>>, offset |-> t.offset, buffer |-> t.buffer]
    BY <1>3, <1>5, ScanStops
  <2>2. Scan[t].events = <<>> /\ More(t) = Scan[Longer(t, d)]
    BY <2>1 DEF Longer
  <2>3. <<>> \o More(t).events = More(t).events
    BY <1>4, <2>2, ConcatEmptySeq DEF Result
  <2>4. Right(t)
    <3> DEFINE a == Scan[Longer(t, d)]
    <3>1. a \in Result /\ Right(t) <=> a = [events |-> a.events, offset |-> a.offset, buffer |-> a.buffer]
      BY <1>4, <2>2, <2>3
    <3>2. a \in Result
      BY <1>4
    <3> HIDE DEF a, Right
    <3> QED
      BY <3>1, <3>2 DEF Result
  <2> QED
    BY <1>3, <2>4
<1>6. CASE ~Waits(t.buffer)
  <2>1. After(t) \in State /\ Size(After(t)) < Size(t) /\ Size(t) \in Nat /\ Size(After(t)) \in Nat
    BY <1>3, <1>6, Turn DEF After
  <2>2. ~(Size(t) <= Size(After(t)))
    BY <2>1
  <2>3. Right(After(t))
    BY <1>2, <2>1, <2>2
  <2>4. /\ ~Waits(Longer(t, d).buffer) /\ New(Longer(t, d)) = New(t)
        /\ After(Longer(t, d)) = Longer(After(t), d)
    BY <1>3, <1>6, SameTurn, LongerType
  <2>5. /\ Scan[t].events = New(t) \o Scan[After(t)].events
        /\ Scan[t].offset = Scan[After(t)].offset /\ Scan[t].buffer = Scan[After(t)].buffer
    BY <1>3, <1>6, ScanTurns
  <2>6. /\ Scan[Longer(t, d)].events = New(t) \o Scan[Longer(After(t), d)].events
        /\ Scan[Longer(t, d)].offset = Scan[Longer(After(t), d)].offset
        /\ Scan[Longer(t, d)].buffer = Scan[Longer(After(t), d)].buffer
    BY <1>3, <2>4, ScanTurns
  <2>7. More(t) = More(After(t)) /\ More(t) \in Result
    <3>1. More(t) = More(After(t))
      BY <2>5
    <3>2. [offset |-> Scan[t].offset, buffer |-> Scan[t].buffer \o d] \in State
      BY <1>4, ConcatProperties DEF Result, State
    <3> QED
      BY <3>1, <3>2, ScanType
  <2>8. Scan[Longer(After(t), d)] = [events |-> Scan[After(t)].events \o More(t).events,
                                     offset |-> More(t).offset, buffer |-> More(t).buffer]
    BY <2>3, <2>7
  <2>9. New(t) \o (Scan[After(t)].events \o More(t).events) = (New(t) \o Scan[After(t)].events) \o More(t).events
    <3>1. New(t) \in Seq(Event)
      BY <1>3, <1>6, NewType
    <3>2. Scan[After(t)].events \in Seq(Event) /\ More(t).events \in Seq(Event)
      BY <2>1, <2>7, ScanType DEF Result
    <3>3. \A x, y, z \in Seq(Event) : x \o (y \o z) = (x \o y) \o z
      BY ConcatAssociative, SMTT(30)
    <3> HIDE DEF More
    <3> QED
      BY <3>1, <3>2, <3>3, Zenon
  <2>10. Right(t)
    <3> DEFINE a == Scan[Longer(t, d)]
               m == More(t)
    <3>1. /\ a \in Result /\ a.events = Scan[t].events \o m.events
          /\ a.offset = m.offset /\ a.buffer = m.buffer
      <4>1. /\ Scan[Longer(After(t), d)].events = Scan[After(t)].events \o m.events
            /\ Scan[Longer(After(t), d)].offset = m.offset
            /\ Scan[Longer(After(t), d)].buffer = m.buffer
        <5> HIDE DEF More
        <5>1. \A z, e : z = [events |-> e, offset |-> More(t).offset, buffer |-> More(t).buffer]
                         => z.events = e /\ z.offset = More(t).offset /\ z.buffer = More(t).buffer
          OBVIOUS
        <5> QED
          BY <2>8, <5>1
      <4> HIDE DEF m
      <4>2. a.events = New(t) \o (Scan[After(t)].events \o m.events)
        BY <2>6, <4>1
      <4>3. a.events = Scan[t].events \o m.events
        BY <2>5, <2>9, <4>2 DEF m
      <4> QED
        BY <1>4, <2>6, <4>1, <4>3
    <3>2. Right(t) <=> a = [events |-> Scan[t].events \o m.events, offset |-> m.offset, buffer |-> m.buffer]
      OBVIOUS
    <3> HIDE DEF a, m, Right
    <3> QED
      BY <3>1, <3>2 DEF Result
  <2> QED
    BY <1>3, <2>10
<1> QED
  BY <1>5, <1>6

-----------------------------------------------------------------------------
(* The loop invariant: what the events say of a stream w that was scanned  *)
(* up to o, but for the bytes in X that were given up.                     *)

Elements(E) == {E[k] : k \in 1..Len(E)}
End(e) == e.at + Len(e.bytes)
Complete(b) == Head(b) = STX /\ ~Incomplete(b) /\ IsTelegram(b)

\* An event stands in the stream, and a frame is a telegram.
Stands(w, o, e) ==
    /\ Len(e.bytes) >= 1 /\ End(e) <= o /\ e.bytes = SubSeq(w, e.at + 1, End(e))
    /\ Head(e.bytes) = STX => Complete(Rest(w, e.at)) /\ Len(e.bytes) = Announced(Rest(w, e.at))

\* An offset lies inside a frame, or what starts there was decided.
Within(D, i) == \E f \in D : Head(f.bytes) = STX /\ f.at < i /\ i < End(f)
Decided(w, D, i) ==
    /\ Head(Rest(w, i)) = STX =>
         /\ ~Incomplete(Rest(w, i))
         /\ IsTelegram(Rest(w, i)) => \E f \in D : f.at = i /\ Head(f.bytes) = STX
    /\ Head(Rest(w, i)) \in Control => \E f \in D : f.at = i

Sound(w, E, o) == \A e \in Elements(E) : Stands(w, o, e)
Ordered(E) == \A i \in 1..Len(E) - 1 : End(E[i]) <= E[i + 1].at
Covered(w, E, o, X) == \A i \in 0..o - 1 : i \in X \/ Within(Elements(E), i) \/ Decided(w, Elements(E), i)
Good(w, E, o, X) == Sound(w, E, o) /\ Ordered(E) /\ Covered(w, E, o, X)

LEMMA ElementsType ==
    ASSUME NEW E \in Seq(Event)
    PROVE  \A e \in Elements(E) : e \in Event /\ End(e) \in Nat
<1>1. \A e \in Elements(E) : e \in Event
  BY ElementOfSeq DEF Elements
<1>2. \A e \in Event : End(e) \in Nat
  BY DEF End, Event
<1> QED
  BY <1>1, <1>2

LEMMA Extended ==
    ASSUME NEW E \in Seq(Event), NEW e \in Event
    PROVE  /\ E \o <<e>> \in Seq(Event) /\ Len(E) \in Nat /\ Len(E \o <<e>>) = Len(E) + 1
           /\ \A i \in 1..Len(E) : (E \o <<e>>)[i] = E[i]
           /\ (E \o <<e>>)[Len(E) + 1] = e
           /\ Elements(E \o <<e>>) = Elements(E) \cup {e}
<1> DEFINE F == E \o <<e>>
<1>1. /\ F \in Seq(Event) /\ Len(E) \in Nat /\ Len(F) = Len(E) + 1
      /\ \A i \in 1..Len(E) + 1 : F[i] = IF i <= Len(E) THEN E[i] ELSE <<e>>[i - Len(E)]
  <2>1. <<e>> \in Seq(Event) /\ Len(<<e>>) = 1
    OBVIOUS
  <2> QED
    BY <2>1, ConcatProperties
<1> HIDE DEF F
<1>2. \A l \in Nat : /\ l + 1 \in 1..l + 1 /\ ~(l + 1 <= l) /\ l + 1 - l = 1
                     /\ \A i \in 1..l : i \in 1..l + 1 /\ i <= l
                     /\ \A i \in 1..l + 1 : i \in 1..l \/ i = l + 1
  OBVIOUS
<1>3. F[Len(E) + 1] = e /\ \A i \in 1..Len(E) : F[i] = E[i]
  BY <1>1, <1>2
<1>4. Elements(F) = Elements(E) \cup {e}
  BY <1>1, <1>2, <1>3 DEF Elements
<1> QED
  BY <1>1, <1>3, <1>4 DEF F

\* An event that starts where the scan is.
LEMMA OneMore ==
    ASSUME NEW w, NEW E \in Seq(Event), NEW e \in Event, NEW o \in Nat, NEW p \in Nat, NEW X,
           Good(w, E, o, X), e.at = o, End(e) = p, o <= p, Stands(w, p, e),
           \A i \in o..p - 1 : Within({e}, i) \/ Decided(w, {e}, i)
    PROVE  Good(w, E \o <<e>>, p, X)
<1> DEFINE F == E \o <<e>>
           l == Len(E)
<1>1. /\ F \in Seq(Event) /\ l \in Nat /\ Len(F) = l + 1
      /\ \A i \in 1..l : F[i] = E[i]
      /\ F[l + 1] = e /\ Elements(F) = Elements(E) \cup {e}
  BY Extended
<1>2. \A f \in Elements(E) : f \in Event /\ End(f) \in Nat /\ Stands(w, o, f) /\ End(f) <= o
  BY ElementsType DEF Good, Sound, Stands
<1> HIDE DEF F, l
<1>3. Sound(w, F, p)
  <2>1. \A f \in Elements(E) : Stands(w, p, f)
    BY <1>2 DEF Stands
  <2> QED
    BY <1>1, <2>1 DEF Sound
<1>4. Ordered(F)
  <2>1. SUFFICES ASSUME NEW i \in 1..l PROVE End(F[i]) <= F[i + 1].at
    BY <1>1 DEF Ordered
  <2>2. i \in 1..l - 1 \/ i = l
    BY <1>1
  <2>3. CASE i \in 1..l - 1
    <3>1. i \in 1..l /\ i + 1 \in 1..l
      BY <1>1, <2>3
    <3>2. End(E[i]) <= E[i + 1].at
      BY <2>3 DEF Good, Ordered, l
    <3> QED
      BY <1>1, <3>1, <3>2
  <2>4. CASE i = l
    <3>1. E[l] \in Elements(E)
      BY <2>1, <2>4 DEF Elements, l
    <3>2. End(E[l]) <= o
      BY <1>2, <3>1
    <3> QED
      BY <1>1, <2>1, <2>4, <3>2
  <2> QED
    BY <2>2, <2>3, <2>4
<1>5. Covered(w, F, p, X)
  <2>1. SUFFICES ASSUME NEW i \in 0..p - 1
                 PROVE  i \in X \/ Within(Elements(F), i) \/ Decided(w, Elements(F), i)
    BY DEF Covered
  <2>2. i \in 0..o - 1 \/ i \in o..p - 1
    OBVIOUS
  <2>3. CASE i \in 0..o - 1
    <3>1. i \in X \/ Within(Elements(E), i) \/ Decided(w, Elements(E), i)
      BY <2>3 DEF Good, Covered
    <3> QED
      BY <1>1, <3>1 DEF Within, Decided
  <2>4. CASE i \in o..p - 1
    BY <1>1, <2>4 DEF Within, Decided
  <2> QED
    BY <2>2, <2>3, <2>4
<1> QED
  BY <1>3, <1>4, <1>5 DEF Good, F

\* A byte that starts nothing.
LEMMA NoMore ==
    ASSUME NEW w, NEW E \in Seq(Event), NEW o \in Nat, NEW X,
           Good(w, E, o, X), o \in X \/ Decided(w, {}, o)
    PROVE  Good(w, E, o + 1, X)
<1>1. \A e \in Elements(E) : e \in Event /\ End(e) \in Nat
  BY ElementsType
<1>2. Sound(w, E, o + 1)
  <2>1. \A k \in Nat : k <= o => k <= o + 1
    OBVIOUS
  <2> QED
    BY <1>1, <2>1 DEF Good, Sound, Stands
<1>3. Covered(w, E, o + 1, X)
  <2>1. \A i \in 0..o + 1 - 1 : i \in 0..o - 1 \/ i = o
    OBVIOUS
  <2>2. o \in X \/ Decided(w, Elements(E), o)
    BY DEF Decided
  <2> QED
    BY <2>1, <2>2 DEF Good, Covered
<1> QED
  BY <1>2, <1>3 DEF Good

\* The scan is at s of the stream w.
Reaches(w, s) == s.offset <= Len(w) /\ s.buffer = Rest(w, s.offset)

LEMMA ReachesOn ==
    ASSUME NEW w \in Seq(Byte), NEW s \in State, Reaches(w, s), ~Waits(s.buffer)
    PROVE  /\ Reaches(w, After(s)) /\ After(s).offset = s.offset + Taken(s.buffer)
           /\ s.offset + Taken(s.buffer) \in Nat /\ s.offset <= s.offset + Taken(s.buffer)
           /\ SubSeq(s.buffer, 1, Taken(s.buffer)) = SubSeq(w, s.offset + 1, s.offset + Taken(s.buffer))
<1> DEFINE o == s.offset
           b == s.buffer
           n == Taken(b)
<1>1. o \in Nat /\ b \in Seq(Byte) /\ b = Rest(w, o) /\ Len(w) \in Nat /\ o <= Len(w)
  BY DEF State, Reaches
<1>2. Len(b) = Len(w) - o
  BY <1>1, RestIs
<1>3. n \in Nat /\ 1 <= n /\ n <= Len(b) /\ Len(b) \in Nat
  BY <1>1, TakenBounds
<1>4. SubSeq(b, 1, n) = SubSeq(w, o + 1, o + n) /\ Rest(b, n) = Rest(w, o + n)
  <2>1. n <= Len(w) - o
    BY <1>2, <1>3
  <2> HIDE DEF o, n, b
  <2> QED
    BY <1>1, <1>3, <2>1, RestPieces
<1>5. After(s).offset = o + n /\ After(s).buffer = Rest(w, o + n)
  BY <1>4 DEF After, Discard, Rest
<1>6. o + n <= Len(w) /\ o + n \in Nat /\ o <= o + n
  <2> HIDE DEF o, n, b
  <2> QED
    BY <1>1, <1>2, <1>3
<1>7. Reaches(w, After(s))
  BY <1>5, <1>6 DEF Reaches
<1> QED
  BY <1>4, <1>5, <1>6, <1>7

\* A turn keeps the invariant.
LEMMA GoodTurn ==
    ASSUME NEW w \in Seq(Byte), NEW s \in State, NEW E \in Seq(Event), NEW X,
           Reaches(w, s), ~Waits(s.buffer), Good(w, E, s.offset, X)
    PROVE  Reaches(w, After(s)) /\ Good(w, E \o New(s), After(s).offset, X)
<1> DEFINE o == s.offset
           b == s.buffer
           n == Taken(b)
           e == Item(s, n)
<1>1. o \in Nat /\ b \in Seq(Byte) /\ b = Rest(w, o)
  BY DEF State, Reaches
<1>2. n \in Nat /\ 1 <= n /\ n <= Len(b) /\ Len(b) \in Nat
  BY <1>1, TakenBounds
<1>3. b # <<>> /\ (Head(b) = STX => ~Incomplete(b))
  BY DEF Waits
<1>4. /\ Reaches(w, After(s)) /\ After(s).offset = o + n /\ o + n \in Nat /\ o <= o + n
      /\ SubSeq(b, 1, n) = SubSeq(w, o + 1, o + n)
  BY ReachesOn
<1>5. /\ Len(SubSeq(b, 1, n)) = n /\ Head(SubSeq(b, 1, n)) = Head(b)
  <2> HIDE DEF n, b
  <2>1. 1 \in 1..Len(b) /\ n \in 1..Len(b) /\ n - 1 + 1 = n
    BY <1>2
  <2>2. Head(SubSeq(b, 1, n)) = b[1]
    BY <1>1, <2>1, HeadTailOfSubSeq
  <2>3. Len(SubSeq(b, 1, n)) = n
    BY <1>1, <1>2, <2>1, Piece
  <2>4. \A q \in Seq(Byte) : Head(q) = q[1]
    OBVIOUS
  <2> QED
    BY <1>1, <2>2, <2>3, <2>4
<1>6. e \in Event /\ e.at = o /\ e.bytes = SubSeq(w, o + 1, o + n) /\ Len(e.bytes) = n /\ Head(e.bytes) = Head(b)
  BY <1>4, <1>5, NewType DEF Item
<1> HIDE DEF e, n, b, o
<1>7. End(e) = o + n
  BY <1>6 DEF End
<1>8. Len(e.bytes) >= 1 /\ End(e) <= o + n /\ e.bytes = SubSeq(w, e.at + 1, End(e))
  <2>1. o + n <= o + n
    BY <1>4
  <2> QED
    BY <1>2, <1>6, <1>7, <2>1
<1>9. CASE Head(b) \in Control
  <2>1. Head(b) # STX /\ n = 1 /\ Found(b)
    BY <1>9, FramerAssumption DEF Control, Taken, Found, n
  <2>2. Stands(w, o + n, e)
    BY <1>6, <1>8, <2>1 DEF Stands
  <2>3. Decided(w, {e}, o)
    BY <1>1, <1>6, <2>1 DEF Decided
  <2>4. \A i \in o..(o + n) - 1 : i = o
    BY <1>1, <2>1
  <2>5. Good(w, E \o <<e>>, o + n, X)
    <3>1. \A i \in o..(o + n) - 1 : Within({e}, i) \/ Decided(w, {e}, i)
      BY <2>3, <2>4
    <3>2. Good(w, E, o, X)
      BY DEF o
    <3> DEFINE p == o + n
    <3>3. o \in Nat /\ p \in Nat /\ o <= p /\ e \in Event /\ e.at = o
      BY <1>1, <1>4, <1>6, Zenon
    <3>4. End(e) = p
      BY <1>7
    <3>5. Stands(w, p, e)
      BY <2>2
    <3>6. \A i \in o..p - 1 : Within({e}, i) \/ Decided(w, {e}, i)
      BY <3>1
    <3>7. Good(w, E \o <<e>>, p, X)
      <4> HIDE DEF p
      <4> QED
        BY <3>2, <3>3, <3>4, <3>5, <3>6, OneMore
    <3> QED
      BY <3>7
  <2> QED
    BY <1>4, <2>1, <2>5 DEF New, e, n, b
<1>10. CASE Head(b) = STX /\ IsTelegram(b)
  <2>1. n = Announced(b) /\ Found(b) /\ Complete(b)
    BY <1>3, <1>10 DEF Taken, Found, Complete, n
  <2>2. Stands(w, o + n, e)
    BY <1>1, <1>6, <1>8, <2>1 DEF Stands
  <2>3. Decided(w, {e}, o)
    BY <1>1, <1>3, <1>6, <1>10 DEF Decided
  <2>4. \A i \in o..(o + n) - 1 : i = o \/ (o < i /\ i < o + n)
    BY <1>1, <1>2
  <2>5. \A i \in o..(o + n) - 1 : i = o \/ Within({e}, i)
    BY <1>6, <1>7, <1>10, <2>4 DEF Within
  <2>6. Good(w, E \o <<e>>, o + n, X)
    <3>1. \A i \in o..(o + n) - 1 : Within({e}, i) \/ Decided(w, {e}, i)
      BY <2>3, <2>5
    <3>2. Good(w, E, o, X)
      BY DEF o
    <3> DEFINE p == o + n
    <3>3. o \in Nat /\ p \in Nat /\ o <= p /\ e \in Event /\ e.at = o
      BY <1>1, <1>4, <1>6, Zenon
    <3>4. End(e) = p
      BY <1>7
    <3>5. Stands(w, p, e)
      BY <2>2
    <3>6. \A i \in o..p - 1 : Within({e}, i) \/ Decided(w, {e}, i)
      BY <3>1
    <3>7. Good(w, E \o <<e>>, p, X)
      <4> HIDE DEF p
      <4> QED
        BY <3>2, <3>3, <3>4, <3>5, <3>6, OneMore
    <3> QED
      BY <3>7
  <2> QED
    BY <1>4, <2>1, <2>6 DEF New, e, n, b
<1>11. CASE Head(b) \notin Control /\ ~(Head(b) = STX /\ IsTelegram(b))
  <2>1. n = 1 /\ ~Found(b)
    BY <1>11 DEF Taken, Found, Skipped, n
  <2>2. Decided(w, {}, o)
    BY <1>1, <1>3, <1>11 DEF Decided
  <2>3. Good(w, E, o + n, X)
    BY <1>1, <2>1, <2>2, NoMore DEF o
  <2>4. E \o <<>> = E
    BY ConcatEmptySeq
  <2> QED
    BY <1>4, <2>1, <2>3, <2>4 DEF New, b
<1> QED
  BY <1>9, <1>10, <1>11

\* So does a whole scan, which stops at the end or at an incomplete candidate.
LEMMA GoodScan ==
    ASSUME NEW w \in Seq(Byte), NEW s \in State, NEW E \in Seq(Event), NEW X,
           Reaches(w, s), Good(w, E, s.offset, X)
    PROVE  /\ Scan[s] \in Result /\ Reaches(w, Scan[s]) /\ Waits(Scan[s].buffer)
           /\ E \o Scan[s].events \in Seq(Event) /\ Good(w, E \o Scan[s].events, Scan[s].offset, X)
<1> DEFINE Right(t) == Reaches(w, t) => /\ Reaches(w, Scan[t]) /\ Waits(Scan[t].buffer)
                                        /\ \A D \in Seq(Event) : Good(w, D, t.offset, X) =>
                                             Good(w, D \o Scan[t].events, Scan[t].offset, X)
           T == {t \in State : ~Right(t)}
<1>1. SUFFICES T = {}
  <2>1. Scan[s] \in Result
    BY ScanType
  <2>2. E \o Scan[s].events \in Seq(Event)
    BY <2>1, ConcatProperties DEF Result
  <2>3. ASSUME T = {} PROVE Right(s)
    BY <2>3
  <2> QED
    BY <2>1, <2>2, <2>3
<1>2. SUFFICES ASSUME T # {} PROVE FALSE
  OBVIOUS
<1>3. PICK t \in T : \A u \in T : Size(t) <= Size(u)
  <2>1. T \subseteq State
    OBVIOUS
  <2> HIDE DEF T
  <2> QED
    BY <1>2, <2>1, Shortest
<1>4. t \in State /\ ~Right(t)
  BY <1>3
<1>5. CASE Waits(t.buffer)
  <2>1. /\ Scan[t].events = <<>> /\ Scan[t].offset = t.offset /\ Scan[t].buffer = t.buffer
    <3>1. Scan[t] = [events |-> <<>>, offset |-> t.offset, buffer |-> t.buffer]
      BY <1>4, <1>5, ScanStops
    <3>2. \A r, u : r = [events |-> <<>>, offset |-> u.offset, buffer |-> u.buffer]
                    => r.events = <<>> /\ r.offset = u.offset /\ r.buffer = u.buffer
      OBVIOUS
    <3> HIDE DEF Right, T
    <3> QED
      BY <3>1, <3>2
  <2>2. \A D \in Seq(Event) : D \o <<>> = D
    BY ConcatEmptySeq
  <2> QED
    BY <1>4, <1>5, <2>1, <2>2 DEF Reaches
<1>6. CASE ~Waits(t.buffer)
  <2>1. After(t) \in State /\ Size(After(t)) < Size(t) /\ Size(t) \in Nat /\ Size(After(t)) \in Nat
    BY <1>4, <1>6, Turn DEF After
  <2>2. ~(Size(t) <= Size(After(t)))
    BY <2>1
  <2>3. Right(After(t))
    BY <1>3, <2>1, <2>2
  <2>4. /\ Scan[After(t)] \in Result /\ Scan[t].events = New(t) \o Scan[After(t)].events
        /\ Scan[t].offset = Scan[After(t)].offset /\ Scan[t].buffer = Scan[After(t)].buffer
    BY <1>4, <1>6, ScanTurns
  <2>5. New(t) \in Seq(Event) /\ Scan[After(t)].events \in Seq(Event)
    BY <1>4, <1>6, <2>4, NewType DEF Result
  <2>6. ASSUME Reaches(w, t), NEW D \in Seq(Event), Good(w, D, t.offset, X)
        PROVE  Reaches(w, After(t)) /\ Good(w, D \o Scan[t].events, Scan[t].offset, X)
    <3>1. Reaches(w, After(t)) /\ Good(w, D \o New(t), After(t).offset, X)
      BY <1>4, <1>6, <2>6, GoodTurn
    <3>2. D \o New(t) \in Seq(Event)
      BY <2>5, ConcatProperties
    <3>3. Good(w, (D \o New(t)) \o Scan[After(t)].events, Scan[After(t)].offset, X)
      BY <2>3, <3>1, <3>2
    <3>4. (D \o New(t)) \o Scan[After(t)].events = D \o (New(t) \o Scan[After(t)].events)
      <4>1. \A x, y, z \in Seq(Event) : (x \o y) \o z = x \o (y \o z)
        BY ConcatAssociative, SMTT(30)
      <4> QED
        BY <2>5, <4>1
    <3> QED
      BY <2>4, <3>1, <3>3, <3>4
  <2>7. ASSUME Reaches(w, t) PROVE Reaches(w, After(t))
    BY <1>4, <1>6, <2>7, ReachesOn
  <2>8. Reaches(w, t) => Reaches(w, Scan[t]) /\ Waits(Scan[t].buffer)
    BY <2>3, <2>4, <2>7 DEF Reaches
  <2>9. Right(t)
    BY <2>6, <2>8
  <2> QED
    BY <1>4, <2>9
<1> QED
  BY <1>5, <1>6

\* Wherever a scan starts, it stays within the bytes that are there.
LEMMA ScanBounds ==
    ASSUME NEW s \in State
    PROVE  /\ Scan[s] \in Result /\ Waits(Scan[s].buffer)
           /\ Scan[s].offset + Len(Scan[s].buffer) = s.offset + Len(s.buffer)
           /\ \A e \in Elements(Scan[s].events) : e \in Event /\ e.at < s.offset + Len(s.buffer)
<1> DEFINE o == s.offset
           b == s.buffer
           pad == [i \in 1..o |-> STX]
           w == pad \o b
           r == Scan[s]
<1>1. o \in Nat /\ b \in Seq(Byte) /\ Len(b) \in Nat
  BY DEF State
<1> HIDE DEF o, b, r
<1>2. pad \in Seq(Byte) /\ Len(pad) = o
  <2>1. pad \in [1..o -> Byte]
    BY FramerAssumption
  <2> QED
    BY <1>1, <2>1, SeqDef
<1> HIDE DEF pad
<1>3. w \in Seq(Byte) /\ Len(w) = o + Len(b)
  BY <1>1, <1>2, ConcatProperties
<1>4. Rest(w, o) = b
  <2>1. o <= Len(pad)
    BY <1>1, <1>2
  <2>2. Rest(w, o) = Rest(pad, o) \o b
    BY <1>1, <1>2, <2>1, RestOfConcat DEF Rest
  <2>3. Rest(pad, o) = <<>>
    <3>1. o + 1 \in Int /\ o \in Int /\ o < o + 1
      BY <1>1
    <3> QED
      BY <1>2, <3>1, SubSeqEmpty DEF Rest
  <2> QED
    BY <1>1, <2>2, <2>3, ConcatEmptySeq
<1> HIDE DEF w
<1>5. Reaches(w, s)
  <2>1. o <= Len(w)
    BY <1>1, <1>3
  <2> QED
    BY <1>4, <2>1 DEF Reaches, o, b
<1>6. <<>> \in Seq(Event) /\ Good(w, <<>>, s.offset, 0..o)
  <2>1. Elements(<<>>) = {} /\ Ordered(<<>>)
    BY DEF Elements, Ordered
  <2>2. \A i \in 0..o - 1 : i \in 0..o
    BY <1>1
  <2> QED
    BY <2>1, <2>2, EmptySeq DEF Good, Sound, Covered, o
<1>7. /\ r \in Result /\ Reaches(w, r) /\ Waits(r.buffer) /\ Good(w, <<>> \o r.events, r.offset, 0..o)
  BY <1>3, <1>5, <1>6, GoodScan DEF r
<1>8. r.events \in Seq(Event) /\ r.offset \in Nat /\ r.offset <= Len(w) /\ r.buffer = Rest(w, r.offset)
  BY <1>7 DEF Result, Reaches
<1>9. Good(w, r.events, r.offset, 0..o)
  BY <1>7, <1>8, ConcatEmptySeq
<1>10. Len(r.buffer) = Len(w) - r.offset
  BY <1>3, <1>8, RestIs
<1>11. \A l, m \in Nat : m <= l => m + (l - m) = l
  OBVIOUS
<1>12. r.offset + Len(r.buffer) = o + Len(b)
  <2>1. Len(w) \in Nat
    BY <1>3
  <2> QED
    BY <1>3, <1>8, <1>10, <1>11, <2>1
<1>13. ASSUME NEW e \in Elements(r.events) PROVE e \in Event /\ e.at < o + Len(b)
  <2>1. e \in Event /\ Stands(w, r.offset, e)
    BY <1>8, <1>9, ElementsType DEF Good, Sound
  <2>2. e.at \in Nat /\ Len(e.bytes) \in Nat
    BY <2>1 DEF Event
  <2>3. Len(e.bytes) >= 1 /\ e.at + Len(e.bytes) <= r.offset
    BY <2>1 DEF Stands, End
  <2>4. \A a, k, l, m \in Nat : k >= 1 /\ a + k <= m /\ m <= l => a < l
    OBVIOUS
  <2>5. o + Len(b) \in Nat
    BY <1>1
  <2> QED
    BY <1>3, <1>8, <2>1, <2>2, <2>3, <2>4, <2>5
<1> QED
  BY <1>7, <1>12, <1>13 DEF r, o, b

-----------------------------------------------------------------------------
(* The invariant holds of a longer stream.                                 *)

LEMMA RestOn ==
    ASSUME NEW w \in Seq(Byte), NEW d \in Seq(Byte), NEW i \in Nat, i < Len(w)
    PROVE  /\ Rest(w, i) \in Seq(Byte) /\ Rest(w, i) # <<>> /\ Rest(w \o d, i) = Rest(w, i) \o d
           /\ Head(Rest(w, i)) = w[i + 1]
<1>1. Len(w) \in Nat /\ i <= Len(w) /\ Len(w) - i # 0 /\ 1 \in 1..Len(w) - i
  OBVIOUS
<1>2. /\ Rest(w, i) \in Seq(Byte) /\ Len(Rest(w, i)) = Len(w) - i /\ Rest(w, i)[1] = w[i + 1]
  BY <1>1, RestIs
<1>3. Len(<<>>) = 0 /\ \A q \in Seq(Byte) : Head(q) = q[1]
  OBVIOUS
<1>4. Rest(w \o d, i) = Rest(w, i) \o d
  BY <1>1, RestOfConcat DEF Rest
<1> QED
  BY <1>1, <1>2, <1>3, <1>4

LEMMA GoodLonger ==
    ASSUME NEW w \in Seq(Byte), NEW d \in Seq(Byte), NEW E \in Seq(Event), NEW X,
           NEW o \in Nat, o <= Len(w), Good(w, E, o, X)
    PROVE  Good(w \o d, E, o, X)
<1>1. Len(w) \in Nat
  OBVIOUS
<1>2. ASSUME NEW e \in Elements(E) PROVE Stands(w \o d, o, e)
  <2>1. e \in Event /\ End(e) \in Nat /\ Stands(w, o, e)
    BY ElementsType DEF Good, Sound
  <2>2. e.at \in Nat /\ Len(e.bytes) \in Nat /\ Len(e.bytes) >= 1 /\ End(e) = e.at + Len(e.bytes) /\ End(e) <= o
    BY <2>1 DEF Event, End, Stands
  <2>3. \A a, l, n \in Nat : l >= 1 /\ a + l <= o /\ o <= n => a < n /\ a + 1 \in 1..n /\ a + l \in 1..n
    OBVIOUS
  <2>4. e.at < Len(w) /\ e.at + 1 \in 1..Len(w) /\ End(e) \in 1..Len(w)
    BY <1>1, <2>2, <2>3
  <2>5. SubSeq(w \o d, e.at + 1, End(e)) = SubSeq(w, e.at + 1, End(e))
    BY <2>4, SubSeqOfConcat1
  <2>6. /\ Rest(w, e.at) \in Seq(Byte) /\ Rest(w, e.at) # <<>> /\ Rest(w \o d, e.at) = Rest(w, e.at) \o d
    BY <2>2, <2>4, RestOn
  <2>7. Complete(Rest(w, e.at)) => /\ Complete(Rest(w \o d, e.at))
                                   /\ Announced(Rest(w \o d, e.at)) = Announced(Rest(w, e.at))
    BY <2>6, Stable DEF Complete
  <2> QED
    BY <2>1, <2>5, <2>7 DEF Stands
<1>3. ASSUME NEW i \in 0..o - 1, Decided(w, Elements(E), i) PROVE Decided(w \o d, Elements(E), i)
  <2>1. i \in Nat /\ i < Len(w)
    BY <1>1, <1>3
  <2>2. /\ Rest(w, i) \in Seq(Byte) /\ Rest(w, i) # <<>> /\ Rest(w \o d, i) = Rest(w, i) \o d
    BY <2>1, RestOn
  <2>3. /\ Head(Rest(w \o d, i)) = Head(Rest(w, i))
        /\ ~Incomplete(Rest(w, i)) => /\ ~Incomplete(Rest(w \o d, i))
                                      /\ IsTelegram(Rest(w \o d, i)) <=> IsTelegram(Rest(w, i))
    BY <2>2, Stable
  <2> QED
    BY <1>3, <2>3 DEF Decided
<1> QED
  BY <1>2, <1>3 DEF Good, Sound, Covered

-----------------------------------------------------------------------------
(* The inductive invariant.                                                *)

Here == [offset |-> offset, buffer |-> buffer]

\* The buffer is the end of the stream, at which the loop waits.
Placed == /\ raw \in Seq(Byte) /\ Len(raw) <= MaxBytes /\ offset \in Nat /\ buffer \in Seq(Byte)
          /\ Reaches(raw, Here) /\ Waits(buffer)

\* The events are right so far.
Told == events \in Seq(Event) /\ Good(raw, events, offset, expired)

GivenUp == expired \subseteq 0..Len(raw)

IInv == Placed /\ Told /\ GivenUp /\ SplitIndependent

LEMMA Empty == Good(<<>>, <<>>, 0, {}) /\ <<>> \in Seq(Byte) /\ <<>> \in Seq(Event) /\ Rest(<<>>, 0) = <<>>
<1>1. Elements(<<>>) = {} /\ Ordered(<<>>)
  BY DEF Elements, Ordered
<1>2. Good(<<>>, <<>>, 0, {})
  BY <1>1 DEF Good, Sound, Covered
<1>3. Rest(<<>>, 0) = <<>>
  BY SubSeqEmpty DEF Rest
<1> QED
  BY <1>2, <1>3, EmptySeq

LEMMA Start ==
    ASSUME Init
    PROVE  IInv
<1>1. raw = <<>> /\ buffer = <<>> /\ offset = 0 /\ events = <<>> /\ expired = {}
  BY DEF Init
<1>2. Len(raw) = 0 /\ Waits(buffer) /\ 0 <= MaxBytes
  BY <1>1, FramingAssumption DEF Waits
<1>3. Placed
  BY <1>1, <1>2, Empty DEF Placed, Reaches, Here
<1>4. Told /\ GivenUp
  BY <1>1, Empty DEF Told, GivenUp
<1>5. SplitIndependent
  <2> DEFINE s == [offset |-> 0, buffer |-> raw]
  <2>1. s \in State /\ Waits(s.buffer)
    BY <1>1, <1>2, Empty DEF State
  <2>2. Scan[s] = [events |-> <<>>, offset |-> s.offset, buffer |-> s.buffer]
    <3> HIDE DEF s
    <3> QED
      BY <2>1, ScanStops
  <2> QED
    BY <1>1, <2>2 DEF SplitIndependent
<1> QED
  BY <1>3, <1>4, <1>5 DEF IInv

\* A scan that starts right ends right.
LEMMA Applied ==
    ASSUME raw' \in Seq(Byte), Len(raw') <= MaxBytes, NEW s \in State, events \in Seq(Event),
           Reaches(raw', s), Good(raw', events, s.offset, expired'), Apply(Scan[s])
    PROVE  Placed' /\ Told'
<1> DEFINE r == Scan[s]
<1>1. /\ r \in Result /\ Reaches(raw', r) /\ Waits(r.buffer)
      /\ events \o r.events \in Seq(Event) /\ Good(raw', events \o r.events, r.offset, expired')
  BY GoodScan
<1>2. buffer' = r.buffer /\ offset' = r.offset /\ events' = events \o r.events
  BY DEF Apply
<1> HIDE DEF r
<1>3. offset' \in Nat /\ buffer' \in Seq(Byte)
  BY <1>1, <1>2 DEF Result
<1>4. Placed'
  BY <1>1, <1>2, <1>3 DEF Placed, Reaches, Here
<1> QED
  BY <1>1, <1>2, <1>4 DEF Told

LEMMA ReadStep ==
    ASSUME IInv, NEW n \in 1..MaxRead, NEW data \in [1..n -> Byte], Read(data)
    PROVE  IInv'
<1>1. /\ raw \in Seq(Byte) /\ offset \in Nat /\ buffer \in Seq(Byte) /\ offset <= Len(raw)
      /\ buffer = Rest(raw, offset) /\ Here \in State
  BY DEF IInv, Placed, Reaches, Here, State
<1>2. data \in Seq(Byte)
  <2>1. n \in Nat
    BY FramingAssumption
  <2> QED
    BY <2>1, SeqDef
<1>3. raw' = raw \o data /\ raw' \in Seq(Byte) /\ Len(raw') = Len(raw) + Len(data) /\ Len(raw') <= MaxBytes
  BY <1>1, <1>2, ConcatProperties DEF Read
<1> DEFINE s == Longer(Here, data)
<1>4. s \in State /\ s.offset = offset /\ s.buffer = buffer \o data
  BY <1>1, <1>2, LongerType DEF Here
<1>5. Reaches(raw', s)
  <2>1. Rest(raw \o data, offset) = buffer \o data
    BY <1>1, <1>2, RestOfConcat DEF Rest
  <2>2. offset <= Len(raw')
    BY <1>1, <1>2, <1>3
  <2> QED
    BY <1>3, <1>4, <2>1, <2>2 DEF Reaches
<1>6. expired' = expired /\ Apply(Scan[s])
  BY DEF Read, Feed, Longer, Here
<1>7. Good(raw', events, s.offset, expired') /\ events \in Seq(Event)
  <2>1. events \in Seq(Event) /\ Good(raw, events, offset, expired)
    BY DEF IInv, Told
  <2> QED
    BY <1>1, <1>2, <1>3, <1>4, <1>6, <2>1, GoodLonger
<1> HIDE DEF s
<1>8. Placed' /\ Told'
  BY <1>3, <1>4, <1>5, <1>6, <1>7, Applied
<1>9. GivenUp'
  <2>1. \A l, m \in Nat : 0..l \subseteq 0..l + m
    OBVIOUS
  <2>2. expired \subseteq 0..Len(raw) /\ Len(raw) \in Nat /\ Len(data) \in Nat
    BY <1>1, <1>2 DEF IInv, GivenUp
  <2> QED
    BY <1>3, <1>6, <2>1, <2>2 DEF GivenUp
<1>10. SplitIndependent'
  <2>1. SUFFICES ASSUME expired' = {}
                 PROVE  Scan[[offset |-> 0, buffer |-> raw']] =
                          [events |-> events', offset |-> offset', buffer |-> buffer']
    BY DEF SplitIndependent
  <2> DEFINE z == [offset |-> 0, buffer |-> raw]
             r == Scan[z]
             q == Scan[[offset |-> r.offset, buffer |-> r.buffer \o data]]
  <2>2. r = [events |-> events, offset |-> offset, buffer |-> buffer]
    BY <1>6, <2>1 DEF IInv, SplitIndependent
  <2>3. z \in State /\ Longer(z, data) = [offset |-> 0, buffer |-> raw']
    BY <1>1, <1>3 DEF State, Longer
  <2>4. Scan[Longer(z, data)] = [events |-> r.events \o q.events, offset |-> q.offset, buffer |-> q.buffer]
    <3> HIDE DEF z
    <3> QED
      BY <1>2, <2>3, ScanGoesOn
  <2>5. r.events = events /\ q = Scan[s]
    BY <2>2 DEF s, Longer, Here
  <2>6. buffer' = q.buffer /\ offset' = q.offset /\ events' = events \o q.events
    <3> HIDE DEF q
    <3> QED
      BY <1>6, <2>5 DEF Apply
  <2> QED
    BY <2>3, <2>4, <2>5, <2>6
<1> QED
  BY <1>8, <1>9, <1>10 DEF IInv

LEMMA IdleStep ==
    ASSUME IInv, Idle
    PROVE  IInv'
<1>1. /\ raw \in Seq(Byte) /\ offset \in Nat /\ buffer \in Seq(Byte) /\ offset <= Len(raw)
      /\ buffer = Rest(raw, offset) /\ Here \in State /\ Len(raw) <= MaxBytes
  BY DEF IInv, Placed, Reaches, Here, State
<1>2. buffer # <<>> /\ raw' = raw /\ expired' = expired \cup {offset} /\ Apply(Scan[Discard(Here, 1)])
  BY DEF Idle, Expire, Here
<1>3. Len(buffer) = Len(raw) - offset /\ Len(raw) \in Nat /\ Len(buffer) \in Nat \ {0}
  BY <1>1, <1>2, RestIs, EmptySeq
<1> DEFINE s == Discard(Here, 1)
<1>4. s \in State /\ s.offset = offset + 1
  <2>1. 1 \in Nat /\ 1 <= 1 /\ 1 <= Len(Here.buffer) /\ Here.offset = offset
    BY <1>3 DEF Here
  <2> QED
    BY <1>1, <2>1, Discarded
<1>5. Reaches(raw', s)
  <2>1. 1 \in Nat /\ 1 <= Len(raw) - offset /\ offset + 1 <= Len(raw)
    BY <1>1, <1>3
  <2>2. Rest(Rest(raw, offset), 1) = Rest(raw, offset + 1)
    BY <1>1, <2>1, RestPieces
  <2>3. s.buffer = Rest(buffer, 1)
    BY DEF Discard, Here, Rest
  <2> QED
    BY <1>1, <1>2, <1>4, <2>1, <2>2, <2>3 DEF Reaches
<1>6. Good(raw', events, s.offset, expired') /\ events \in Seq(Event)
  <2>1. events \in Seq(Event) /\ Good(raw, events, offset, expired)
    BY DEF IInv, Told
  <2>2. Good(raw, events, offset, expired')
    BY <1>2, <2>1 DEF Good, Covered
  <2> QED
    BY <1>1, <1>2, <1>4, <2>1, <2>2, NoMore
<1> HIDE DEF s
<1>7. Placed' /\ Told'
  BY <1>1, <1>2, <1>4, <1>5, <1>6, Applied DEF s
<1>8. GivenUp'
  BY <1>1, <1>2 DEF IInv, GivenUp
<1>9. SplitIndependent'
  BY <1>2 DEF SplitIndependent
<1> QED
  BY <1>7, <1>8, <1>9 DEF IInv

LEMMA ResetStep ==
    ASSUME Reset
    PROVE  IInv'
<1>1. raw' = <<>> /\ buffer' = <<>> /\ offset' = 0 /\ events' = <<>> /\ expired' = {}
  BY DEF Reset
<1>2. Len(raw') = 0 /\ Waits(buffer') /\ 0 <= MaxBytes
  BY <1>1, FramingAssumption DEF Waits
<1>3. Placed'
  BY <1>1, <1>2, Empty DEF Placed, Reaches, Here
<1>4. Told' /\ GivenUp'
  BY <1>1, Empty DEF Told, GivenUp
<1>5. SplitIndependent'
  <2> DEFINE s == [offset |-> 0, buffer |-> raw']
  <2>1. s \in State /\ Waits(s.buffer)
    BY <1>1, <1>2, Empty DEF State
  <2>2. Scan[s] = [events |-> <<>>, offset |-> s.offset, buffer |-> s.buffer]
    <3> HIDE DEF s
    <3> QED
      BY <2>1, ScanStops
  <2> QED
    BY <1>1, <2>2 DEF SplitIndependent
<1> QED
  BY <1>3, <1>4, <1>5 DEF IInv

\* The events are right, and the buffer is what is left, after every step.
THEOREM Invariance == Spec => []IInv
<1>1. Init => IInv
  BY Start
<1>2. IInv /\ [Next]_vars => IInv'
  <2>1. SUFFICES ASSUME IInv, [Next]_vars PROVE IInv'
    OBVIOUS
  <2>2. CASE Idle
    BY <2>1, <2>2, IdleStep
  <2>3. CASE Reset
    BY <2>3, ResetStep
  <2>4. ASSUME NEW n \in 1..MaxRead, NEW data \in [1..n -> Byte], Read(data) PROVE IInv'
    BY <2>1, <2>4, ReadStep
  <2>5. CASE UNCHANGED vars
    BY <2>1, <2>5 DEF vars, IInv, Placed, Told, GivenUp, SplitIndependent, Here
  <2> QED
    BY <2>1, <2>2, <2>3, <2>4, <2>5 DEF Next
<1> QED
  BY <1>1, <1>2, PTL DEF Spec

-----------------------------------------------------------------------------
(* Theorems.                                                               *)

\* The buffer is the end of the stream and shorter than the longest telegram, so noise
\* cannot make it grow, whatever arrives in whatever pieces (the break of feed's loop).
THEOREM TypeCorrect == Spec => []TypeOK
<1>1. ASSUME IInv PROVE TypeOK
  <2>1. /\ raw \in Seq(Byte) /\ Len(raw) \in Nat /\ Len(raw) <= MaxBytes /\ offset \in Nat
        /\ offset <= Len(raw) /\ buffer \in Seq(Byte) /\ buffer = Rest(raw, offset) /\ Waits(buffer)
    BY <1>1 DEF IInv, Placed, Reaches, Here
  <2>2. HeaderLen \in Nat /\ HeaderLen >= 1 /\ MaxTotal \in Nat /\ HeaderLen <= MaxTotal /\ MaxBytes \in Nat
    BY FramerAssumption, FramingAssumption
  <2>3. Len(buffer) < MaxTotal
    <3>1. Len(buffer) \in Nat
      BY <2>1
    <3>2. CASE buffer = <<>>
      BY <2>2, <3>2
    <3>3. CASE Len(buffer) < HeaderLen
      BY <2>2, <3>1, <3>3
    <3>4. CASE Len(buffer) >= HeaderLen /\ Len(buffer) < Announced(buffer)
      <4>1. Announced(buffer) \in Nat /\ Announced(buffer) <= MaxTotal
        BY <2>1, <3>4, HeaderType, FramingAssumption DEF Announced
      <4> QED
        BY <2>2, <3>1, <3>4, <4>1
    <3> QED
      BY <2>1, <2>2, <3>1, <3>2, <3>3, <3>4 DEF Waits, Incomplete
  <2>4. events \in Seq([at : 0..MaxBytes, bytes : Seq(Byte)])
    <3>1. events \in Seq(Event) /\ Sound(raw, events, offset)
      BY <1>1 DEF IInv, Told, Good
    <3>2. Len(events) \in Nat /\ events \in [1..Len(events) -> Event]
      BY <3>1, LenProperties
    <3>3. ASSUME NEW i \in 1..Len(events) PROVE events[i] \in [at : 0..MaxBytes, bytes : Seq(Byte)]
      <4>1. events[i] \in Event /\ Stands(raw, offset, events[i])
        BY <3>1, <3>2 DEF Sound, Elements
      <4>2. /\ events[i].at \in Nat /\ Len(events[i].bytes) \in Nat
            /\ events[i].at + Len(events[i].bytes) <= offset
        BY <4>1 DEF Event, Stands, End
      <4>3. \A a, l \in Nat : a + l <= offset => a \in 0..MaxBytes
        BY <2>1, <2>2
      <4>4. events[i].at \in 0..MaxBytes
        BY <4>2, <4>3
      <4> QED
        BY <4>1, <4>4 DEF Event
    <3>4. events \in [1..Len(events) -> [at : 0..MaxBytes, bytes : Seq(Byte)]]
      BY <3>2, <3>3
    <3>5. \A S, q : \A l \in Nat : q \in [1..l -> S] => q \in Seq(S)
      BY SeqDef
    <3> HIDE DEF Event
    <3> QED
      BY <3>2, <3>4, <3>5, Zenon
  <2>5. offset \in 0..Len(raw) /\ expired \subseteq 0..Len(raw)
    BY <1>1, <2>1 DEF IInv, GivenUp
  <2> QED
    BY <2>1, <2>3, <2>4, <2>5 DEF TypeOK, Waits, Rest
<1> QED
  BY <1>1, Invariance, PTL

\* The events do not depend on how the stream is cut into reads (Framer.feed).
THEOREM CutsDoNotMatter == Spec => []SplitIndependent
<1>1. IInv => SplitIndependent
  BY DEF IInv
<1> QED
  BY <1>1, Invariance, PTL

\* The model's candidate is the properties' telegram.
LEMMA CompleteIsTelegram ==
    ASSUME raw \in Seq(Byte), NEW i \in Nat, i < Len(raw)
    PROVE  TelegramAt(i) <=> Complete(Rest(raw, i))
<1> DEFINE b == Rest(raw, i)
<1>1. b \in Seq(Byte) /\ At(i) = b /\ Len(b) \in Nat /\ HeaderLen \in Nat
  <2>1. i <= Len(raw)
    OBVIOUS
  <2> QED
    BY <2>1, RestIs, FramerAssumption DEF At, Rest
<1> HIDE DEF b
<1>2. Len(b) >= HeaderLen => Announced(b) \in Nat
  BY <1>1, HeaderType
<1>3. \A a, l \in Nat : a \in 1..l <=> a # 0 /\ ~(l < a)
  OBVIOUS
<1>4. ~(Len(b) < HeaderLen) <=> Len(b) >= HeaderLen
  BY <1>1
<1>5. Len(b) >= HeaderLen => (Announced(b) \in 1..Len(b) <=> Announced(b) # 0 /\ ~(Len(b) < Announced(b)))
  BY <1>1, <1>2, <1>3
<1>6. Complete(b) <=> /\ Len(b) >= HeaderLen /\ Head(b) = STX
                      /\ Announced(b) \in 1..Len(b) /\ Valid(SubSeq(b, 1, Announced(b)))
  BY <1>4, <1>5 DEF Complete, Incomplete, IsTelegram
<1> QED
  BY <1>1, <1>6 DEF TelegramAt, b

\* The events are those of the stream, no more and no less: none is invented, and none
\* is lost to the noise, the broken or the truncated candidate before it.
THEOREM EventsAreExact == Spec => []ExactEvents
<1>1. ASSUME IInv PROVE ExactEvents
  <2>1. /\ raw \in Seq(Byte) /\ Len(raw) \in Nat /\ offset \in Nat /\ offset <= Len(raw)
    BY <1>1 DEF IInv, Placed, Reaches, Here
  <2>2. events \in Seq(Event) /\ Sound(raw, events, offset) /\ Ordered(events) /\ Covered(raw, events, offset, expired)
    BY <1>1 DEF IInv, Told, Good
  <2>3. Events = Elements(events)
    <3>1. DOMAIN events = 1..Len(events)
      BY <2>2, LenProperties
    <3> QED
      BY <3>1 DEF Events, Elements
  <2>4. ASSUME NEW e \in Events
        PROVE  /\ e.at \in Nat /\ e.at < Len(raw) /\ e.bytes = SubSeq(raw, e.at + 1, e.at + Len(e.bytes))
               /\ Head(e.bytes) = STX => TelegramAt(e.at) /\ Len(e.bytes) = Announced(At(e.at))
    <3>1. e \in Event /\ Stands(raw, offset, e)
      BY <2>2, <2>3, ElementsType DEF Sound
    <3>2. /\ e.at \in Nat /\ Len(e.bytes) \in Nat /\ Len(e.bytes) >= 1 /\ e.at + Len(e.bytes) <= offset
          /\ e.bytes = SubSeq(raw, e.at + 1, e.at + Len(e.bytes))
      <4>1. e.at \in Nat /\ Len(e.bytes) \in Nat
        BY <3>1 DEF Event
      <4> QED
        BY <3>1, <4>1, Zenon DEF Stands, End
    <3>3. \A a, l, n \in Nat : l >= 1 /\ a + l <= offset /\ offset <= n => a < n
      BY <2>1
    <3>4. e.at < Len(raw)
      BY <2>1, <3>2, <3>3
    <3>5. Head(e.bytes) = STX => TelegramAt(e.at) /\ Len(e.bytes) = Announced(At(e.at))
      BY <2>1, <3>1, <3>2, <3>4, CompleteIsTelegram DEF Stands, At, Rest
    <3> QED
      BY <3>2, <3>4, <3>5
  <2>5. NothingInvented
    <3>1. \A i \in 1..Len(events) - 1 : events[i].at + Len(events[i].bytes) <= events[i + 1].at
      BY <2>2 DEF Ordered, End
    <3> QED
      BY <2>4, <3>1 DEF NothingInvented, Frames
  <2>6. NothingMissed
    <3>1. SUFFICES ASSUME NEW i \in 0..offset - 1, ~Inside(i), i \notin expired
                   PROVE  /\ TelegramAt(i) => \E f \in Frames : f.at = i
                          /\ raw[i + 1] \in Control => \E e \in Events : e.at = i
      BY DEF NothingMissed
    <3>2. i \in Nat /\ i < Len(raw)
      BY <2>1
    <3>3. Head(Rest(raw, i)) = raw[i + 1]
      BY <2>1, <3>2, RestOn, Empty
    <3>4. ~Within(Elements(events), i)
      BY <2>3, <3>1 DEF Within, Inside, Frames, End
    <3>5. Decided(raw, Elements(events), i)
      BY <2>2, <3>1, <3>4 DEF Covered
    <3>6. TelegramAt(i) => Complete(Rest(raw, i))
      BY <2>1, <3>2, CompleteIsTelegram
    <3> QED
      BY <2>3, <3>3, <3>5, <3>6 DEF Decided, Complete, Frames
  <2> QED
    BY <2>5, <2>6 DEF ExactEvents
<1> QED
  BY <1>1, Invariance, PTL

=============================================================================
