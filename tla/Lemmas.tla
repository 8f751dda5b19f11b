------------------------------- MODULE Lemmas -------------------------------
(***************************************************************************)
(* Facts the proofs of several components rest on: integer division by a   *)
(* block size (blocks of a kernel's queries and keys, tiles of an expert's *)
(* slots, pages of a mapped file), prefixes, chunks and joins of sequences *)
(* of tokens with the cells a cache makes of them, and recursion.          *)
(***************************************************************************)
EXTENDS Integers, Sequences, SequenceTheorems, WellFoundedInduction, TLAPS

-----------------------------------------------------------------------------
(* Blocks. *)

LEMMA DivBounds ==
  ASSUME NEW d \in Nat \ {0}, NEW n \in Nat
  PROVE  /\ n \div d \in Nat
         /\ (n \div d) * d <= n
         /\ n < ((n \div d) * d) + d
         /\ n = ((n \div d) * d) + (n % d)
         /\ n % d \in 0 .. (d - 1)
  OBVIOUS

(* A block number is at most another when its first element is before the  *)
(* other's end.                                                            *)
LEMMA BlockOrder ==
  ASSUME NEW d \in Nat \ {0}, NEW p \in Int, NEW q \in Int, p * d < (q * d) + d
  PROVE  p <= q
<1>1. SUFFICES ASSUME p >= q + 1 PROVE FALSE
  OBVIOUS
<1>2. p - (q + 1) \in Nat
  BY <1>1
<1>3. (p - (q + 1)) * d >= 0
  BY <1>2
<1>4. (p - (q + 1)) * d = (p * d) - ((q * d) + d)
  OBVIOUS
<1> QED
  BY <1>3, <1>4

(* A number is determined by its block and its place in it, and conversely.*)
LEMMA BlockUnique ==
  ASSUME NEW d \in Nat \ {0}, NEW p \in Int, NEW q \in Int,
         NEW i \in 0 .. (d - 1), NEW j \in 0 .. (d - 1),
         (p * d) + i = (q * d) + j
  PROVE  p = q /\ i = j
<1>1. p * d \in Int /\ q * d \in Int
  OBVIOUS
<1>2. p * d < (q * d) + d /\ q * d < (p * d) + d
  BY <1>1
<1>3. p <= q /\ q <= p
  BY <1>2, BlockOrder, Zenon
<1>4. p = q
  BY <1>3
<1> QED
  BY <1>1, <1>4

(* The division that rounds up counts the blocks that n elements begin.    *)
LEMMA RoundUp ==
  ASSUME NEW d \in Nat \ {0}, NEW n \in Nat
  PROVE  /\ (n + d - 1) \div d \in Nat
         /\ n <= ((n + d - 1) \div d) * d
         /\ ((n + d - 1) \div d) * d < n + d
<1> DEFINE m == n + d - 1
<1>1. m \in Nat
  OBVIOUS
<1> HIDE DEF m
<1>2. /\ m \div d \in Nat
      /\ (m \div d) * d <= m
      /\ m < ((m \div d) * d) + d
  BY <1>1, DivBounds, Zenon
<1>3. m = (n + d) - 1
  BY DEF m
<1>4. m \div d \in Nat /\ n <= (m \div d) * d /\ (m \div d) * d < n + d
  BY <1>1, <1>2, <1>3
<1> QED
  BY <1>4 DEF m

-----------------------------------------------------------------------------
(* Induction over the numbers, by the least one for which a claim fails. *)

LEMMA LeastOf ==
  ASSUME NEW T \in SUBSET Nat, NEW some \in T
  PROVE  \E x \in T : \A y \in T : ~(y < x)
<1>1. PICK x \in T : \A y \in T : <<y, x>> \notin OpToRel(<, Nat)
  BY NatLessThanWellFounded, WFMin, Zenon
<1>2. \A y \in T : y \in Nat /\ x \in Nat
  OBVIOUS
<1> QED
  BY <1>1, <1>2 DEF OpToRel

-----------------------------------------------------------------------------
(* Sequences of tokens, and the cells a cache makes of them. *)

LEMMA IsSequence ==
  ASSUME NEW S, NEW n \in Nat, NEW f \in [1..n -> S]
  PROVE  f \in Seq(S) /\ Len(f) = n
  OBVIOUS

LEMMA Singleton ==
  ASSUME NEW S, NEW e \in S
  PROVE  <<e>> \in Seq(S) /\ Len(<<e>>) = 1
OBVIOUS

LEMMA JoinEqual ==
  ASSUME NEW S, NEW a \in Seq(S), NEW b \in Seq(S), NEW t \in Seq(S),
         Len(t) = Len(a) + Len(b),
         \A i \in 1..Len(a) : t[i] = a[i],
         \A i \in 1..Len(b) : t[Len(a) + i] = b[i]
  PROVE  a \o b = t
<1> DEFINE c == a \o b
<1>1. /\ c \in Seq(S) /\ Len(c) = Len(a) + Len(b)
      /\ \A i \in 1..(Len(a) + Len(b)) : c[i] = IF i <= Len(a) THEN a[i] ELSE b[i - Len(a)]
  BY ConcatProperties
<1>2. Len(a) \in Nat /\ Len(b) \in Nat
  BY LenProperties
<1> HIDE DEF c
<1>3. ASSUME NEW i \in 1..(Len(a) + Len(b)) PROVE c[i] = t[i]
  <2>1. CASE i <= Len(a)
    BY <1>1, <1>2, <2>1
  <2>2. CASE ~(i <= Len(a))
    <3>1. i - Len(a) \in 1..Len(b) /\ Len(a) + (i - Len(a)) = i
      BY <1>2, <2>2
    <3>2. t[Len(a) + (i - Len(a))] = b[i - Len(a)]
      BY <3>1
    <3> QED
      BY <1>1, <2>2, <3>1, <3>2
  <2> QED
    BY <2>1, <2>2
<1> QED
  BY <1>1, <1>3, SeqEqual DEF c

LEMMA JoinParts ==
  ASSUME NEW S, NEW a \in Seq(S), NEW b \in Seq(S)
  PROVE  /\ a \o b \in Seq(S) /\ Len(a \o b) = Len(a) + Len(b)
         /\ Len(a) \in Nat /\ Len(b) \in Nat
         /\ \A i \in 1..Len(a) : (a \o b)[i] = a[i]
         /\ \A i \in 1..Len(b) : (a \o b)[Len(a) + i] = b[i]
<1>1. /\ a \o b \in Seq(S) /\ Len(a \o b) = Len(a) + Len(b)
      /\ \A i \in 1..(Len(a) + Len(b)) : (a \o b)[i] = IF i <= Len(a) THEN a[i] ELSE b[i - Len(a)]
  BY ConcatProperties
<1>2. Len(a) \in Nat /\ Len(b) \in Nat
  BY LenProperties
<1>3. ASSUME NEW i \in 1..Len(a) PROVE (a \o b)[i] = a[i]
  <2>1. i \in 1..(Len(a) + Len(b)) /\ i <= Len(a)
    BY <1>2
  <2> QED
    BY <1>1, <2>1, Zenon
<1>4. ASSUME NEW i \in 1..Len(b) PROVE (a \o b)[Len(a) + i] = b[i]
  <2>1. /\ Len(a) + i \in 1..(Len(a) + Len(b)) /\ ~(Len(a) + i <= Len(a))
        /\ (Len(a) + i) - Len(a) = i
    BY <1>2
  <2> QED
    BY <1>1, <2>1, Zenon
<1> QED
  BY <1>1, <1>2, <1>3, <1>4

LEMMA PrefixOf ==
  ASSUME NEW S, NEW s \in Seq(S), NEW n \in 0..Len(s)
  PROVE  /\ SubSeq(s, 1, n) \in Seq(S)
         /\ Len(SubSeq(s, 1, n)) = n
         /\ \A i \in 1..n : SubSeq(s, 1, n)[i] = s[i]
<1>1. \A i \in 1..n : s[i] \in S
  BY ElementOfSeq
<1>2. n \in Nat
  BY LenProperties
<1> QED
  BY <1>1, <1>2, SubSeqProperties

LEMMA PrefixGrows ==
  ASSUME NEW S, NEW s \in Seq(S), NEW n \in Nat, n < Len(s)
  PROVE  /\ SubSeq(s, 1, n) \o <<s[n + 1]>> = SubSeq(s, 1, n + 1)
         /\ Append(SubSeq(s, 1, n), s[n + 1]) = SubSeq(s, 1, n + 1)
<1>1. Len(s) \in Nat /\ n \in 0..Len(s) /\ n + 1 \in 0..Len(s) /\ s[n + 1] \in S
  BY ElementOfSeq
<1> DEFINE p == SubSeq(s, 1, n)
           q == SubSeq(s, 1, n + 1)
<1>2. p \in Seq(S) /\ Len(p) = n /\ \A i \in 1..n : p[i] = s[i]
  BY <1>1, PrefixOf
<1>3. q \in Seq(S) /\ Len(q) = n + 1 /\ \A i \in 1..(n + 1) : q[i] = s[i]
  BY <1>1, PrefixOf
<1> HIDE DEF p, q
<1>4. Append(p, s[n + 1]) = q
  <2> DEFINE a == Append(p, s[n + 1])
  <2>1. /\ a \in Seq(S) /\ Len(a) = Len(p) + 1
        /\ \A i \in 1..Len(p) : a[i] = p[i]
        /\ a[Len(p) + 1] = s[n + 1]
    BY <1>1, <1>2, AppendProperties
  <2> HIDE DEF a
  <2>2. ASSUME NEW i \in 1..Len(a) PROVE a[i] = q[i]
    <3>1. i \in 1..n \/ i = n + 1
      BY <1>2, <2>1
    <3>2. CASE i \in 1..n
      BY <1>2, <1>3, <2>1, <3>2
    <3>3. CASE i = n + 1
      BY <1>2, <1>3, <2>1, <3>3
    <3> QED
      BY <3>1, <3>2, <3>3
  <2> QED
    BY <1>2, <1>3, <2>1, <2>2, SeqEqual DEF a
<1>5. p \o <<s[n + 1]>> = Append(p, s[n + 1])
  BY <1>1, <1>2, AppendIsConcat
<1> QED
  BY <1>4, <1>5 DEF p, q

LEMMA PrefixChunk ==
  ASSUME NEW S, NEW s \in Seq(S), NEW m \in Nat, NEW n \in Nat, m <= n, n <= Len(s)
  PROVE  /\ SubSeq(s, m + 1, n) \in Seq(S)
         /\ Len(SubSeq(s, m + 1, n)) = n - m
         /\ \A i \in 1..(n - m) : SubSeq(s, m + 1, n)[i] = s[m + i]
         /\ SubSeq(s, 1, m) \o SubSeq(s, m + 1, n) = SubSeq(s, 1, n)
<1> DEFINE p == SubSeq(s, 1, m)
           c == SubSeq(s, m + 1, n)
           q == SubSeq(s, 1, n)
<1>1. Len(s) \in Nat /\ m \in 0..Len(s) /\ n \in 0..Len(s)
  BY LenProperties
<1>2. p \in Seq(S) /\ Len(p) = m /\ \A i \in 1..m : p[i] = s[i]
  BY <1>1, PrefixOf
<1>3. q \in Seq(S) /\ Len(q) = n /\ \A i \in 1..n : q[i] = s[i]
  BY <1>1, PrefixOf
<1>4. c \in Seq(S) /\ Len(c) = n - m /\ \A i \in 1..(n - m) : c[i] = s[m + i]
  <2>1. \A i \in (m + 1)..n : s[i] \in S
    BY <1>1, ElementOfSeq
  <2>2. m + 1 \in Int /\ n \in Int
    OBVIOUS
  <2>3. /\ c \in Seq(S)
        /\ Len(c) = IF m + 1 <= n THEN n - (m + 1) + 1 ELSE 0
        /\ \A i \in 1..(n - (m + 1) + 1) : c[i] = s[(m + 1) + i - 1]
    BY <2>1, <2>2, SubSeqProperties
  <2> HIDE DEF c
  <2> QED
    BY <2>3
<1> HIDE DEF p, c, q
<1>5. p \o c = q
  <2>1. \A i \in 1..Len(p) : q[i] = p[i]
    BY <1>1, <1>2, <1>3
  <2>2. \A i \in 1..Len(c) : q[Len(p) + i] = c[i]
    BY <1>1, <1>2, <1>3, <1>4
  <2>3. Len(q) = Len(p) + Len(c)
    BY <1>2, <1>3, <1>4
  <2> QED
    BY <1>2, <1>3, <1>4, <2>1, <2>2, <2>3, JoinEqual
<1> QED
  BY <1>4, <1>5 DEF p, c, q

(* What a forward appends to the caches: the tokens it feeds, each with    *)
(* its position.                                                           *)
CellsAt(n, x) == [i \in DOMAIN x |-> <<n + i - 1, x[i]>>]

LEMMA CellsAtOf ==
  ASSUME NEW S, NEW n \in Nat, NEW x \in Seq(S)
  PROVE  /\ CellsAt(n, x) \in Seq(Nat \X S)
         /\ Len(CellsAt(n, x)) = Len(x)
         /\ \A i \in 1..Len(x) : CellsAt(n, x)[i] = <<n + i - 1, x[i]>>
<1>1. Len(x) \in Nat /\ DOMAIN x = 1..Len(x) /\ \A i \in 1..Len(x) : x[i] \in S
  BY LenProperties, ElementOfSeq
<1>2. CellsAt(n, x) = [i \in 1..Len(x) |-> <<n + i - 1, x[i]>>]
  BY <1>1 DEF CellsAt
<1>3. \A i \in 1..Len(x) : n + i - 1 \in Nat
  BY <1>1
<1>4. CellsAt(n, x) \in [1..Len(x) -> Nat \X S]
  BY <1>1, <1>2, <1>3
<1> QED
  BY <1>1, <1>2, <1>4, IsSequence

(* Feeding q and then x from position n on is feeding both at once.        *)
IsJoin(all, old, new) == all = old \o new

LEMMA CellsJoin ==
  ASSUME NEW S, NEW n \in Nat, NEW q \in Seq(S), NEW x \in Seq(S)
  PROVE  IsJoin(CellsAt(n, q \o x), CellsAt(n, q), CellsAt(n + Len(q), x))
<1> DEFINE C   == Nat \X S
           old == CellsAt(n, q)
           new == CellsAt(n + Len(q), x)
           cat == q \o x
           all == CellsAt(n, cat)
<1>1. Len(q) \in Nat /\ Len(x) \in Nat /\ n + Len(q) \in Nat
  BY LenProperties
<1>2. old \in Seq(C) /\ Len(old) = Len(q) /\ \A i \in 1..Len(q) : old[i] = <<n + i - 1, q[i]>>
  BY CellsAtOf
<1>3. /\ new \in Seq(C) /\ Len(new) = Len(x)
      /\ \A i \in 1..Len(x) : new[i] = <<(n + Len(q)) + i - 1, x[i]>>
  BY <1>1, CellsAtOf
<1>4. /\ cat \in Seq(S) /\ Len(cat) = Len(q) + Len(x)
      /\ \A i \in 1..(Len(q) + Len(x)) : cat[i] = IF i <= Len(q) THEN q[i] ELSE x[i - Len(q)]
  BY ConcatProperties
<1>5. all \in Seq(C) /\ Len(all) = Len(cat) /\ \A i \in 1..Len(cat) : all[i] = <<n + i - 1, cat[i]>>
  BY <1>4, CellsAtOf
<1> HIDE DEF old, new, cat, all, C
<1>6. \A i \in 1..Len(old) : all[i] = old[i]
  <2> SUFFICES ASSUME NEW i \in 1..Len(q) PROVE all[i] = old[i]
    BY <1>2
  <2>1. i \in 1..(Len(q) + Len(x)) /\ i <= Len(q)
    BY <1>1
  <2> QED
    BY <1>2, <1>4, <1>5, <2>1
<1>7. \A i \in 1..Len(new) : all[Len(old) + i] = new[i]
  <2> SUFFICES ASSUME NEW i \in 1..Len(x) PROVE all[Len(q) + i] = new[i]
    BY <1>2, <1>3
  <2>1. /\ Len(q) + i \in 1..(Len(q) + Len(x)) /\ ~(Len(q) + i <= Len(q))
        /\ (Len(q) + i) - Len(q) = i /\ n + (Len(q) + i) - 1 = (n + Len(q)) + i - 1
    BY <1>1
  <2>2. cat[Len(q) + i] = x[i]
    BY <1>4, <2>1
  <2>3. all[Len(q) + i] = <<n + (Len(q) + i) - 1, x[i]>>
    BY <1>4, <1>5, <2>1, <2>2
  <2> QED
    BY <1>3, <2>1, <2>3
<1>8. Len(all) = Len(old) + Len(new)
  BY <1>2, <1>3, <1>4, <1>5
<1>9. old \o new = all
  BY <1>2, <1>3, <1>5, <1>6, <1>7, <1>8, JoinEqual
<1> QED
  BY <1>9 DEF old, new, cat, all, IsJoin

(* A prefix is not touched by what comes behind it. *)
LEMMA PrefixOfJoin ==
  ASSUME NEW S, NEW a \in Seq(S), NEW b \in Seq(S), NEW n \in 0..Len(a)
  PROVE  SubSeq(a \o b, 1, n) = SubSeq(a, 1, n)
<1> DEFINE c == a \o b
<1>1. /\ c \in Seq(S) /\ Len(c) = Len(a) + Len(b)
      /\ \A i \in 1..(Len(a) + Len(b)) : c[i] = IF i <= Len(a) THEN a[i] ELSE b[i - Len(a)]
  BY ConcatProperties
<1>2. Len(a) \in Nat /\ Len(b) \in Nat
  BY LenProperties
<1> HIDE DEF c
<1>3. n \in 0..Len(c)
  BY <1>1, <1>2
<1>4. SubSeq(c, 1, n) \in Seq(S) /\ Len(SubSeq(c, 1, n)) = n
      /\ \A i \in 1..n : SubSeq(c, 1, n)[i] = c[i]
  BY <1>1, <1>3, PrefixOf
<1>5. SubSeq(a, 1, n) \in Seq(S) /\ Len(SubSeq(a, 1, n)) = n
      /\ \A i \in 1..n : SubSeq(a, 1, n)[i] = a[i]
  BY PrefixOf
<1>6. \A i \in 1..n : c[i] = a[i]
  BY <1>1, <1>2
<1> QED
  BY <1>4, <1>5, <1>6, SeqEqual DEF c

(* A prefix that reaches into the second of two is the first and a prefix. *)
LEMMA PrefixPastJoin ==
  ASSUME NEW S, NEW a \in Seq(S), NEW b \in Seq(S), NEW j \in 0..Len(b)
  PROVE  SubSeq(a \o b, 1, Len(a) + j) = a \o SubSeq(b, 1, j)
<1>1. PICK c \in Seq(S), A \in Nat, B \in Nat :
        /\ c = a \o b /\ A = Len(a) /\ B = Len(b) /\ Len(c) = A + B
        /\ \A i \in 1..A : c[i] = a[i]
        /\ \A i \in 1..B : c[A + i] = b[i]
  <2>1. /\ a \o b \in Seq(S) /\ Len(a \o b) = Len(a) + Len(b)
        /\ Len(a) \in Nat /\ Len(b) \in Nat
        /\ \A i \in 1..Len(a) : (a \o b)[i] = a[i]
        /\ \A i \in 1..Len(b) : (a \o b)[Len(a) + i] = b[i]
    BY JoinParts
  <2> QED
    BY <2>1
<1>2. PICK d \in Seq(S) : d = SubSeq(b, 1, j) /\ Len(d) = j /\ \A i \in 1..j : d[i] = b[i]
  <2>1. /\ SubSeq(b, 1, j) \in Seq(S) /\ Len(SubSeq(b, 1, j)) = j
        /\ \A i \in 1..j : SubSeq(b, 1, j)[i] = b[i]
    BY PrefixOf
  <2> QED
    BY <2>1, Zenon
<1>3. PICK s \in Seq(S) : s = SubSeq(c, 1, A + j) /\ Len(s) = A + j /\ \A i \in 1..(A + j) : s[i] = c[i]
  <2>1. A + j \in 0..Len(c)
    BY <1>1
  <2>2. /\ SubSeq(c, 1, A + j) \in Seq(S) /\ Len(SubSeq(c, 1, A + j)) = A + j
        /\ \A i \in 1..(A + j) : SubSeq(c, 1, A + j)[i] = c[i]
    BY <2>1, PrefixOf, Zenon
  <2> QED
    BY <2>2, Zenon
<1>4. a \o d = s
  <2>1. \A i \in 1..Len(a) : s[i] = a[i]
    BY <1>1, <1>3
  <2>2. ASSUME NEW i \in 1..Len(d) PROVE s[Len(a) + i] = d[i]
    <3>1. i \in 1..j /\ i \in 1..B /\ A + i \in 1..(A + j) /\ Len(a) + i = A + i
      BY <1>1, <1>2
    <3>2. s[A + i] = c[A + i] /\ c[A + i] = b[i] /\ d[i] = b[i]
      BY <1>1, <1>2, <1>3, <3>1
    <3> QED
      BY <3>1, <3>2
  <2>3. Len(s) = Len(a) + Len(d)
    BY <1>1, <1>2, <1>3
  <2> QED
    BY <2>1, <2>2, <2>3, JoinEqual, Zenon
<1> QED
  BY <1>1, <1>2, <1>3, <1>4

LEMMA PrefixOfPrefix ==
  ASSUME NEW S, NEW s \in Seq(S), NEW m \in 0..Len(s), NEW n \in 0..m
  PROVE  SubSeq(SubSeq(s, 1, m), 1, n) = SubSeq(s, 1, n)
<1> DEFINE c == SubSeq(s, 1, m)
<1>1. c \in Seq(S) /\ Len(c) = m /\ \A i \in 1..m : c[i] = s[i]
  BY PrefixOf
<1> HIDE DEF c
<1>2. n \in 0..Len(c) /\ n \in 0..Len(s)
  BY <1>1
<1>3. SubSeq(c, 1, n) \in Seq(S) /\ Len(SubSeq(c, 1, n)) = n
      /\ \A i \in 1..n : SubSeq(c, 1, n)[i] = c[i]
  BY <1>1, <1>2, PrefixOf
<1>4. SubSeq(s, 1, n) \in Seq(S) /\ Len(SubSeq(s, 1, n)) = n
      /\ \A i \in 1..n : SubSeq(s, 1, n)[i] = s[i]
  BY <1>2, PrefixOf
<1>5. \A i \in 1..n : c[i] = s[i]
  BY <1>1
<1> QED
  BY <1>3, <1>4, <1>5, SeqEqual DEF c

(* The prefix of a sequence that is given by its elements.                 *)
LEMMA PrefixOfFunction ==
  ASSUME NEW n \in Nat, NEW f, f = [i \in 1..n |-> f[i]], NEW m \in 0..n
  PROVE  SubSeq(f, 1, m) = [i \in 1..m |-> f[i]]
<1> DEFINE S == {f[i] : i \in 1..n}
<1>1. f \in [1..n -> S]
  OBVIOUS
<1> HIDE DEF S
<1>2. f \in Seq(S) /\ Len(f) = n
  BY <1>1, IsSequence
<1>3. PICK c \in Seq(S) : c = SubSeq(f, 1, m) /\ Len(c) = m /\ \A i \in 1..m : c[i] = f[i]
  <2>1. m \in 0..Len(f)
    BY <1>2
  <2>2. /\ SubSeq(f, 1, m) \in Seq(S) /\ Len(SubSeq(f, 1, m)) = m
        /\ \A i \in 1..m : SubSeq(f, 1, m)[i] = f[i]
    BY <1>2, <2>1, PrefixOf, Zenon
  <2> QED
    BY <2>2
<1>4. c = [i \in 1..m |-> c[i]]
  BY <1>3
<1> QED
  BY <1>3, <1>4

-----------------------------------------------------------------------------
(* Recursively defined functions.  A recursion over 0..N whose step is     *)
(* given by a function has a solution, and only one.                       *)

Recurs(f, base, step, N) == f[0] = base /\ \A n \in 1..N : f[n] = step[<<f[n - 1], n>>]

LEMMA RecursionExists ==
  ASSUME NEW V, NEW base \in V, NEW N \in Nat, NEW step \in [V \X (1..N) -> V]
  PROVE  \E f \in [0..N -> V] : Recurs(f, base, step, N)
<1> DEFINE Runs(f, m) == f[0] = base /\ \A n \in 1..m : f[n] = step[<<f[n - 1], n>>]
           Bad == {m \in 0..N : ~(\E f \in [0..m -> V] : Runs(f, m))}
<1>1. SUFFICES ASSUME NEW some \in Bad PROVE FALSE
  <2>1. N \in 0..N
    OBVIOUS
  <2> QED
    BY <1>1, <2>1, Zenon DEF Recurs
<1>2. PICK m \in Bad : \A k \in Bad : ~(k < m)
  <2>1. Bad \in SUBSET Nat
    OBVIOUS
  <2> QED
    BY <1>1, <2>1, LeastOf, Zenon
<1>3. m \in 0..N /\ ~(\E f \in [0..m -> V] : Runs(f, m))
  OBVIOUS
<1>4. CASE m = 0
  <2>1. [i \in 0..0 |-> base] \in [0..0 -> V] /\ Runs([i \in 0..0 |-> base], 0)
    OBVIOUS
  <2> QED
    BY <1>3, <1>4, <2>1
<1>5. CASE m # 0
  <2>1. m - 1 \in 0..N /\ m - 1 < m /\ m \in Nat /\ m >= 1 /\ m \in 1..N
    BY <1>3, <1>5
  <2>2. PICK f \in [0..(m - 1) -> V] : Runs(f, m - 1)
    BY <1>2, <2>1, Zenon
  <2> DEFINE g == [i \in 0..m |-> IF i < m THEN f[i] ELSE step[<<f[m - 1], m>>]]
  <2>3. f[m - 1] \in V /\ step[<<f[m - 1], m>>] \in V
    BY <2>1
  <2>4. g \in [0..m -> V]
    BY <2>1, <2>3
  <2>5. /\ \A i \in 0..(m - 1) : g[i] = f[i]
        /\ g[m] = step[<<f[m - 1], m>>]
    BY <2>1
  <2> HIDE DEF g
  <2>6. ASSUME NEW n \in 1..m PROVE g[n] = step[<<g[n - 1], n>>]
    <3>1. n - 1 \in 0..(m - 1) /\ g[n - 1] = f[n - 1]
      BY <2>1, <2>5
    <3>2. CASE n = m
      BY <2>5, <3>1, <3>2
    <3>3. CASE n # m
      <4>1. n \in 1..(m - 1) /\ n \in 0..(m - 1)
        BY <2>1, <3>3
      <4> QED
        BY <2>2, <2>5, <3>1, <4>1
    <3> QED
      BY <3>2, <3>3
  <2>7. Runs(g, m)
    <3>1. g[0] = base
      BY <2>1, <2>2, <2>5
    <3> QED
      BY <2>6, <3>1
  <2> QED
    BY <1>3, <2>4, <2>7
<1> QED
  BY <1>4, <1>5

LEMMA RecursionUnique ==
  ASSUME NEW N \in Nat, NEW f, NEW g, f[0] = g[0],
         \A n \in 1..N : f[n - 1] = g[n - 1] => f[n] = g[n]
  PROVE  \A n \in 0..N : f[n] = g[n]
<1> DEFINE Bad == {n \in 0..N : f[n] # g[n]}
<1>1. SUFFICES ASSUME NEW some \in Bad PROVE FALSE
  OBVIOUS
<1>2. PICK m \in Bad : \A k \in Bad : ~(k < m)
  <2>1. Bad \in SUBSET Nat
    OBVIOUS
  <2> HIDE DEF Bad
  <2> QED
    BY <1>1, <2>1, LeastOf, Zenon
<1>3. m \in 0..N /\ f[m] # g[m]
  OBVIOUS
<1>4. m \in 1..N /\ m - 1 \in 0..N /\ m - 1 < m
  BY <1>3
<1>5. f[m - 1] = g[m - 1]
  BY <1>2, <1>4
<1> QED
  BY <1>3, <1>4, <1>5

(* A bounded set of numbers has a greatest. *)
LEMMA GreatestOf ==
  ASSUME NEW N \in Nat, NEW T \in SUBSET (0..N), NEW some \in T
  PROVE  \E x \in T : \A y \in T : y <= x
<1> DEFINE D == {N - y : y \in T}
<1>1. D \in SUBSET Nat /\ N - some \in D
  OBVIOUS
<1>2. PICK d \in D : \A e \in D : ~(e < d)
  <2> HIDE DEF D
  <2> QED
    BY <1>1, LeastOf, Zenon
<1>3. PICK x \in T : d = N - x
  OBVIOUS
<1>4. ASSUME NEW y \in T PROVE y <= x
  <2>1. N - y \in D /\ x \in 0..N /\ y \in 0..N
    OBVIOUS
  <2>2. ~(N - y < d)
    BY <1>2, <2>1
  <2> QED
    BY <1>3, <2>1, <2>2
<1> QED
  BY <1>4

(* A sequence is what stands up to a place and what stands behind it. *)
LEMMA SplitAt ==
  ASSUME NEW S, NEW s \in Seq(S), NEW k \in 0..Len(s)
  PROVE  /\ SubSeq(s, 1, k) \in Seq(S) /\ Len(SubSeq(s, 1, k)) = k
         /\ \A i \in 1..k : SubSeq(s, 1, k)[i] = s[i]
         /\ SubSeq(s, k + 1, Len(s)) \in Seq(S) /\ Len(SubSeq(s, k + 1, Len(s))) = Len(s) - k
         /\ \A i \in 1..(Len(s) - k) : SubSeq(s, k + 1, Len(s))[i] = s[k + i]
         /\ SubSeq(s, 1, k) \o SubSeq(s, k + 1, Len(s)) = s
<1>1. Len(s) \in Nat /\ k \in Nat /\ k <= Len(s)
  BY LenProperties
<1>2. SubSeq(s, 1, Len(s)) = s
  BY SubSeqFull
<1>3. /\ SubSeq(s, 1, k) \in Seq(S) /\ Len(SubSeq(s, 1, k)) = k
      /\ \A i \in 1..k : SubSeq(s, 1, k)[i] = s[i]
  BY PrefixOf, Zenon
<1>4. PICK n \in Nat : n = Len(s)
  BY <1>1
<1>5. /\ SubSeq(s, k + 1, n) \in Seq(S) /\ Len(SubSeq(s, k + 1, n)) = n - k
      /\ \A i \in 1..(n - k) : SubSeq(s, k + 1, n)[i] = s[k + i]
      /\ SubSeq(s, 1, k) \o SubSeq(s, k + 1, n) = SubSeq(s, 1, n)
  <2>1. k <= n /\ n <= Len(s)
    BY <1>1, <1>4
  <2> QED
    BY <1>1, <2>1, PrefixChunk, Zenon
<1> QED
  BY <1>2, <1>3, <1>4, <1>5

-----------------------------------------------------------------------------
(* Sequences of sequences, one behind the other (FlattenSeq). *)

Joins(seqs) ==
  IF Len(seqs) = 0 THEN seqs
  ELSE LET join[i \in 1..Len(seqs)] == IF i = 1 THEN seqs[i] ELSE join[i - 1] \o seqs[i]
       IN  join[Len(seqs)]

(* The partial results. *)
Joined(f, seqs, E) ==
  /\ f \in [0..Len(seqs) -> Seq(E)]
  /\ f[0] = <<>>
  /\ \A n \in 1..Len(seqs) : f[n] = f[n - 1] \o seqs[n]

LEMMA JoinedExists ==
  ASSUME NEW E, NEW seqs \in Seq(Seq(E))
  PROVE  \E f : Joined(f, seqs, E)
<1> DEFINE N == Len(seqs)
           step == [x \in Seq(E) \X (1..N) |-> x[1] \o seqs[x[2]]]
<1>1. N \in Nat /\ \A n \in 1..N : seqs[n] \in Seq(E)
  BY LenProperties, ElementOfSeq
<1>2. step \in [Seq(E) \X (1..N) -> Seq(E)]
  <2>1. ASSUME NEW v \in Seq(E), NEW n \in 1..N PROVE v \o seqs[n] \in Seq(E)
    BY <1>1, ConcatProperties
  <2>2. ASSUME NEW x \in Seq(E) \X (1..N) PROVE x[1] \o seqs[x[2]] \in Seq(E)
    <3>1. x[1] \in Seq(E) /\ x[2] \in 1..N
      OBVIOUS
    <3> QED
      BY <2>1, <3>1
  <2> QED
    BY <2>2
<1>3. \A v \in Seq(E) : \A n \in 1..N : step[<<v, n>>] = v \o seqs[n]
  OBVIOUS
<1> HIDE DEF step, N
<1>4. PICK f \in [0..N -> Seq(E)] : f[0] = <<>> /\ \A n \in 1..N : f[n] = step[<<f[n - 1], n>>]
  <2>1. PICK base : base = <<>>
    OBVIOUS
  <2>2. N \in Nat /\ base \in Seq(E)
    BY <1>1, <2>1, EmptySeq
  <2>3. \E f \in [0..N -> Seq(E)] : Recurs(f, base, step, N)
    BY <1>2, <2>2, RecursionExists, Zenon
  <2> QED
    BY <2>1, <2>3 DEF Recurs
<1>5. ASSUME NEW n \in 1..N PROVE f[n] = f[n - 1] \o seqs[n]
  <2>1. f[n - 1] \in Seq(E)
    BY <1>1
  <2> QED
    BY <1>3, <1>4, <2>1
<1>6. Joined(f, seqs, E)
  BY <1>4, <1>5 DEF Joined, N
<1> QED
  BY <1>6

LEMMA JoinedIs ==
  ASSUME NEW E, NEW seqs \in Seq(Seq(E)), NEW f, Joined(f, seqs, E)
  PROVE  Joins(seqs) = f[Len(seqs)] /\ Joins(seqs) \in Seq(E)
<1> DEFINE N == Len(seqs)
           Step(h, i) == IF i = 1 THEN seqs[i] ELSE h[i - 1] \o seqs[i]
           flatten == CHOOSE h : h = [i \in 1..N |-> Step(h, i)]
           g == [i \in 1..N |-> f[i]]
<1>1. N \in Nat /\ \A n \in 1..N : seqs[n] \in Seq(E)
  BY LenProperties, ElementOfSeq
<1>2. CASE N = 0
  <2>1. Joins(seqs) = seqs
    BY <1>2 DEF Joins
  <2>2. seqs = <<>>
    BY <1>2, EmptySeq
  <2> QED
    BY <1>2, <2>1, <2>2 DEF Joined
<1>3. CASE N # 0
  <2>1. Joins(seqs) = flatten[N]
    BY <1>3 DEF Joins
  <2>2. ASSUME NEW i \in 1..N PROVE g[i] = Step(g, i)
    <3>1. f[i] = f[i - 1] \o seqs[i] /\ seqs[i] \in Seq(E)
      BY <1>1 DEF Joined
    <3>2. CASE i = 1
      <4>1. i - 1 = 0 /\ f[0] = <<>>
        BY <3>2 DEF Joined
      <4>2. <<>> \o seqs[i] = seqs[i]
        BY <3>1, ConcatEmptySeq
      <4> QED
        BY <3>1, <3>2, <4>1, <4>2
    <3>3. CASE i # 1
      <4>1. i - 1 \in 1..N
        BY <1>1, <3>3
      <4> QED
        BY <3>1, <3>3, <4>1
    <3> QED
      BY <3>2, <3>3
  <2>3. g = [i \in 1..N |-> Step(g, i)]
    <3>1. g = [i \in 1..N |-> g[i]]
      OBVIOUS
    <3> HIDE DEF g, Step
    <3> QED
      BY <2>2, <3>1
  <2>4. flatten = [i \in 1..N |-> Step(flatten, i)]
    <3>1. \E h : h = [i \in 1..N |-> Step(h, i)]
      BY <2>3, Zenon
    <3> QED
      BY <3>1, Zenon
  <2> HIDE DEF flatten, g
  <2>5. \A i \in 1..N : flatten[i] = Step(flatten, i) /\ g[i] = Step(g, i)
    <3> HIDE DEF Step
    <3> QED
      BY <2>2, <2>4, Zenon
  <2> DEFINE h == [i \in 0..N |-> IF i = 0 THEN <<>> ELSE flatten[i]]
             k == [i \in 0..N |-> IF i = 0 THEN <<>> ELSE g[i]]
  <2>6. h[0] = k[0]
    BY <1>1
  <2>7. ASSUME NEW n \in 1..N, h[n - 1] = k[n - 1] PROVE h[n] = k[n]
    <3>1. n \in 0..N /\ n # 0 /\ n - 1 \in 0..N
      BY <1>1
    <3>2. CASE n = 1
      BY <2>5, <3>1, <3>2
    <3>3. CASE n # 1
      <4>1. n - 1 # 0 /\ flatten[n - 1] = g[n - 1]
        BY <2>7, <3>1, <3>3
      <4>2. flatten[n] = flatten[n - 1] \o seqs[n] /\ g[n] = g[n - 1] \o seqs[n]
        BY <2>5, <3>3
      <4> QED
        BY <3>1, <4>1, <4>2
    <3> QED
      BY <3>2, <3>3
  <2>8. N \in 0..N /\ N \in 1..N
    BY <1>1, <1>3
  <2>9. h[N] = k[N]
    <3> HIDE DEF h, k
    <3> QED
      BY <1>1, <2>6, <2>7, <2>8, RecursionUnique
  <2>10. flatten[N] = g[N]
    BY <1>3, <2>8, <2>9
  <2>11. g[N] = f[N] /\ f[N] \in Seq(E)
    BY <2>8 DEF g, Joined
  <2> QED
    BY <2>1, <2>10, <2>11
<1> QED
  BY <1>2, <1>3

LEMMA JoinsAppend ==
  ASSUME NEW E, NEW seqs \in Seq(Seq(E)), NEW x \in Seq(E)
  PROVE  /\ Joins(seqs) \in Seq(E)
         /\ Joins(Append(seqs, x)) = Joins(seqs) \o x
<1> DEFINE all == Append(seqs, x)
<1>1. PICK f : Joined(f, seqs, E)
  BY JoinedExists
<1>2. PICK N \in Nat : N = Len(seqs)
  BY LenProperties
<1>3. /\ all \in Seq(Seq(E)) /\ Len(all) = N + 1
      /\ \A i \in 1..N : all[i] = seqs[i]
      /\ all[N + 1] = x
  BY <1>2, AppendProperties
<1> HIDE DEF all
<1>4. /\ \A n \in 0..N : f[n] \in Seq(E)
      /\ f[0] = <<>> /\ \A n \in 1..N : f[n] = f[n - 1] \o seqs[n]
  BY <1>1, <1>2 DEF Joined
<1>5. f[N] \o x \in Seq(E)
  BY <1>4, ConcatProperties
<1> DEFINE g == [n \in 0..(N + 1) |-> IF n <= N THEN f[n] ELSE f[N] \o x]
<1>6. g \in [0..(N + 1) -> Seq(E)] /\ g[0] = <<>>
  BY <1>4, <1>5
<1>7. (\A n \in 0..N : g[n] = f[n]) /\ g[N + 1] = f[N] \o x
  <2>1. N + 1 \in 0..(N + 1) /\ ~(N + 1 <= N) /\ \A n \in 0..N : n \in 0..(N + 1) /\ n <= N
    OBVIOUS
  <2> QED
    BY <2>1, Zenon
<1> HIDE DEF g
<1>8. ASSUME NEW n \in 1..(N + 1) PROVE g[n] = g[n - 1] \o all[n]
  <2>1. CASE n \in 1..N
    <3>1. n \in 0..N /\ n - 1 \in 0..N
      BY <2>1
    <3> QED
      BY <1>3, <1>4, <1>7, <2>1, <3>1
  <2>2. CASE n = N + 1
    <3>1. n - 1 = N /\ N \in 0..N
      BY <2>2
    <3> QED
      BY <1>3, <1>7, <2>2, <3>1
  <2>3. n \in 1..N \/ n = N + 1
    BY <1>2
  <2> QED
    BY <2>1, <2>2, <2>3, Zenon
<1>9. Joined(g, all, E)
  BY <1>3, <1>6, <1>8 DEF Joined
<1>10. Joins(all) = g[N + 1]
  BY <1>3, <1>9, JoinedIs
<1>11. Joins(seqs) = f[N] /\ Joins(seqs) \in Seq(E)
  BY <1>1, <1>2, JoinedIs
<1> QED
  BY <1>7, <1>10, <1>11 DEF all

(* Two runs of sequences join to one behind the other. *)
LEMMA JoinsJoin ==
  ASSUME NEW E, NEW a \in Seq(Seq(E)), NEW b \in Seq(Seq(E))
  PROVE  /\ Joins(a) \in Seq(E) /\ Joins(b) \in Seq(E)
         /\ Joins(a \o b) = Joins(a) \o Joins(b)
<1> DEFINE c == a \o b
<1>1. PICK fa : Joined(fa, a, E)
  BY JoinedExists
<1>2. PICK fb : Joined(fb, b, E)
  BY JoinedExists
<1>3. PICK A \in Nat, B \in Nat : A = Len(a) /\ B = Len(b)
  BY LenProperties
<1>4. /\ c \in Seq(Seq(E)) /\ Len(c) = A + B
      /\ \A i \in 1..(A + B) : c[i] = IF i <= A THEN a[i] ELSE b[i - A]
  BY <1>3, ConcatProperties
<1> HIDE DEF c
<1>5. Joins(a) = fa[A] /\ Joins(a) \in Seq(E) /\ Joins(b) = fb[B] /\ Joins(b) \in Seq(E)
  BY <1>1, <1>2, <1>3, JoinedIs
<1>6. /\ \A n \in 0..A : fa[n] \in Seq(E)
      /\ \A n \in 0..B : fb[n] \in Seq(E)
      /\ fa[0] = <<>> /\ fb[0] = <<>>
      /\ \A n \in 1..A : fa[n] = fa[n - 1] \o a[n]
      /\ \A n \in 1..B : fb[n] = fb[n - 1] \o b[n]
  BY <1>1, <1>2, <1>3 DEF Joined
<1>7. PICK x \in Seq(E) : x = fa[A]
  BY <1>5
<1> DEFINE f == [n \in 0..(A + B) |-> IF n <= A THEN fa[n] ELSE x \o fb[n - A]]
<1>8. \A n \in 0..B : x \o fb[n] \in Seq(E)
  BY <1>6, ConcatProperties
<1>9. f \in [0..(A + B) -> Seq(E)]
  <2>1. ASSUME NEW n \in 0..(A + B) PROVE (IF n <= A THEN fa[n] ELSE x \o fb[n - A]) \in Seq(E)
    <3>1. CASE n <= A
      BY <1>6, <3>1
    <3>2. CASE ~(n <= A)
      <4>1. n - A \in 0..B
        BY <3>2
      <4> QED
        BY <1>8, <3>2, <4>1
    <3> QED
      BY <3>1, <3>2
  <2> QED
    BY <2>1
<1>10. /\ \A n \in 0..A : f[n] = fa[n]
       /\ \A n \in 0..B : f[A + n] = x \o fb[n]
  <2>1. \A n \in 0..A : f[n] = fa[n]
    OBVIOUS
  <2>2. x \o fb[0] = x
    BY <1>6, ConcatEmptySeq
  <2>3. ASSUME NEW n \in 0..B PROVE f[A + n] = x \o fb[n]
    <3>1. CASE n = 0
      <4>1. A + n = A /\ A \in 0..A
        BY <3>1
      <4> HIDE DEF f
      <4> QED
        BY <1>7, <2>1, <2>2, <3>1, <4>1
    <3>2. CASE n # 0
      <4>1. A + n \in 0..(A + B) /\ ~(A + n <= A) /\ (A + n) - A = n
        BY <3>2
      <4> QED
        BY <4>1
    <3> QED
      BY <3>1, <3>2
  <2> QED
    BY <2>1, <2>3
<1> HIDE DEF f
<1>11. ASSUME NEW n \in 1..(A + B) PROVE f[n] = f[n - 1] \o c[n]
  <2>1. CASE n <= A
    <3>1. n \in 1..A /\ n \in 0..A /\ n - 1 \in 0..A /\ c[n] = a[n]
      BY <1>4, <2>1
    <3> QED
      BY <1>6, <1>10, <3>1
  <2>2. CASE ~(n <= A)
    <3>1. PICK m \in 1..B : n = A + m
      <4>1. n - A \in 1..B /\ n = A + (n - A)
        BY <2>2
      <4> QED
        BY <4>1
    <3>2. m \in 0..B /\ m - 1 \in 0..B /\ n - 1 = A + (m - 1) /\ n - A = m
      BY <3>1
    <3>3. c[n] = b[m] /\ f[n] = x \o fb[m] /\ f[n - 1] = x \o fb[m - 1]
      BY <1>4, <1>10, <2>2, <3>1, <3>2
    <3>4. x \o (fb[m - 1] \o b[m]) = (x \o fb[m - 1]) \o b[m]
      <4>1. PICK y \in Seq(E), z \in Seq(E) : y = fb[m - 1] /\ z = b[m]
        BY <1>3, <1>6, <3>2, ElementOfSeq
      <4>2. x \o (y \o z) = (x \o y) \o z
        BY ConcatAssociative
      <4> QED
        BY <4>1, <4>2
    <3> QED
      BY <1>6, <3>3, <3>4
  <2> QED
    BY <2>1, <2>2
<1>12. f[0] = <<>>
  BY <1>6, <1>10
<1>13. Joined(f, c, E)
  BY <1>4, <1>9, <1>11, <1>12 DEF Joined
<1>14. Joins(c) = f[A + B]
  BY <1>4, <1>13, JoinedIs
<1>15. f[A + B] = x \o fb[B]
  <2>1. B \in 0..B
    OBVIOUS
  <2> QED
    BY <1>10, <2>1, Zenon
<1> QED
  BY <1>5, <1>7, <1>14, <1>15 DEF c
=============================================================================
