----------------------------- MODULE ReplProofs ------------------------------
(***************************************************************************)
(* The chat for every set of replies, session length and queue: a cancel   *)
(* request is never lost, the conversation alternates, and the next prompt *)
(* repeats what the model has read and said.                               *)
(***************************************************************************)
EXTENDS Repl, Lemmas, TLAPS

(* What a text is made of; the provers do not know of a literal that it is *)
(* a string.                                                               *)
Pieces ==
  STRING \cup {"BOS", "<system>", "</system>", "default system", "<user>", "typed", "</user>",
               "<assistant>", "<think>", "</think>", "</assistant>"}
Text == Seq(Pieces)

-----------------------------------------------------------------------------
(* Squeezed.                                                               *)

(* The partial results of the recursion. *)
Kept(f, t) ==
  /\ f \in [0..Len(t) -> Text]
  /\ f[0] = <<>>
  /\ \A n \in 1..Len(t) : f[n] = IF t[n] = "ws" THEN f[n - 1] ELSE Append(f[n - 1], t[n])

LEMMA KeptExists ==
  ASSUME NEW t \in Text
  PROVE  \E f : Kept(f, t)
<1> DEFINE N == Len(t)
           step == [x \in Text \X (1..N) |-> IF t[x[2]] = "ws" THEN x[1] ELSE Append(x[1], t[x[2]])]
<1>1. N \in Nat /\ <<>> \in Text /\ \A n \in 1..N : t[n] \in Pieces
  BY LenProperties, ElementOfSeq, EmptySeq DEF Text
<1>2. step \in [Text \X (1..N) -> Text]
  <2>1. ASSUME NEW v \in Text, NEW n \in 1..N PROVE Append(v, t[n]) \in Text
    BY <1>1, AppendProperties DEF Text
  <2>2. ASSUME NEW x \in Text \X (1..N)
        PROVE  (IF t[x[2]] = "ws" THEN x[1] ELSE Append(x[1], t[x[2]])) \in Text
    <3>1. x[1] \in Text /\ x[2] \in 1..N
      OBVIOUS
    <3> QED
      BY <2>1, <3>1
  <2> QED
    BY <2>2
<1>3. \A v \in Text : \A n \in 1..N :
        step[<<v, n>>] = IF t[n] = "ws" THEN v ELSE Append(v, t[n])
  OBVIOUS
<1> HIDE DEF step, N
<1>4. PICK f \in [0..N -> Text] : f[0] = <<>> /\ \A n \in 1..N : f[n] = step[<<f[n - 1], n>>]
  <2>1. PICK base : base = <<>>
    OBVIOUS
  <2>2. N \in Nat /\ base \in Text
    BY <1>1, <2>1
  <2>3. \E f \in [0..N -> Text] : f[0] = base /\ \A n \in 1..N : f[n] = step[<<f[n - 1], n>>]
    <3>1. \E f \in [0..N -> Text] : Recurs(f, base, step, N)
      BY <1>2, <2>2, RecursionExists, Zenon
    <3> QED
      BY <3>1 DEF Recurs
  <2> QED
    BY <2>1, <2>3
<1>5. ASSUME NEW n \in 1..N
      PROVE  f[n] = IF t[n] = "ws" THEN f[n - 1] ELSE Append(f[n - 1], t[n])
  <2>1. f[n - 1] \in Text
    BY <1>1
  <2> QED
    BY <1>3, <1>4, <2>1
<1>6. Kept(f, t)
  BY <1>4, <1>5 DEF Kept, N
<1> QED
  BY <1>6

LEMMA SqueezedIs ==
  ASSUME NEW t \in Text, NEW f, Kept(f, t)
  PROVE  Squeezed(t) = f[Len(t)] /\ Squeezed(t) \in Text
<1> DEFINE N == Len(t)
           Step(h, n) == IF n = 0 THEN <<>> ELSE IF t[n] = "ws" THEN h[n - 1] ELSE Append(h[n - 1], t[n])
           kept == CHOOSE h : h = [n \in 0..N |-> Step(h, n)]
<1>1. N \in Nat
  BY LenProperties DEF Text
<1>2. Squeezed(t) = kept[N]
  BY DEF Squeezed
<1>3. f = [n \in 0..N |-> Step(f, n)]
  <2>1. f = [n \in 0..N |-> f[n]]
    BY DEF Kept
  <2>2. ASSUME NEW n \in 0..N PROVE f[n] = Step(f, n)
    <3>1. CASE n = 0
      BY <3>1 DEF Kept
    <3>2. CASE n # 0
      <4>1. n \in 1..N
        BY <1>1, <3>2
      <4> QED
        BY <3>2, <4>1 DEF Kept
    <3> QED
      BY <3>1, <3>2
  <2> HIDE DEF Step
  <2> QED
    BY <2>1, <2>2
<1>4. kept = [n \in 0..N |-> Step(kept, n)]
  <2>1. \E h : h = [n \in 0..N |-> Step(h, n)]
    BY <1>3, Zenon
  <2> QED
    BY <2>1, Zenon
<1> HIDE DEF kept
<1>5. \A n \in 0..N : kept[n] = Step(kept, n) /\ f[n] = Step(f, n)
  <2> HIDE DEF Step
  <2> QED
    BY <1>3, <1>4, Zenon
<1>6. kept[0] = f[0]
  BY <1>1, <1>5
<1>7. ASSUME NEW n \in 1..N, kept[n - 1] = f[n - 1] PROVE kept[n] = f[n]
  <2>1. n \in 0..N /\ n # 0
    BY <1>1
  <2> QED
    BY <1>5, <1>7, <2>1
<1>8. \A n \in 0..N : kept[n] = f[n]
  BY <1>1, <1>6, <1>7, RecursionUnique
<1>9. N \in 0..N /\ f[N] \in Text
  BY <1>1 DEF Kept
<1> QED
  BY <1>2, <1>8, <1>9

(* Squeezing a text squeezes its parts. *)
LEMMA SqueezedJoin ==
  ASSUME NEW a \in Text, NEW b \in Text
  PROVE  /\ a \o b \in Text
         /\ Squeezed(a \o b) = Squeezed(a) \o Squeezed(b)
         /\ Squeezed(a) \in Text /\ Squeezed(b) \in Text /\ Squeezed(a \o b) \in Text
<1> DEFINE c == a \o b
<1>1. PICK fa : Kept(fa, a)
  BY KeptExists
<1>2. PICK fb : Kept(fb, b)
  BY KeptExists
<1>3. PICK A \in Nat, B \in Nat : A = Len(a) /\ B = Len(b)
  BY LenProperties DEF Text
<1>4. /\ c \in Text /\ Len(c) = A + B
      /\ \A i \in 1..(A + B) : c[i] = IF i <= A THEN a[i] ELSE b[i - A]
  BY <1>3, ConcatProperties DEF Text
<1> HIDE DEF c
<1>5. /\ Squeezed(a) = fa[A] /\ Squeezed(a) \in Text
      /\ Squeezed(b) = fb[B] /\ Squeezed(b) \in Text
  BY <1>1, <1>2, <1>3, SqueezedIs
<1>6. /\ \A n \in 0..A : fa[n] \in Text
      /\ \A n \in 0..B : fb[n] \in Text
      /\ fa[0] = <<>> /\ fb[0] = <<>>
      /\ \A n \in 1..A : fa[n] = IF a[n] = "ws" THEN fa[n - 1] ELSE Append(fa[n - 1], a[n])
      /\ \A n \in 1..B : fb[n] = IF b[n] = "ws" THEN fb[n - 1] ELSE Append(fb[n - 1], b[n])
  BY <1>1, <1>2, <1>3 DEF Kept
<1>7. PICK x \in Text : x = fa[A]
  BY <1>5
<1> DEFINE f == [n \in 0..(A + B) |-> IF n <= A THEN fa[n] ELSE x \o fb[n - A]]
<1>8. \A n \in 0..B : x \o fb[n] \in Text
  BY <1>6, ConcatProperties DEF Text
<1>9. f \in [0..(A + B) -> Text]
  <2>1. ASSUME NEW n \in 0..(A + B) PROVE (IF n <= A THEN fa[n] ELSE x \o fb[n - A]) \in Text
    <3>1. CASE n <= A
      BY <1>6, <3>1
    <3>2. CASE ~(n <= A)
      <4>1. n - A \in 0..B
        BY <3>2
      <4> QED
        BY <1>8, <3>2, <4>1
    <3> QED
      BY <3>1, <3>2
  <2> QED
    BY <2>1
<1>10. /\ \A n \in 0..A : f[n] = fa[n]
       /\ \A n \in 0..B : f[A + n] = x \o fb[n]
  <2>1. \A n \in 0..A : f[n] = fa[n]
    OBVIOUS
  <2>2. x \o fb[0] = x
    BY <1>6, ConcatEmptySeq DEF Text
  <2>3. ASSUME NEW n \in 0..B PROVE f[A + n] = x \o fb[n]
    <3>1. CASE n = 0
      <4>1. A + n = A /\ A \in 0..A
        BY <3>1
      <4> HIDE DEF f
      <4> QED
        BY <1>7, <2>1, <2>2, <3>1, <4>1
    <3>2. CASE n # 0
      <4>1. A + n \in 0..(A + B) /\ ~(A + n <= A) /\ (A + n) - A = n
        BY <3>2
      <4> QED
        BY <4>1
    <3> QED
      BY <3>1, <3>2
  <2> QED
    BY <2>1, <2>3
<1> HIDE DEF f
<1>11. ASSUME NEW n \in 1..(A + B)
       PROVE  f[n] = IF c[n] = "ws" THEN f[n - 1] ELSE Append(f[n - 1], c[n])
  <2>1. CASE n <= A
    <3>1. n \in 1..A /\ n \in 0..A /\ n - 1 \in 0..A /\ c[n] = a[n]
      BY <1>4, <2>1
    <3> QED
      BY <1>6, <1>10, <3>1
  <2>2. CASE ~(n <= A)
    <3>1. PICK m \in 1..B : n = A + m
      <4>1. n - A \in 1..B /\ n = A + (n - A)
        BY <2>2
      <4> QED
        BY <4>1
    <3>2. m \in 0..B /\ m - 1 \in 0..B /\ n - 1 = A + (m - 1) /\ n - A = m
      BY <3>1
    <3>3. c[n] = b[m] /\ f[n] = x \o fb[m] /\ f[n - 1] = x \o fb[m - 1]
      BY <1>4, <1>10, <2>2, <3>1, <3>2
    <3>4. fb[m] = IF b[m] = "ws" THEN fb[m - 1] ELSE Append(fb[m - 1], b[m])
      BY <1>6
    <3>5. x \o Append(fb[m - 1], b[m]) = Append(x \o fb[m - 1], b[m])
      <4>1. PICK y \in Text : y = fb[m - 1]
        BY <1>6, <3>2
      <4>2. PICK e \in Pieces : e = b[m]
        BY <1>3, ElementOfSeq DEF Text
      <4>3. x \o y \in Text /\ <<e>> \in Text
        <5>1. <<e>> \in Text
          BY Singleton DEF Text
        <5> QED
          BY <5>1, ConcatProperties DEF Text
      <4>4. Append(y, e) = y \o <<e>> /\ Append(x \o y, e) = (x \o y) \o <<e>>
        BY <4>3, AppendIsConcat DEF Text
      <4>5. (x \o y) \o <<e>> = x \o (y \o <<e>>)
        BY <4>3, ConcatAssociative DEF Text
      <4> QED
        BY <4>1, <4>2, <4>4, <4>5
    <3> QED
      BY <3>3, <3>4, <3>5
  <2> QED
    BY <2>1, <2>2
<1>12. f[0] = <<>>
  BY <1>6, <1>10
<1>13. Kept(f, c)
  BY <1>4, <1>9, <1>11, <1>12 DEF Kept
<1>14. Squeezed(c) = f[A + B] /\ Squeezed(c) \in Text
  BY <1>4, <1>13, SqueezedIs
<1>15. f[A + B] = x \o fb[B]
  BY <1>10
<1> QED
  BY <1>4, <1>5, <1>7, <1>14, <1>15 DEF c

LEMMA SqueezedBlank ==
  ASSUME NEW t \in Text, \A i \in 1..Len(t) : t[i] = "ws"
  PROVE  Squeezed(t) = <<>>
<1> DEFINE f == [n \in 0..Len(t) |-> <<>>]
<1>1. Len(t) \in Nat /\ <<>> \in Text
  BY LenProperties, EmptySeq DEF Text
<1>2. Kept(f, t)
  BY <1>1 DEF Kept
<1> QED
  BY <1>1, <1>2, SqueezedIs

-----------------------------------------------------------------------------
(* Trimming and splitting.                                                 *)

LEMMA CutTail ==
  ASSUME NEW t \in Text, NEW k \in 0..Len(t), \A i \in (k + 1)..Len(t) : t[i] = "ws"
  PROVE  SubSeq(t, 1, k) \in Text /\ Squeezed(SubSeq(t, 1, k)) = Squeezed(t)
<1> DEFINE a == SubSeq(t, 1, k)
           b == SubSeq(t, k + 1, Len(t))
<1>1. Len(t) \in Nat
  BY LenProperties DEF Text
<1>2. /\ a \in Text /\ b \in Text /\ a \o b = t
      /\ Len(b) = Len(t) - k /\ \A i \in 1..(Len(t) - k) : b[i] = t[k + i]
  BY SplitAt DEF Text
<1> HIDE DEF a, b
<1>3. \A i \in 1..Len(b) : b[i] = "ws"
  <2>1. \A i \in 1..(Len(t) - k) : k + i \in (k + 1)..Len(t)
    BY <1>1
  <2> QED
    BY <1>2, <2>1
<1>4. Squeezed(b) = <<>>
  BY <1>2, <1>3, SqueezedBlank
<1>5. Squeezed(t) = Squeezed(a) \o Squeezed(b) /\ Squeezed(a) \in Text
  BY <1>2, SqueezedJoin
<1>6. Squeezed(a) \o <<>> = Squeezed(a)
  BY <1>5, ConcatEmptySeq DEF Text
<1> QED
  BY <1>2, <1>4, <1>5, <1>6 DEF a

LEMMA CutHead ==
  ASSUME NEW t \in Text, NEW k \in 1..Len(t), \A i \in 1..(k - 1) : t[i] = "ws"
  PROVE  SubSeq(t, k, Len(t)) \in Text /\ Squeezed(SubSeq(t, k, Len(t))) = Squeezed(t)
<1> DEFINE a == SubSeq(t, 1, k - 1)
           b == SubSeq(t, k, Len(t))
<1>1. Len(t) \in Nat /\ k - 1 \in 0..Len(t) /\ (k - 1) + 1 = k
  BY LenProperties DEF Text
<1>2. /\ a \in Text /\ b \in Text /\ a \o b = t
      /\ Len(a) = k - 1 /\ \A i \in 1..(k - 1) : a[i] = t[i]
  BY <1>1, SplitAt DEF Text
<1> HIDE DEF a, b
<1>3. Squeezed(a) = <<>>
  BY <1>2, SqueezedBlank
<1>4. Squeezed(t) = Squeezed(a) \o Squeezed(b) /\ Squeezed(b) \in Text
  BY <1>2, SqueezedJoin
<1>5. <<>> \o Squeezed(b) = Squeezed(b)
  BY <1>4, ConcatEmptySeq DEF Text
<1> QED
  BY <1>2, <1>3, <1>4, <1>5 DEF b

LEMMA NoWords ==
  ASSUME NEW t \in Text, Words(t) = {}
  PROVE  <<>> \in Text /\ Squeezed(<<>>) = <<>> /\ Squeezed(t) = <<>>
<1>1. DOMAIN t = 1..Len(t)
  BY LenProperties DEF Text
<1>2. \A i \in 1..Len(t) : t[i] = "ws"
  BY <1>1 DEF Words
<1>3. <<>> \in Text /\ Len(<<>>) = 0
  BY EmptySeq DEF Text
<1>4. \A i \in 1..Len(<<>>) : <<>>[i] = "ws"
  BY <1>3
<1> QED
  BY <1>2, <1>3, <1>4, SqueezedBlank

LEMMA TrimEndOf ==
  ASSUME NEW t \in Text
  PROVE  /\ TrimEnd(t) \in Text /\ Squeezed(TrimEnd(t)) = Squeezed(t)
         /\ Words(t) # {} => \E k \in Words(t) : TrimEnd(t) = SubSeq(t, 1, k)
<1>1. Len(t) \in Nat /\ DOMAIN t = 1..Len(t)
  BY LenProperties DEF Text
<1>2. CASE Words(t) = {}
  <2>1. TrimEnd(t) = SubSeq(t, 1, 0)
    BY <1>2 DEF TrimEnd
  <2>2. SubSeq(t, 1, 0) = <<>>
    BY SubSeqEmpty
  <2> QED
    BY <1>2, <2>1, <2>2, NoWords
<1>3. CASE Words(t) # {}
  <2> DEFINE k == CHOOSE i \in Words(t) : \A j \in Words(t) : j <= i
  <2>1. Words(t) \in SUBSET (0..Len(t)) /\ \A i \in 1..Len(t) : t[i] # "ws" => i \in Words(t)
    BY <1>1 DEF Words
  <2>2. \E i \in Words(t) : \A j \in Words(t) : j <= i
    BY <1>1, <1>3, <2>1, GreatestOf, Zenon
  <2>3. k \in Words(t) /\ \A j \in Words(t) : j <= k
    BY <2>2, Zenon
  <2>4. TrimEnd(t) = SubSeq(t, 1, k)
    BY <1>3 DEF TrimEnd
  <2> HIDE DEF k
  <2>5. k \in 0..Len(t) /\ \A i \in (k + 1)..Len(t) : t[i] = "ws"
    BY <1>1, <2>1, <2>3
  <2> QED
    BY <2>3, <2>4, <2>5, CutTail
<1> QED
  BY <1>2, <1>3

LEMMA TrimOf ==
  ASSUME NEW t \in Text
  PROVE  Trim(t) \in Text /\ Squeezed(Trim(t)) = Squeezed(t)
<1>1. Len(t) \in Nat /\ DOMAIN t = 1..Len(t)
  BY LenProperties DEF Text
<1>2. CASE Words(t) = {}
  BY <1>2, NoWords DEF Trim
<1>3. CASE Words(t) # {}
  <2> DEFINE e == TrimEnd(t)
             i == CHOOSE j \in Words(t) : \A k \in Words(t) : j <= k
  <2>1. e \in Text /\ Squeezed(e) = Squeezed(t)
    BY TrimEndOf
  <2>2. PICK k \in Words(t) : e = SubSeq(t, 1, k)
    BY <1>3, TrimEndOf
  <2>3. Trim(t) = SubSeq(e, i, Len(e))
    BY <1>3 DEF Trim
  <2>4. Words(t) \in SUBSET Nat /\ Words(t) \subseteq 1..Len(t)
        /\ \A j \in 1..Len(t) : t[j] # "ws" => j \in Words(t)
    BY <1>1 DEF Words
  <2>5. i \in Words(t) /\ \A j \in Words(t) : i <= j
    <3>1. PICK j \in Words(t) : \A m \in Words(t) : ~(m < j)
      BY <1>3, <2>4, LeastOf, Zenon
    <3>2. \A m \in Words(t) : j <= m
      BY <2>4, <3>1
    <3> QED
      BY <3>2, Zenon
  <2> HIDE DEF e, i
  <2>6. k \in 0..Len(t) /\ k \in 1..Len(t) /\ i \in 1..k
    BY <1>1, <2>2, <2>4, <2>5
  <2>7. Len(e) = k /\ \A j \in 1..k : e[j] = t[j]
    BY <2>2, <2>6, SplitAt DEF Text
  <2>8. i \in 1..Len(e) /\ \A j \in 1..(i - 1) : e[j] = "ws"
    BY <1>1, <2>4, <2>5, <2>6, <2>7
  <2> QED
    BY <2>1, <2>3, <2>8, CutHead
<1> QED
  BY <1>2, <1>3

(* split_thinking loses nothing of a reply but whitespace. *)
LEMMA SplitOf ==
  ASSUME NEW u \in Text
  PROVE  LET parts == SplitThinking(u) IN
         /\ parts.reasoning \in Text /\ parts.content \in Text
         /\ ClosesThinking(u) =>
              Squeezed(u) = Squeezed((parts.reasoning \o <<"</think>">>) \o parts.content)
<1>1. Len(u) \in Nat /\ DOMAIN u = 1..Len(u)
  BY LenProperties DEF Text
<1>2. CASE ~ClosesThinking(u)
  <2>1. <<>> \in Text
    BY EmptySeq DEF Text
  <2> QED
    BY <1>2, <2>1, TrimOf DEF SplitThinking
<1>3. CASE ClosesThinking(u)
  <2> DEFINE at == CHOOSE i \in DOMAIN u :
                     u[i] = "</think>" /\ \A k \in 1..(i - 1) : u[k] # "</think>"
             T == {i \in 1..Len(u) : u[i] = "</think>"}
  <2>1. at \in 1..Len(u) /\ u[at] = "</think>"
    <3>1. PICK some \in T : TRUE
      BY <1>1, <1>3 DEF ClosesThinking
    <3>2. T \in SUBSET Nat
      OBVIOUS
    <3>3. PICK i \in T : \A k \in T : ~(k < i)
      <4> HIDE DEF T
      <4> QED
        BY <3>1, <3>2, LeastOf, Zenon
    <3>4. i \in DOMAIN u /\ u[i] = "</think>" /\ \A k \in 1..(i - 1) : u[k] # "</think>"
      BY <1>1, <3>3
    <3>5. at \in DOMAIN u /\ u[at] = "</think>"
      BY <3>4, Zenon
    <3> QED
      BY <1>1, <3>5
  <2> DEFINE a == SubSeq(u, 1, at - 1)
             b == SubSeq(u, at + 1, Len(u))
             r == Trim(a)
             c == Trim(b)
             tag == <<"</think>">>
  <2>2. SplitThinking(u) = [reasoning |-> r, content |-> c]
    BY <1>3 DEF SplitThinking
  <2> HIDE DEF at
  <2>3. at - 1 \in Nat /\ at - 1 < Len(u) /\ at \in 0..Len(u) /\ at - 1 \in 0..Len(u)
        /\ (at - 1) + 1 = at
    BY <1>1, <2>1
  <2>4. a \in Text /\ b \in Text /\ tag \in Text
    <3>1. "</think>" \in Pieces
      BY DEF Pieces
    <3> QED
      BY <2>3, <3>1, SplitAt, Singleton DEF Text
  <2>5. (a \o tag) \o b = u
    <3>1. a \o <<u[at]>> = SubSeq(u, 1, at)
      BY <2>3, PrefixGrows DEF Text
    <3>2. SubSeq(u, 1, at) \o b = u
      BY <2>3, SplitAt DEF Text
    <3> QED
      BY <2>1, <3>1, <3>2
  <2> HIDE DEF a, b, tag
  <2>6. r \in Text /\ Squeezed(r) = Squeezed(a) /\ c \in Text /\ Squeezed(c) = Squeezed(b)
    BY <2>4, TrimOf
  <2> HIDE DEF r, c
  <2>7. /\ a \o tag \in Text /\ Squeezed(a \o tag) = Squeezed(a) \o Squeezed(tag)
        /\ r \o tag \in Text /\ Squeezed(r \o tag) = Squeezed(r) \o Squeezed(tag)
    BY <2>4, <2>6, SqueezedJoin, Zenon
  <2>8. /\ Squeezed((a \o tag) \o b) = Squeezed(a \o tag) \o Squeezed(b)
        /\ Squeezed((r \o tag) \o c) = Squeezed(r \o tag) \o Squeezed(c)
    BY <2>4, <2>6, <2>7, SqueezedJoin, Zenon
  <2>9. Squeezed(u) = Squeezed((r \o tag) \o c)
    BY <2>5, <2>6, <2>7, <2>8
  <2>10. SplitThinking(u).reasoning = r /\ SplitThinking(u).content = c
    BY <2>2
  <2> QED
    BY <2>6, <2>9, <2>10 DEF tag
<1> QED
  BY <1>2, <1>3

-----------------------------------------------------------------------------
(* The prompt.                                                             *)

Message == [role : {"user", "assistant"}, reasoning : Text, content : Text]

LEMMA FlattenIs ==
  ASSUME NEW seqs
  PROVE  S!FlattenSeq(seqs) = Joins(seqs)
BY DEF S!FlattenSeq, Joins

LEMMA FlattenAppend ==
  ASSUME NEW seqs \in Seq(Text), NEW x \in Text
  PROVE  /\ S!FlattenSeq(seqs) \in Text
         /\ S!FlattenSeq(Append(seqs, x)) = S!FlattenSeq(seqs) \o x
<1>1. /\ Joins(seqs) \in Seq(Pieces)
      /\ Joins(Append(seqs, x)) = Joins(seqs) \o x
  BY JoinsAppend DEF Text
<1> QED
  BY <1>1, FlattenIs, Zenon DEF Text

LEMMA RenderedOf ==
  ASSUME NEW m \in Message
  PROVE  Rendered(m, TRUE) \in Text
<1>1. /\ <<"<user>">> \in Text /\ <<"</user>">> \in Text
      /\ <<"<assistant>">> \in Text /\ <<"<think>">> \in Text
      /\ <<"</think>">> \in Text /\ <<"</assistant>">> \in Text
  BY Singleton DEF Text, Pieces
<1>2. m.reasoning \in Text /\ m.content \in Text /\ m.role \in {"user", "assistant"}
  BY DEF Message
<1>3. \A a, b \in Text : a \o b \in Text
  BY ConcatProperties DEF Text
<1>4. CASE m.role = "user"
  <2>1. Rendered(m, TRUE) = <<"<user>">> \o m.content \o <<"</user>">>
    BY <1>4 DEF Rendered
  <2>2. <<"<user>">> \o m.content \in Text
    BY <1>1, <1>2, <1>3
  <2>3. <<"<user>">> \o m.content \o <<"</user>">> \in Text
    BY <1>1, <1>3, <2>2
  <2> QED
    BY <2>1, <2>3
<1>5. CASE m.role = "assistant"
  <2>1. Rendered(m, TRUE) = <<"<assistant>">> \o (<<"<think>">> \o m.reasoning)
                            \o <<"</think>">> \o m.content \o <<"</assistant>">>
    BY <1>5 DEF Rendered
  <2>2. <<"<think>">> \o m.reasoning \in Text
    BY <1>1, <1>2, <1>3
  <2>3. <<"<assistant>">> \o (<<"<think>">> \o m.reasoning) \in Text
    BY <1>1, <1>3, <2>2
  <2>4. <<"<assistant>">> \o (<<"<think>">> \o m.reasoning) \o <<"</think>">> \in Text
    BY <1>1, <1>3, <2>3
  <2>5. <<"<assistant>">> \o (<<"<think>">> \o m.reasoning) \o <<"</think>">> \o m.content \in Text
    BY <1>2, <1>3, <2>4
  <2> QED
    BY <1>1, <1>3, <2>1, <2>5
<1> QED
  BY <1>2, <1>4, <1>5

(* The messages of a conversation, rendered one after the other. *)
Flat(ms) == S!FlattenSeq([i \in DOMAIN ms |-> Rendered(ms[i], TRUE)])

LEMMA FlatOf ==
  ASSUME NEW ms \in Seq(Message)
  PROVE  Flat(ms) \in Text
<1> DEFINE seqs == [i \in DOMAIN ms |-> Rendered(ms[i], TRUE)]
<1>1. Len(ms) \in Nat /\ DOMAIN ms = 1..Len(ms) /\ \A i \in 1..Len(ms) : Rendered(ms[i], TRUE) \in Text
  BY LenProperties, ElementOfSeq, RenderedOf
<1>2. seqs \in [1..Len(ms) -> Text]
  BY <1>1
<1> HIDE DEF seqs
<1>3. seqs \in Seq(Text)
  BY <1>1, <1>2, IsSequence
<1>4. Joins(seqs) \in Text
  BY <1>3, JoinsJoin DEF Text
<1> QED
  BY <1>4, FlattenIs DEF Flat, seqs

LEMMA FlatAppend ==
  ASSUME NEW ms \in Seq(Message), NEW m \in Message
  PROVE  Flat(Append(ms, m)) = Flat(ms) \o Rendered(m, TRUE)
<1> DEFINE all  == Append(ms, m)
           old  == [i \in DOMAIN ms |-> Rendered(ms[i], TRUE)]
           new  == [i \in DOMAIN all |-> Rendered(all[i], TRUE)]
           last == Rendered(m, TRUE)
<1>1. PICK N \in Nat : N = Len(ms)
  BY LenProperties
<1>2. /\ DOMAIN ms = 1..N /\ \A i \in 1..N : ms[i] \in Message
      /\ DOMAIN all = 1..(N + 1) /\ \A i \in 1..N : all[i] = ms[i]
      /\ all[N + 1] = m
  <2>1. all \in Seq(Message) /\ Len(all) = N + 1
    BY <1>1, AppendProperties
  <2> QED
    BY <1>1, <2>1, LenProperties, ElementOfSeq, AppendProperties
<1> HIDE DEF all
<1>3. last \in Text /\ \A i \in 1..N : Rendered(ms[i], TRUE) \in Text
  BY <1>2, RenderedOf
<1>4. old \in [1..N -> Text]
  BY <1>2, <1>3
<1>5. /\ DOMAIN new = 1..(N + 1) /\ \A i \in 1..N : new[i] = old[i]
      /\ new[N + 1] = last
  <2>1. DOMAIN new = 1..(N + 1) /\ \A i \in 1..(N + 1) : new[i] = Rendered(all[i], TRUE)
    BY <1>2
  <2>2. \A i \in 1..N : old[i] = Rendered(ms[i], TRUE)
    BY <1>2
  <2> HIDE DEF new, old
  <2>3. N + 1 \in 1..(N + 1) /\ \A i \in 1..N : i \in 1..(N + 1)
    OBVIOUS
  <2> QED
    BY <1>2, <2>1, <2>2, <2>3
<1> HIDE DEF old, last
<1>6. old \in Seq(Text) /\ Len(old) = N
  BY <1>4, IsSequence
<1>7. new \in [1..(N + 1) -> Text]
  <2>1. new = [i \in 1..(N + 1) |-> new[i]]
    BY <1>5
  <2> HIDE DEF new
  <2>2. \A i \in 1..(N + 1) : new[i] \in Text
    BY <1>3, <1>4, <1>5
  <2> QED
    BY <2>1, <2>2
<1> HIDE DEF new
<1>8. new \in Seq(Text) /\ Len(new) = N + 1
  BY <1>7, IsSequence
<1>9. /\ Append(old, last) \in Seq(Text) /\ Len(Append(old, last)) = N + 1
      /\ \A i \in 1..N : Append(old, last)[i] = old[i]
      /\ Append(old, last)[N + 1] = last
  BY <1>3, <1>6, AppendProperties
<1>10. new = Append(old, last)
  BY <1>5, <1>8, <1>9, SeqEqual
<1>11. S!FlattenSeq(Append(old, last)) = S!FlattenSeq(old) \o last
  BY <1>3, <1>6, FlattenAppend
<1> QED
  BY <1>10, <1>11 DEF Flat, all, old, new, last

(* What every prompt of the chat opens with, and what a prompt repeats of  *)
(* a conversation; behind that it leaves the assistant's turn open.        *)
Preface == Header(<<>>, TRUE)
Opening(ms) == <<"BOS">> \o Preface \o Flat(ms)
TurnOpen == <<"<assistant>", "<think>">>

LEMMA OpeningOf ==
  ASSUME NEW ms \in Seq(Message)
  PROVE  <<"BOS">> \o Preface \in Text /\ Opening(ms) \in Text
<1>1. /\ <<"BOS">> \in Text /\ <<"<system>">> \in Text /\ <<"</system>">> \in Text
      /\ <<"default system">> \in Text /\ <<>> \in Text
  BY Singleton, EmptySeq DEF Text, Pieces
<1>2. \A a, b \in Text : a \o b \in Text
  BY ConcatProperties DEF Text
<1> DEFINE sys == <<"default system">>
           mid == IF Trim(sys) # <<>> THEN TrimEnd(sys) ELSE <<>>
<1>3. mid \in Text
  BY <1>1, TrimEndOf
<1>4. Preface = <<"<system>">> \o mid \o <<"</system>">>
  BY DEF Preface, Header
<1> HIDE DEF mid
<1>5. Preface \in Text
  BY <1>1, <1>2, <1>3, <1>4
<1> QED
  BY <1>1, <1>2, <1>5, FlatOf DEF Opening

LEMMA PromptOf ==
  ASSUME NEW ms \in Seq(Message)
  PROVE  BuildPrompt(ms, TRUE) = Opening(ms) \o TurnOpen
<1>1. ~(ms # <<>> /\ ms[1].role = "system")
  <2>1. SUFFICES ASSUME ms # <<>> PROVE ms[1].role # "system"
    OBVIOUS
  <2>2. ms[1] \in Message
    BY <2>1, EmptySeq, ElementOfSeq
  <2> QED
    BY <2>2 DEF Message
<1>2. Header(ms, TRUE) = Preface
  BY <1>1 DEF Preface, Header
<1>3. (IF ms # <<>> /\ ms[1].role = "system" THEN Tail(ms) ELSE ms) = ms
  BY <1>1
<1> QED
  BY <1>2, <1>3 DEF BuildPrompt, Opening, Flat, TurnOpen

(* A text begins with another. *)
Begins(a, b) == \E c \in Text : b = a \o c

(* The opening of a longer conversation begins with that of a shorter one. *)
LEMMA OpeningGrows ==
  ASSUME NEW ms \in Seq(Message), NEW m \in Message
  PROVE  Opening(Append(ms, m)) = Opening(ms) \o Rendered(m, TRUE)
<1>1. Flat(ms) \in Text /\ Rendered(m, TRUE) \in Text /\ <<"BOS">> \o Preface \in Text
  BY FlatOf, RenderedOf, OpeningOf
<1>2. PICK x \in Text, y \in Text, z \in Text :
        x = <<"BOS">> \o Preface /\ y = Flat(ms) /\ z = Rendered(m, TRUE)
  BY <1>1
<1>3. (x \o y) \o z = x \o (y \o z)
  BY ConcatAssociative DEF Text
<1>4. Opening(ms) = x \o y
  BY <1>2 DEF Opening
<1>5. Opening(Append(ms, m)) = x \o (y \o z)
  BY <1>2, FlatAppend DEF Opening
<1> QED
  BY <1>2, <1>3, <1>4, <1>5

(* Joining texts is associative. *)
Regroups(x, y, z) == (x \o y) \o z = x \o (y \o z)

LEMMA Grouped ==
  ASSUME NEW x \in Text, NEW y \in Text, NEW z \in Text
  PROVE  Regroups(x, y, z)
BY ConcatAssociative DEF Text, Regroups

(* A reply that closed its reasoning, filed and rendered again, reads as   *)
(* it was streamed, up to whitespace.                                      *)
LEMMA ReplyRepeats ==
  ASSUME NEW ms \in Seq(Message), NEW reply \in Text, ClosesThinking(reply)
  PROVE  LET said == BuildPrompt(ms, TRUE) \o reply \o <<"</assistant>">>
             m    == Assistant(SplitThinking(reply)) IN
         /\ m \in Message /\ said \in Text
         /\ Squeezed(said) = Squeezed(Opening(Append(ms, m)))
<1> DEFINE said == BuildPrompt(ms, TRUE) \o reply \o <<"</assistant>">>
           m    == Assistant(SplitThinking(reply))
<1>1. PICK r \in Text, c \in Text :
        r = SplitThinking(reply).reasoning /\ c = SplitThinking(reply).content
  BY SplitOf
<1>2. Squeezed(reply) = Squeezed((r \o <<"</think>">>) \o c)
  BY <1>1, SplitOf
<1>3. m = [role |-> "assistant", reasoning |-> r, content |-> c] /\ m \in Message
  BY <1>1 DEF Assistant, Message
<1>4. PICK open \in Text, think \in Text, shut \in Text, end \in Text :
        /\ open = <<"<assistant>">> /\ think = <<"<think>">>
        /\ shut = <<"</think>">> /\ end = <<"</assistant>">>
  BY Singleton DEF Text, Pieces
<1>5. TurnOpen = open \o think
  BY <1>4 DEF TurnOpen
<1>6. PICK o \in Text : o = Opening(ms)
  BY OpeningOf
<1>7. Rendered(m, TRUE) = open \o (think \o r) \o shut \o c \o end
  BY <1>3, <1>4 DEF Rendered
<1>8. said = ((o \o (open \o think)) \o reply) \o end
  BY <1>4, <1>5, <1>6, PromptOf
<1>9. Opening(Append(ms, m)) = o \o (open \o (think \o r) \o shut \o c \o end)
  BY <1>3, <1>6, <1>7, OpeningGrows
<1> HIDE DEF said, m
<1>10. \A x, y \in Text : x \o y \in Text
  BY ConcatProperties DEF Text
<1>11. PICK rs \in Text, ot \in Text, op \in Text :
         rs = r \o shut /\ ot = open \o think /\ op = think \o r
  BY <1>10
<1>12. PICK head \in Text : head = o \o ot
  BY <1>10
<1>13. PICK mid \in Text, om \in Text : mid = rs \o c /\ om = ot \o mid
  BY <1>10
<1>14. o \o (open \o op \o shut \o c \o end) = (head \o mid) \o end
  <2>1. /\ Regroups(open, think, r) /\ Regroups(ot, r, shut) /\ Regroups(ot, rs, c)
        /\ Regroups(o, om, end) /\ Regroups(o, ot, mid)
    BY Grouped
  <2>2. open \o op = ot \o r /\ (ot \o r) \o shut = ot \o rs
    BY <1>11, <2>1, Zenon DEF Regroups
  <2>3. (ot \o rs) \o c = om /\ o \o (om \o end) = (o \o om) \o end
    BY <1>13, <2>1, Zenon DEF Regroups
  <2>4. o \o om = head \o mid
    BY <1>12, <1>13, <2>1, Zenon DEF Regroups
  <2> QED
    BY <2>2, <2>3, <2>4, Zenon
<1>15. Squeezed(head \o mid) = Squeezed(head \o reply) /\ head \o mid \in Text /\ head \o reply \in Text
  <2>1. /\ Squeezed(head \o mid) = Squeezed(head) \o Squeezed(mid) /\ head \o mid \in Text
        /\ Squeezed(head \o reply) = Squeezed(head) \o Squeezed(reply) /\ head \o reply \in Text
    BY SqueezedJoin
  <2>2. Squeezed(mid) = Squeezed(reply)
    BY <1>2, <1>4, <1>11, <1>13
  <2> QED
    BY <2>1, <2>2
<1>16. Squeezed((head \o mid) \o end) = Squeezed((head \o reply) \o end) /\ (head \o reply) \o end \in Text
  <2>1. /\ Squeezed((head \o mid) \o end) = Squeezed(head \o mid) \o Squeezed(end)
        /\ Squeezed((head \o reply) \o end) = Squeezed(head \o reply) \o Squeezed(end)
        /\ (head \o reply) \o end \in Text
    BY <1>15, SqueezedJoin
  <2> QED
    BY <1>15, <2>1
<1>17. said = (head \o reply) \o end
  BY <1>8, <1>11, <1>12
<1>18. Squeezed(said) = Squeezed(Opening(Append(ms, m))) /\ said \in Text
  BY <1>9, <1>11, <1>14, <1>16, <1>17
<1> QED
  BY <1>3, <1>18 DEF said, m

-----------------------------------------------------------------------------
(* The inductive invariant of the conversation.                            *)

(* The main thread is in a turn: the user's message is the last one.       *)
InTurn == {"clear", "raise", "generate", "lower", "record"}

(* The messages of the turns that are over. *)
Over == IF mpc = "edit" THEN messages ELSE SubSeq(messages, 1, Len(messages) - 1)

Talks ==
  /\ messages \in Seq(Message) /\ context \in Text /\ full \in Text
  /\ mpc \in InTurn \cup {"edit", "quit"}
  /\ mpc \in {"lower", "record"} => outcome \in {"cut", "reply", "error"}

Turns ==
  /\ Alternates
  /\ mpc \in InTurn => Len(messages) % 2 = 1

(* What the last recorded turn read and said opens the conversation. *)
Repeats == mpc # "quit" => Begins(Squeezed(context), Squeezed(Opening(Over)))

IInv == Talks /\ Turns /\ Repeats

LEMMA BeginsSelf ==
  ASSUME NEW a \in Text
  PROVE  Begins(a, a) /\ Begins(<<>>, a)
<1>1. <<>> \in Text
  BY EmptySeq DEF Text
<1>2. a \o <<>> = a /\ <<>> \o a = a
  BY ConcatEmptySeq DEF Text
<1> QED
  BY <1>1, <1>2 DEF Begins

LEMMA SqueezedEmpty ==
  <<>> \in Text /\ Squeezed(<<>>) = <<>>
<1>1. <<>> \in Text /\ Words(<<>>) = {}
  BY EmptySeq DEF Text, Words
<1> QED
  BY <1>1, NoWords

LEMMA SqueezedText ==
  ASSUME NEW a \in Text
  PROVE  Squeezed(a) \in Text
<1>1. PICK f : Kept(f, a)
  BY KeptExists
<1> QED
  BY <1>1, SqueezedIs

LEMMA InitIInv == Init => IInv
<1> SUFFICES ASSUME Init PROVE IInv
  OBVIOUS
<1>1. mpc = "edit" /\ messages = <<>> /\ context = <<>> /\ full = <<>>
  BY DEF Init
<1>2. messages \in Seq(Message) /\ Len(messages) = 0 /\ context \in Text /\ full \in Text
  BY <1>1, EmptySeq DEF Text
<1>3. Talks /\ Turns
  BY <1>1, <1>2 DEF Talks, Turns, Alternates, InTurn
<1>4. Opening(Over) \in Text
  BY <1>1, <1>2, OpeningOf DEF Over
<1>5. Squeezed(Opening(Over)) \in Text
  BY <1>4, SqueezedText
<1>6. Repeats
  BY <1>1, <1>5, SqueezedEmpty, BeginsSelf DEF Repeats
<1> QED
  BY <1>3, <1>6 DEF IInv

(* A step that leaves the conversation alone and does not end a turn. *)
LEMMA QuietStep ==
  ASSUME IInv, UNCHANGED <<messages, context>>, full' \in Text,
         mpc' \in {mpc, "quit"} \/ (mpc \in InTurn /\ mpc' \in InTurn),
         mpc' \in {"lower", "record"} => outcome' \in {"cut", "reply", "error"}
  PROVE  IInv'
<1>1. mpc' \in InTurn \cup {"edit", "quit"} /\ (mpc' \in InTurn => mpc \in InTurn)
      /\ (mpc' = "edit" <=> mpc = "edit" /\ mpc' # "quit") /\ (mpc' # "quit" => mpc # "quit")
  BY DEF IInv, Talks, InTurn
<1>2. Talks'
  BY <1>1 DEF IInv, Talks
<1>3. Turns'
  BY <1>1 DEF IInv, Turns, Alternates
<1>4. Repeats'
  <2>1. SUFFICES ASSUME mpc' # "quit" PROVE Begins(Squeezed(context), Squeezed(Opening(Over)))'
    BY DEF Repeats
  <2>2. Over' = Over
    BY <1>1, <2>1 DEF Over
  <2> QED
    BY <1>1, <2>1, <2>2 DEF IInv, Repeats
<1> QED
  BY <1>2, <1>3, <1>4 DEF IInv

(* A reply is a text. *)
LEMMA RepliesAreTexts == Replies \subseteq Text
<1>1. Seq(STRING) \subseteq Text
  BY SeqMonotonic DEF Text, Pieces
<1> QED
  BY <1>1, ReplAssumption

LEMMA Filed ==
  ASSUME NEW reply \in Text
  PROVE  Assistant(SplitThinking(reply)) \in Message
<1>1. PICK r \in Text, c \in Text :
        r = SplitThinking(reply).reasoning /\ c = SplitThinking(reply).content
  BY SplitOf
<1> QED
  BY <1>1 DEF Assistant, Message

(* All but the last of a longer conversation. *)
LEMMA AllButLast ==
  ASSUME NEW ms \in Seq(Message), NEW m \in Message
  PROVE  LET longer == Append(ms, m) IN
         /\ longer \in Seq(Message) /\ Len(longer) = Len(ms) + 1
         /\ \A i \in 1..Len(ms) : longer[i] = ms[i]
         /\ longer[Len(ms) + 1] = m
         /\ SubSeq(longer, 1, Len(longer) - 1) = ms
<1> DEFINE longer == Append(ms, m)
           front == SubSeq(longer, 1, Len(longer) - 1)
<1>1. Len(ms) \in Nat
  BY LenProperties
<1>2. /\ longer \in Seq(Message) /\ Len(longer) = Len(ms) + 1
      /\ \A i \in 1..Len(ms) : longer[i] = ms[i]
      /\ longer[Len(ms) + 1] = m
  BY AppendProperties
<1> HIDE DEF longer
<1>3. Len(longer) - 1 = Len(ms) /\ Len(ms) \in 0..Len(longer)
  BY <1>1, <1>2
<1>4. front \in Seq(Message) /\ Len(front) = Len(ms) /\ \A i \in 1..Len(ms) : front[i] = longer[i]
  BY <1>2, <1>3, PrefixOf
<1> HIDE DEF front
<1>5. front = ms
  BY <1>2, <1>4, SeqEqual
<1> QED
  BY <1>2, <1>5 DEF front, longer

LEMMA TypedStep ==
  ASSUME IInv, mpc = "edit", mpc' = "clear", messages' = Append(messages, User(<<"typed">>)),
         UNCHANGED <<context, full>>
  PROVE  IInv'
<1> DEFINE u == User(<<"typed">>)
<1>1. <<>> \in Text /\ <<"typed">> \in Text
  BY EmptySeq, Singleton DEF Text, Pieces
<1>2. u \in Message /\ u.role = "user"
  BY <1>1 DEF User, Message
<1> HIDE DEF u
<1>3. messages \in Seq(Message) /\ Len(messages) \in Nat
  BY LenProperties DEF IInv, Talks
<1>4. /\ messages' \in Seq(Message) /\ Len(messages') = Len(messages) + 1
      /\ \A i \in 1..Len(messages) : messages'[i] = messages[i]
      /\ messages'[Len(messages) + 1] = u
      /\ SubSeq(messages', 1, Len(messages') - 1) = messages
  BY <1>2, <1>3, AllButLast DEF u
<1>5. Talks'
  BY <1>4 DEF IInv, Talks, InTurn
<1>6. Len(messages) % 2 = 0 /\ Len(messages') % 2 = 1
  <2>1. Len(messages) % 2 = 0
    BY DEF IInv, Turns, Alternates
  <2>2. PICK n \in Nat : n = Len(messages)
    BY <1>3
  <2>3. n % 2 = 0 => (n + 1) % 2 = 1
    OBVIOUS
  <2>4. Len(messages') = Len(messages) + 1
    BY <1>4
  <2> QED
    BY <2>1, <2>2, <2>3, <2>4
<1>7. ASSUME NEW i \in 1..Len(messages')
      PROVE  messages'[i].role = IF i % 2 = 1 THEN "user" ELSE "assistant"
  <2>1. CASE i \in 1..Len(messages)
    BY <1>4, <2>1 DEF IInv, Turns, Alternates
  <2>2. CASE i = Len(messages) + 1
    BY <1>2, <1>4, <1>6, <2>2
  <2>3. i \in 1..Len(messages) \/ i = Len(messages) + 1
    BY <1>3, <1>4
  <2> QED
    BY <2>1, <2>2, <2>3
<1>8. Turns'
  BY <1>6, <1>7 DEF Turns, Alternates
<1>9. Over' = Over
  BY <1>4 DEF Over
<1>10. Repeats'
  BY <1>9 DEF IInv, Repeats
<1> QED
  BY <1>5, <1>8, <1>10 DEF IInv

(* /clear *)
LEMMA ClearedStep ==
  ASSUME IInv, mpc = "edit", mpc' = "edit", messages' = <<>>, context' = <<>>, UNCHANGED full
  PROVE  IInv'
<1>1. messages' \in Seq(Message) /\ Len(messages') = 0 /\ context' \in Text
  BY EmptySeq DEF Text
<1>2. Talks' /\ Turns'
  BY <1>1 DEF IInv, Talks, Turns, Alternates, InTurn
<1>3. PICK o \in Text : o = Opening(Over')
  BY <1>1, OpeningOf DEF Over
<1>4. Begins(<<>>, Squeezed(o))
  BY SqueezedText, BeginsSelf
<1>5. Squeezed(context') = <<>>
  BY SqueezedEmpty
<1>6. Begins(Squeezed(context'), Squeezed(Opening(Over')))
  BY <1>3, <1>4, <1>5
<1>7. Repeats'
  BY <1>6 DEF Repeats
<1> QED
  BY <1>2, <1>7 DEF IInv

LEMMA ForgottenStep ==
  ASSUME IInv, mpc = "record", mpc' = "edit", Forgotten, full' = <<>>
  PROVE  IInv'
<1>1. messages \in Seq(Message) /\ Len(messages) \in Nat /\ Len(messages) % 2 = 1
  BY LenProperties DEF IInv, Talks, Turns, InTurn
<1>2. PICK n \in 0..Len(messages) : n = Len(messages) - 1 /\ n % 2 = 0
  <2>1. Len(messages) - 1 \in 0..Len(messages) /\ (Len(messages) - 1) % 2 = 0
    BY <1>1
  <2> QED
    BY <2>1
<1>3. /\ messages' \in Seq(Message) /\ Len(messages') = n
      /\ \A i \in 1..n : messages'[i] = messages[i]
  BY <1>1, <1>2, PrefixOf DEF Forgotten
<1>4. Talks'
  BY <1>3, EmptySeq DEF IInv, Talks, Forgotten, Text
<1>5. \A i \in 1..n : i \in 1..Len(messages)
  BY <1>1, <1>2
<1>6. Turns'
  BY <1>2, <1>3, <1>5 DEF IInv, Turns, Alternates, InTurn
<1>7. Over' = Over
  BY DEF Over, Forgotten
<1>8. Repeats'
  BY <1>7 DEF IInv, Repeats, Forgotten
<1> QED
  BY <1>4, <1>6, <1>8 DEF IInv

LEMMA RecordedStep ==
  ASSUME IInv, mpc = "record", mpc' = "edit", ~Unusable, Recorded, full' = <<>>
  PROVE  IInv'
<1> DEFINE m == Assistant(SplitThinking(full))
<1>1. /\ messages \in Seq(Message) /\ Len(messages) \in Nat /\ Len(messages) % 2 = 1
      /\ full \in Text
  BY LenProperties DEF IInv, Talks, Turns, InTurn
<1>2. m \in Message
  BY <1>1, Filed
<1>3. m.role = "assistant"
  BY DEF Assistant
<1>4. messages' = Append(messages, m)
  BY DEF Recorded
<1> HIDE DEF m
<1>5. /\ messages' \in Seq(Message) /\ Len(messages') = Len(messages) + 1
      /\ \A i \in 1..Len(messages) : messages'[i] = messages[i]
      /\ messages'[Len(messages) + 1] = m
  BY <1>1, <1>2, <1>4, AllButLast
<1>6. Len(messages') % 2 = 0
  BY <1>1, <1>5
<1>7. ASSUME NEW i \in 1..Len(messages')
      PROVE  messages'[i].role = IF i % 2 = 1 THEN "user" ELSE "assistant"
  <2>1. CASE i \in 1..Len(messages)
    BY <1>5, <2>1 DEF IInv, Turns, Alternates
  <2>2. CASE i = Len(messages) + 1
    BY <1>3, <1>5, <1>6, <2>2
  <2>3. i \in 1..Len(messages) \/ i = Len(messages) + 1
    BY <1>1, <1>5
  <2> QED
    BY <2>1, <2>2, <2>3
<1>8. Turns'
  BY <1>6, <1>7 DEF Turns, Alternates, InTurn
<1>9. context' \in Text /\ Begins(Squeezed(context'), Squeezed(Opening(messages')))
  <2>1. PICK o \in Text : o = Opening(messages')
    BY <1>5, OpeningOf
  <2>2. CASE outcome = "reply" /\ ~ClosesThinking(full)
    <3>1. context' = <<>>
      BY <2>2 DEF Recorded
    <3>2. Begins(<<>>, Squeezed(o))
      BY SqueezedText, BeginsSelf
    <3> QED
      BY <2>1, <3>1, <3>2, SqueezedEmpty
  <2>3. CASE ~(outcome = "reply" /\ ~ClosesThinking(full))
    <3>1. outcome \in {"cut", "reply", "error"}
      BY DEF IInv, Talks
    <3>2. ClosesThinking(full)
      BY <2>3, <3>1 DEF Unusable
    <3>3. context' = BuildPrompt(messages, TRUE) \o full \o <<"</assistant>">>
      BY <2>3 DEF Recorded
    <3>4. context' \in Text /\ Squeezed(context') = Squeezed(o)
      BY <1>1, <1>4, <2>1, <3>2, <3>3, ReplyRepeats DEF m
    <3>5. Begins(Squeezed(o), Squeezed(o))
      BY SqueezedText, BeginsSelf
    <3> QED
      BY <2>1, <3>4, <3>5
  <2> QED
    BY <2>2, <2>3
<1>10. Talks'
  BY <1>5, <1>9, EmptySeq DEF Talks, Text
<1>11. Repeats'
  BY <1>9 DEF Repeats, Over
<1> QED
  BY <1>8, <1>10, <1>11 DEF IInv

-----------------------------------------------------------------------------
(* Every step keeps the invariant.                                         *)

(* The input thread and the clock leave the conversation alone; at most    *)
(* they end the program.                                                   *)
LEMMA InputIInv ==
  ASSUME IInv, InputStep \/ Second \/ \E k \in Keys : ReadKey(k)
  PROVE  IInv'
<1>1. UNCHANGED <<messages, context, full>>
  BY DEF InputStep, LoadGenerating, ActCtrlC, ActEsc, Second, ReadKey, mainvars, talk
<1>2. UNCHANGED <<mpc, outcome>> \/ mpc' = "quit"
  BY DEF InputStep, LoadGenerating, ActCtrlC, ActEsc, Second, ReadKey, mainvars
<1>3. full' \in Text /\ (mpc \in {"lower", "record"} => outcome \in {"cut", "reply", "error"})
  BY <1>1 DEF IInv, Talks
<1>4. /\ mpc' \in {mpc, "quit"}
      /\ mpc' \in {"lower", "record"} => outcome' \in {"cut", "reply", "error"}
  BY <1>2, <1>3
<1> QED
  BY <1>1, <1>3, <1>4, QuietStep

LEMMA TakeKeyIInv ==
  ASSUME IInv, TakeKey
  PROVE  IInv'
<1>1. mpc = "edit" /\ UNCHANGED <<outcome, full>> /\ full \in Text
  BY DEF TakeKey, IInv, Talks
<1>2. \/ messages' = Append(messages, User(<<"typed">>)) /\ mpc' = "clear" /\ UNCHANGED context
      \/ messages' = <<>> /\ context' = <<>> /\ UNCHANGED mpc
      \/ mpc' \in {mpc, "quit"} /\ UNCHANGED <<messages, context>>
  BY DEF TakeKey, talk
<1>3. CASE messages' = Append(messages, User(<<"typed">>)) /\ mpc' = "clear" /\ UNCHANGED context
  BY <1>1, <1>3, TypedStep
<1>4. CASE messages' = <<>> /\ context' = <<>> /\ UNCHANGED mpc
  BY <1>1, <1>4, ClearedStep
<1>5. CASE mpc' \in {mpc, "quit"} /\ UNCHANGED <<messages, context>>
  <2>1. full' \in Text /\ mpc' \notin {"lower", "record"}
    BY <1>1, <1>5
  <2> QED
    BY <1>5, <2>1, QuietStep
<1> QED
  BY <1>2, <1>3, <1>4, <1>5

LEMMA TurnIInv ==
  ASSUME IInv, ClearCancel \/ RaiseGenerating \/ GenerateEnds \/ LowerGenerating
  PROVE  IInv'
<1>1. UNCHANGED <<messages, context>> /\ mpc \in InTurn /\ mpc' \in InTurn
  BY DEF ClearCancel, RaiseGenerating, GenerateEnds, LowerGenerating, talk, InTurn
<1>2. full' \in Text
  BY RepliesAreTexts
  DEF IInv, Talks, ClearCancel, RaiseGenerating, GenerateEnds, LowerGenerating
<1>3. mpc' \in {"lower", "record"} => outcome' \in {"cut", "reply", "error"}
  BY DEF IInv, Talks, ClearCancel, RaiseGenerating, GenerateEnds, LowerGenerating
<1> QED
  BY <1>1, <1>2, <1>3, QuietStep

LEMMA RecordIInv ==
  ASSUME IInv, Record
  PROVE  IInv'
<1>1. CASE Unusable
  BY <1>1, ForgottenStep DEF Record
<1>2. CASE ~Unusable
  BY <1>2, RecordedStep DEF Record
<1> QED
  BY <1>1, <1>2

LEMMA StutterIInv ==
  ASSUME IInv, UNCHANGED vars
  PROVE  IInv'
<1>1. UNCHANGED <<messages, context, full, mpc, outcome>>
  BY DEF vars
<1> QED
  BY <1>1 DEF IInv, Talks, Turns, Repeats, Alternates, Over

LEMMA NextIInv == IInv /\ [Next]_vars => IInv'
<1> SUFFICES ASSUME IInv, [Next]_vars PROVE IInv'
  OBVIOUS
<1>1. CASE TakeKey
  BY <1>1, TakeKeyIInv
<1>2. CASE ClearCancel \/ RaiseGenerating \/ GenerateEnds \/ LowerGenerating
  BY <1>2, TurnIInv
<1>3. CASE Record
  BY <1>3, RecordIInv
<1>4. CASE InputStep \/ Second \/ \E k \in Keys : ReadKey(k)
  BY <1>4, InputIInv
<1>5. CASE UNCHANGED vars
  BY <1>5, StutterIInv
<1> QED
  BY <1>1, <1>2, <1>3, <1>4, <1>5 DEF Next, MainStep

(* The conversation's invariant is one of the program. *)
LEMMA Inductive == Spec => []IInv
BY InitIInv, NextIInv, PTL DEF Spec

-----------------------------------------------------------------------------
(* The theorems.                                                           *)

(* run and its catch-up: whatever fails, is cut or is cleared, user        *)
(* messages and replies alternate, and an editor that is back has a        *)
(* conversation that ends with a reply.                                    *)
THEOREM TurnsAlternate == Spec => []Alternates
<1>1. IInv => Alternates
  BY DEF IInv, Turns
<1> QED
  BY <1>1, Inductive, PTL

(* The prompt of a conversation begins with that of its finished turns.    *)
LEMMA PromptBegins ==
  ASSUME IInv, mpc = "clear"
  PROVE  Begins(Squeezed(context), Squeezed(BuildPrompt(messages, TRUE)))
<1>1. messages \in Seq(Message) /\ Len(messages) \in Nat /\ Len(messages) % 2 = 1
  BY LenProperties DEF IInv, Talks, Turns, InTurn
<1>2. PICK n \in 0..Len(messages) : n + 1 = Len(messages) /\ n = Len(messages) - 1
  <2>1. Len(messages) - 1 \in 0..Len(messages) /\ (Len(messages) - 1) + 1 = Len(messages)
    BY <1>1
  <2> QED
    BY <1>1, <2>1
<1>3. PICK before \in Seq(Message), last \in Message :
        before = Over /\ messages = Append(before, last)
  <2>1. SubSeq(messages, 1, n) \in Seq(Message) /\ messages[n + 1] \in Message
    BY <1>1, <1>2, PrefixOf, ElementOfSeq
  <2>2. SubSeq(messages, 1, n + 1) = Append(SubSeq(messages, 1, n), messages[n + 1])
    BY <1>1, <1>2, PrefixGrows
  <2>3. SubSeq(messages, 1, n + 1) = messages
    BY <1>1, <1>2, SubSeqFull
  <2> QED
    BY <1>2, <2>1, <2>2, <2>3 DEF Over
<1>4. PICK o \in Text, l \in Text, t \in Text, ol \in Text :
        /\ o = Opening(before) /\ l = Rendered(last, TRUE) /\ t = TurnOpen
        /\ ol = o \o l
  <2>1. TurnOpen \in Text
    <3>1. <<"<assistant>">> \in Text /\ <<"<think>">> \in Text
      BY Singleton DEF Text, Pieces
    <3> QED
      BY <3>1, ConcatProperties DEF Text, TurnOpen
  <2>2. \A x, y \in Text : x \o y \in Text
    BY ConcatProperties DEF Text
  <2> QED
    BY <2>1, <2>2, OpeningOf, RenderedOf
<1>5. BuildPrompt(messages, TRUE) = ol \o t
  BY <1>1, <1>3, <1>4, PromptOf, OpeningGrows
<1>6. Squeezed(ol \o t) = (Squeezed(o) \o Squeezed(l)) \o Squeezed(t)
  BY <1>4, SqueezedJoin
<1>7. Begins(Squeezed(context), Squeezed(o))
  BY <1>3, <1>4 DEF IInv, Repeats
<1>8. PICK sc \in Text, so \in Text, sl \in Text, st \in Text, d \in Text :
        /\ sc = Squeezed(context) /\ so = Squeezed(o) /\ sl = Squeezed(l) /\ st = Squeezed(t)
        /\ so = sc \o d
  BY <1>7, SqueezedText DEF Begins, IInv, Talks
<1>9. PICK dl \in Text, dt \in Text, sol \in Text : dl = d \o sl /\ dt = dl \o st /\ sol = so \o sl
  <2>1. \A x, y \in Text : x \o y \in Text
    BY ConcatProperties DEF Text
  <2> QED
    BY <2>1
<1>10. Regroups(sc, d, sl) /\ Regroups(sc, dl, st)
  BY Grouped
<1>11. (so \o sl) \o st = sc \o dt
  BY <1>8, <1>9, <1>10, Zenon DEF Regroups
<1> QED
  BY <1>5, <1>6, <1>8, <1>11 DEF Begins

LEMMA BeginsIsPrefix ==
  ASSUME NEW a \in Text, NEW b, Begins(a, b)
  PROVE  a = SubSeq(b, 1, Len(a))
<1>1. PICK c \in Text : b = a \o c
  BY DEF Begins
<1>2. Len(a) \in 0..Len(a)
  BY LenProperties DEF Text
<1>3. SubSeq(a \o c, 1, Len(a)) = SubSeq(a, 1, Len(a))
  BY <1>2, PrefixOfJoin DEF Text
<1>4. SubSeq(a, 1, Len(a)) = a
  BY SubSeqFull DEF Text
<1> QED
  BY <1>1, <1>3, <1>4

(* split_thinking and build_prompt: the prompt of every turn opens with    *)
(* what the model read and said in the last recorded one, up to whitespace,*)
(* whatever was cut, failed or forgotten since.                            *)
THEOREM NextPromptContinues == Spec => []NextPromptReplays
<1>1. ASSUME IInv PROVE NextPromptReplays
  <2> SUFFICES ASSUME mpc = "clear"
               PROVE  Squeezed(context) = SubSeq(Squeezed(BuildPrompt(messages, TRUE)), 1,
                                                 Len(Squeezed(context)))
    BY DEF NextPromptReplays
  <2>1. Squeezed(context) \in Text
    BY <1>1, SqueezedText DEF IInv, Talks
  <2> QED
    BY <1>1, <2>1, PromptBegins, BeginsIsPrefix
<1> QED
  BY <1>1, Inductive, PTL

(* The flags of run and spawn_input_thread: a request made while a reply   *)
(* is generated stands until that reply is over, whatever the two threads  *)
(* interleave.                                                             *)
THEOREM RequestsStand == Spec => []NoRequestLost
<1>1. Init => NoRequestLost
  BY DEF Init, NoRequestLost
<1>2. ASSUME NoRequestLost, [Next]_vars PROVE NoRequestLost'
  <2>1. CASE TakeKey \/ ClearCancel \/ RaiseGenerating \/ GenerateEnds \/ LowerGenerating \/ Record
    BY <2>1 DEF TakeKey, ClearCancel, RaiseGenerating, GenerateEnds, LowerGenerating, Record,
                NoRequestLost, inputvars
  <2>2. CASE ActCtrlC \/ ActEsc
    BY <2>2 DEF ActCtrlC, ActEsc, Request, NoRequestLost
  <2>3. CASE LoadGenerating \/ Second \/ \E k \in Keys : ReadKey(k)
    BY <1>2, <2>3 DEF LoadGenerating, Second, ReadKey, mainvars, NoRequestLost
  <2>4. CASE UNCHANGED vars
    BY <1>2, <2>4 DEF vars, NoRequestLost
  <2> QED
    BY <1>2, <2>1, <2>2, <2>3, <2>4 DEF Next, MainStep, InputStep
<1> QED
  BY <1>1, <1>2, PTL DEF Spec
=============================================================================
