--------------------------- MODULE KvCacheProofs ---------------------------
(***************************************************************************)
(* KvCache for every number of layers, window, context and token set: the  *)
(* keys stay where the code looks them up, in the face of speculative      *)
(* verifies, rollbacks and failures, as long as a verify span is no longer *)
(* than the window.                                                        *)
(***************************************************************************)
EXTENDS KvCache, Lemmas, TLAPS

-----------------------------------------------------------------------------
(* The ring helpers of KvRing, for rings of every size: positions are      *)
(* found again at p % w, a write of at most w keys touches exactly the     *)
(* slots of its positions, and a snapshot reads them in position order.    *)

-----------------------------------------------------------------------------
(* Arithmetic modulo the ring size.                                        *)

(* Division with remainder. *)
LEMMA ModDef ==
  ASSUME NEW w \in Nat \ {0}, NEW a \in Nat
  PROVE  /\ a = (w * (a \div w)) + (a % w)
         /\ a \div w \in Nat
         /\ a % w \in 0..(w - 1)
  OBVIOUS

(* The remainder is determined by the equation of division. *)
LEMMA ModUnique ==
  ASSUME NEW w \in Nat \ {0}, NEW q \in Int, NEW r \in 0..(w - 1)
  PROVE  ((w * q) + r) % w = r
  OBVIOUS

(* Advancing by less than the ring size wraps at most once. *)
LEMMA ModShift ==
  ASSUME NEW w \in Nat \ {0}, NEW a \in Nat, NEW b \in 0..(w - 1)
  PROVE  (a + b) % w = IF (a % w) + b >= w THEN ((a % w) + b) - w ELSE (a % w) + b
<1>1. PICK q \in Nat, r \in 0..(w - 1) : a = (w * q) + r /\ r = a % w
  BY ModDef
<1>2. CASE r + b < w
  <2>1. /\ a + b = (w * q) + (r + b)
        /\ r + b \in 0..(w - 1)
        /\ q \in Int
    BY <1>1, <1>2
  <2>2. ((w * q) + (r + b)) % w = r + b
    BY <2>1, ModUnique, Zenon
  <2>3. (a + b) % w = r + b
    BY <2>1, <2>2, Zenon
  <2> QED
    BY <1>1, <1>2, <2>3
<1>3. CASE r + b >= w
  <2>1. w * (q + 1) = (w * q) + w
    BY <1>1
  <2>2. /\ a + b = (w * (q + 1)) + ((r + b) - w)
        /\ (r + b) - w \in 0..(w - 1)
        /\ q + 1 \in Int
    BY <1>1, <1>3, <2>1
  <2>3. ((w * (q + 1)) + ((r + b) - w)) % w = (r + b) - w
    BY <2>2, ModUnique, Zenon
  <2>4. (a + b) % w = (r + b) - w
    BY <2>2, <2>3, Zenon
  <2> QED
    BY <1>1, <1>3, <2>4
<1> QED
  BY <1>1, <1>2, <1>3

(* A position and the one a full turn later share their slot. *)
LEMMA ModTurn ==
  ASSUME NEW w \in Nat \ {0}, NEW a \in Nat
  PROVE  (a + w) % w = a % w
<1>1. PICK q \in Nat, r \in 0..(w - 1) : a = (w * q) + r /\ r = a % w
  BY ModDef
<1>2. w * (q + 1) = (w * q) + w
  BY <1>1
<1>3. a + w = (w * (q + 1)) + r /\ q + 1 \in Int
  BY <1>1, <1>2
<1>4. ((w * (q + 1)) + r) % w = r
  BY <1>3, ModUnique, Zenon
<1> QED
  BY <1>1, <1>3, <1>4, Zenon

-----------------------------------------------------------------------------
(* How far slot i lies behind slot `start`, going round the ring. *)
Ahead(i, start, w) == IF i >= start THEN i - start ELSE (i - start) + w

(* The slot of a later position, seen from the slot of position n. *)
LEMMA AheadLater ==
  ASSUME NEW w \in Nat \ {0}, NEW n \in Nat, NEW p \in Nat,
         n <= p, p < n + w
  PROVE  Ahead(p % w, n % w, w) = p - n
<1>1. p - n \in 0..(w - 1) /\ p = n + (p - n)
  OBVIOUS
<1>2. (n + (p - n)) % w = IF (n % w) + (p - n) >= w
                          THEN ((n % w) + (p - n)) - w ELSE (n % w) + (p - n)
  BY <1>1, ModShift, Zenon
<1>3. n % w \in 0..(w - 1)
  BY ModDef, Zenon
<1> QED
  BY <1>1, <1>2, <1>3 DEF Ahead

(* The slot of an earlier position, seen from the slot of position n. *)
LEMMA AheadEarlier ==
  ASSUME NEW w \in Nat \ {0}, NEW n \in Nat, NEW p \in Nat,
         p < n, n < p + w
  PROVE  Ahead(p % w, n % w, w) = (p + w) - n
<1>1. n - p \in 0..(w - 1) /\ n = p + (n - p)
  OBVIOUS
<1>2. (p + (n - p)) % w = IF (p % w) + (n - p) >= w
                          THEN ((p % w) + (n - p)) - w ELSE (p % w) + (n - p)
  BY <1>1, ModShift, Zenon
<1>3. p % w \in 0..(w - 1)
  BY ModDef, Zenon
<1> QED
  BY <1>1, <1>2, <1>3 DEF Ahead

(* WriteWrapped fills the Len(src) slots ahead of `start`, in order, and   *)
(* leaves the others alone, whether or not it has to split.                *)
LEMMA WriteWrappedSlots ==
  ASSUME NEW w \in Nat \ {0}, NEW S, NEW ring \in [0..(w - 1) -> S],
         NEW src \in Seq(S), Len(src) <= w, NEW start \in 0..(w - 1)
  PROVE  /\ WriteWrapped(ring, src, start, w) \in [0..(w - 1) -> S]
         /\ \A i \in 0..(w - 1) :
              WriteWrapped(ring, src, start, w)[i] =
                IF Ahead(i, start, w) < Len(src)
                THEN src[Ahead(i, start, w) + 1] ELSE ring[i]
<1>1. CASE start + Len(src) <= w
  BY <1>1 DEF WriteWrapped, SliceSet, Ahead
<1>2. CASE start + Len(src) > w
  <2> DEFINE first == w - start
             head  == SubSeq(src, 1, first)
             tail  == SubSeq(src, first + 1, Len(src))
             mid   == SliceSet(ring, head, start)
  <2>1. /\ head \in Seq(S) /\ Len(head) = first
        /\ \A k \in 1..first : head[k] = src[k]
    BY <1>2
  <2>2. /\ tail \in Seq(S) /\ Len(tail) = Len(src) - first
        /\ \A k \in 1..(Len(src) - first) : tail[k] = src[k + first]
    BY <1>2
  <2>3. WriteWrapped(ring, src, start, w) = SliceSet(mid, tail, 0)
    BY <1>2 DEF WriteWrapped
  <2> HIDE DEF head, tail
  <2>4. /\ mid \in [0..(w - 1) -> S]
        /\ \A i \in 0..(w - 1) :
             mid[i] = IF i >= start THEN src[(i - start) + 1] ELSE ring[i]
    BY <2>1, <1>2 DEF SliceSet
  <2> HIDE DEF mid
  <2>5. /\ SliceSet(mid, tail, 0) \in [0..(w - 1) -> S]
        /\ \A i \in 0..(w - 1) :
             SliceSet(mid, tail, 0)[i] =
               IF i < Len(src) - first THEN src[(i + first) + 1] ELSE mid[i]
    <3>1. SliceSet(mid, tail, 0) =
            [i \in 0..(w - 1) |-> IF i < Len(src) - first THEN tail[i + 1] ELSE mid[i]]
      BY <2>2, <2>4, <1>2 DEF SliceSet
    <3>2. \A i \in 0..(w - 1) : i < Len(src) - first =>
            /\ tail[i + 1] = src[(i + first) + 1]
            /\ src[(i + first) + 1] \in S
      BY <2>2, <1>2
    <3> QED
      BY <3>1, <3>2, <2>4
  <2> QED
    BY SMTT(30), <2>3, <2>4, <2>5, <1>2 DEF Ahead
<1> QED
  BY <1>1, <1>2

(* `out` is `ring` after the keys src of positions n, n+1, ... went to     *)
(* their slots: the last w of all keys can be looked up by position.       *)
Written(out, ring, src, n, w, S) ==
  /\ out \in [0..(w - 1) -> S]
  /\ \A p \in n..(n + Len(src) - 1) :
       p + w >= n + Len(src) => out[p % w] = src[(p - n) + 1]
  /\ \A p \in Nat : p < n /\ p + w >= n + Len(src) => out[p % w] = ring[p % w]

(* A wrapped write of at most w keys. *)
LEMMA WritePositions ==
  ASSUME NEW w \in Nat \ {0}, NEW S, NEW ring \in [0..(w - 1) -> S],
         NEW src \in Seq(S), Len(src) <= w, NEW n \in Nat
  PROVE  Written(WriteWrapped(ring, src, n % w, w), ring, src, n, w, S)
<1>1. PICK start \in 0..(w - 1) : start = n % w
  BY ModDef, Zenon
<1> DEFINE out == WriteWrapped(ring, src, start, w)
<1>2. /\ out \in [0..(w - 1) -> S]
      /\ \A i \in 0..(w - 1) :
           out[i] = IF Ahead(i, start, w) < Len(src)
                    THEN src[Ahead(i, start, w) + 1] ELSE ring[i]
  BY WriteWrappedSlots
<1> HIDE DEF out
<1>3. ASSUME NEW p \in n..(n + Len(src) - 1)
      PROVE  out[p % w] = src[(p - n) + 1]
  <2>1. p \in Nat /\ n <= p /\ p < n + w
    OBVIOUS
  <2>2. PICK i \in 0..(w - 1) : i = p % w
    BY <2>1, ModDef, Zenon
  <2>3. Ahead(i, start, w) = p - n
    BY <1>1, <2>1, <2>2, AheadLater, Zenon
  <2>4. p - n < Len(src)
    OBVIOUS
  <2>5. out[i] = src[(p - n) + 1]
    BY <1>2, <2>3, <2>4, Zenon
  <2> QED
    BY <2>2, <2>5, Zenon
<1>4. ASSUME NEW p \in Nat, p < n, p + w >= n + Len(src)
      PROVE  out[p % w] = ring[p % w]
  <2>1. PICK i \in 0..(w - 1) : i = p % w
    BY ModDef, Zenon
  <2>2. ~(Ahead(i, start, w) < Len(src))
    <3>1. CASE Len(src) = 0
      BY <3>1 DEF Ahead
    <3>2. CASE Len(src) > 0
      <4>1. n < p + w
        BY <1>4, <3>2
      <4>2. Ahead(i, start, w) = (p + w) - n
        BY <1>1, <1>4, <2>1, <4>1, AheadEarlier, Zenon
      <4> QED
        BY <1>4, <4>2
    <3> QED
      BY <3>1, <3>2
  <2>3. out[i] = ring[i]
    BY <1>2, <2>2, Zenon
  <2> QED
    BY <2>1, <2>3, Zenon
<1>5. /\ out \in [0..(w - 1) -> S]
      /\ \A p \in n..(n + Len(src) - 1) :
           p + w >= n + Len(src) => out[p % w] = src[(p - n) + 1]
      /\ \A p \in Nat : p < n /\ p + w >= n + Len(src) => out[p % w] = ring[p % w]
  BY <1>2, <1>3, <1>4, Zenon
<1>6. Written(out, ring, src, n, w, S)
  BY <1>5 DEF Written
<1> QED
  BY <1>1, <1>6, Zenon DEF out

(* A multi-token append of any number of keys. *)
LEMMA WriteRingMultiPositions ==
  ASSUME NEW w \in Nat \ {0}, NEW S, NEW ring \in [0..(w - 1) -> S],
         NEW new \in Seq(S), NEW n \in Nat
  PROVE  Written(WriteRingMulti(ring, new, n, w), ring, new, n, w, S)
<1>1. CASE Len(new) < w
  <2>1. WriteRingMulti(ring, new, n, w) = WriteWrapped(ring, new, n % w, w)
    BY <1>1 DEF WriteRingMulti
  <2>2. Len(new) <= w
    BY <1>1
  <2> QED
    BY <2>1, <2>2, WritePositions
<1>2. CASE Len(new) >= w
  <2>1. PICK last : last = SubSeq(new, (Len(new) - w) + 1, Len(new))
    OBVIOUS
  <2>2. /\ last \in Seq(S) /\ Len(last) = w
        /\ \A k \in 1..w : last[k] = new[k + (Len(new) - w)]
    BY <1>2, <2>1
  <2>3. PICK m \in Nat : m = (n + Len(new)) - w
    <3>1. (n + Len(new)) - w \in Nat
      BY <1>2
    <3> QED
      BY <3>1
  <2>4. WriteRingMulti(ring, new, n, w) = WriteWrapped(ring, last, m % w, w)
    BY <1>2, <2>1, <2>3 DEF WriteRingMulti
  <2>5. Len(last) <= w
    BY <2>2
  <2>6. Written(WriteWrapped(ring, last, m % w, w), ring, last, m, w, S)
    BY <2>2, <2>5, WritePositions
  <2>7. PICK out : out = WriteRingMulti(ring, new, n, w)
    OBVIOUS
  <2>8. Written(out, ring, last, m, w, S)
    BY <2>4, <2>6, <2>7
  <2>9. ASSUME NEW p \in n..(n + Len(new) - 1), p + w >= n + Len(new)
        PROVE  out[p % w] = new[(p - n) + 1]
    <3>1. p \in m..(m + Len(last) - 1) /\ p + w >= m + Len(last)
      BY <1>2, <2>2, <2>3, <2>9
    <3>2. out[p % w] = last[(p - m) + 1]
      BY <2>8, <3>1 DEF Written
    <3>3. (p - m) + 1 \in 1..w /\ ((p - m) + 1) + (Len(new) - w) = (p - n) + 1
      BY <1>2, <2>3, <2>9
    <3> QED
      BY <2>2, <3>2, <3>3
  <2>10. \A p \in Nat : ~(p < n /\ p + w >= n + Len(new))
    BY <1>2
  <2>11. Written(out, ring, new, n, w, S)
    BY <2>8, <2>9, <2>10 DEF Written
  <2> QED
    BY <2>7, <2>11
<1>3. Len(new) < w \/ Len(new) >= w
  OBVIOUS
<1> QED
  BY <1>1, <1>2, <1>3, Zenon

(* `keys` are the cells at the slots of positions n .. n+k-1. *)
ReadFrom(keys, ring, n, k, w, S) ==
  /\ keys \in Seq(S)
  /\ Len(keys) = k
  /\ \A j \in 0..(k - 1) : keys[j + 1] = ring[(n + j) % w]

(* Reading from the slot of position n on, round the ring once at most,    *)
(* gives the cells in the order of the positions.                          *)
LEMMA ReadPositions ==
  ASSUME NEW w \in Nat \ {0}, NEW S, NEW ring \in [0..(w - 1) -> S],
         NEW n \in Nat, NEW k \in 0..w
  PROVE  ReadFrom(SnapshotRing(ring, n, k, w), ring, n, k, w, S)
<1> DEFINE start == n % w
           seg1  == Smaller(k, w - start)
           head  == Narrow(ring, start, seg1)
           tail  == Narrow(ring, 0, k - seg1)
<1>1. start \in 0..(w - 1)
  BY ModDef, Zenon
<1> HIDE DEF start
<1>2. seg1 \in 0..k /\ start + seg1 <= w /\ k - seg1 <= w
  BY <1>1 DEF Smaller
<1>3. k > seg1 => start + seg1 = w
  BY <1>1 DEF Smaller
<1>4. head \in Seq(S) /\ Len(head) = seg1 /\ \A i \in 1..seg1 : head[i] = ring[(start + i) - 1]
  <2>1. \A i \in 1..seg1 : (start + i) - 1 \in 0..(w - 1)
    BY <1>1, <1>2
  <2>2. head = [i \in 1..seg1 |-> ring[(start + i) - 1]]
    BY <1>1, <1>2 DEF Narrow
  <2>3. head \in [1..seg1 -> S]
    BY <2>1, <2>2
  <2> HIDE DEF head, seg1
  <2> QED
    BY SMTT(30), <2>2, <2>3, <1>2
<1>5. tail \in Seq(S) /\ Len(tail) = k - seg1 /\ \A i \in 1..(k - seg1) : tail[i] = ring[i - 1]
  <2>1. \A i \in 1..(k - seg1) : i - 1 \in 0..(w - 1)
    BY <1>2
  <2>2. tail = [i \in 1..(k - seg1) |-> ring[i - 1]]
    BY <1>2 DEF Narrow
  <2>3. tail \in [1..(k - seg1) -> S]
    BY <2>1, <2>2
  <2> HIDE DEF tail, seg1
  <2> QED
    BY SMTT(30), <2>2, <2>3, <1>2
<1>6. SnapshotRing(ring, n, k, w) = head \o tail
  BY DEF SnapshotRing, start
<1> HIDE DEF seg1, head, tail
<1>7. /\ head \o tail \in Seq(S) /\ Len(head \o tail) = k
      /\ \A i \in 1..k : (head \o tail)[i] = IF i <= seg1 THEN head[i] ELSE tail[i - seg1]
  <2>1. /\ head \o tail \in Seq(S)
        /\ Len(head \o tail) = Len(head) + Len(tail)
        /\ \A i \in 1..(Len(head) + Len(tail)) :
             (head \o tail)[i] = IF i <= Len(head) THEN head[i] ELSE tail[i - Len(head)]
    BY <1>4, <1>5, ConcatProperties, Zenon
  <2>2. Len(head) + Len(tail) = k
    BY <1>2, <1>4, <1>5
  <2> QED
    BY <1>4, <2>1, <2>2
<1>8. ASSUME NEW j \in 0..(k - 1)
      PROVE  (head \o tail)[j + 1] = ring[(n + j) % w]
  <2>1. j \in 0..(w - 1)
    OBVIOUS
  <2>2. (n + j) % w = IF start + j >= w THEN (start + j) - w ELSE start + j
    BY <2>1, ModShift, Zenon DEF start
  <2>3. CASE j + 1 <= seg1
    <3>1. j + 1 \in 1..seg1 /\ j + 1 \in 1..k
      BY <1>2, <2>3
    <3>2. (head \o tail)[j + 1] = head[j + 1]
      BY <1>7, <2>3, <3>1
    <3>3. (start + (j + 1)) - 1 = start + j /\ ~(start + j >= w)
      BY <1>1, <1>2, <3>1
    <3> QED
      BY <1>4, <2>2, <3>1, <3>2, <3>3
  <2>4. CASE j + 1 > seg1
    <3>1. (j + 1) - seg1 \in 1..(k - seg1) /\ j + 1 \in 1..k /\ start + seg1 = w
      BY <1>1, <1>2, <1>3, <2>4
    <3>2. PICK i \in 1..(k - seg1) : i = (j + 1) - seg1
      BY <3>1
    <3>3. ~(j + 1 <= seg1)
      BY <1>2, <2>4
    <3>4. (head \o tail)[j + 1] = tail[i]
      BY <1>7, <3>1, <3>2, <3>3
    <3>5. i - 1 = (start + j) - w /\ start + j >= w
      BY <1>1, <1>2, <3>1, <3>2
    <3> QED
      BY <1>5, <2>2, <3>4, <3>5
  <2>5. j + 1 \in Int /\ seg1 \in Int
    BY <1>2, <2>1
  <2>6. j + 1 <= seg1 \/ j + 1 > seg1
    BY ONLY <2>5
  <2> QED
    BY <2>3, <2>4, <2>6, Zenon
<1>9. ReadFrom(head \o tail, ring, n, k, w, S)
  BY <1>7, <1>8 DEF ReadFrom
<1> QED
  BY <1>6, <1>9

(* The surviving keys of a ring, oldest first.                             *)
LEMMA OrderedPositions ==
  ASSUME NEW w \in Nat \ {0}, NEW S, NEW ring \in [0..(w - 1) -> S],
         NEW n \in Nat
  PROVE  ReadFrom(OrderedExisting(ring, n, w), ring,
                  n - Smaller(n, w), Smaller(n, w), w, S)
<1>1. CASE n <= w
  <2>1. OrderedExisting(ring, n, w) = [i \in 1..n |-> ring[(0 + i) - 1]]
    BY <1>1 DEF OrderedExisting, Narrow
  <2>2. \A i \in 1..n : (0 + i) - 1 \in 0..(w - 1)
    BY <1>1
  <2>3. OrderedExisting(ring, n, w) \in [1..n -> S]
    BY <2>1, <2>2
  <2>4. ASSUME NEW c \in 0..(n - 1)
        PROVE  c % w = c
    <3>1. c \in 0..(w - 1) /\ 0 \in Int
      BY <1>1
    <3>2. ((w * 0) + c) % w = c
      BY <3>1, ModUnique, Zenon
    <3> QED
      BY <3>1, <3>2
  <2> QED
    BY <1>1, <2>1, <2>3, <2>4 DEF Smaller, ReadFrom
<1>2. CASE n > w
  <2>1. PICK m \in Nat : m = n - w
    BY <1>2
  <2>2. m % w = n % w
    <3>1. (m + w) % w = m % w
      BY <2>1, ModTurn, Zenon
    <3> QED
      BY <1>2, <2>1, <3>1
  <2>3. n % w \in 0..(w - 1)
    BY ModDef, Zenon
  <2>4. Smaller(w, w - (n % w)) = w - (n % w)
    BY <2>3 DEF Smaller
  <2>5. w - (w - (n % w)) = n % w
    BY <2>3
  <2>6. OrderedExisting(ring, n, w) = SnapshotRing(ring, m, w, w)
    BY SMTT(30), <1>2, <2>2, <2>4, <2>5 DEF OrderedExisting, SnapshotRing
  <2>7. ReadFrom(SnapshotRing(ring, m, w, w), ring, m, w, w, S)
    BY <2>1, ReadPositions
  <2> QED
    BY <1>2, <2>1, <2>6, <2>7 DEF Smaller
<1> QED
  BY <1>1, <1>2

-----------------------------------------------------------------------------
(* The caches. *)

(* kv_checkpoint does not ask for it, the callers guarantee it: without it *)
(* two positions of one span share a ring slot.                            *)
NarrowSpan == MaxSpan <= Window

-----------------------------------------------------------------------------
(* The inductive invariant.                                                *)

(* How far the loops over the layers have come: the layers before il have  *)
(* been served, the others have not, and the history names what the        *)
(* forward in progress feeds.                                              *)
LoopInv ==
  /\ phase \in {"idle", "armed"} => \A l \in Layers : len[l] = pos
  /\ phase \in {"forward", "verify"} =>
       /\ Len(work) >= 1
       /\ pos + Len(work) <= MaxCtx
       /\ \A i \in 1..Len(work) : log[(pos + i) - 1] = work[i]
       /\ \A l \in Layers : len[l] = IF l < il THEN pos + Len(work) ELSE pos
  /\ phase = "verified" => \A l \in Layers : len[l] = pos + ckpt.span
  /\ phase = "rollback" =>
       /\ commit <= ckpt.span
       /\ \A l \in Layers : len[l] = pos + (IF l < il THEN commit ELSE ckpt.span)

(* The checkpoint in hand belongs to the caller's position.                *)
CheckpointInv ==
  /\ phase \in {"idle", "forward"} => ckpt = NoCheckpoint
  /\ phase \in {"armed", "verify", "verified", "rollback"} =>
       /\ ckpt.len0 = pos
       /\ ckpt.span >= 1
       /\ pos + ckpt.span <= MaxCtx
       /\ \A l \in SwaLayers : Len(ckpt.snap[l]) = ckpt.span
  /\ phase = "verify" => Len(work) = ckpt.span

IInv ==
  /\ TypeOK
  /\ KeysInPlace
  /\ SnapshotHoldsEvicted
  /\ LoopInv
  /\ CheckpointInv

-----------------------------------------------------------------------------
LEMMA FirstLayer == 1 \in Layers /\ NLayers \in Layers /\ Layers \subseteq Nat
  BY SizeAssumption DEF Layers

LEMMA InitIInv == Init => IInv
<1> SUFFICES ASSUME Init PROVE IInv
  OBVIOUS
<1>1. TypeOK
  BY SizeAssumption, FirstLayer
  DEF Init, TypeOK, Cells, Phases, NoCheckpoint, NothingSeen, NothingFed
<1>2. KeysInPlace
  BY DEF Init, KeysInPlace
<1>3. SnapshotHoldsEvicted
  BY LayerAssumption DEF Init, SnapshotHoldsEvicted, NoCheckpoint
<1>4. LoopInv /\ CheckpointInv
  BY DEF Init, LoopInv, CheckpointInv
<1> QED
  BY <1>1, <1>2, <1>3, <1>4 DEF IInv

(* A forward feeds positions from pos on: no layer has stored those, and   *)
(* the snapshot only speaks of earlier ones.                               *)
LEMMA BeginForwardIInv ==
  ASSUME IInv, NarrowSpan, NEW toks \in Seq(Tokens), Len(toks) >= 1,
         Forward(toks) \/ VerifyForward(toks)
  PROVE  IInv'
<1>1. PICK next \in {"forward", "verify"} :
        /\ BeginForward(toks, next)
        /\ phase \in {"idle", "armed"}
        /\ next = "forward" => phase = "idle"
        /\ next = "verify" => phase = "armed" /\ Len(toks) = ckpt.span
  BY DEF Forward, VerifyForward
<1>2. TypeOK'
  <2>1. log' \in [0..(MaxCtx - 1) -> Tokens \cup {NoToken}]
    BY SMTT(30), <1>1, SizeAssumption DEF IInv, TypeOK, BeginForward
  <2>2. seen' = [l \in Layers |-> seen'[l]]
    BY <1>1 DEF BeginForward, NothingSeen
  <2> QED
    BY <1>1, <2>1, <2>2, FirstLayer DEF IInv, TypeOK, BeginForward, Phases
<1>3. \A p \in 0..(MaxCtx - 1) :
        log'[p] = IF p \in pos..(pos + Len(toks) - 1) THEN toks[p - pos + 1] ELSE log[p]
  BY <1>1 DEF BeginForward, IInv, TypeOK
<1>4. \A l \in Layers : len[l] = pos /\ len[l] \in 0..MaxCtx
  BY <1>1 DEF IInv, LoopInv, TypeOK
<1>5. \A p \in 0..(pos - 1) : Fed(p)' = Fed(p)
  <2>1. pos \in 0..MaxCtx /\ MaxCtx \in Nat
    BY SizeAssumption DEF IInv, TypeOK
  <2>2. \A p \in 0..(pos - 1) : log'[p] = log[p]
    BY <1>3, <2>1
  <2> QED
    BY <2>2 DEF Fed, Key
<1>6. KeysInPlace'
  BY <1>1, <1>4, <1>5 DEF IInv, KeysInPlace, BeginForward
<1>7. SnapshotHoldsEvicted'
  <2>1. ckpt' = ckpt
    BY <1>1 DEF BeginForward
  <2>2. ckpt.span <= Window /\ ckpt.span \in Nat /\ ckpt.len0 \in Nat
    BY SizeAssumption DEF NarrowSpan, IInv, TypeOK
  <2>3. ckpt.span >= 1 => ckpt.len0 = pos
    BY <1>1 DEF IInv, CheckpointInv, NoCheckpoint
  <2>4. ASSUME NEW j \in 0..(ckpt.span - 1), ckpt.len0 + j - Window >= 0
        PROVE  ckpt.len0 + j - Window \in 0..(pos - 1)
    BY <2>2, <2>3, <2>4, SizeAssumption
  <2>5. ASSUME NEW l \in SwaLayers, NEW j \in 0..(ckpt.span - 1),
               ckpt.len0 + j - Window >= 0
        PROVE  ckpt.snap[l][j + 1] = Fed(ckpt.len0 + j - Window)'
    <3>1. ckpt.snap[l][j + 1] = Fed(ckpt.len0 + j - Window)
      BY <2>5 DEF IInv, SnapshotHoldsEvicted
    <3>2. PICK e \in 0..(pos - 1) : e = ckpt.len0 + j - Window
      BY <2>4, <2>5
    <3>3. Fed(e)' = Fed(e)
      BY <1>5
    <3> QED
      BY <2>1, <3>1, <3>2, <3>3 DEF Fed
  <2> QED
    BY <2>1, <2>5 DEF SnapshotHoldsEvicted
<1>8. LoopInv'
  <2>1. phase' = next /\ work' = toks /\ il' = 1 /\ UNCHANGED <<len, pos, ckpt, commit>>
    BY <1>1 DEF BeginForward
  <2>2. pos + Len(toks) <= MaxCtx /\ pos \in Nat
    BY <1>1 DEF BeginForward, IInv, TypeOK
  <2>3. ASSUME NEW i \in 1..Len(toks)
        PROVE  log'[(pos + i) - 1] = toks[i]
    <3>1. PICK p \in 0..(MaxCtx - 1) : p = (pos + i) - 1
      BY <2>2, SizeAssumption
    <3>2. p \in pos..(pos + Len(toks) - 1) /\ p - pos + 1 = i
      BY <2>2, <3>1
    <3> QED
      BY <1>3, <3>1, <3>2
  <2>4. \A l \in Layers : ~(l < 1)
    BY DEF Layers
  <2> QED
    BY <1>1, <1>4, <2>1, <2>2, <2>3, <2>4 DEF LoopInv
<1>9. CheckpointInv'
  BY <1>1 DEF IInv, CheckpointInv, BeginForward
<1> QED
  BY <1>2, <1>6, <1>7, <1>8, <1>9 DEF IInv

-----------------------------------------------------------------------------
(* The keys a forward feeds, as the loop reaches a layer.                  *)
LEMMA NewKeysFed ==
  ASSUME IInv, phase \in {"forward", "verify"}
  PROVE  /\ NewKeys \in Seq(Cells)
         /\ Len(NewKeys) = Len(work)
         /\ \A p \in pos..(pos + Len(work) - 1) : NewKeys[(p - pos) + 1] = Fed(p)
<1>1. /\ work \in Seq(Tokens) /\ pos \in Nat
      /\ \A i \in 1..Len(work) : log[(pos + i) - 1] = work[i]
  BY SizeAssumption DEF IInv, TypeOK, LoopInv
<1>2. \A i \in 1..Len(work) : work[i] \in Tokens /\ pos + i - 1 \in Int
  BY <1>1
<1>3. NewKeys \in [1..Len(work) -> Cells]
  BY <1>1, <1>2 DEF NewKeys, Key, Cells
<1>4. NewKeys \in Seq(Cells) /\ Len(NewKeys) = Len(work)
  <2>1. PICK n \in Nat : n = Len(work)
    BY <1>1
  <2>2. PICK keys : keys = NewKeys
    OBVIOUS
  <2>3. keys \in [1..n -> Cells]
    BY <1>3, <2>1, <2>2
  <2>4. keys \in Seq(Cells) /\ Len(keys) = n
    BY <2>3
  <2> QED
    BY <2>1, <2>2, <2>4
<1>5. ASSUME NEW p \in pos..(pos + Len(work) - 1)
      PROVE  NewKeys[(p - pos) + 1] = Fed(p)
  <2>1. PICK i \in 1..Len(work) : i = (p - pos) + 1
    BY <1>1
  <2>2. pos + i - 1 = p /\ (pos + i) - 1 = p
    BY <1>1, <2>1
  <2>3. NewKeys[i] = Key(pos + i - 1, work[i]) /\ log[(pos + i) - 1] = work[i]
    BY <1>1 DEF NewKeys
  <2> QED
    BY <2>1, <2>2, <2>3 DEF Fed
<1> QED
  BY <1>4, <1>5

(* Both branches of append's ring write are writes by position.            *)
LEMMA AppendRing ==
  ASSUME IInv, phase \in {"forward", "verify"}, NEW l \in SwaLayers, len[l] = pos
  PROVE  Written(AppendBuf(l), buf[l], NewKeys, pos, Window, Cells)
<1>1. /\ buf[l] \in [0..(Window - 1) -> Cells]
      /\ NewKeys \in Seq(Cells) /\ Len(NewKeys) = Len(work)
      /\ pos \in Nat /\ Window \in Nat \ {0}
  BY NewKeysFed, LayerAssumption, SizeAssumption DEF IInv, TypeOK, Slots
<1>2. CASE Len(work) = 1
  <2>1. pos % Window \in 0..(Window - 1)
    BY <1>1, ModDef, Zenon
  <2>2. AppendBuf(l) = WriteWrapped(buf[l], NewKeys, pos % Window, Window)
    BY <1>1, <1>2, <2>1 DEF AppendBuf, WriteWrapped
  <2>3. Len(NewKeys) <= Window
    BY <1>1, <1>2
  <2> QED
    BY <1>1, <2>2, <2>3, WritePositions
<1>3. CASE Len(work) # 1
  <2>1. AppendBuf(l) = WriteRingMulti(buf[l], NewKeys, pos, Window)
    BY <1>3 DEF AppendBuf
  <2> QED
    BY <1>1, <2>1, WriteRingMultiPositions
<1> QED
  BY <1>2, <1>3

(* A full layer takes the new keys behind the stored ones.                 *)
LEMMA AppendFull ==
  ASSUME IInv, phase \in {"forward", "verify"}, NEW l \in Layers \ SwaLayers,
         len[l] = pos
  PROVE  /\ AppendBuf(l) \in [Slots(l) -> Cells]
         /\ \A p \in 0..(pos - 1) : AppendBuf(l)[p] = buf[l][p]
         /\ \A p \in pos..(pos + Len(work) - 1) : AppendBuf(l)[p] = Fed(p)
<1>1. /\ buf[l] \in [0..(MaxCtx - 1) -> Cells]
      /\ Slots(l) = 0..(MaxCtx - 1)
      /\ NewKeys \in Seq(Cells) /\ Len(NewKeys) = Len(work)
      /\ pos \in Nat /\ MaxCtx \in Nat /\ pos + Len(work) <= MaxCtx
      /\ work \in Seq(Tokens)
  <2>1. NewKeys \in Seq(Cells) /\ Len(NewKeys) = Len(work)
    BY NewKeysFed
  <2>2. Slots(l) = 0..(MaxCtx - 1) /\ buf[l] \in [Slots(l) -> Cells]
    BY DEF IInv, TypeOK, Slots
  <2>3. pos \in Nat /\ MaxCtx \in Nat /\ work \in Seq(Tokens)
    BY SizeAssumption DEF IInv, TypeOK
  <2>4. pos + Len(work) <= MaxCtx
    BY DEF IInv, LoopInv
  <2> QED
    BY <2>1, <2>2, <2>3, <2>4
<1>2. AppendBuf(l) = SliceSet(buf[l], NewKeys, pos)
  BY DEF AppendBuf
<1>3. AppendBuf(l) = [i \in 0..(MaxCtx - 1) |->
                       IF i \in pos..(pos + Len(work) - 1)
                       THEN NewKeys[(i - pos) + 1] ELSE buf[l][i]]
  BY <1>1, <1>2 DEF SliceSet
<1>4. ASSUME NEW i \in pos..(pos + Len(work) - 1)
      PROVE  NewKeys[(i - pos) + 1] \in Cells /\ i \in 0..(MaxCtx - 1)
  BY <1>1
<1> QED
  BY <1>1, <1>3, <1>4, NewKeysFed

LEMMA LayerAppendIInv ==
  ASSUME IInv, LayerAppend
  PROVE  IInv'
<1>1. /\ phase \in {"forward", "verify"} /\ il \in Layers
      /\ len[il] = pos
      /\ pos \in Nat /\ work \in Seq(Tokens) /\ Len(work) \in Nat
      /\ Len(work) >= 1 /\ pos + Len(work) <= MaxCtx
      /\ MaxCtx \in Nat /\ Window \in Nat \ {0} /\ NLayers \in Nat
  BY SMTT(30), SizeAssumption, FirstLayer DEF IInv, TypeOK, LoopInv, LayerAppend
<1>2. /\ buf' = [l \in Layers |-> IF l = il THEN AppendBuf(il) ELSE buf[l]]
      /\ len' = [l \in Layers |-> IF l = il THEN pos + Len(work) ELSE len[l]]
      /\ seen' = [l \in Layers |-> IF l = il THEN Attended(il) ELSE seen[l]]
  <2>1. buf = [l \in Layers |-> buf[l]] /\ len = [l \in Layers |-> len[l]]
        /\ seen = [l \in Layers |-> seen[l]]
    BY DEF IInv, TypeOK
  <2> QED
    BY <1>1, <2>1 DEF LayerAppend
<1>3. UNCHANGED <<log, ckpt, commit>> /\ \A p : Fed(p)' = Fed(p)
  BY DEF LayerAppend, Fed
<1>4. AppendBuf(il) \in [Slots(il) -> Cells]
  BY <1>1, AppendRing, AppendFull DEF Written, Slots
<1>5. TypeOK'
  <2>1. buf' = [l \in Layers |-> buf'[l]] /\ seen' = [l \in Layers |-> seen'[l]]
    BY <1>2
  <2>2. \A l \in Layers : buf'[l] \in [Slots(l) -> Cells]
    BY <1>2, <1>4 DEF IInv, TypeOK
  <2>3. len' \in [Layers -> 0..MaxCtx]
    BY <1>1, <1>2 DEF IInv, TypeOK
  <2>4. il' \in Layers /\ pos' \in 0..MaxCtx /\ work' \in Seq(Tokens) /\ phase' \in Phases
    <3>1. CASE il < NLayers
      <4>1. il' = il + 1 /\ UNCHANGED <<pos, phase, work>>
        BY <3>1 DEF LayerAppend
      <4> QED
        BY <1>1, <3>1, <4>1 DEF Layers, IInv, TypeOK
    <3>2. CASE ~(il < NLayers)
      <4>1. /\ il' = 1 /\ work' = <<>>
            /\ phase' = IF phase = "forward" THEN "idle" ELSE "verified"
            /\ pos' = IF phase = "forward" THEN pos + Len(work) ELSE pos
        BY <3>2 DEF LayerAppend
      <4> QED
        BY <1>1, <4>1, FirstLayer DEF Phases
    <3> QED
      BY <3>1, <3>2
  <2> QED
    BY <1>3, <2>1, <2>2, <2>3, <2>4 DEF IInv, TypeOK
<1>6. KeysInPlace'
  <2>1. ASSUME NEW l \in Layers, NEW p \in 0..(len'[l] - 1)
        PROVE  IF l \in SwaLayers
               THEN p >= len'[l] - Window => buf'[l][p % Window] = Fed(p)
               ELSE buf'[l][p] = Fed(p)
    <3>1. CASE l # il
      BY <1>2, <2>1, <3>1 DEF IInv, KeysInPlace
    <3>2. CASE l = il /\ l \in SwaLayers
      <4>1. len'[l] = pos + Len(work) /\ buf'[l] = AppendBuf(l)
        BY <1>2, <3>2
      <4>2. Written(AppendBuf(l), buf[l], NewKeys, pos, Window, Cells)
        BY <1>1, <3>2, AppendRing
      <4>3. ASSUME p >= len'[l] - Window
            PROVE  buf'[l][p % Window] = Fed(p)
        <5>1. p + Window >= pos + Len(NewKeys) /\ p \in Nat /\ Len(NewKeys) = Len(work)
          BY <1>1, <4>1, <4>3, NewKeysFed
        <5>2. CASE p >= pos
          <6>1. p \in pos..(pos + Len(NewKeys) - 1)
            BY <1>1, <4>1, <5>1, <5>2
          <6>2. buf'[l][p % Window] = NewKeys[(p - pos) + 1]
            BY <4>1, <4>2, <5>1, <6>1 DEF Written
          <6> QED
            BY <1>1, <5>1, <6>1, <6>2, NewKeysFed
        <5>3. CASE p < pos
          <6>1. buf'[l][p % Window] = buf[l][p % Window]
            BY <4>1, <4>2, <5>1, <5>3 DEF Written
          <6>2. p \in 0..(len[l] - 1) /\ p >= len[l] - Window
            BY <1>1, <3>2, <5>1, <5>3
          <6> QED
            BY <3>2, <6>1, <6>2 DEF IInv, KeysInPlace
        <5> QED
          BY <1>1, <5>1, <5>2, <5>3
      <4> QED
        BY <3>2, <4>3
    <3>3. CASE l = il /\ l \notin SwaLayers
      <4>1. len'[l] = pos + Len(work) /\ buf'[l] = AppendBuf(l)
        BY <1>2, <3>3
      <4>2. CASE p >= pos
        BY <1>1, <3>3, <4>1, <4>2, AppendFull
      <4>3. CASE p < pos
        BY <1>1, <3>3, <4>1, <4>3, AppendFull DEF IInv, KeysInPlace
      <4> QED
        BY <1>1, <4>1, <4>2, <4>3
    <3> QED
      BY <3>1, <3>2, <3>3
  <2> QED
    BY <1>3, <2>1 DEF KeysInPlace
<1>7. SnapshotHoldsEvicted'
  BY <1>3 DEF IInv, SnapshotHoldsEvicted
<1>8. LoopInv' /\ CheckpointInv'
  <2>1. CASE il < NLayers
    <3>1. il' = il + 1 /\ UNCHANGED <<pos, phase, work>>
      BY <2>1 DEF LayerAppend
    <3>2. \A l \in Layers : len'[l] = IF l < il + 1 THEN pos + Len(work) ELSE pos
      BY <1>1, <1>2, FirstLayer DEF IInv, LoopInv
    <3> QED
      BY <1>1, <1>3, <3>1, <3>2 DEF IInv, LoopInv, CheckpointInv
  <2>2. CASE il = NLayers
    <3>1. \A l \in Layers : l # il => l < il
      BY <1>1, <2>2 DEF Layers
    <3>2. \A l \in Layers : len'[l] = pos + Len(work)
      BY <1>1, <1>2, <3>1 DEF IInv, LoopInv
    <3>3. CASE phase = "forward"
      <4>1. phase' = "idle" /\ pos' = pos + Len(work)
        BY <1>1, <2>2, <3>3 DEF LayerAppend
      <4> QED
        BY <1>3, <3>2, <3>3, <4>1 DEF IInv, LoopInv, CheckpointInv, NoCheckpoint
    <3>4. CASE phase = "verify"
      <4>1. phase' = "verified" /\ pos' = pos
        BY <1>1, <2>2, <3>4 DEF LayerAppend
      <4> QED
        BY <1>3, <3>2, <3>4, <4>1 DEF IInv, LoopInv, CheckpointInv
    <3> QED
      BY <1>1, <3>3, <3>4
  <2> QED
    BY <1>1, <2>1, <2>2, FirstLayer DEF Layers
<1> QED
  BY <1>5, <1>6, <1>7, <1>8 DEF IInv

(* The snapshot copies the cells the span will overwrite: those of the     *)
(* positions one window earlier.                                           *)
LEMMA KvCheckpointIInv ==
  ASSUME IInv, NarrowSpan, NEW span \in 1..MaxSpan, KvCheckpoint(span)
  PROVE  IInv'
<1>1. /\ phase = "idle" /\ phase' = "armed"
      /\ UNCHANGED <<buf, len, pos, work, il, commit, log, seen>>
      /\ len[1] + span <= MaxCtx
      /\ ckpt' = [len0 |-> len[1], span |-> span,
                  snap |-> [l \in Layers |->
                              IF l \in SwaLayers
                              THEN SnapshotRing(buf[l], len[l], span, Window)
                              ELSE <<>>]]
  BY DEF KvCheckpoint
<1>2. /\ \A l \in Layers : len[l] = pos
      /\ pos \in 0..MaxCtx /\ len[1] = pos
      /\ span \in 0..Window /\ Window \in Nat \ {0} /\ MaxCtx \in Nat /\ MaxSpan \in Nat
  <2>1. \A l \in Layers : len[l] = pos
    BY <1>1 DEF IInv, LoopInv
  <2>2. pos \in 0..MaxCtx
    BY DEF IInv, TypeOK
  <2>3. span \in 0..Window
    BY SizeAssumption DEF NarrowSpan
  <2> QED
    BY <2>1, <2>2, <2>3, FirstLayer, SizeAssumption
<1>3. ASSUME NEW l \in SwaLayers
      PROVE  ReadFrom(ckpt'.snap[l], buf[l], pos, span, Window, Cells)
  <2>1. buf[l] \in [0..(Window - 1) -> Cells]
    BY LayerAssumption DEF IInv, TypeOK, Slots
  <2>2. ckpt'.snap[l] = SnapshotRing(buf[l], pos, span, Window)
    BY <1>1, <1>2, LayerAssumption
  <2> QED
    BY <1>2, <2>1, <2>2, ReadPositions
<1>4. TypeOK'
  <2>1. ckpt'.snap \in [Layers -> Seq(Cells)]
    <3>1. ckpt'.snap = [l \in Layers |->
                          IF l \in SwaLayers
                          THEN SnapshotRing(buf[l], len[l], span, Window) ELSE <<>>]
      BY <1>1
    <3>2. \A l \in SwaLayers : ckpt'.snap[l] \in Seq(Cells)
      BY <1>3 DEF ReadFrom
    <3>3. <<>> \in Seq(Cells)
      OBVIOUS
    <3>4. \A l \in Layers \ SwaLayers : ckpt'.snap[l] = <<>>
      BY <3>1
    <3>5. \A l \in Layers : ckpt'.snap[l] \in Seq(Cells)
      BY <3>2, <3>3, <3>4
    <3> QED
      BY <3>1, <3>5
  <2>2. ckpt' \in [len0 : 0..MaxCtx, span : 0..MaxSpan, snap : [Layers -> Seq(Cells)]]
    BY <1>1, <1>2, <2>1
  <2> QED
    BY <1>1, <2>2 DEF IInv, TypeOK, Phases
<1>5. \A p : Fed(p)' = Fed(p)
  BY <1>1 DEF Fed
<1>6. KeysInPlace'
  BY <1>1, <1>5 DEF IInv, KeysInPlace
<1>7. SnapshotHoldsEvicted'
  <2>1. ASSUME NEW l \in SwaLayers, NEW j \in 0..(span - 1), pos + j - Window >= 0
        PROVE  ckpt'.snap[l][j + 1] = Fed(pos + j - Window)
    <3>1. PICK e \in 0..(pos - 1) : e = pos + j - Window /\ e >= pos - Window
                                    /\ pos + j = e + Window
      BY <1>2, <2>1
    <3>2. ckpt'.snap[l][j + 1] = buf[l][(pos + j) % Window]
      BY <1>3 DEF ReadFrom
    <3>3. (e + Window) % Window = e % Window
      <4>1. e \in Nat /\ Window \in Nat \ {0}
        BY <1>2, <3>1
      <4> QED
        BY <4>1, ModTurn, Zenon
    <3>4. buf[l][e % Window] = Fed(e)
      BY <1>2, <3>1, LayerAssumption DEF IInv, KeysInPlace
    <3> QED
      BY <3>1, <3>2, <3>3, <3>4
  <2>2. ckpt'.len0 = pos /\ ckpt'.span = span
    BY <1>1, <1>2
  <2> QED
    BY <1>5, <2>1, <2>2 DEF SnapshotHoldsEvicted
<1>8. LoopInv'
  BY <1>1, <1>2 DEF IInv, LoopInv
<1>9. CheckpointInv'
  <2>1. \A l \in SwaLayers : Len(ckpt'.snap[l]) = span
    BY <1>3 DEF ReadFrom
  <2> QED
    BY <1>1, <1>2, <2>1 DEF CheckpointInv
<1> QED
  BY <1>4, <1>6, <1>7, <1>8, <1>9 DEF IInv

LEMMA KvRollbackIInv ==
  ASSUME IInv, NEW keep \in 0..MaxSpan, KvRollback(keep)
  PROVE  IInv'
<1>1. /\ phase = "verified" /\ phase' = "rollback" /\ keep <= ckpt.span
      /\ commit' = keep /\ il' = 1
      /\ UNCHANGED <<buf, len, pos, work, ckpt, log, seen>>
  BY DEF KvRollback
<1>2. TypeOK'
  BY <1>1, FirstLayer DEF IInv, TypeOK, Phases
<1>3. \A p : Fed(p)' = Fed(p)
  BY <1>1 DEF Fed
<1>4. KeysInPlace' /\ SnapshotHoldsEvicted'
  BY <1>1, <1>3 DEF IInv, KeysInPlace, SnapshotHoldsEvicted
<1>5. LoopInv' /\ CheckpointInv'
  <2>1. \A l \in Layers : ~(l < 1)
    BY DEF Layers
  <2> QED
    BY <1>1, <2>1 DEF IInv, LoopInv, CheckpointInv
<1> QED
  BY <1>2, <1>4, <1>5 DEF IInv

(* The heart of the matter: after a rollback a ring holds the window that  *)
(* ends at the committed prefix.  A key of that window was either evicted  *)
(* by a rejected position, and then the snapshot has it and the rollback   *)
(* writes it back, or it was not, and then the rollback leaves it alone.   *)
LEMMA RollbackRing ==
  ASSUME IInv, NarrowSpan, phase = "rollback", NEW l \in SwaLayers,
         len[l] = pos + ckpt.span
  PROVE  /\ RollbackBuf(l) \in [0..(Window - 1) -> Cells]
         /\ \A p \in 0..(pos + commit - 1) :
              p >= (pos + commit) - Window => RollbackBuf(l)[p % Window] = Fed(p)
<1>0. PICK keep \in 0..Window, span \in 1..Window :
        keep = commit /\ span = ckpt.span /\ keep <= span
  BY SizeAssumption DEF IInv, TypeOK, LoopInv, CheckpointInv, NarrowSpan
<1>1. /\ pos \in Nat /\ Window \in Nat \ {0} /\ ckpt.len0 = pos
      /\ Len(ckpt.snap[l]) = span /\ ckpt.snap[l] \in Seq(Cells)
      /\ buf[l] \in [0..(Window - 1) -> Cells] /\ len[l] = pos + span
  BY <1>0, SizeAssumption, LayerAssumption DEF IInv, TypeOK, CheckpointInv, Slots
<1>2. \A p \in 0..(pos + span - 1) :
        p >= (pos + span) - Window => buf[l][p % Window] = Fed(p)
  BY SMTT(30), <1>0, <1>1, LayerAssumption DEF IInv, KeysInPlace
<1>3. \A j \in 0..(span - 1) : \A e \in Nat :
        e = (pos + j) - Window => ckpt.snap[l][j + 1] = Fed(e)
  <2>1. ASSUME NEW j \in 0..(span - 1), NEW e \in Nat, e = (pos + j) - Window
        PROVE  ckpt.snap[l][j + 1] = Fed(e)
    <3>1. ckpt.len0 + j - Window = e
      BY <1>0, <1>1, <2>1
    <3> QED
      BY <1>0, <2>1, <3>1 DEF IInv, SnapshotHoldsEvicted
  <2> QED
    BY <2>1
<1>4. CASE keep = span
  <2>1. RollbackBuf(l) = buf[l]
    BY <1>0, <1>4 DEF RollbackBuf
  <2> QED
    BY <1>0, <1>1, <1>2, <1>4, <2>1
<1>5. CASE keep < span
  <2>1. PICK src : src = SubSeq(ckpt.snap[l], keep + 1, span)
    OBVIOUS
  <2>2. /\ src \in Seq(Cells) /\ Len(src) = span - keep
        /\ \A i \in 1..(span - keep) : src[i] = ckpt.snap[l][keep + i]
    <3>1. PICK snap \in Seq(Cells) : snap = ckpt.snap[l] /\ Len(snap) = span
      BY <1>0, <1>1
    <3>2. src = SubSeq(snap, keep + 1, span)
      BY <2>1, <3>1
    <3>3. /\ Len(src) = span - keep /\ src \in Seq(Cells)
          /\ \A i \in 1..(span - keep) : src[i] = snap[keep + i]
      BY <1>5, <3>1, <3>2
    <3> QED
      BY <3>1, <3>3
  <2>3. PICK n \in Nat : n = pos + keep
    BY <1>0, <1>1
  <2>4. RollbackBuf(l) = WriteWrapped(buf[l], src, n % Window, Window)
    BY <1>0, <1>1, <1>5, <2>1, <2>3 DEF RollbackBuf
  <2>5. Written(RollbackBuf(l), buf[l], src, n, Window, Cells)
    <3>1. Len(src) <= Window
      BY <1>0, <1>1, <2>2
    <3> QED
      BY <1>1, <2>2, <2>4, <3>1, WritePositions, ZenonT(30)
  <2>6. ASSUME NEW p \in 0..(n - 1), p >= n - Window
        PROVE  RollbackBuf(l)[p % Window] = Fed(p)
    <3>1. CASE p + Window >= pos + span
      <4>1. p \in Nat /\ p < n /\ p + Window >= n + Len(src)
        BY <1>0, <1>1, <2>2, <2>3, <2>6, <3>1
      <4>2. RollbackBuf(l)[p % Window] = buf[l][p % Window]
        BY <2>5, <4>1 DEF Written
      <4>3. p \in 0..(pos + span - 1) /\ p >= (pos + span) - Window
        <5>1. pos \in Nat /\ Window \in Nat /\ keep \in Nat /\ span \in Nat
          BY <1>0, <1>1
        <5>2. p \in Nat /\ p < pos + keep
          BY <2>3, <2>6, <5>1
        <5> QED
          BY <1>5, <3>1, <5>1, <5>2
      <4> QED
        BY <1>2, <4>2, <4>3
    <3>2. CASE p + Window < pos + span
      <4>1. PICK q \in n..(n + Len(src) - 1) : q = p + Window
        BY <1>0, <1>1, <2>2, <2>3, <2>6, <3>2
      <4>2. q + Window >= n + Len(src)
        BY <1>0, <1>1, <2>2, <2>3, <4>1
      <4>3. RollbackBuf(l)[q % Window] = src[(q - n) + 1]
        BY <2>5, <4>1, <4>2 DEF Written
      <4>4. PICK j \in 0..(span - 1) : j = q - pos /\ (q - n) + 1 = (j - keep) + 1
        <5>1. /\ pos \in Nat /\ keep \in Nat /\ span \in Nat
              /\ n = pos + keep /\ Len(src) = span - keep
          BY <1>0, <1>1, <2>2, <2>3
        <5>2. q - pos \in 0..(span - 1) /\ (q - n) + 1 = ((q - pos) - keep) + 1
          BY ONLY <5>1
        <5> QED
          BY <5>2
      <4>5. src[(q - n) + 1] = ckpt.snap[l][j + 1]
        <5>1. PICK i \in 1..(span - keep) : i = (j - keep) + 1
          BY <1>0, <1>1, <2>2, <2>3, <4>1, <4>4
        <5>2. keep + i = j + 1
          BY <1>0, <1>1, <5>1
        <5> QED
          BY <2>2, <4>4, <5>1, <5>2
      <4>6. p \in Nat /\ p = (pos + j) - Window
        BY <1>0, <1>1, <4>1, <4>4
      <4>7. (p + Window) % Window = p % Window
        BY <1>0, <1>1, <4>6, ModTurn, Zenon
      <4> QED
        BY <1>3, <4>1, <4>3, <4>5, <4>6, <4>7
    <3> QED
      BY <1>0, <1>1, <2>6, <3>1, <3>2
  <2> QED
    BY <1>0, <1>1, <2>3, <2>5, <2>6 DEF Written
<1> QED
  BY <1>0, <1>4, <1>5

LEMMA LayerRollbackIInv ==
  ASSUME IInv, NarrowSpan, LayerRollback
  PROVE  IInv'
<1>1. /\ phase = "rollback" /\ il \in Layers /\ len[il] = pos + ckpt.span
      /\ pos \in Nat /\ commit \in Nat /\ ckpt.span \in Nat /\ commit <= ckpt.span
      /\ ckpt.len0 = pos /\ pos + ckpt.span <= MaxCtx
      /\ MaxCtx \in Nat /\ MaxSpan \in Nat /\ Window \in Nat \ {0} /\ NLayers \in Nat
  BY SizeAssumption, FirstLayer DEF IInv, TypeOK, LoopInv, CheckpointInv, LayerRollback
<1>2. /\ buf' = [l \in Layers |-> IF l = il THEN RollbackBuf(il) ELSE buf[l]]
      /\ len' = [l \in Layers |-> IF l = il THEN pos + commit ELSE len[l]]
  <2>1. buf = [l \in Layers |-> buf[l]] /\ len = [l \in Layers |-> len[l]]
    BY DEF IInv, TypeOK
  <2> QED
    BY <1>1, <2>1 DEF LayerRollback
<1>3. UNCHANGED <<log, work, seen>> /\ \A p : Fed(p)' = Fed(p)
  BY DEF LayerRollback, Fed
<1>4. il \notin SwaLayers => RollbackBuf(il) = buf[il]
  BY DEF RollbackBuf
<1>5. TypeOK'
  <2>1. buf' = [l \in Layers |-> buf'[l]]
    BY <1>2
  <2>2. il \in SwaLayers => RollbackBuf(il) \in [Slots(il) -> Cells]
    BY <1>1, RollbackRing DEF Slots
  <2>3. \A l \in Layers : buf'[l] \in [Slots(l) -> Cells]
    BY <1>1, <1>2, <1>4, <2>2 DEF IInv, TypeOK
  <2>4. len' \in [Layers -> 0..MaxCtx]
    BY <1>1, <1>2 DEF IInv, TypeOK
  <2>5. NoCheckpoint \in [len0 : 0..MaxCtx, span : 0..MaxSpan, snap : [Layers -> Seq(Cells)]]
    BY <1>1 DEF NoCheckpoint
  <2>6. /\ il' \in Layers /\ pos' \in 0..MaxCtx /\ phase' \in Phases /\ commit' \in 0..MaxSpan
        /\ ckpt' \in [len0 : 0..MaxCtx, span : 0..MaxSpan, snap : [Layers -> Seq(Cells)]]
    <3>1. CASE il < NLayers
      <4>1. il' = il + 1 /\ UNCHANGED <<pos, phase, ckpt, commit>>
        BY <3>1 DEF LayerRollback
      <4> QED
        BY <1>1, <3>1, <4>1 DEF Layers, IInv, TypeOK
    <3>2. CASE ~(il < NLayers)
      <4>1. /\ il' = 1 /\ phase' = "idle" /\ pos' = pos + commit
            /\ ckpt' = NoCheckpoint /\ commit' = 0
        BY <3>2 DEF LayerRollback
      <4> QED
        BY <1>1, <2>5, <4>1, FirstLayer DEF Phases
    <3> QED
      BY <3>1, <3>2
  <2> QED
    BY <1>3, <2>1, <2>3, <2>4, <2>6 DEF IInv, TypeOK
<1>6. KeysInPlace'
  <2>1. ASSUME NEW l \in Layers, NEW p \in 0..(len'[l] - 1)
        PROVE  IF l \in SwaLayers
               THEN p >= len'[l] - Window => buf'[l][p % Window] = Fed(p)
               ELSE buf'[l][p] = Fed(p)
    <3>1. CASE l # il
      BY <1>2, <2>1, <3>1 DEF IInv, KeysInPlace
    <3>2. CASE l = il /\ l \in SwaLayers
      BY <1>1, <1>2, <2>1, <3>2, RollbackRing
    <3>3. CASE l = il /\ l \notin SwaLayers
      <4>1. p \in 0..(len[l] - 1) /\ buf'[l] = buf[l]
        BY <1>1, <1>2, <1>4, <2>1, <3>3
      <4> QED
        BY <3>3, <4>1 DEF IInv, KeysInPlace
    <3> QED
      BY <3>1, <3>2, <3>3
  <2> QED
    BY <1>3, <2>1 DEF KeysInPlace
<1>7. CASE il < NLayers
  <2>1. il' = il + 1 /\ UNCHANGED <<pos, phase, ckpt, commit>>
    BY <1>7 DEF LayerRollback
  <2>2. SnapshotHoldsEvicted' /\ CheckpointInv'
    BY <1>1, <1>3, <2>1 DEF IInv, SnapshotHoldsEvicted, CheckpointInv
  <2>3. \A l \in Layers : len'[l] = pos + (IF l < il + 1 THEN commit ELSE ckpt.span)
    BY <1>1, <1>2, FirstLayer DEF IInv, LoopInv
  <2>4. LoopInv'
    BY <1>1, <2>1, <2>3 DEF LoopInv
  <2> QED
    BY <1>5, <1>6, <2>2, <2>4 DEF IInv
<1>8. CASE ~(il < NLayers)
  <2>1. phase' = "idle" /\ pos' = pos + commit /\ ckpt' = NoCheckpoint
    BY <1>8 DEF LayerRollback
  <2>2. SnapshotHoldsEvicted' /\ CheckpointInv'
    BY <2>1, LayerAssumption DEF SnapshotHoldsEvicted, CheckpointInv, NoCheckpoint
  <2>3. \A l \in Layers : l # il => l < il
    BY <1>1, <1>8 DEF Layers
  <2>4. \A l \in Layers : len'[l] = pos + commit
    BY <1>1, <1>2, <2>3 DEF IInv, LoopInv
  <2>5. LoopInv'
    BY <2>1, <2>4 DEF LoopInv
  <2> QED
    BY <1>5, <1>6, <2>2, <2>5 DEF IInv
<1> QED
  BY <1>7, <1>8

LEMMA FailIInv ==
  ASSUME IInv, Fail
  PROVE  IInv'
<1>1. phase' = "failed" /\ UNCHANGED <<buf, len, pos, work, il, ckpt, commit, log, seen>>
  BY DEF Fail
<1>2. \A p : Fed(p)' = Fed(p)
  BY <1>1 DEF Fed
<1>3. TypeOK' /\ KeysInPlace' /\ SnapshotHoldsEvicted'
  BY <1>1, <1>2 DEF IInv, TypeOK, Phases, KeysInPlace, SnapshotHoldsEvicted
<1>4. LoopInv' /\ CheckpointInv'
  BY <1>1 DEF LoopInv, CheckpointInv
<1> QED
  BY <1>3, <1>4 DEF IInv

(* A reset leaves stale keys in the slots; with no position stored, no     *)
(* lookup reaches them.                                                    *)
LEMMA ResetCacheIInv ==
  ASSUME IInv, ResetCache
  PROVE  IInv'
<1>1. /\ len' = [l \in Layers |-> 0] /\ pos' = 0 /\ phase' = "idle"
      /\ work' = <<>> /\ il' = 1 /\ ckpt' = NoCheckpoint /\ commit' = 0
      /\ log' = NothingFed /\ seen' = NothingSeen /\ buf' = buf
  BY DEF ResetCache
<1>2. TypeOK'
  BY <1>1, SizeAssumption, FirstLayer
  DEF IInv, TypeOK, Phases, NoCheckpoint, NothingSeen, NothingFed
<1>3. KeysInPlace'
  BY <1>1 DEF KeysInPlace
<1>4. SnapshotHoldsEvicted'
  BY <1>1, LayerAssumption DEF SnapshotHoldsEvicted, NoCheckpoint
<1>5. LoopInv' /\ CheckpointInv'
  BY <1>1 DEF LoopInv, CheckpointInv
<1> QED
  BY <1>2, <1>3, <1>4, <1>5 DEF IInv

LEMMA BlocksAreSequences ==
  ASSUME NEW n \in Nat, NEW toks \in Blocks(n)
  PROVE  toks \in Seq(Tokens) /\ Len(toks) >= 1
<1>1. PICK k \in 1..n : toks \in [1..k -> Tokens]
  BY DEF Blocks
<1> QED
  BY <1>1

LEMMA NextIInv ==
  ASSUME IInv, NarrowSpan, [Next]_vars
  PROVE  IInv'
<1>1. CASE \E toks \in Blocks(MaxSeq) : Forward(toks)
  BY <1>1, SizeAssumption, BlocksAreSequences, BeginForwardIInv
<1>2. CASE \E span \in 1..MaxSpan : KvCheckpoint(span)
  BY <1>2, KvCheckpointIInv
<1>3. CASE \E toks \in Blocks(MaxSpan) : VerifyForward(toks)
  BY <1>3, SizeAssumption, BlocksAreSequences, BeginForwardIInv
<1>4. CASE \E keep \in 0..MaxSpan : KvRollback(keep)
  BY <1>4, KvRollbackIInv
<1>5. CASE LayerAppend
  BY <1>5, LayerAppendIInv
<1>6. CASE LayerRollback
  BY <1>6, LayerRollbackIInv
<1>7. CASE Fail
  BY <1>7, FailIInv
<1>8. CASE ResetCache
  BY <1>8, ResetCacheIInv
<1>9. CASE UNCHANGED vars
  BY <1>9
  DEF vars, IInv, TypeOK, KeysInPlace, SnapshotHoldsEvicted, LoopInv, CheckpointInv, Fed
<1> QED
  BY <1>1, <1>2, <1>3, <1>4, <1>5, <1>6, <1>7, <1>8, <1>9 DEF Next

-----------------------------------------------------------------------------
(* The inductive invariant holds in every reachable state.                 *)
THEOREM Inductive == ASSUME NarrowSpan PROVE Spec => []IInv
<1>1. Init => IInv
  BY InitIInv
<1>2. IInv /\ [Next]_vars => IInv'
  BY NextIInv
<1> QED
  BY <1>1, <1>2, PTL DEF Spec

(* Buffers keep their shape: no slot outside a layer's capacity is ever    *)
(* written, no length passes max_ctx, no index of a helper is out of range.*)
THEOREM Types == ASSUME NarrowSpan PROVE Spec => []TypeOK
BY Inductive, PTL DEF IInv

(* LayerCache::append, rollback and reset keep the key of every position   *)
(* that attention can still reach in the slot the code will read it from,  *)
(* whatever is accepted, rejected or fails.                                *)
THEOREM RingKeepsWindow == ASSUME NarrowSpan PROVE Spec => []KeysInPlace
BY Inductive, PTL DEF IInv

(* kv_checkpoint's snapshot is complete and stays valid until the rollback *)
(* that uses it.                                                           *)
THEOREM SnapshotComplete == ASSUME NarrowSpan PROVE Spec => []SnapshotHoldsEvicted
BY Inductive, PTL DEF IInv

(* The layers agree with the caller on the number of stored positions      *)
(* whenever the caller acts, so reading it off the first layer is sound.   *)
THEOREM LayersInLockstep == ASSUME NarrowSpan PROVE Spec => []Lockstep
<1>1. IInv => Lockstep
  BY DEF IInv, LoopInv, Lockstep
<1> QED
  BY <1>1, Inductive, PTL

-----------------------------------------------------------------------------
(* What the queries of a forward attend to.                                *)

(* The positions the query at position q must see in layer l. *)
Visible(l, q) == {p \in 0..q : l \in SwaLayers => q - p < Window}

(* The unmasked columns of a view are the keys of the visible positions.   *)
Shows(view, l, q) ==
  /\ \A c \in 0..(Len(view) - 1) :
       Unmasked(l, q - pos, c) => \E p \in Visible(l, q) : view[c + 1] = Fed(p)
  /\ \A p \in Visible(l, q) :
       \E c \in 0..(Len(view) - 1) : Unmasked(l, q - pos, c) /\ view[c + 1] = Fed(p)

(* A full layer: the view is every stored key, the mask cuts at the query. *)
LEMMA FullShows ==
  ASSUME IInv, phase \in {"forward", "verify"}, NEW l \in Layers \ SwaLayers,
         len[l] = pos, NEW q \in pos..(pos + Len(work) - 1)
  PROVE  Shows(AppendView(l), l, q)
<1>1. /\ pos \in Nat /\ Len(work) \in Nat /\ Len(work) >= 1 /\ q \in Nat
      /\ pos + Len(work) <= MaxCtx
  BY SizeAssumption DEF IInv, TypeOK, LoopInv
<1>2. PICK total \in Nat : total = pos + Len(work)
  BY <1>1
<1>3. PICK view : view = AppendView(l)
  OBVIOUS
<1>4. view = [i \in 1..total |-> AppendBuf(l)[(0 + i) - 1]]
  BY <1>2, <1>3 DEF AppendView, Narrow
<1>5. Len(view) = total
  BY <1>4
<1>6. ASSUME NEW c \in 0..(total - 1)
      PROVE  view[c + 1] = Fed(c)
  <2>1. view[c + 1] = AppendBuf(l)[c]
    BY <1>2, <1>4
  <2>2. CASE c >= pos
    BY <1>1, <1>2, <2>1, <2>2, AppendFull
  <2>3. CASE c < pos
    <3>1. c \in 0..(len[l] - 1)
      BY <1>1, <2>3
    <3>2. buf[l][c] = Fed(c)
      BY <3>1 DEF IInv, KeysInPlace
    <3>3. c \in 0..(pos - 1)
      BY <3>1
    <3> QED
      BY <2>1, <3>2, <3>3, AppendFull
  <2> QED
    BY <1>1, <2>2, <2>3
<1>7. ASSUME NEW c \in 0..(total - 1)
      PROVE  Unmasked(l, q - pos, c) <=> c <= q
  <2>1. Len(work) = 1 => c <= q
    BY <1>1, <1>2
  <2>2. pos + (q - pos) = q
    BY <1>1
  <2>3. Unmasked(l, q - pos, c) <=> (Len(work) = 1 \/ c <= q)
    BY <2>2 DEF Unmasked, FullUnmasked
  <2> QED
    BY <2>1, <2>3
<1>8. Visible(l, q) = 0..q /\ 0..q \subseteq 0..(total - 1)
  BY <1>1, <1>2 DEF Visible
<1>9. Shows(view, l, q)
  <2>1. ASSUME NEW c \in 0..(total - 1), Unmasked(l, q - pos, c)
        PROVE  \E p \in Visible(l, q) : view[c + 1] = Fed(p)
    <3>1. c \in Visible(l, q)
      BY <1>1, <1>7, <1>8, <2>1
    <3> QED
      BY <1>6, <3>1
  <2>2. ASSUME NEW p \in Visible(l, q)
        PROVE  \E c \in 0..(total - 1) : Unmasked(l, q - pos, c) /\ view[c + 1] = Fed(p)
    <3>1. p \in 0..(total - 1) /\ p <= q
      BY <1>1, <1>8
    <3> QED
      BY <1>6, <1>7, <3>1
  <2> QED
    BY <1>5, <2>1, <2>2, Zenon DEF Shows
<1> QED
  BY <1>3, <1>9

(* A ring in single-token decode: the view is the ring as it lies, with no *)
(* mask; its slots hold the keys of the Window last positions.             *)
LEMMA SingleShows ==
  ASSUME IInv, phase \in {"forward", "verify"}, NEW l \in SwaLayers,
         len[l] = pos, Len(work) = 1
  PROVE  Shows(AppendView(l), l, pos)
<1>1. pos \in Nat /\ Window \in Nat \ {0} /\ l \in Layers
  BY SizeAssumption, LayerAssumption DEF IInv, TypeOK
<1>2. PICK n \in Nat : n = Smaller(pos + 1, Window)
  BY <1>1 DEF Smaller
<1>3. n <= pos + 1 /\ n <= Window /\ (n = pos + 1 \/ n = Window)
  BY <1>1, <1>2 DEF Smaller
<1>4. PICK view : view = AppendView(l)
  OBVIOUS
<1>5. view = [i \in 1..n |-> AppendBuf(l)[(0 + i) - 1]]
  BY <1>1, <1>2, <1>4 DEF AppendView, Narrow
<1>6. Len(view) = n
  BY <1>5
<1>7. \A c \in 0..(n - 1) : view[c + 1] = AppendBuf(l)[c]
  BY <1>5
<1>8. ASSUME NEW p \in Visible(l, pos)
      PROVE  AppendBuf(l)[p % Window] = Fed(p)
  <2>1. p \in 0..pos /\ pos - p < Window
    BY DEF Visible
  <2>2. Written(AppendBuf(l), buf[l], NewKeys, pos, Window, Cells)
    BY AppendRing
  <2>3. Len(NewKeys) = 1 /\ \A r \in pos..pos : NewKeys[(r - pos) + 1] = Fed(r)
    BY <1>1, NewKeysFed
  <2>4. CASE p = pos
    <3>1. p \in pos..(pos + Len(NewKeys) - 1) /\ p + Window >= pos + Len(NewKeys)
      BY <1>1, <2>3, <2>4
    <3>2. AppendBuf(l)[p % Window] = NewKeys[(p - pos) + 1]
      BY <2>2, <3>1 DEF Written
    <3> QED
      BY <1>1, <2>3, <2>4, <3>2
  <2>5. CASE p < pos
    <3>1. p \in Nat /\ p < pos /\ p + Window >= pos + Len(NewKeys)
      BY <1>1, <2>1, <2>3, <2>5
    <3>2. AppendBuf(l)[p % Window] = buf[l][p % Window]
      BY <2>2, <3>1 DEF Written
    <3>3. p \in 0..(len[l] - 1) /\ p >= len[l] - Window
      BY <1>1, <2>1, <2>5
    <3>4. buf[l][p % Window] = Fed(p)
      BY <1>1, <3>3 DEF IInv, KeysInPlace
    <3> QED
      BY <3>2, <3>4
  <2> QED
    BY <1>1, <2>1, <2>4, <2>5
<1>9. ASSUME NEW p \in Visible(l, pos)
      PROVE  p % Window \in 0..(n - 1)
  <2>1. p \in Nat /\ p <= pos
    BY <1>1 DEF Visible
  <2>2. p % Window \in 0..(Window - 1) /\ p % Window <= p
    <3>1. PICK k \in Nat, r \in 0..(Window - 1) : p = (Window * k) + r /\ r = p % Window
      BY <1>1, <2>1, ModDef
    <3>2. Window * k \in Nat
      BY <1>1
    <3> QED
      BY <2>1, <3>1, <3>2
  <2> QED
    BY <1>1, <1>3, <2>1, <2>2
<1>10. ASSUME NEW c \in 0..(n - 1)
       PROVE  \E p \in Visible(l, pos) : p % Window = c
  <2>1. pos - c \in Nat
    BY <1>1, <1>3
  <2>2. PICK k \in Nat, r \in 0..(Window - 1) : pos - c = (Window * k) + r
    BY <1>1, <2>1, ModDef
  <2>3. Window * k \in Nat
    BY <1>1
  <2>4. PICK p \in Int : p = pos - r
    BY <1>1
  <2>5. p = (Window * k) + c /\ p \in 0..pos /\ pos - p < Window
    BY <1>1, <2>1, <2>2, <2>3, <2>4
  <2>6. c \in 0..(Window - 1)
    BY <1>1, <1>3
  <2>7. ((Window * k) + c) % Window = c
    BY <1>1, <2>6, ModUnique
  <2> QED
    BY <2>5, <2>7 DEF Visible
<1>11. \A c \in 0..(n - 1) : Unmasked(l, pos - pos, c)
  BY DEF Unmasked
<1>12. Shows(view, l, pos)
  <2>1. ASSUME NEW c \in 0..(n - 1)
        PROVE  \E p \in Visible(l, pos) : view[c + 1] = Fed(p)
    BY <1>7, <1>8, <1>10
  <2>2. ASSUME NEW p \in Visible(l, pos)
        PROVE  \E c \in 0..(n - 1) : Unmasked(l, pos - pos, c) /\ view[c + 1] = Fed(p)
    BY <1>7, <1>8, <1>9, <1>11
  <2> QED
    BY <1>6, <2>1, <2>2, Zenon DEF Shows
<1> QED
  BY <1>4, <1>12

(* A ring in a forward of several tokens: the surviving keys are put in    *)
(* order before the new ones, the mask keeps each query's own window.      *)
LEMMA MultiShows ==
  ASSUME IInv, phase \in {"forward", "verify"}, NEW l \in SwaLayers,
         len[l] = pos, Len(work) # 1, NEW q \in pos..(pos + Len(work) - 1)
  PROVE  Shows(AppendView(l), l, q)
<1>1. /\ pos \in Nat /\ Window \in Nat \ {0} /\ l \in Layers
      /\ Len(work) \in Nat /\ q \in Nat
      /\ buf[l] \in [0..(Window - 1) -> Cells]
  <2>1. pos \in Nat /\ Window \in Nat \ {0} /\ l \in Layers /\ Len(work) \in Nat
    BY SizeAssumption, LayerAssumption DEF IInv, TypeOK
  <2>2. buf[l] \in [0..(Window - 1) -> Cells]
    BY <2>1 DEF IInv, TypeOK, Slots
  <2> QED
    BY <2>1, <2>2
<1>2. PICK old \in Nat, first \in Nat :
        old = Smaller(pos, Window) /\ first = pos - Smaller(pos, Window)
  <2>1. Smaller(pos, Window) \in Nat /\ pos - Smaller(pos, Window) \in Nat
    BY <1>1 DEF Smaller
  <2> QED
    BY <2>1
<1>3. first + old = pos /\ old <= Window /\ (first = 0 \/ old = Window)
  BY <1>1, <1>2 DEF Smaller
<1>4. PICK keys : keys = OrderedExisting(buf[l], pos, Window)
  OBVIOUS
<1>5. ReadFrom(keys, buf[l], first, old, Window, Cells)
  <2>1. ReadFrom(OrderedExisting(buf[l], pos, Window), buf[l],
                 pos - Smaller(pos, Window), Smaller(pos, Window), Window, Cells)
    BY <1>1, OrderedPositions, Zenon
  <2> QED
    BY <1>2, <1>4, <2>1
<1>6. PICK new \in Seq(Cells) :
        /\ new = NewKeys /\ Len(new) = Len(work)
        /\ \A p \in pos..(pos + Len(work) - 1) : new[(p - pos) + 1] = Fed(p)
  BY NewKeysFed
<1>7. PICK view : view = AppendView(l)
  OBVIOUS
<1>8. view = keys \o new
  BY <1>4, <1>6, <1>7 DEF AppendView
<1>9. keys \in Seq(Cells) /\ Len(keys) = old
  BY <1>5 DEF ReadFrom
<1>10. /\ Len(view) = old + Len(work)
       /\ \A i \in 1..(old + Len(work)) :
            view[i] = IF i <= old THEN keys[i] ELSE new[i - old]
  <2>1. /\ Len(keys \o new) = Len(keys) + Len(new)
        /\ \A i \in 1..(Len(keys) + Len(new)) :
             (keys \o new)[i] = IF i <= Len(keys) THEN keys[i] ELSE new[i - Len(keys)]
    <3>1. keys \in Seq(Cells) /\ new \in Seq(Cells)
      BY <1>9
    <3> QED
      BY ONLY <3>1, ConcatProperties
  <2> QED
    BY <1>6, <1>8, <1>9, <2>1
<1>11. ASSUME NEW c \in 0..(old + Len(work) - 1)
       PROVE  view[c + 1] = Fed(first + c)
  <2>1. CASE c < old
    <3>1. c \in 0..(old - 1) /\ c + 1 \in 1..(old + Len(work)) /\ c + 1 <= old
      BY <1>1, <2>1
    <3>2. view[c + 1] = buf[l][(first + c) % Window]
      BY <1>5, <1>10, <3>1 DEF ReadFrom
    <3>3. PICK p \in 0..(len[l] - 1) : p = first + c /\ p >= len[l] - Window
      BY <1>1, <1>3, <3>1
    <3>4. buf[l][p % Window] = Fed(p)
      BY <1>1, <3>3 DEF IInv, KeysInPlace
    <3> QED
      BY <3>2, <3>3, <3>4
  <2>2. CASE ~(c < old)
    <3>1. PICK p \in pos..(pos + Len(work) - 1) : p = first + c /\ (p - pos) + 1 = (c + 1) - old
      BY <1>1, <1>3, <2>2
    <3>2. c + 1 \in 1..(old + Len(work)) /\ ~(c + 1 <= old)
      BY <1>1, <2>2
    <3>3. view[c + 1] = new[(c + 1) - old]
      BY <1>10, <3>2
    <3> QED
      BY <1>6, <3>1, <3>3
  <2> QED
    BY <2>1, <2>2
<1>12. \A c \in 0..(old + Len(work) - 1) :
         Unmasked(l, q - pos, c) <=> first + c <= q /\ q - (first + c) < Window
  BY <1>1, <1>2 DEF Unmasked, SwaUnmasked
<1>13. Shows(view, l, q)
  <2>1. ASSUME NEW c \in 0..(old + Len(work) - 1), Unmasked(l, q - pos, c)
        PROVE  \E p \in Visible(l, q) : view[c + 1] = Fed(p)
    <3>1. first + c \in Visible(l, q)
      BY <1>1, <1>12, <2>1 DEF Visible
    <3> QED
      BY <1>11, <3>1
  <2>2. ASSUME NEW p \in Visible(l, q)
        PROVE  \E c \in 0..(old + Len(work) - 1) :
                 Unmasked(l, q - pos, c) /\ view[c + 1] = Fed(p)
    <3>1. p \in 0..q /\ q - p < Window
      BY DEF Visible
    <3>2. PICK c \in 0..(old + Len(work) - 1) : first + c = p
      <4>1. p - first \in 0..(old + Len(work) - 1) /\ first + (p - first) = p
        BY <1>1, <1>3, <3>1
      <4> QED
        BY <4>1
    <3>3. view[c + 1] = Fed(p)
      BY <1>11, <3>2, Zenon
    <3>4. Unmasked(l, q - pos, c)
      BY <1>1, <1>12, <3>1, <3>2
    <3> QED
      BY <3>3, <3>4
  <2>3. Len(view) - 1 = old + Len(work) - 1
    BY <1>1, <1>10
  <2> QED
    BY <2>1, <2>2, <2>3 DEF Shows
<1> QED
  BY <1>7, <1>13

(* View and mask together give every query of a forward its window. *)
LEMMA AttendedVisible ==
  ASSUME IInv, phase \in {"forward", "verify"}, NEW l \in Layers, len[l] = pos
  PROVE  Attended(l) = [q \in pos..(pos + Len(work) - 1) |->
                          {Fed(p) : p \in Visible(l, q)}]
<1>1. ASSUME NEW q \in pos..(pos + Len(work) - 1)
      PROVE  Shows(AppendView(l), l, q)
  <2>1. CASE l \notin SwaLayers
    BY <2>1, FullShows
  <2>2. CASE l \in SwaLayers /\ Len(work) = 1
    <3>1. q = pos
      BY <2>2 DEF IInv, TypeOK
    <3> QED
      BY <2>2, <3>1, SingleShows
  <2>3. CASE l \in SwaLayers /\ Len(work) # 1
    BY <2>3, MultiShows
  <2> QED
    BY <2>1, <2>2, <2>3
<1>2. ASSUME NEW q \in pos..(pos + Len(work) - 1)
      PROVE  {AppendView(l)[c + 1] :
                c \in {c \in 0..(Len(AppendView(l)) - 1) : Unmasked(l, q - pos, c)}}
               = {Fed(p) : p \in Visible(l, q)}
  <2> DEFINE view == AppendView(l)
  <2>1. Shows(view, l, q)
    BY <1>1
  <2> HIDE DEF view
  <2>2. {view[c + 1] : c \in {c \in 0..(Len(view) - 1) : Unmasked(l, q - pos, c)}}
          = {Fed(p) : p \in Visible(l, q)}
    BY <2>1, Zenon DEF Shows
  <2> QED
    BY <2>2 DEF view
<1> QED
  BY <1>2, Zenon DEF Attended

(* The token of every stored position is on record. *)
Recorded == \A l \in Layers : \A p \in 0..(len[l] - 1) : log[p] \in Tokens

(* What the history variables say of the caches. *)
HistoryInv == Recorded /\ AttendsWindow

LEMMA InitHistory == Init => HistoryInv
<1> SUFFICES ASSUME Init PROVE HistoryInv
  OBVIOUS
<1>1. Recorded
  BY DEF Init, Recorded
<1>2. \A l \in Layers : DOMAIN seen[l] = {}
  BY DEF Init, NothingSeen
<1> QED
  BY <1>1, <1>2 DEF HistoryInv, AttendsWindow

(* A forward rewrites the record from the caller's position on: before it, *)
(* nothing that is stored changes.                                         *)
LEMMA BeginForwardRecord ==
  ASSUME IInv, NEW toks \in Seq(Tokens), Forward(toks) \/ VerifyForward(toks)
  PROVE  /\ \A l \in Layers : len[l] = pos
         /\ \A p \in 0..(pos - 1) : log'[p] = log[p]
         /\ UNCHANGED len /\ seen' = NothingSeen
<1>1. /\ phase \in {"idle", "armed"} /\ pos \in 0..MaxCtx /\ MaxCtx \in Nat
      /\ DOMAIN log = 0..(MaxCtx - 1)
  BY SizeAssumption DEF IInv, TypeOK, Forward, VerifyForward
<1>2. PICK next : BeginForward(toks, next)
  BY DEF Forward, VerifyForward
<1>3. \A p \in 0..(pos - 1) : log'[p] = log[p]
  BY <1>1, <1>2 DEF BeginForward
<1> QED
  BY <1>1, <1>2, <1>3 DEF IInv, LoopInv, BeginForward

LEMMA BeginForwardHistory ==
  ASSUME IInv, HistoryInv, NEW toks \in Seq(Tokens), Forward(toks) \/ VerifyForward(toks)
  PROVE  HistoryInv'
<1>1. /\ \A l \in Layers : len[l] = pos
      /\ \A p \in 0..(pos - 1) : log'[p] = log[p]
      /\ UNCHANGED len /\ seen' = NothingSeen
  BY BeginForwardRecord
<1>2. Recorded'
  BY <1>1 DEF HistoryInv, Recorded
<1>3. \A l \in Layers : DOMAIN seen'[l] = {}
  BY <1>1 DEF NothingSeen
<1> QED
  BY <1>2, <1>3 DEF HistoryInv, AttendsWindow

(* An append stores the positions the forward fed to one layer, and shows  *)
(* them with the earlier ones to that layer's queries.                     *)
LEMMA LayerAppendStores ==
  ASSUME IInv, LayerAppend
  PROVE  /\ phase \in {"forward", "verify"} /\ il \in Layers /\ len[il] = pos
         /\ pos \in Nat /\ Len(work) \in Nat /\ Len(work) >= 1
         /\ \A p \in pos..(pos + Len(work) - 1) : log[p] \in Tokens
         /\ len' = [l \in Layers |-> IF l = il THEN pos + Len(work) ELSE len[l]]
         /\ seen' = [l \in Layers |->
                       IF l = il
                       THEN [q \in pos..(pos + Len(work) - 1) |->
                               {Fed(p) : p \in Visible(l, q)}]
                       ELSE seen[l]]
         /\ UNCHANGED log
<1>1. /\ phase \in {"forward", "verify"} /\ il \in Layers /\ len[il] = pos
      /\ pos \in Nat /\ Len(work) \in Nat /\ Len(work) >= 1 /\ work \in Seq(Tokens)
      /\ \A i \in 1..Len(work) : log[(pos + i) - 1] = work[i]
  BY SMTT(30), SizeAssumption, FirstLayer DEF IInv, TypeOK, LoopInv, LayerAppend
<1>2. ASSUME NEW p \in pos..(pos + Len(work) - 1)
      PROVE  log[p] \in Tokens
  <2>1. PICK i \in 1..Len(work) : (pos + i) - 1 = p
    <3>1. (p - pos) + 1 \in 1..Len(work) /\ (pos + ((p - pos) + 1)) - 1 = p
      BY <1>1
    <3> QED
      BY <3>1
  <2> QED
    BY <1>1, <2>1
<1>3. /\ len = [l \in Layers |-> len[l]] /\ seen = [l \in Layers |-> seen[l]]
      /\ len' = [len EXCEPT ![il] = @ + Len(work)]
      /\ seen' = [seen EXCEPT ![il] = Attended(il)]
  BY DEF IInv, TypeOK, LayerAppend
<1>4. Attended(il) = [q \in pos..(pos + Len(work) - 1) |-> {Fed(p) : p \in Visible(il, q)}]
  BY <1>1, AttendedVisible
<1>5. len' = [l \in Layers |-> IF l = il THEN pos + Len(work) ELSE len[l]]
  BY <1>1, <1>3
<1>6. seen' = [l \in Layers |-> IF l = il THEN Attended(il) ELSE seen[l]]
  BY <1>1, <1>3
<1>7. UNCHANGED log
  BY DEF LayerAppend
<1> QED
  BY <1>1, <1>2, <1>4, <1>5, <1>6, <1>7, Zenon

LEMMA LayerAppendHistory ==
  ASSUME IInv, HistoryInv, LayerAppend
  PROVE  HistoryInv'
<1>1. /\ il \in Layers /\ len[il] = pos
      /\ pos \in Nat /\ Len(work) \in Nat /\ Len(work) >= 1
      /\ \A p \in pos..(pos + Len(work) - 1) : log[p] \in Tokens
      /\ len' = [l \in Layers |-> IF l = il THEN pos + Len(work) ELSE len[l]]
      /\ log' = log
  BY LayerAppendStores
<1>2. seen' = [l \in Layers |->
                 IF l = il
                 THEN [q \in pos..(pos + Len(work) - 1) |->
                         {Fed(p) : p \in Visible(l, q)}]
                 ELSE seen[l]]
  BY LayerAppendStores
<1>3. Recorded'
  <2>1. ASSUME NEW l \in Layers, NEW p \in 0..(len'[l] - 1)
        PROVE  log[p] \in Tokens
    <3>1. CASE l # il
      BY <1>1, <2>1, <3>1 DEF HistoryInv, Recorded
    <3>2. CASE l = il
      <4>1. p \in 0..(len[l] - 1) \/ p \in pos..(pos + Len(work) - 1)
        BY <1>1, <2>1, <3>2
      <4> QED
        BY <1>1, <4>1 DEF HistoryInv, Recorded
    <3> QED
      BY <3>1, <3>2
  <2> QED
    BY <1>1, <2>1 DEF Recorded
<1>4. \A p : Fed(p)' = Fed(p)
  BY <1>1 DEF Fed
<1>5. ASSUME NEW l \in Layers, NEW q \in DOMAIN seen'[l]
      PROVE  seen'[l][q] = {Fed(p) : p \in Visible(l, q)}
  <2>1. CASE l # il
    BY <1>2, <1>5, <2>1 DEF HistoryInv, AttendsWindow, Visible
  <2>2. CASE l = il
    BY <1>2, <1>5, <2>2
  <2> QED
    BY <2>1, <2>2
<1>6. AttendsWindow'
  BY <1>4, <1>5 DEF AttendsWindow, Visible
<1> QED
  BY <1>3, <1>6 DEF HistoryInv

(* A rollback shortens every layer it reaches. *)
LEMMA LayerRollbackStores ==
  ASSUME IInv, LayerRollback
  PROVE  /\ il \in Layers /\ len[il] \in Nat /\ pos + commit \in 0..len[il]
         /\ len' = [l \in Layers |-> IF l = il THEN pos + commit ELSE len[l]]
         /\ UNCHANGED <<log, seen>>
<1>1. /\ phase = "rollback" /\ il \in Layers /\ len[il] = pos + ckpt.span
      /\ pos \in Nat /\ commit \in Nat /\ ckpt.span \in Nat /\ commit <= ckpt.span
      /\ ckpt.len0 = pos
  BY SizeAssumption, FirstLayer DEF IInv, TypeOK, LoopInv, CheckpointInv, LayerRollback
<1>2. len = [l \in Layers |-> len[l]] /\ len' = [len EXCEPT ![il] = ckpt.len0 + commit]
  BY DEF IInv, TypeOK, LayerRollback
<1> QED
  BY <1>1, <1>2 DEF LayerRollback

LEMMA NextHistory ==
  ASSUME IInv, HistoryInv, [Next]_vars
  PROVE  HistoryInv'
<1>1. CASE \E toks \in Blocks(MaxSeq) : Forward(toks)
  BY <1>1, SizeAssumption, BlocksAreSequences, BeginForwardHistory
<1>2. CASE \E toks \in Blocks(MaxSpan) : VerifyForward(toks)
  BY <1>2, SizeAssumption, BlocksAreSequences, BeginForwardHistory
<1>3. CASE LayerAppend
  BY <1>3, LayerAppendHistory
<1>4. CASE LayerRollback
  <2>1. /\ il \in Layers /\ len[il] \in Nat /\ pos + commit \in 0..len[il]
        /\ len' = [l \in Layers |-> IF l = il THEN pos + commit ELSE len[l]]
        /\ UNCHANGED <<log, seen>>
    BY <1>4, LayerRollbackStores
  <2>2. \A p : Fed(p)' = Fed(p)
    BY <2>1 DEF Fed
  <2>3. \A l \in Layers : \A p \in 0..(len'[l] - 1) : p \in 0..(len[l] - 1)
    BY <2>1
  <2> QED
    BY <2>1, <2>2, <2>3 DEF HistoryInv, Recorded, AttendsWindow
<1>5. CASE ResetCache
  <2>1. len' = [l \in Layers |-> 0] /\ seen' = NothingSeen
    BY <1>5 DEF ResetCache
  <2>2. \A l \in Layers : DOMAIN seen'[l] = {}
    BY <2>1 DEF NothingSeen
  <2> QED
    BY <2>1, <2>2 DEF HistoryInv, Recorded, AttendsWindow
<1>6. CASE \/ \E span \in 1..MaxSpan : KvCheckpoint(span)
           \/ \E keep \in 0..MaxSpan : KvRollback(keep)
           \/ Fail
           \/ UNCHANGED vars
  <2>1. UNCHANGED <<len, log, seen>>
    BY <1>6 DEF KvCheckpoint, KvRollback, Fail, vars
  <2>2. \A p : Fed(p)' = Fed(p)
    BY <2>1 DEF Fed
  <2> QED
    BY <2>1, <2>2 DEF HistoryInv, Recorded, AttendsWindow
<1> QED
  BY <1>1, <1>2, <1>3, <1>4, <1>5, <1>6 DEF Next

-----------------------------------------------------------------------------
(* The caches implement one log per layer.                                 *)

(* The keys fed at the first n positions, by the record of tokens `rec`.   *)
KeysUpTo(n, rec) == [i \in 1..n |-> Key(i - 1, rec[i - 1])]

LEMMA KeysUpToLog ==
  ASSUME NEW n \in Nat, NEW rec, \A p \in 0..(n - 1) : rec[p] \in Tokens
  PROVE  /\ KeysUpTo(n, rec) \in Seq(Cells)
         /\ Len(KeysUpTo(n, rec)) = n
         /\ \A i \in 1..n : KeysUpTo(n, rec)[i] = Key(i - 1, rec[i - 1])
<1>1. PICK keys : keys = KeysUpTo(n, rec)
  OBVIOUS
<1>2. ASSUME NEW i \in 1..n
      PROVE  Key(i - 1, rec[i - 1]) \in Cells
  <2>1. i - 1 \in 0..(n - 1)
    OBVIOUS
  <2> QED
    BY <2>1 DEF Key, Cells
<1>3. keys \in [1..n -> Cells] /\ \A i \in 1..n : keys[i] = Key(i - 1, rec[i - 1])
  BY <1>1, <1>2 DEF KeysUpTo
<1>4. keys \in Seq(Cells) /\ Len(keys) = n
  BY <1>3, IsSequence, Zenon
<1> QED
  BY <1>1, <1>3, <1>4, Zenon

(* The log of a layer: the keys fed at its stored positions. *)
LEMMA StoredKeysOf ==
  ASSUME NEW l \in Layers
  PROVE  StoredKeys[l] = KeysUpTo(len[l], log) /\ StoredKeys'[l] = KeysUpTo(len'[l], log')
BY DEF StoredKeys, Fed, KeysUpTo

(* With the record of the stored positions untouched, so is the log.       *)
LEMMA StoredKeysSame ==
  ASSUME NEW l \in Layers, len'[l] = len[l], len[l] \in Nat,
         \A p \in 0..(len[l] - 1) : log'[p] = log[p]
  PROVE  StoredKeys'[l] = StoredKeys[l]
<1>1. \A i \in 1..len[l] : Fed(i - 1)' = Fed(i - 1)
  BY DEF Fed
<1>2. StoredKeys'[l] = [i \in 1..len'[l] |-> Fed(i - 1)']
  BY DEF StoredKeys, Fed
<1>3. StoredKeys[l] = [i \in 1..len[l] |-> Fed(i - 1)]
  BY DEF StoredKeys, Fed
<1> QED
  BY <1>1, <1>2, <1>3

(* The logs are equal when each layer's is. *)
LEMMA StoredKeysEqual ==
  ASSUME \A l \in Layers : StoredKeys'[l] = StoredKeys[l]
  PROVE  StoredKeys' = StoredKeys
BY DEF StoredKeys, Fed

LEMMA BeginForwardRefines ==
  ASSUME IInv, NEW toks \in Seq(Tokens), Forward(toks) \/ VerifyForward(toks)
  PROVE  KvLog!NewForward
<1>1. /\ \A l \in Layers : len[l] = pos
      /\ \A p \in 0..(pos - 1) : log'[p] = log[p]
      /\ UNCHANGED len /\ seen' = NothingSeen
  BY BeginForwardRecord
<1>2. \A l \in Layers : len[l] \in Nat
  BY SizeAssumption DEF IInv, TypeOK
<1>3. \A l \in Layers : StoredKeys'[l] = StoredKeys[l]
  BY <1>1, <1>2, StoredKeysSame
<1>4. StoredKeys' = StoredKeys
  BY <1>3, StoredKeysEqual
<1> QED
  BY <1>1, <1>4 DEF KvLog!NewForward, KvLog!Nothing, NothingSeen

LEMMA LayerAppendRefines ==
  ASSUME IInv, HistoryInv, LayerAppend
  PROVE  KvLog!Next
<1>1. /\ il \in Layers /\ len[il] = pos
      /\ pos \in Nat /\ Len(work) \in Nat /\ Len(work) >= 1
      /\ \A p \in pos..(pos + Len(work) - 1) : log[p] \in Tokens
      /\ len' = [l \in Layers |-> IF l = il THEN pos + Len(work) ELSE len[l]]
      /\ log' = log
  BY LayerAppendStores
<1>2. seen' = [l \in Layers |->
                 IF l = il
                 THEN [q \in pos..(pos + Len(work) - 1) |->
                         {Fed(p) : p \in Visible(l, q)}]
                 ELSE seen[l]]
  BY LayerAppendStores
<1>3. PICK old \in Seq(Cells), new \in Seq(Cells), n \in Nat :
        /\ old = StoredKeys[il] /\ Len(old) = pos
        /\ \A i \in 1..pos : old[i] = Fed(i - 1)
        /\ n = pos + Len(work)
        /\ new = StoredKeys'[il] /\ Len(new) = n
        /\ \A i \in 1..n : new[i] = Fed(i - 1)
  <2>1. PICK n \in Nat : n = pos + Len(work) /\ len'[il] = n
    BY <1>1
  <2>2. /\ \A p \in 0..(pos - 1) : log[p] \in Tokens
        /\ \A p \in 0..(n - 1) : log[p] \in Tokens
    <3>1. \A p \in 0..(pos - 1) : log[p] \in Tokens
      BY <1>1 DEF HistoryInv, Recorded
    <3>2. \A p \in 0..(n - 1) : p \in 0..(pos - 1) \/ p \in pos..(pos + Len(work) - 1)
      BY <1>1, <2>1
    <3> QED
      BY <1>1, <3>1, <3>2
  <2>3. StoredKeys[il] = KeysUpTo(pos, log) /\ StoredKeys'[il] = KeysUpTo(n, log)
    BY <1>1, <2>1, StoredKeysOf
  <2>4. /\ KeysUpTo(pos, log) \in Seq(Cells)
        /\ Len(KeysUpTo(pos, log)) = pos
        /\ \A i \in 1..pos : KeysUpTo(pos, log)[i] = Fed(i - 1)
    BY <1>1, <2>2, KeysUpToLog DEF Fed
  <2>5. /\ KeysUpTo(n, log) \in Seq(Cells)
        /\ Len(KeysUpTo(n, log)) = n
        /\ \A i \in 1..n : KeysUpTo(n, log)[i] = Fed(i - 1)
    BY <2>2, KeysUpToLog DEF Fed
  <2> QED
    BY <2>1, <2>3, <2>4, <2>5, Zenon
<1>4. old \o SubSeq(new, pos + 1, n) = new
  <2>1. PICK tail : tail = SubSeq(new, pos + 1, n)
    OBVIOUS
  <2>2. /\ tail \in Seq(Cells) /\ Len(tail) = n - pos
        /\ \A i \in 1..(n - pos) : tail[i] = new[pos + i]
    <3>1. pos \in Nat /\ n \in Nat /\ pos < n /\ new \in Seq(Cells) /\ Len(new) = n
      BY <1>1, <1>3
    <3> QED
      BY ONLY <2>1, <3>1
  <2>3. Len(new) = Len(old) + Len(tail)
    BY <1>1, <1>3, <2>2
  <2>4. \A i \in 1..Len(old) : new[i] = old[i]
    BY <1>1, <1>3
  <2>5. \A i \in 1..Len(tail) : new[Len(old) + i] = tail[i]
    BY <1>3, <2>2
  <2>6. old \o tail = new
    BY <2>2, <2>3, <2>4, <2>5, JoinEqual, Zenon
  <2> QED
    BY <2>1, <2>6
<1>5. StoredKeys' = [StoredKeys EXCEPT ![il] = new]
  <2>1. ASSUME NEW l \in Layers, l # il
        PROVE  StoredKeys'[l] = StoredKeys[l]
    <3>1. len'[l] = len[l] /\ len[l] \in Nat
      BY <1>1, <2>1, SizeAssumption DEF IInv, TypeOK
    <3> QED
      BY <1>1, <3>1, StoredKeysSame
  <2>2. StoredKeys' = [l \in Layers |-> StoredKeys'[l]]
    BY DEF StoredKeys, Fed
  <2>3. StoredKeys = [l \in Layers |-> StoredKeys[l]]
    BY DEF StoredKeys, Fed
  <2> QED
    BY <1>1, <1>3, <2>1, <2>2, <2>3
<1>6. ASSUME NEW q \in pos..(n - 1)
      PROVE  {Fed(p) : p \in Visible(il, q)} = {new[p + 1] : p \in KvLog!Visible(il, q)}
  <2>1. Visible(il, q) = KvLog!Visible(il, q)
    BY DEF Visible, KvLog!Visible
  <2>2. ASSUME NEW p \in Visible(il, q)
        PROVE  Fed(p) = new[p + 1]
    <3>1. p + 1 \in 1..n /\ (p + 1) - 1 = p
      BY <1>1, <1>3 DEF Visible
    <3> QED
      BY <1>3, <3>1
  <2> QED
    BY <2>1, <2>2
<1>7. seen' = [seen EXCEPT ![il] =
                 [q \in pos..(n - 1) |-> {new[p + 1] : p \in KvLog!Visible(il, q)}]]
  <2>1. seen = [l \in Layers |-> seen[l]]
    BY DEF IInv, TypeOK
  <2>2. n - 1 = pos + Len(work) - 1
    BY <1>1, <1>3
  <2>3. [q \in pos..(n - 1) |-> {new[p + 1] : p \in KvLog!Visible(il, q)}]
          = [q \in pos..(pos + Len(work) - 1) |-> {Fed(p) : p \in Visible(il, q)}]
    BY <1>6, <2>2
  <2> HIDE DEF Visible
  <2> QED
    BY <1>1, <1>2, <2>1, <2>3
<1>8. Len(StoredKeys'[il]) > Len(StoredKeys[il]) /\ StoredKeys'[il] \in Seq(Cells)
  BY <1>1, <1>3
<1>9. KvLog!Extend(il, SubSeq(StoredKeys'[il], Len(StoredKeys[il]) + 1, Len(StoredKeys'[il])))
  <2>1. StoredKeys[il] = old /\ StoredKeys'[il] = new /\ Len(old) = pos /\ Len(new) = n
    BY <1>3
  <2>2. KvLog!Extend(il, SubSeq(new, pos + 1, n))
    <3>1. PICK tail : tail = SubSeq(new, pos + 1, n)
      OBVIOUS
    <3>2. StoredKeys[il] \o tail = new
      BY <1>4, <2>1, <3>1
    <3> DEFINE Row(first, keys) == [q \in first..(Len(keys) - 1) |->
                                      {keys[p + 1] : p \in KvLog!Visible(il, q)}]
    <3>3. seen' = [seen EXCEPT ![il] = Row(pos, new)]
      BY <1>7, <2>1
    <3> HIDE DEF Row
    <3>4. /\ StoredKeys' = [StoredKeys EXCEPT ![il] = StoredKeys[il] \o tail]
          /\ seen' = [seen EXCEPT ![il] = Row(Len(StoredKeys[il]), StoredKeys[il] \o tail)]
      BY ONLY <1>5, <2>1, <3>2, <3>3
    <3>5. KvLog!Extend(il, tail)
      BY ONLY <3>4 DEF KvLog!Extend, Row
    <3> QED
      BY <3>1, <3>5
  <2> QED
    BY <2>1, <2>2
<1> QED
  BY <1>1, <1>8, <1>9 DEF KvLog!Next

LEMMA LayerRollbackRefines ==
  ASSUME IInv, HistoryInv, LayerRollback
  PROVE  KvLog!Next
<1>1. PICK n \in 0..len[il] :
        /\ il \in Layers /\ len[il] \in Nat /\ n = pos + commit
        /\ len' = [l \in Layers |-> IF l = il THEN n ELSE len[l]]
        /\ UNCHANGED <<log, seen>>
  BY LayerRollbackStores
<1>2. PICK old \in Seq(Cells), new \in Seq(Cells) :
        /\ old = StoredKeys[il] /\ Len(old) = len[il]
        /\ \A i \in 1..len[il] : old[i] = Fed(i - 1)
        /\ new = StoredKeys'[il] /\ Len(new) = n
        /\ \A i \in 1..n : new[i] = Fed(i - 1)
  <2>1. /\ \A p \in 0..(len[il] - 1) : log[p] \in Tokens
        /\ \A p \in 0..(n - 1) : log[p] \in Tokens
    BY <1>1 DEF HistoryInv, Recorded
  <2>2. StoredKeys[il] = KeysUpTo(len[il], log) /\ StoredKeys'[il] = KeysUpTo(n, log)
    BY <1>1, StoredKeysOf
  <2>3. n \in Nat
    BY <1>1
  <2> QED
    BY <1>1, <2>1, <2>2, <2>3, KeysUpToLog DEF Fed
<1>3. new = SubSeq(old, 1, n)
  <2>1. PICK cut : cut = SubSeq(old, 1, n)
    OBVIOUS
  <2>2. cut \in Seq(Cells) /\ Len(cut) = n /\ \A i \in 1..n : cut[i] = old[i]
    BY <1>1, <1>2, <2>1, PrefixOf
  <2>3. \A i \in 1..n : new[i] = cut[i]
    BY <1>1, <1>2, <2>2
  <2>4. new = cut
    BY <1>2, <2>2, <2>3, SeqEqual
  <2> QED
    BY <2>1, <2>4
<1>4. StoredKeys' = [StoredKeys EXCEPT ![il] = SubSeq(StoredKeys[il], 1, n)]
  <2>1. ASSUME NEW l \in Layers, l # il
        PROVE  StoredKeys'[l] = StoredKeys[l]
    <3>1. len'[l] = len[l] /\ len[l] \in Nat
      BY <1>1, <2>1, SizeAssumption DEF IInv, TypeOK
    <3> QED
      BY <1>1, <3>1, StoredKeysSame
  <2>2. StoredKeys' = [l \in Layers |-> StoredKeys'[l]]
    BY DEF StoredKeys, Fed
  <2>3. StoredKeys = [l \in Layers |-> StoredKeys[l]]
    BY DEF StoredKeys, Fed
  <2> QED
    BY <1>1, <1>2, <1>3, <2>1, <2>2, <2>3
<1>5. n \in 0..Len(StoredKeys[il])
  BY <1>1, <1>2
<1>6. KvLog!Retract(il, n)
  BY <1>1, <1>4, <1>5 DEF KvLog!Retract
<1> QED
  BY <1>1, <1>5, <1>6 DEF KvLog!Next

LEMMA EmptyLog == \A rec : KeysUpTo(0, rec) = <<>>
BY DEF KeysUpTo

LEMMA NextRefines ==
  ASSUME IInv, HistoryInv, [Next]_vars
  PROVE  [KvLog!Next]_KvLog!lvars
<1>1. CASE \E toks \in Blocks(MaxSeq) : Forward(toks)
  BY <1>1, SizeAssumption, BlocksAreSequences, BeginForwardRefines DEF KvLog!Next
<1>2. CASE \E toks \in Blocks(MaxSpan) : VerifyForward(toks)
  BY <1>2, SizeAssumption, BlocksAreSequences, BeginForwardRefines DEF KvLog!Next
<1>3. CASE LayerAppend
  BY <1>3, LayerAppendRefines
<1>4. CASE LayerRollback
  BY <1>4, LayerRollbackRefines
<1>5. CASE ResetCache
  <2>1. len' = [l \in Layers |-> 0] /\ seen' = NothingSeen
    BY <1>5 DEF ResetCache
  <2>2. \A l \in Layers : StoredKeys'[l] = <<>>
    BY <2>1, StoredKeysOf, EmptyLog
  <2>3. StoredKeys' = [l \in Layers |-> StoredKeys'[l]]
    BY DEF StoredKeys, Fed
  <2>4. StoredKeys' = KvLog!Nothing
    BY <2>2, <2>3 DEF KvLog!Nothing
  <2> QED
    BY <2>1, <2>4 DEF KvLog!Next, KvLog!Clear, KvLog!Nothing, NothingSeen
<1>6. CASE \/ \E span \in 1..MaxSpan : KvCheckpoint(span)
           \/ \E keep \in 0..MaxSpan : KvRollback(keep)
           \/ Fail
           \/ UNCHANGED vars
  <2>1. UNCHANGED <<len, log, seen>>
    BY <1>6 DEF KvCheckpoint, KvRollback, Fail, vars
  <2>2. UNCHANGED StoredKeys
    BY <2>1 DEF StoredKeys, Fed
  <2> QED
    BY <2>1, <2>2 DEF KvLog!lvars
<1> QED
  BY <1>1, <1>2, <1>3, <1>4, <1>5, <1>6 DEF Next

-----------------------------------------------------------------------------
LEMMA History == ASSUME NarrowSpan PROVE Spec => [](IInv /\ HistoryInv)
<1>1. Init => HistoryInv
  BY InitHistory
<1>2. IInv /\ HistoryInv /\ [Next]_vars => HistoryInv'
  BY NextHistory
<1> QED
  BY <1>1, <1>2, Inductive, PTL DEF Spec

(* The view LayerCache::append returns and the mask of attn_mask_for let   *)
(* a query attend to exactly the keys of the positions it must see, in     *)
(* every kind of layer and of forward, also right after a rollback.        *)
THEOREM AttendsExactly == ASSUME NarrowSpan PROVE Spec => []AttendsWindow
BY History, PTL DEF HistoryInv

(* Rings, masks, snapshots and rollbacks implement one growing and         *)
(* shrinking log per layer, of which every query sees its part.            *)
THEOREM CachesAreLogs == ASSUME NarrowSpan PROVE Spec => ImplementsLog
<1>1. Init => KvLog!Init
  <2> SUFFICES ASSUME Init PROVE KvLog!Init
    OBVIOUS
  <2>1. \A l \in Layers : StoredKeys[l] = <<>>
    BY StoredKeysOf, EmptyLog DEF Init
  <2>2. StoredKeys = [l \in Layers |-> StoredKeys[l]]
    BY DEF StoredKeys, Fed
  <2> QED
    BY <2>1, <2>2 DEF Init, KvLog!Init, KvLog!Nothing, NothingSeen
<1>2. IInv /\ HistoryInv /\ [Next]_vars => [KvLog!Next]_KvLog!lvars
  BY NextRefines
<1> QED
  BY <1>1, <1>2, History, PTL DEF Spec, ImplementsLog, KvLog!LogSpec
=============================================================================
