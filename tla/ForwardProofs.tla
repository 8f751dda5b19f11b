---------------------------- MODULE ForwardProofs ----------------------------
(***************************************************************************)
(* The forward pass, for every configuration, checkpoint, chunk and choice *)
(* of switches.                                                            *)
(***************************************************************************)
EXTENDS Forward, Lemmas, FiniteSetTheorems, TLAPS

-----------------------------------------------------------------------------
(* The flash kernel. *)

(* All that is used of the block sizes. *)
LEMMA BlockSizes == Flash!BQ \in Nat \ {0} /\ Flash!BK \in Nat \ {0}
  BY DEF Flash!BQ, Flash!BK

Calls == [seq : Nat, kl : Nat, pos : Nat, koff : Nat, window : Nat]

(* Ceil counts the blocks that n elements begin. *)
LEMMA CeilBounds ==
  ASSUME NEW d \in Nat \ {0}, NEW n \in Nat
  PROVE  /\ Flash!Ceil(n, d) \in Nat
         /\ n <= Flash!Ceil(n, d) * d
         /\ Flash!Ceil(n, d) * d < n + d
  BY RoundUp, Zenon DEF Flash!Ceil

-----------------------------------------------------------------------------
(* A threadgroup holds the rows of its queries and none past the call.     *)
LEMMA GroupHolds ==
  ASSUME NEW c \in Calls, NEW i \in 0 .. c.seq - 1
  PROVE  /\ Flash!GroupOf(i) \in Nat
         /\ Flash!QRows(c, Flash!GroupOf(i)) \in 1 .. Flash!BQ
         /\ Flash!GroupOf(i) * Flash!BQ <= i
         /\ i < (Flash!GroupOf(i) * Flash!BQ) + Flash!QRows(c, Flash!GroupOf(i))
         /\ (Flash!GroupOf(i) * Flash!BQ) + Flash!QRows(c, Flash!GroupOf(i)) <= c.seq
<1> DEFINE x == i \div Flash!BQ
           last == c.seq \div Flash!BQ
           rem == c.seq % Flash!BQ
<1>1. c.seq \in Nat /\ i \in Nat /\ i < c.seq
  BY DEF Calls
<1>2. Flash!BQ \in Nat \ {0}
  BY BlockSizes
<1>3. x \in Nat /\ x * Flash!BQ <= i /\ i < (x * Flash!BQ) + Flash!BQ
  BY <1>1, <1>2, DivBounds, Zenon
<1>4. last \in Nat /\ c.seq = (last * Flash!BQ) + rem /\ rem \in 0 .. (Flash!BQ - 1)
  BY <1>1, <1>2, DivBounds, Zenon
<1> HIDE DEF x, last, rem
<1>5. Flash!GroupOf(i) = x /\ Flash!QRows(c, x) = IF rem # 0 /\ x = last THEN rem ELSE Flash!BQ
  BY DEF Flash!GroupOf, Flash!QRows, x, last, rem
<1>6. x <= last
  <2>1. x * Flash!BQ < (last * Flash!BQ) + Flash!BQ
    BY <1>1, <1>2, <1>3, <1>4
  <2>2. x \in Int /\ last \in Int
    BY <1>3, <1>4
  <2> QED
    BY <1>2, <2>1, <2>2, BlockOrder, Zenon
<1>7. CASE x = last
  <2>1. x * Flash!BQ = last * Flash!BQ
    BY <1>7
  <2>2. rem # 0
    BY <1>1, <1>2, <1>3, <1>4, <2>1
  <2>3. Flash!QRows(c, x) = rem
    BY <1>5, <1>7, <2>2
  <2> QED
    BY <1>1, <1>2, <1>3, <1>4, <1>5, <2>1, <2>2, <2>3
<1>8. CASE x < last
  <2>1. (last - (x + 1)) * Flash!BQ >= 0
    BY <1>2, <1>3, <1>4, <1>8
  <2>2. (last - (x + 1)) * Flash!BQ = (last * Flash!BQ) - ((x * Flash!BQ) + Flash!BQ)
    BY <1>2, <1>3, <1>4
  <2>3. Flash!QRows(c, x) = Flash!BQ
    BY <1>3, <1>4, <1>5, <1>8
  <2> QED
    BY <1>1, <1>2, <1>3, <1>4, <1>5, <2>1, <2>2, <2>3
<1> QED
  BY <1>3, <1>4, <1>6, <1>7, <1>8

(* Every row of a call is stored by its own threadgroup, one of those that *)
(* are launched, and by no other.                                          *)
THEOREM RowStoredOnce ==
  ASSUME NEW c \in Calls, NEW i \in 0 .. c.seq - 1
  PROVE  /\ Flash!GroupOf(i) \in Flash!QBlocks(c)
         /\ \A x \in Flash!QBlocks(c) : i \in Flash!StoredRows(c, x) <=> x = Flash!GroupOf(i)
<1> DEFINE g == Flash!GroupOf(i)
<1>1. /\ g \in Nat
      /\ Flash!QRows(c, g) \in 1 .. Flash!BQ
      /\ g * Flash!BQ <= i
      /\ i < (g * Flash!BQ) + Flash!QRows(c, g)
      /\ (g * Flash!BQ) + Flash!QRows(c, g) <= c.seq
  BY GroupHolds
<1> HIDE DEF g
<1>2. Flash!BQ \in Nat \ {0} /\ c.seq \in Nat /\ i \in Nat
  BY BlockSizes DEF Calls
<1>3. /\ Flash!Ceil(c.seq, Flash!BQ) \in Nat
      /\ c.seq <= Flash!Ceil(c.seq, Flash!BQ) * Flash!BQ
  BY <1>2, CeilBounds, Zenon
<1>4. g < Flash!Ceil(c.seq, Flash!BQ)
  <2> DEFINE n == Flash!Ceil(c.seq, Flash!BQ) - 1
  <2>1. n * Flash!BQ = (Flash!Ceil(c.seq, Flash!BQ) * Flash!BQ) - Flash!BQ
    BY <1>2, <1>3
  <2>2. n \in Int /\ g \in Int /\ g * Flash!BQ < (n * Flash!BQ) + Flash!BQ
    BY <1>1, <1>2, <1>3, <2>1
  <2> HIDE DEF n
  <2>3. g <= n
    BY <1>2, <2>2, BlockOrder, Zenon
  <2> QED
    BY <1>1, <1>3, <2>3 DEF n
<1>5. g \in Flash!QBlocks(c)
  BY <1>1, <1>3, <1>4 DEF Flash!QBlocks
<1>6. ASSUME NEW x \in Flash!QBlocks(c), i \in Flash!StoredRows(c, x)
      PROVE  x = g
  <2>1. x \in Nat
    BY <1>3, <1>6 DEF Flash!QBlocks
  <2>2. Flash!QRows(c, x) \in Nat /\ Flash!QRows(c, x) <= Flash!BQ
    <3>1. c.seq % Flash!BQ \in 0 .. (Flash!BQ - 1)
      BY <1>2, DivBounds, Zenon
    <3> QED
      BY <1>2, <3>1 DEF Flash!QRows
  <2>3. PICK rw \in 0 .. Flash!QRows(c, x) - 1 : i = (x * Flash!BQ) + rw
    BY <1>6 DEF Flash!StoredRows
  <2>4. x * Flash!BQ <= i /\ i < (x * Flash!BQ) + Flash!BQ
    BY <1>2, <2>1, <2>2, <2>3
  <2>5. x * Flash!BQ < (g * Flash!BQ) + Flash!BQ /\ g * Flash!BQ < (x * Flash!BQ) + Flash!BQ
    BY <1>1, <1>2, <2>1, <2>4
  <2>6. x \in Int /\ g \in Int
    BY <1>1, <2>1
  <2>7. x <= g /\ g <= x
    BY <1>2, <2>5, <2>6, BlockOrder, Zenon
  <2> QED
    BY <2>6, <2>7
<1>7. i \in Flash!StoredRows(c, g)
  <2>1. i - (g * Flash!BQ) \in 0 .. Flash!QRows(c, g) - 1
    BY <1>1, <1>2
  <2>2. i = (g * Flash!BQ) + (i - (g * Flash!BQ))
    BY <1>1, <1>2
  <2> QED
    BY <2>1, <2>2 DEF Flash!StoredRows
<1> QED
  BY <1>5, <1>6, <1>7 DEF g

-----------------------------------------------------------------------------
(* The oldest and the newest query of the threadgroup that holds row i.    *)
LEMMA GroupSpan ==
  ASSUME NEW c \in Calls, NEW i \in 0 .. c.seq - 1, Flash!FlashAccepts(c)
  PROVE  /\ Flash!QLo(c, Flash!GroupOf(i)) \in Int
         /\ Flash!QHi(c, Flash!GroupOf(i)) \in Int
         /\ Flash!QLo(c, Flash!GroupOf(i)) <= c.pos + i
         /\ c.pos + i <= Flash!QHi(c, Flash!GroupOf(i))
         /\ Flash!QHi(c, Flash!GroupOf(i)) < c.koff + c.kl
         /\ c.koff <= Flash!QHi(c, Flash!GroupOf(i))
<1> DEFINE g == Flash!GroupOf(i)
<1>1. /\ g \in Nat
      /\ Flash!QRows(c, g) \in 1 .. Flash!BQ
      /\ g * Flash!BQ <= i
      /\ i < (g * Flash!BQ) + Flash!QRows(c, g)
      /\ (g * Flash!BQ) + Flash!QRows(c, g) <= c.seq
  BY GroupHolds
<1>2. /\ Flash!BQ \in Nat \ {0}
      /\ c.seq \in Nat /\ c.pos \in Nat /\ c.koff \in Nat /\ c.kl \in Nat /\ i \in Nat
  BY BlockSizes DEF Calls
<1>3. c.koff <= c.pos /\ c.pos + c.seq <= c.koff + c.kl
  BY DEF Flash!FlashAccepts
<1> HIDE DEF g
<1>4. Flash!QLo(c, g) = (g * Flash!BQ) + c.pos /\ Flash!QHi(c, g) = (g * Flash!BQ) + (Flash!QRows(c, g) - 1) + c.pos
  BY DEF Flash!QLo, Flash!QHi
<1>5. g * Flash!BQ \in Nat
  BY <1>1, <1>2
<1>6. Flash!QRows(c, g) \in Nat
  BY <1>1, <1>2
<1>7. /\ Flash!QLo(c, g) \in Int
      /\ Flash!QHi(c, g) \in Int
      /\ Flash!QLo(c, g) <= c.pos + i
      /\ c.pos + i <= Flash!QHi(c, g)
      /\ Flash!QHi(c, g) < c.koff + c.kl
      /\ c.koff <= Flash!QHi(c, g)
  BY <1>1, <1>2, <1>3, <1>4, <1>5, <1>6
<1> QED
  BY <1>7 DEF g

(* Nothing outside the window is accumulated: where the element mask is    *)
(* left out, it would have masked nothing.                                 *)
LEMMA TakesOnlyWindow ==
  ASSUME NEW c \in Calls, NEW i \in 0 .. c.seq - 1, Flash!FlashAccepts(c),
         NEW col \in Nat, Flash!Takes(c, Flash!GroupOf(i), c.pos + i, col)
  PROVE  col \in Flash!WindowCols(c, i)
<1> DEFINE g == Flash!GroupOf(i)
           kb == col \div Flash!BK
<1>1. /\ c.seq \in Nat /\ c.pos \in Nat /\ c.koff \in Nat /\ c.kl \in Nat /\ c.window \in Nat
      /\ i \in Nat /\ Flash!BK \in Nat \ {0}
  BY BlockSizes DEF Calls
<1>2. /\ Flash!QLo(c, g) \in Int /\ Flash!QHi(c, g) \in Int
      /\ Flash!QLo(c, g) <= c.pos + i /\ c.pos + i <= Flash!QHi(c, g)
      /\ Flash!QHi(c, g) < c.koff + c.kl
  BY GroupSpan
<1>3. kb \in Nat /\ kb * Flash!BK <= col /\ col < (kb * Flash!BK) + Flash!BK
  BY <1>1, DivBounds, Zenon
<1>4. c.pos + i < c.koff + c.kl
  BY <1>1, <1>2
<1> SUFFICES /\ col < c.kl
             /\ col + c.koff <= c.pos + i
             /\ Flash!Windowed(c) => (c.pos + i) - (col + c.koff) < c.window
  BY <1>1 DEF Flash!WindowCols
<1>5. CASE Flash!AtEdge(c, g, kb)
  <2>1. ~Flash!MaskedOut(c, c.pos + i, col)
    BY <1>5 DEF Flash!Takes
  <2> QED
    BY <1>1, <2>1 DEF Flash!MaskedOut
<1>6. CASE ~Flash!AtEdge(c, g, kb)
  <2>1. /\ ~((kb * Flash!BK) + (Flash!BK - 1) + c.koff > Flash!QLo(c, g))
        /\ Flash!Windowed(c) => ~(Flash!QHi(c, g) - ((kb * Flash!BK) + c.koff) >= c.window)
    BY <1>6 DEF Flash!AtEdge
  <2> HIDE DEF kb, g
  <2>2. kb * Flash!BK \in Nat
    BY <1>1, <1>3
  <2>3. col + c.koff <= c.pos + i
    BY <1>1, <1>2, <1>3, <2>1, <2>2
  <2>4. col < c.kl
    BY <1>1, <1>4, <2>3
  <2>5. Flash!Windowed(c) => (c.pos + i) - (col + c.koff) < c.window
    BY <1>1, <1>2, <1>3, <2>1, <2>2
  <2> QED
    BY <2>3, <2>4, <2>5
<1> QED
  BY <1>5, <1>6

(* The walk ends late enough and starts early enough for every column of   *)
(* the window.                                                             *)
LEMMA WalkReachesWindow ==
  ASSUME NEW c \in Calls, NEW i \in 0 .. c.seq - 1, Flash!FlashAccepts(c),
         NEW col \in Flash!WindowCols(c, i)
  PROVE  /\ Flash!KbStart(c, Flash!GroupOf(i)) <= col \div Flash!BK
         /\ col \div Flash!BK < Flash!KbLim(c, Flash!GroupOf(i))
<1> DEFINE g == Flash!GroupOf(i)
           kb == col \div Flash!BK
           newest == Flash!QHi(c, g) - c.koff
           oldest == (Flash!QLo(c, g) - c.window + 1 - c.koff) - (Flash!BK - 1)
<1>1. /\ c.seq \in Nat /\ c.pos \in Nat /\ c.koff \in Nat /\ c.kl \in Nat /\ c.window \in Nat
      /\ i \in Nat /\ Flash!BK \in Nat \ {0}
  BY BlockSizes DEF Calls
<1>2. /\ Flash!QLo(c, g) \in Int /\ Flash!QHi(c, g) \in Int
      /\ Flash!QLo(c, g) <= c.pos + i /\ c.pos + i <= Flash!QHi(c, g)
      /\ c.koff <= Flash!QHi(c, g)
  BY GroupSpan
<1>3. /\ col \in Nat /\ col < c.kl
      /\ col + c.koff <= c.pos + i
      /\ Flash!Windowed(c) => (c.pos + i) - (col + c.koff) < c.window
  BY <1>1 DEF Flash!WindowCols
<1>4. kb \in Nat /\ kb * Flash!BK <= col /\ col < (kb * Flash!BK) + Flash!BK
  BY <1>1, <1>3, DivBounds, Zenon
<1>5. newest \in Nat /\ col <= newest
  BY <1>1, <1>2, <1>3
<1>6. newest \div Flash!BK \in Nat /\ newest < ((newest \div Flash!BK) * Flash!BK) + Flash!BK
  BY <1>1, <1>5, DivBounds, Zenon
<1>7. Flash!Ceil(c.kl, Flash!BK) \in Nat /\ c.kl <= Flash!Ceil(c.kl, Flash!BK) * Flash!BK
  BY <1>1, CeilBounds, Zenon
<1>8. Flash!KbLim(c, g) = IF newest \div Flash!BK + 1 < Flash!Ceil(c.kl, Flash!BK) THEN newest \div Flash!BK + 1 ELSE Flash!Ceil(c.kl, Flash!BK)
  BY DEF Flash!KbLim
<1>9. Flash!KbStart(c, g) = IF Flash!Windowed(c) /\ oldest > 0 THEN Flash!Ceil(oldest, Flash!BK) ELSE 0
  BY DEF Flash!KbStart
<1>10. Flash!Windowed(c) => oldest + Flash!BK - 1 <= col
  BY <1>1, <1>2, <1>3
<1>11. oldest \in Int
  BY <1>1, <1>2
<1> HIDE DEF kb, newest, oldest, g
<1>12. kb <= newest \div Flash!BK
  <2> DEFINE n == newest \div Flash!BK
  <2>1. n \in Nat /\ newest < (n * Flash!BK) + Flash!BK
    BY <1>6
  <2> HIDE DEF n
  <2>2. kb \in Int /\ n \in Int /\ kb * Flash!BK < (n * Flash!BK) + Flash!BK
    BY <1>1, <1>3, <1>4, <1>5, <2>1
  <2>3. kb <= n
    BY <1>1, <2>2, BlockOrder, Zenon
  <2> QED
    BY <2>3 DEF n
<1>13. kb < Flash!Ceil(c.kl, Flash!BK)
  <2> DEFINE n == Flash!Ceil(c.kl, Flash!BK)
  <2>1. n \in Nat /\ c.kl <= n * Flash!BK
    BY <1>7
  <2> HIDE DEF n
  <2>2. (n - 1) * Flash!BK = (n * Flash!BK) - Flash!BK
    BY <1>1, <2>1
  <2>3. kb \in Int /\ n - 1 \in Int /\ kb * Flash!BK < ((n - 1) * Flash!BK) + Flash!BK
    BY <1>1, <1>3, <1>4, <2>1, <2>2
  <2>4. kb <= n - 1
    BY <1>1, <2>3, BlockOrder, Zenon
  <2>5. kb < n
    BY <1>4, <2>1, <2>4
  <2> QED
    BY <2>5 DEF n
<1>14. kb < Flash!KbLim(c, g)
  BY <1>4, <1>6, <1>7, <1>8, <1>12, <1>13
<1>15. Flash!KbStart(c, g) <= kb
  <2>1. CASE Flash!Windowed(c) /\ oldest > 0
    <3> DEFINE n == Flash!Ceil(oldest, Flash!BK)
    <3>1. oldest \in Nat
      BY <1>11, <2>1
    <3>2. n \in Nat /\ n * Flash!BK < oldest + Flash!BK
      BY <1>1, <3>1, CeilBounds, Zenon
    <3> HIDE DEF n
    <3>3. n \in Int /\ kb \in Int /\ n * Flash!BK < (kb * Flash!BK) + Flash!BK
      BY <1>1, <1>3, <1>4, <1>10, <2>1, <3>1, <3>2
    <3>4. n <= kb
      BY <1>1, <3>3, BlockOrder, Zenon
    <3> QED
      BY <1>9, <2>1, <3>4 DEF n
  <2>2. CASE ~(Flash!Windowed(c) /\ oldest > 0)
    BY <1>4, <1>9, <2>2
  <2> QED
    BY <2>1, <2>2
<1> QED
  BY <1>14, <1>15 DEF g, kb

(* The output of every query row is made of the columns of its window and  *)
(* no others, whatever blocks are skipped and wherever the mask is left    *)
(* out (flash.metal:652): for each call that run_flash_attn accepts.       *)
THEOREM FlashIsExact ==
  ASSUME NEW c \in Calls, NEW i \in 0 .. c.seq - 1, Flash!FlashAccepts(c)
  PROVE  Flash!FlashCols(c, i) = Flash!WindowCols(c, i)
<1>1. /\ c.kl \in Nat /\ c.pos \in Nat /\ c.koff \in Nat /\ c.window \in Nat
      /\ i \in Nat /\ Flash!BK \in Nat \ {0}
  BY BlockSizes DEF Calls
<1>2. Flash!Ceil(c.kl, Flash!BK) \in Nat /\ c.kl <= Flash!Ceil(c.kl, Flash!BK) * Flash!BK
  BY <1>1, CeilBounds, Zenon
<1>3. ASSUME NEW col \in Flash!FlashCols(c, i)
      PROVE  col \in Flash!WindowCols(c, i)
  <2>1. col \in Nat /\ Flash!Takes(c, Flash!GroupOf(i), c.pos + i, col)
    BY <1>1, <1>2 DEF Flash!FlashCols
  <2> QED
    BY <2>1, TakesOnlyWindow, Zenon
<1>4. ASSUME NEW col \in Flash!WindowCols(c, i)
      PROVE  col \in Flash!FlashCols(c, i)
  <2>1. col \in 0 .. Flash!Ceil(c.kl, Flash!BK) * Flash!BK - 1
    <3>1. col \in Nat /\ col < c.kl
      BY <1>1 DEF Flash!WindowCols
    <3>2. Flash!Ceil(c.kl, Flash!BK) * Flash!BK \in Nat
      BY <1>1, <1>2
    <3> QED
      BY <1>1, <1>2, <3>1, <3>2
  <2>2. ~Flash!MaskedOut(c, c.pos + i, col)
    BY <1>1 DEF Flash!MaskedOut, Flash!WindowCols
  <2>3. /\ Flash!KbStart(c, Flash!GroupOf(i)) <= col \div Flash!BK
        /\ col \div Flash!BK < Flash!KbLim(c, Flash!GroupOf(i))
    BY WalkReachesWindow
  <2> QED
    BY <2>1, <2>2, <2>3 DEF Flash!FlashCols, Flash!Takes
<1> QED
  BY <1>3, <1>4

-----------------------------------------------------------------------------
(* The expert map and its tiles. *)

(* What route_from_logits returns: the experts of a token are distinct.    *)
Routings(nexpert, topk) ==
  {rt \in Seq([1 .. topk -> 0 .. nexpert - 1]) :
     \A n \in 1 .. Len(rt) : \A a, b \in 1 .. topk : rt[n][a] = rt[n][b] => a = b}

(* The tokens that selected expert e. *)
Chosen(rt, e) == {u \in Map!Tokens(rt) : Map!Sel(rt, e, u) > 0}

(* The kernels' module counts with its own instance of FiniteSets. *)
LEMMA SameCount == \A s : Map!Cardinality(s) = Cardinality(s)
BY Zenon DEF Map!Cardinality, Cardinality

LEMMA TileSize == Map!NR1 \in Nat \ {0}
  BY DEF Map!NR1

(* The slot a of token t has a number of its own. *)
LEMMA SlotUnique ==
  ASSUME NEW topk \in Nat, NEW t \in Int, NEW u \in Int,
         NEW a \in 1 .. topk, NEW b \in 1 .. topk,
         t * topk + a - 1 = u * topk + b - 1
  PROVE  t = u /\ a = b
<1> DEFINE i == a - 1
           j == b - 1
<1>1. topk \in Nat \ {0} /\ i \in 0 .. (topk - 1) /\ j \in 0 .. (topk - 1)
  OBVIOUS
<1>2. (t * topk) + i = (u * topk) + j
  <2>1. t * topk \in Int /\ u * topk \in Int
    OBVIOUS
  <2> QED
    BY <2>1
<1> HIDE DEF i, j
<1>3. t = u /\ i = j
  BY <1>1, <1>2, BlockUnique
<1> QED
  BY <1>3 DEF i, j

-----------------------------------------------------------------------------
(* The first pass. *)

(* sel is the slot of the token that went to the expert, if there is one.  *)
LEMMA SelIsSlot ==
  ASSUME NEW nexpert \in Nat, NEW topk \in Nat, NEW rt \in Routings(nexpert, topk),
         NEW e, NEW t \in Map!Tokens(rt)
  PROVE  /\ Map!Sel(rt, e, t) \in 0 .. topk
         /\ Map!Sel(rt, e, t) > 0 => rt[t + 1][Map!Sel(rt, e, t)] = e
         /\ \A s \in 1 .. topk : rt[t + 1][s] = e => Map!Sel(rt, e, t) = s
<1>1. Len(rt) \in Nat /\ t + 1 \in 1 .. Len(rt)
  BY DEF Map!Tokens, Routings
<1>2. rt[t + 1] \in [1 .. topk -> 0 .. nexpert - 1]
  BY <1>1 DEF Routings
<1>3. DOMAIN rt[t + 1] = 1 .. topk
  BY <1>2
<1>4. \A a, b \in 1 .. topk : rt[t + 1][a] = rt[t + 1][b] => a = b
  BY <1>1 DEF Routings
<1>5. CASE \E s \in 1 .. topk : rt[t + 1][s] = e
  <2>1. Map!Sel(rt, e, t) = CHOOSE s \in 1 .. topk : rt[t + 1][s] = e
    BY <1>3, <1>5 DEF Map!Sel
  <2>2. Map!Sel(rt, e, t) \in 1 .. topk /\ rt[t + 1][Map!Sel(rt, e, t)] = e
    BY <1>5, <2>1, Zenon
  <2> QED
    BY <1>4, <2>2
<1>6. CASE ~\E s \in 1 .. topk : rt[t + 1][s] = e
  <2>1. Map!Sel(rt, e, t) = 0
    BY <1>3, <1>6 DEF Map!Sel
  <2> QED
    BY <1>6, <2>1
<1> QED
  BY <1>5, <1>6

LEMMA ChosenFinite ==
  ASSUME NEW nexpert \in Nat, NEW topk \in Nat, NEW rt \in Routings(nexpert, topk), NEW e
  PROVE  /\ Len(rt) \in Nat
         /\ IsFiniteSet(Chosen(rt, e))
         /\ Chosen(rt, e) \subseteq Nat
<1>1. Len(rt) \in Nat
  BY DEF Routings
<1>2. IsFiniteSet(0 .. Len(rt) - 1)
  BY <1>1, FS_Interval
<1>3. Chosen(rt, e) \in SUBSET (0 .. Len(rt) - 1)
  BY DEF Chosen, Map!Tokens
<1> QED
  BY <1>1, <1>2, <1>3, FS_Subset

(* The counter never decreases, moves on after a token that is chosen, and *)
(* never passes the number of tokens seen.                                 *)
LEMMA CounterMoves ==
  ASSUME NEW nexpert \in Nat, NEW topk \in Nat, NEW rt \in Routings(nexpert, topk), NEW e,
         NEW t \in Nat, NEW u \in Nat, t < u
  PROVE  /\ Map!Before(rt, e, t) \in Nat /\ Map!Before(rt, e, u) \in Nat
         /\ Map!Before(rt, e, t) <= t
         /\ t \in Chosen(rt, e) => Map!Before(rt, e, t) < Map!Before(rt, e, u)
<1> DEFINE P(n) == {v \in Chosen(rt, e) : v < n}
<1>1. \A n : Map!Before(rt, e, n) = Cardinality(P(n))
  <2> SUFFICES ASSUME NEW n PROVE Map!Before(rt, e, n) = Cardinality(P(n))
    OBVIOUS
  <2>1. P(n) = {v \in Map!Tokens(rt) : v < n /\ Map!Sel(rt, e, v) > 0}
    BY DEF Chosen
  <2> QED
    BY <2>1, SameCount DEF Map!Before
<1>2. /\ IsFiniteSet(Chosen(rt, e))
      /\ Chosen(rt, e) \subseteq Nat
  BY ChosenFinite
<1>3. IsFiniteSet(P(t)) /\ IsFiniteSet(P(u))
  BY <1>2, FS_Subset
<1>4. Cardinality(P(t)) \in Nat /\ Cardinality(P(u)) \in Nat
  BY <1>3, FS_CardinalityType
<1>5. Cardinality(P(t)) <= t
  <2>1. P(t) \in SUBSET (0 .. t - 1)
    BY <1>2
  <2>2. IsFiniteSet(0 .. t - 1) /\ Cardinality(0 .. t - 1) = t
    BY FS_Interval
  <2>3. Cardinality(P(t)) <= Cardinality(0 .. t - 1)
    BY <2>1, <2>2, FS_Subset, Zenon
  <2> QED
    BY <2>2, <2>3
<1>6. ASSUME t \in Chosen(rt, e)
      PROVE  Cardinality(P(t)) < Cardinality(P(u))
  <2>1. t \notin P(t)
    OBVIOUS
  <2>2. IsFiniteSet(P(t) \cup {t}) /\ Cardinality(P(t) \cup {t}) = Cardinality(P(t)) + 1
    BY <1>3, <2>1, FS_AddElement
  <2>3. P(t) \cup {t} \in SUBSET P(u)
    BY <1>2, <1>6
  <2>4. Cardinality(P(t) \cup {t}) <= Cardinality(P(u))
    BY <1>3, <2>3, FS_Subset, Zenon
  <2> QED
    BY <1>4, <2>2, <2>4
<1> QED
  BY <1>1, <1>4, <1>5, <1>6

(* The counter of a chosen token is its index in the expert's region.      *)
LEMMA IndexOfChosen ==
  ASSUME NEW nexpert \in Nat, NEW topk \in Nat, NEW rt \in Routings(nexpert, topk), NEW e,
         NEW t \in Chosen(rt, e)
  PROVE  /\ Map!Count(rt, e) \in Nat /\ Map!Count(rt, e) <= Len(rt)
         /\ Map!Before(rt, e, t) \in 0 .. Map!Count(rt, e) - 1
<1>1. Len(rt) \in Nat /\ t \in Nat /\ t < Len(rt)
  BY ChosenFinite DEF Chosen, Map!Tokens
<1>2. /\ Map!Before(rt, e, t) \in Nat /\ Map!Before(rt, e, Len(rt)) \in Nat
      /\ Map!Before(rt, e, t) < Map!Before(rt, e, Len(rt))
  BY <1>1, CounterMoves, Zenon
<1>3. Map!Before(rt, e, Len(rt)) <= Len(rt)
  <2>1. Len(rt) + 1 \in Nat /\ Len(rt) < Len(rt) + 1
    BY <1>1
  <2> QED
    BY <1>1, <2>1, CounterMoves, Zenon
<1> QED
  BY <1>1, <1>2, <1>3 DEF Map!Count

(* Two chosen tokens never share an index. *)
LEMMA IndexUnique ==
  ASSUME NEW nexpert \in Nat, NEW topk \in Nat, NEW rt \in Routings(nexpert, topk), NEW e,
         NEW t \in Chosen(rt, e), NEW u \in Chosen(rt, e), Map!Before(rt, e, t) = Map!Before(rt, e, u)
  PROVE  t = u
<1>1. t \in Nat /\ u \in Nat
  BY ChosenFinite
<1>2. Map!Before(rt, e, t) \in Nat
  <2>1. Map!Before(rt, e, t) \in 0 .. Map!Count(rt, e) - 1 /\ Map!Count(rt, e) \in Nat
    BY IndexOfChosen, Zenon
  <2> QED
    BY <2>1
<1>3. ASSUME t < u PROVE FALSE
  <2>1. Map!Before(rt, e, t) < Map!Before(rt, e, u)
    BY <1>1, <1>3, CounterMoves, Zenon
  <2> QED
    BY <1>2, <2>1
<1>4. ASSUME u < t PROVE FALSE
  <2>1. Map!Before(rt, e, u) < Map!Before(rt, e, t)
    BY <1>1, <1>4, CounterMoves, Zenon
  <2> QED
    BY <1>2, <2>1
<1> QED
  BY <1>1, <1>3, <1>4

(* Every index below the count belongs to a chosen token: as many tokens   *)
(* are chosen as there are indices, and no two share one.                  *)
LEMMA IndexIsUsed ==
  ASSUME NEW nexpert \in Nat, NEW topk \in Nat, NEW rt \in Routings(nexpert, topk), NEW e,
         NEW n \in 0 .. Map!Count(rt, e) - 1
  PROVE  \E t \in Chosen(rt, e) : Map!Before(rt, e, t) = n
<1> SUFFICES ASSUME \A t \in Chosen(rt, e) : Map!Before(rt, e, t) # n PROVE FALSE
  OBVIOUS
<1> DEFINE C == Chosen(rt, e)
           f == [t \in C |-> Map!Before(rt, e, t)]
           rest == (0 .. Map!Count(rt, e) - 1) \ {n}
<1>1. IsFiniteSet(C) /\ Len(rt) \in Nat
  BY ChosenFinite
<1>2. Map!Count(rt, e) = Cardinality(C)
  <2>1. C = {v \in Map!Tokens(rt) : v < Len(rt) /\ Map!Sel(rt, e, v) > 0}
    BY <1>1 DEF Chosen, Map!Tokens
  <2> QED
    BY <2>1, SameCount DEF Map!Count, Map!Before
<1>3. Map!Count(rt, e) \in Nat
  BY <1>1, <1>2, FS_CardinalityType
<1>4. IsFiniteSet(0 .. Map!Count(rt, e) - 1) /\ Cardinality(0 .. Map!Count(rt, e) - 1) = Map!Count(rt, e)
  BY <1>3, FS_Interval
<1>5. IsFiniteSet(rest) /\ Cardinality(rest) = Map!Count(rt, e) - 1
  BY <1>4, FS_RemoveElement
<1>6. Cardinality(rest) < Cardinality(C)
  BY <1>2, <1>3, <1>5
<1>7. f \in [C -> rest]
  <2> SUFFICES ASSUME NEW t \in C PROVE Map!Before(rt, e, t) \in rest
    OBVIOUS
  <2>1. Map!Before(rt, e, t) \in 0 .. Map!Count(rt, e) - 1
    BY IndexOfChosen, Zenon
  <2> QED
    BY <2>1
<1> HIDE DEF C, f, rest
<1>8. \E t, u \in C : t # u /\ f[t] = f[u]
  BY <1>1, <1>5, <1>6, <1>7, FS_PigeonHole, Zenon
<1>9. PICK t \in C, u \in C : t # u /\ f[t] = f[u]
  BY <1>8
<1>10. Map!Before(rt, e, t) = Map!Before(rt, e, u)
  BY <1>9 DEF f
<1>11. t = u
  BY <1>9, <1>10, IndexUnique, Zenon DEF C
<1> QED
  BY <1>9, <1>11

(* The write that stands at a chosen token's index is the token's own: the *)
(* tokens after it find the counter moved on.                              *)
LEMMA EntryIsSlot ==
  ASSUME NEW nexpert \in Nat, NEW topk \in Nat, NEW rt \in Routings(nexpert, topk), NEW e,
         NEW t \in Chosen(rt, e)
  PROVE  Map!Entry(rt, e, Map!Before(rt, e, t), topk) = t * topk + Map!Sel(rt, e, t) - 1
<1> DEFINE W == {u \in Map!Tokens(rt) : Map!Before(rt, e, u) = Map!Before(rt, e, t)}
<1>1. /\ Len(rt) \in Nat /\ t \in W /\ t \in Nat
      /\ W \subseteq Nat
  BY ChosenFinite DEF Chosen, Map!Tokens
<1>2. Map!Before(rt, e, t) \in Nat
  <2>1. Map!Before(rt, e, t) \in 0 .. Map!Count(rt, e) - 1 /\ Map!Count(rt, e) \in Nat
    BY IndexOfChosen, Zenon
  <2> QED
    BY <2>1
<1>3. ASSUME NEW u \in W PROVE u <= t
  <2> SUFFICES ASSUME t < u PROVE FALSE
    BY <1>1
  <2>1. u \in Nat
    BY <1>1
  <2>2. Map!Before(rt, e, t) < Map!Before(rt, e, u)
    BY <1>1, <2>1, CounterMoves, Zenon
  <2> QED
    BY <1>2, <2>2
<1>4. (CHOOSE v \in W : \A u \in W : u <= v) = t
  <2> DEFINE last == CHOOSE v \in W : \A u \in W : u <= v
  <2>1. last \in W /\ \A u \in W : u <= last
    BY <1>1, <1>3, Zenon
  <2> HIDE DEF last
  <2>2. last <= t /\ t <= last /\ last \in Nat
    BY <1>1, <1>3, <2>1
  <2>3. last = t
    BY <1>1, <2>2
  <2> QED
    BY <2>3 DEF last
<1>5. W # {}
  BY <1>1
<1> QED
  BY <1>4, <1>5, Zenon DEF Map!Entry

-----------------------------------------------------------------------------
(* The second pass. *)

(* The rows of tile x of an expert with c slots.                           *)
LEMMA RowsOfTile ==
  ASSUME NEW c \in Nat, NEW x \in Nat, NEW j \in Int
  PROVE  j \in 0 .. (IF c - x * Map!NR1 < Map!NR1 THEN c - x * Map!NR1 ELSE Map!NR1) - 1
           <=> j \in 0 .. (Map!NR1 - 1) /\ (x * Map!NR1) + j \in 0 .. c - 1
<1> DEFINE left == c - x * Map!NR1
<1>1. left \in Int /\ x * Map!NR1 \in Nat /\ Map!NR1 \in Nat
  BY DEF Map!NR1
<1>2. j \in 0 .. (IF left < Map!NR1 THEN left ELSE Map!NR1) - 1 <=> 0 <= j /\ j < left /\ j < Map!NR1
  <2> HIDE DEF left
  <2>1. CASE left < Map!NR1
    BY <1>1, <2>1
  <2>2. CASE ~(left < Map!NR1)
    BY <1>1, <2>2
  <2> QED
    BY <2>1, <2>2
<1> QED
  BY <1>1, <1>2

(* The tokens of a routing that a short index reaches.                     *)
LEMMA TokenIsShort ==
  ASSUME NEW n \in Nat, n <= Map!ShortTokens, NEW t \in Nat, t < n
  PROVE  t \in 0 .. Map!ShortTokens - 1
<1>1. Map!ShortTokens \in Nat
  BY DEF Map!ShortTokens
<1> QED
  BY <1>1

(* The slot of a token below 32768 survives the 16 bits its token is kept  *)
(* in.                                                                     *)
LEMMA ShortKeeps ==
  ASSUME NEW topk \in Nat, NEW t \in 0 .. Map!ShortTokens - 1, NEW s \in 1 .. topk, NEW id,
         id = t * topk + s - 1
  PROVE  Map!Short(id \div topk) * topk + (id % topk) = t * topk + s - 1
<1>1. t \in Nat /\ topk \in Nat \ {0} /\ t * topk \in Nat
  BY DEF Map!ShortTokens
<1>2. id \in Nat
  BY <1>1
<1> DEFINE q == id \div topk
           m == id % topk
<1>3. /\ q \in Nat /\ m \in 0 .. (topk - 1)
      /\ id = (q * topk) + m
  BY <1>1, <1>2, DivBounds
<1> HIDE DEF q, m
<1>4. q = t
  <2>1. q * topk + (m + 1) - 1 = t * topk + s - 1
    <3>1. q * topk \in Nat
      BY <1>1, <1>3
    <3> QED
      BY <1>3, <3>1
  <2>2. m + 1 \in 1 .. topk /\ q \in Int /\ t \in Int
    BY <1>1, <1>3
  <2> QED
    BY <2>1, <2>2, SlotUnique
<1>5. Map!Short(q) = q
  BY <1>4 DEF Map!Short, Map!ShortTokens
<1>6. Map!Short(q) * topk + m = id
  BY <1>3, <1>5
<1> QED
  BY <1>6 DEF q, m

(* A stored row is a place inside its expert's count, and gets the slot of *)
(* the chosen token that has this place for its index.                     *)
LEMMA StoreHasToken ==
  ASSUME NEW nexpert \in Nat, NEW topk \in Nat, NEW rt \in Routings(nexpert, topk),
         Len(rt) <= Map!ShortTokens, NEW st \in Map!Stores(Map!Map0(rt, nexpert, topk))
  PROVE  \E e \in 0 .. nexpert - 1, x \in Nat, j \in 0 .. (Map!NR1 - 1), t \in Map!Tokens(rt) :
           /\ t \in Chosen(rt, e)
           /\ st = <<e, x, j>>
           /\ (x * Map!NR1) + j = Map!Before(rt, e, t)
           /\ Map!StoredSlot(Map!Map0(rt, nexpert, topk), st) = t * topk + Map!Sel(rt, e, t) - 1
<1> DEFINE m == Map!Map0(rt, nexpert, topk)
<1>1. Len(rt) \in Nat
  BY ChosenFinite
<1>2. PICK e \in 0 .. nexpert - 1, x \in Map!TilesX(m) : \E j \in Map!TileRows(m, e, x) : st = <<e, x, j>>
  <2>1. m.n_expert = nexpert
    BY DEF Map!Map0
  <2> QED
    BY <2>1 DEF Map!Stores
<1>3. PICK j \in Map!TileRows(m, e, x) : st = <<e, x, j>>
  BY <1>2
<1>4. x \in Nat
  BY <1>1 DEF Map!TilesX
<1>5. Map!Count(rt, e) \in Nat /\ Map!Count(rt, e) <= Len(rt)
  <2>1. Len(rt) + 1 \in Nat /\ Len(rt) < Len(rt) + 1
    BY <1>1
  <2> QED
    BY <1>1, <2>1, CounterMoves, Zenon DEF Map!Count
<1>6. m.tpe[e] = Map!Count(rt, e)
  BY DEF Map!Map0
<1>7. j \in 0 .. (Map!NR1 - 1) /\ (x * Map!NR1) + j \in 0 .. Map!Count(rt, e) - 1
  <2>1. j \in 0 .. (IF Map!Count(rt, e) - x * Map!NR1 < Map!NR1 THEN Map!Count(rt, e) - x * Map!NR1 ELSE Map!NR1) - 1
    BY <1>6 DEF Map!TileRows
  <2>2. j \in Int
    BY <2>1
  <2> QED
    BY <1>4, <1>5, <2>1, <2>2, RowsOfTile, Zenon
<1>8. PICK t \in Chosen(rt, e) : Map!Before(rt, e, t) = (x * Map!NR1) + j
  <2> DEFINE n == (x * Map!NR1) + j
  <2>1. n \in 0 .. Map!Count(rt, e) - 1
    BY <1>7
  <2> HIDE DEF n, m
  <2>2. \E t \in Chosen(rt, e) : Map!Before(rt, e, t) = n
    BY <2>1, IndexIsUsed
  <2> QED
    BY <2>2 DEF n
<1> DEFINE id == Map!Entry(rt, e, (x * Map!NR1) + j, topk)
<1>9. Map!StoredSlot(m, st) = Map!Short(id \div topk) * topk + (id % topk)
  <2>1. (x * Map!NR1) + j \in Map!Tokens(rt)
    BY <1>1, <1>5, <1>7 DEF Map!Tokens
  <2>2. m.hids[e][(x * Map!NR1) + j] = Map!Entry(rt, e, (x * Map!NR1) + j, topk)
    BY <2>1 DEF Map!Map0
  <2>3. st[1] = e /\ st[2] = x /\ st[3] = j
    BY <1>3
  <2>4. m.top_k = topk
    BY DEF Map!Map0
  <2> HIDE DEF m
  <2> QED
    BY <2>2, <2>3, <2>4, Zenon DEF Map!StoredSlot
<1>10. id = t * topk + Map!Sel(rt, e, t) - 1
  BY <1>8, EntryIsSlot
<1>11. t \in Map!Tokens(rt)
  BY DEF Chosen
<1> HIDE DEF id, m
<1>12. Map!StoredSlot(m, st) = t * topk + Map!Sel(rt, e, t) - 1
  <2>1. t \in 0 .. Map!ShortTokens - 1
    <3>1. t \in Nat /\ t < Len(rt)
      BY <1>1, <1>11 DEF Map!Tokens
    <3> QED
      BY <1>1, <3>1, TokenIsShort, Zenon
  <2>2. Map!Sel(rt, e, t) \in 0 .. topk /\ Map!Sel(rt, e, t) > 0
    BY SelIsSlot DEF Chosen
  <2>3. Map!Sel(rt, e, t) \in 1 .. topk
    BY <2>2
  <2> QED
    BY <1>9, <1>10, <2>1, <2>3, ShortKeeps
<1> QED
  BY <1>3, <1>4, <1>7, <1>8, <1>11, <1>12 DEF m

(* Conversely the slot of a chosen token is in some tile of its expert:    *)
(* enough tiles are launched for an expert that gets every token.          *)
LEMMA ChosenIsStored ==
  ASSUME NEW nexpert \in Nat, NEW topk \in Nat, NEW rt \in Routings(nexpert, topk),
         Len(rt) <= Map!ShortTokens, NEW e \in 0 .. nexpert - 1, NEW t \in Chosen(rt, e)
  PROVE  \E st \in Map!Stores(Map!Map0(rt, nexpert, topk)) :
           /\ st[1] = e
           /\ Map!StoredSlot(Map!Map0(rt, nexpert, topk), st) = t * topk + Map!Sel(rt, e, t) - 1
<1> DEFINE m == Map!Map0(rt, nexpert, topk)
           n == Map!Before(rt, e, t)
           x == n \div Map!NR1
           j == n % Map!NR1
           st == <<e, x, j>>
<1>1. Len(rt) \in Nat
  BY ChosenFinite
<1>2. Map!Count(rt, e) \in Nat /\ Map!Count(rt, e) <= Len(rt) /\ n \in 0 .. Map!Count(rt, e) - 1
  BY IndexOfChosen, Zenon
<1>3. n = (x * Map!NR1) + j /\ x \in Nat /\ j \in 0 .. (Map!NR1 - 1)
  <2>1. n \in Nat
    BY <1>2
  <2> HIDE DEF n
  <2> QED
    BY <2>1, TileSize, DivBounds, Zenon
<1>4. /\ m.tpe[e] = Map!Count(rt, e) /\ m.n_expert = nexpert /\ m.t = Len(rt)
      /\ m.top_k = topk
  BY DEF Map!Map0
<1>5. n \in Map!Tokens(rt)
  BY <1>1, <1>2 DEF Map!Tokens
<1>6. m.hids[e][n] = Map!Entry(rt, e, n, topk)
  BY <1>5 DEF Map!Map0
<1> HIDE DEF m, n, x, j
<1>7. j \in Map!TileRows(m, e, x)
  <2>1. j \in Int
    BY <1>3
  <2>2. (x * Map!NR1) + j \in 0 .. Map!Count(rt, e) - 1
    BY <1>2, <1>3
  <2>3. j \in 0 .. (IF Map!Count(rt, e) - x * Map!NR1 < Map!NR1 THEN Map!Count(rt, e) - x * Map!NR1 ELSE Map!NR1) - 1
    BY <1>2, <1>3, <2>1, <2>2, RowsOfTile, Zenon
  <2> QED
    BY <1>4, <2>3 DEF Map!TileRows
<1>8. x \in Map!TilesX(m)
  BY <1>1, <1>2, <1>3, <1>4 DEF Map!TilesX, Map!CeilDiv, Map!NR1
<1>9. st \in Map!Stores(m)
  <2>1. e \in 0 .. m.n_expert - 1
    BY <1>4
  <2> QED
    BY <1>3, <1>7, <1>8, <2>1 DEF Map!Stores
<1> DEFINE id == Map!Entry(rt, e, n, topk)
<1>10. Map!StoredSlot(m, st) = Map!Short(id \div topk) * topk + (id % topk)
  <2>1. m.hids[st[1]][st[2] * Map!NR1 + st[3]] = id
    BY <1>3, <1>6
  <2> HIDE DEF id
  <2> QED
    BY <1>4, <2>1, Zenon DEF Map!StoredSlot
<1>11. id = t * topk + Map!Sel(rt, e, t) - 1
  BY EntryIsSlot DEF n
<1> HIDE DEF id
<1>12. Map!StoredSlot(m, st) = t * topk + Map!Sel(rt, e, t) - 1
  <2>1. t \in 0 .. Map!ShortTokens - 1
    <3>1. t \in Nat /\ t < Len(rt)
      BY <1>1 DEF Chosen, Map!Tokens
    <3> QED
      BY <1>1, <3>1, TokenIsShort, Zenon
  <2>2. Map!Sel(rt, e, t) \in 0 .. topk /\ Map!Sel(rt, e, t) > 0
    BY SelIsSlot DEF Chosen
  <2>3. Map!Sel(rt, e, t) \in 1 .. topk
    BY <2>2
  <2> QED
    BY <1>10, <1>11, <2>1, <2>3, ShortKeeps
<1> QED
  BY <1>9, <1>12 DEF m, st

-----------------------------------------------------------------------------
(* Every slot of every routing is stored by exactly one row of one tile,   *)
(* under the expert the router chose, and nothing is stored elsewhere      *)
(* (kernel_mul_mm_id_map0 and the scatter of kernel_mul_mm_id): the        *)
(* property the cases of a forward check for their routings, here for      *)
(* every number of slots and experts, and of tokens up to the 32768 that   *)
(* the kernel's short index tells apart.                                   *)
THEOREM SlotsGrouped ==
  ASSUME NEW nexpert \in Nat, NEW topk \in Nat, NEW rt \in Routings(nexpert, topk),
         Len(rt) <= Map!ShortTokens
  PROVE  Map!GroupsEverySlot(rt, Map!Map0(rt, nexpert, topk))
<1> DEFINE m == Map!Map0(rt, nexpert, topk)
<1>1. Len(rt) \in Nat /\ m.top_k = topk /\ m.n_expert = nexpert
  BY ChosenFinite DEF Map!Map0
<1> HIDE DEF m
<1>2. \A e, t : t \in Chosen(rt, e) => t \in Map!Tokens(rt) /\ Map!Sel(rt, e, t) > 0
  BY DEF Chosen
<1>3. ASSUME NEW t \in Map!Tokens(rt), NEW s \in 0 .. topk - 1
      PROVE  \E st \in Map!Stores(m) :
               Map!StoredSlot(m, st) = t * topk + s /\ st[1] = rt[t + 1][s + 1]
  <2> DEFINE e == rt[t + 1][s + 1]
  <2>1. s + 1 \in 1 .. topk /\ t + 1 \in 1 .. Len(rt) /\ t \in Nat
    BY <1>1 DEF Map!Tokens
  <2>2. e \in 0 .. nexpert - 1
    BY <2>1 DEF Routings
  <2> HIDE DEF e
  <2>3. Map!Sel(rt, e, t) = s + 1
    BY <2>1, SelIsSlot DEF e
  <2>4. t \in Chosen(rt, e)
    BY <2>1, <2>3 DEF Chosen
  <2>5. PICK st \in Map!Stores(m) : st[1] = e /\ Map!StoredSlot(m, st) = t * topk + Map!Sel(rt, e, t) - 1
    BY <2>2, <2>4, ChosenIsStored DEF m
  <2>6. t * topk \in Int
    BY <2>1
  <2>7. t * topk + Map!Sel(rt, e, t) - 1 = t * topk + s
    BY <2>3, <2>6
  <2> QED
    BY <2>5, <2>7 DEF e
<1>4. ASSUME NEW a \in Map!Stores(m), NEW b \in Map!Stores(m), Map!StoredSlot(m, a) = Map!StoredSlot(m, b)
      PROVE  a = b
  <2>1. PICK e \in 0 .. nexpert - 1, x \in Nat, i \in 0 .. (Map!NR1 - 1), t \in Map!Tokens(rt) :
          /\ t \in Chosen(rt, e)
          /\ a = <<e, x, i>>
          /\ (x * Map!NR1) + i = Map!Before(rt, e, t)
          /\ Map!StoredSlot(m, a) = t * topk + Map!Sel(rt, e, t) - 1
    BY StoreHasToken DEF m
  <2>2. PICK f \in 0 .. nexpert - 1, y \in Nat, j \in 0 .. (Map!NR1 - 1), u \in Map!Tokens(rt) :
          /\ u \in Chosen(rt, f)
          /\ b = <<f, y, j>>
          /\ (y * Map!NR1) + j = Map!Before(rt, f, u)
          /\ Map!StoredSlot(m, b) = u * topk + Map!Sel(rt, f, u) - 1
    BY StoreHasToken DEF m
  <2>3. t \in Map!Tokens(rt) /\ u \in Map!Tokens(rt) /\ Map!Sel(rt, e, t) > 0 /\ Map!Sel(rt, f, u) > 0
    BY <1>2, <2>1, <2>2
  <2>4. Map!Sel(rt, e, t) \in 1 .. topk /\ rt[t + 1][Map!Sel(rt, e, t)] = e
    <3>1. Map!Sel(rt, e, t) \in 0 .. topk /\ rt[t + 1][Map!Sel(rt, e, t)] = e
      BY <2>3, SelIsSlot
    <3> QED
      BY <2>3, <3>1
  <2>5. Map!Sel(rt, f, u) \in 1 .. topk /\ rt[u + 1][Map!Sel(rt, f, u)] = f
    <3>1. Map!Sel(rt, f, u) \in 0 .. topk /\ rt[u + 1][Map!Sel(rt, f, u)] = f
      BY <2>3, SelIsSlot
    <3> QED
      BY <2>3, <3>1
  <2>6. t = u /\ Map!Sel(rt, e, t) = Map!Sel(rt, f, u)
    <3>1. t \in Int /\ u \in Int
      BY <1>1, <2>3 DEF Map!Tokens
    <3>2. t * topk + Map!Sel(rt, e, t) - 1 = u * topk + Map!Sel(rt, f, u) - 1
      BY <1>4, <2>1, <2>2
    <3> DEFINE a1 == Map!Sel(rt, e, t)
               b1 == Map!Sel(rt, f, u)
    <3>3. a1 \in 1 .. topk /\ b1 \in 1 .. topk /\ t * topk + a1 - 1 = u * topk + b1 - 1
      BY <2>4, <2>5, <3>2
    <3> HIDE DEF a1, b1
    <3>4. t = u /\ a1 = b1
      BY <3>1, <3>3, SlotUnique
    <3> QED
      BY <3>4 DEF a1, b1
  <2>7. e = f
    BY <2>4, <2>5, <2>6
  <2>8. (x * Map!NR1) + i = (y * Map!NR1) + j
    BY <2>1, <2>2, <2>6, <2>7
  <2>9. x = y /\ i = j
    BY <2>8 DEF Map!NR1
  <2> QED
    BY <2>1, <2>2, <2>7, <2>9
<1>5. ASSUME NEW st \in Map!Stores(m)
      PROVE  Map!StoredSlot(m, st) \in 0 .. Len(rt) * topk - 1
  <2>1. PICK e \in 0 .. nexpert - 1, x \in Nat, i \in 0 .. (Map!NR1 - 1), t \in Map!Tokens(rt) :
          t \in Chosen(rt, e) /\ Map!StoredSlot(m, st) = t * topk + Map!Sel(rt, e, t) - 1
    BY StoreHasToken DEF m
  <2>2. t \in Map!Tokens(rt) /\ Map!Sel(rt, e, t) \in 0 .. topk /\ Map!Sel(rt, e, t) > 0
    BY <1>2, <2>1, SelIsSlot
  <2>3. t \in Nat /\ Len(rt) - (t + 1) \in Nat
    BY <1>1, <2>2 DEF Map!Tokens
  <2>4. (Len(rt) - (t + 1)) * topk >= 0 /\ t * topk \in Nat
    BY <2>3
  <2>5. (Len(rt) - (t + 1)) * topk = Len(rt) * topk - t * topk - topk
    BY <1>1, <2>3
  <2>6. Len(rt) * topk \in Nat
    BY <1>1
  <2> QED
    BY <2>1, <2>2, <2>4, <2>5, <2>6
<1>6. ASSUME NEW e \in 0 .. nexpert - 1, NEW t \in Map!Tokens(rt)
      PROVE  Map!Before(rt, e, t) < Len(rt)
  <2>1. t \in Nat /\ t < Len(rt)
    BY <1>1 DEF Map!Tokens
  <2>2. Map!Before(rt, e, t) \in Nat /\ Map!Before(rt, e, t) <= t
    BY <1>1, <2>1, CounterMoves, Zenon
  <2> QED
    BY <1>1, <2>1, <2>2
<1> QED
  BY <1>1, <1>3, <1>4, <1>5, <1>6 DEF Map!GroupsEverySlot, m
-----------------------------------------------------------------------------
(* The steps of a forward. *)

(* The calls of a step lead to the next one, or the forward is abandoned.  *)
LEMMA DoLeads ==
  ASSUME NEW calls, NEW regs, NEW next, Do(calls, regs, next)
  PROVE  \/ pc' = next /\ r' = regs
         \/ pc' = "failed" /\ r' = r
  BY DEF Do

(* A step that leads on met no refusal. *)
LEMMA DoOk ==
  ASSUME NEW calls, NEW regs, NEW next, Do(calls, regs, next), pc' # "failed"
  PROVE  \A n \in DOMAIN calls : calls[n].ok
  BY DEF Do

(* The process does not change under a forward, nor the layer under any    *)
(* step but its last.                                                      *)
LEMMA SameCase ==
  ASSUME Next
  PROVE  case' = case
<1>1. CASE Begin
  BY <1>1 DEF Begin
<1>2. CASE Attention
  BY <1>2 DEF Attention, Project, Permute, Rotate, CacheAppend, AttendFlash, AttendSdpa,
    AttendManual, Gate, Output
<1>3. CASE Ffn
  BY <1>3 DEF Ffn, Dense, Route, ReferenceExperts, PrepareMap, NoMapNeeded, GateUp, Activate,
    Down, Combine, Shared, EndLayer
<1>4. CASE LastLogits \/ AllLogits
  BY <1>4 DEF LastLogits, AllLogits, EmitLogits
<1> QED
  BY <1>1, <1>2, <1>3, <1>4 DEF Next

-----------------------------------------------------------------------------
(* What the configuration and the case of a run are.                       *)
Types == case \in Cases /\ il \in Layers

LEMMA CaseFacts ==
  ASSUME Types
  PROVE  /\ seq \in Nat \ {0} /\ pos \in Nat
         /\ il \in Nat /\ il + 1 \in 1 .. Config.n_layer
         /\ NHead(il) \in Nat /\ HeadDim \in Nat
         /\ Config.sliding_window \in Nat \ {0}
<1>1. seq \in Nat \ {0} /\ pos \in Nat
  BY CasesAssumption, Zenon DEF Types, seq, pos
<1>2. Config.n_layer \in Nat \ {0} /\ Config.sliding_window \in Nat \ {0} /\ HeadDim \in Nat
  BY ConfigAssumption, Zenon DEF HeadDim
<1>3. il \in Nat /\ il + 1 \in 1 .. Config.n_layer
  BY <1>2 DEF Types, Layers
<1>4. NHead(il) \in Nat
  BY <1>3, ConfigAssumption, Zenon DEF NHead
<1> QED
  BY <1>1, <1>2, <1>3, <1>4

LEMMA TypesInit == Init => Types
  BY ConfigAssumption DEF Init, Types, Layers

LEMMA TypesStep ==
  ASSUME Types, Next
  PROVE  Types'
<1>1. case' = case
  BY SameCase
<1>2. il' = il \/ il' \in Layers
  <2>1. CASE Begin
    BY <2>1 DEF Begin
  <2>2. CASE Attention
    BY <2>2 DEF Attention, Project, Permute, Rotate, CacheAppend, AttendFlash, AttendSdpa,
      AttendManual, Gate, Output
  <2>3. CASE Ffn
    <3>1. ASSUME NEW calls, NEW out, EndLayer(calls, out)
          PROVE  il' = il \/ il' \in Layers
      <4>1. pc' = NextLayer \/ pc' = "failed"
        BY <3>1, DoLeads DEF EndLayer
      <4>2. pc' = "project" => il + 1 \in Layers
        BY <4>1 DEF NextLayer
      <4> QED
        BY <3>1, <4>2 DEF EndLayer
    <3>2. CASE Dense \/ Shared
      BY <3>1, <3>2, Zenon DEF Dense, Shared
    <3>3. CASE Route \/ ReferenceExperts \/ PrepareMap \/ NoMapNeeded \/ GateUp \/ Activate
               \/ Down \/ Combine
      BY <3>3 DEF Route, ReferenceExperts, PrepareMap, NoMapNeeded, GateUp, Activate, Down, Combine
    <3> QED
      BY <2>3, <3>2, <3>3, Zenon DEF Ffn
  <2>4. CASE LastLogits \/ AllLogits
    BY <2>4 DEF LastLogits, AllLogits, EmitLogits
  <2> QED
    BY <2>1, <2>2, <2>3, <2>4 DEF Next
<1> QED
  BY <1>1, <1>2 DEF Types, Layers

-----------------------------------------------------------------------------
(* The views of the caches. *)

(* Division of a multiple and a remainder. *)
LEMMA DivIs ==
  ASSUME NEW w \in Nat \ {0}, NEW q \in Int, NEW t \in 0 .. (w - 1)
  PROVE  ((w * q) + t) \div w = q /\ ((w * q) + t) % w = t
  OBVIOUS

(* The position in a slot of the ring, from the turn of the next position. *)
LEMMA StoredIs ==
  ASSUME Types, NEW w \in Nat \ {0}, NEW q \in Nat, NEW t \in 0 .. (w - 1), pos = (w * q) + t,
         NEW s \in 0 .. (w - 1)
  PROVE  /\ s < t => Stored(w)[s] = (w * q) + s
         /\ s >= t /\ q >= 1 => Stored(w)[s] = ((w * q) - w) + s
<1>1. pos \in Nat /\ Stored(w)[s] = IF s < pos THEN s + w * ((pos - 1 - s) \div w) ELSE -1
  BY CaseFacts DEF Stored
<1>2. CASE s < t
  <2>1. w * q \in Nat
    OBVIOUS
  <2>2. /\ s < pos /\ pos - 1 - s = (w * q) + (t - 1 - s)
        /\ t - 1 - s \in 0 .. (w - 1) /\ q \in Int
    BY <1>2, <2>1
  <2>3. ((w * q) + (t - 1 - s)) \div w = q
    BY <2>2, DivIs, Zenon
  <2> QED
    BY <1>1, <1>2, <2>1, <2>2, <2>3
<1>3. CASE s >= t /\ q >= 1
  <2>1. PICK k \in Nat : k = q - 1
    BY <1>3
  <2>2. w * q = (w * k) + w /\ w * k \in Nat
    BY <2>1
  <2>3. /\ s < pos /\ pos - 1 - s = (w * k) + ((w + t) - 1 - s)
        /\ (w + t) - 1 - s \in 0 .. (w - 1) /\ k \in Int
    BY <1>3, <2>2
  <2>4. ((w * k) + ((w + t) - 1 - s)) \div w = k
    BY <2>3, DivIs, Zenon
  <2> QED
    BY <1>1, <1>3, <2>2, <2>3, <2>4
<1> QED
  BY <1>2, <1>3

(* The existing part of a view holds the positions before the chunk, in    *)
(* order, from the first that is still stored.                             *)
LEMMA ExistingInOrder ==
  ASSUME Types, NEW w \in Nat \ {0}
  PROVE  /\ Ring!OrderedExisting(Stored(w), pos, w) \in Seq(Nat)
         /\ Len(Ring!OrderedExisting(Stored(w), pos, w)) = Ring!Smaller(pos, w)
         /\ \A i \in 1 .. Ring!Smaller(pos, w) :
              Ring!OrderedExisting(Stored(w), pos, w)[i] = (pos - Ring!Smaller(pos, w)) + (i - 1)
<1> DEFINE q == pos \div w
           t == pos % w
           old == Ring!OrderedExisting(Stored(w), pos, w)
<1>1. pos \in Nat
  BY CaseFacts
<1>2. q \in Nat /\ t \in 0 .. (w - 1) /\ pos = (w * q) + t
  <2>1. q * w = w * q
    BY <1>1, DivBounds
  <2> QED
    BY <1>1, <2>1, DivBounds, Zenon
<1> HIDE DEF q, t
<1>3. w * q \in Nat /\ (q = 0 => w * q = 0) /\ (q >= 1 => w * q >= w)
  BY <1>2, SMTT(30)
<1>4. CASE pos < w
  <2>1. q = 0 /\ t = pos
    BY <1>2, <1>3, <1>4
  <2>2. old = [i \in 1 .. pos |-> Stored(w)[0 + i - 1]]
    BY <1>1, <1>4 DEF Ring!OrderedExisting, Ring!Narrow
  <2>3. ASSUME NEW i \in 1 .. pos PROVE Stored(w)[0 + i - 1] = i - 1
    <3>1. i - 1 \in 0 .. (w - 1) /\ i - 1 < t /\ 0 + i - 1 = i - 1
      BY <1>1, <1>4, <2>1
    <3>2. Stored(w)[i - 1] = (w * q) + (i - 1)
      BY <1>2, <3>1, StoredIs, Zenon
    <3> QED
      BY <1>3, <2>1, <3>1, <3>2
  <2>4. old = [i \in 1 .. pos |-> i - 1]
    BY <2>2, <2>3
  <2> HIDE DEF old
  <2>5. Ring!Smaller(pos, w) = pos
    BY <1>1, <1>4 DEF Ring!Smaller
  <2> QED
    BY <1>1, <2>4, <2>5 DEF old
<1>5. CASE pos = w
  <2>1. q = 1 /\ t = 0
    <3>1. q >= 1
      BY <1>2, <1>3, <1>5
    <3>2. w * q = (w * (q - 1)) + w
      BY <1>2
    <3>3. w * (q - 1) = 0 \/ w * (q - 1) >= w
      BY <1>2, <3>1
    <3>4. (w * 1) + 0 = (w * q) + t /\ 1 \in Int /\ 0 \in 0 .. (w - 1) /\ q \in Int
      BY <1>2, <1>5
    <3>5. (1 * w) + 0 = (q * w) + t
      BY <1>2, <3>4
    <3> QED
      BY <1>2, <3>4, <3>5, BlockUnique
  <2>2. old = [i \in 1 .. pos |-> Stored(w)[0 + i - 1]]
    BY <1>1, <1>5 DEF Ring!OrderedExisting, Ring!Narrow
  <2>3. ASSUME NEW i \in 1 .. pos PROVE Stored(w)[0 + i - 1] = i - 1
    <3>1. i - 1 \in 0 .. (w - 1) /\ i - 1 >= t /\ q >= 1 /\ 0 + i - 1 = i - 1
      BY <1>1, <1>5, <2>1
    <3>2. Stored(w)[i - 1] = ((w * q) - w) + (i - 1)
      BY <1>2, <3>1, StoredIs, Zenon
    <3> QED
      BY <1>3, <2>1, <3>1, <3>2
  <2>4. old = [i \in 1 .. pos |-> i - 1]
    BY <2>2, <2>3
  <2> HIDE DEF old
  <2>5. Ring!Smaller(pos, w) = pos
    BY <1>1, <1>5 DEF Ring!Smaller
  <2> QED
    BY <1>1, <2>4, <2>5 DEF old
<1>6. CASE pos > w
  <2> DEFINE first == Ring!Narrow(Stored(w), t, w - t)
             second == Ring!Narrow(Stored(w), 0, t)
  <2>1. q >= 1 /\ Ring!Smaller(pos, w) = w
    BY <1>1, <1>2, <1>3, <1>6 DEF Ring!Smaller
  <2>2. old = first \o second
    BY <1>1, <1>6 DEF Ring!OrderedExisting, t
  <2>3. first = [i \in 1 .. (w - t) |-> (pos - w) + (i - 1)]
    <3>1. ASSUME NEW i \in 1 .. (w - t) PROVE Stored(w)[t + i - 1] = (pos - w) + (i - 1)
      <4>1. t + i - 1 \in 0 .. (w - 1) /\ t + i - 1 >= t
        BY <1>2
      <4>2. Stored(w)[t + i - 1] = ((w * q) - w) + (t + i - 1)
        BY <1>2, <2>1, <4>1, StoredIs, Zenon
      <4> QED
        BY <1>2, <1>3, <4>2
    <3> QED
      BY <3>1 DEF Ring!Narrow
  <2>4. second = [i \in 1 .. t |-> (pos - t) + (i - 1)]
    <3>1. ASSUME NEW i \in 1 .. t PROVE Stored(w)[0 + i - 1] = (pos - t) + (i - 1)
      <4>1. i - 1 \in 0 .. (w - 1) /\ i - 1 < t /\ 0 + i - 1 = i - 1
        BY <1>2
      <4>2. Stored(w)[i - 1] = (w * q) + (i - 1)
        BY <1>2, <4>1, StoredIs, Zenon
      <4> QED
        BY <1>2, <1>3, <4>1, <4>2
    <3> QED
      BY <3>1 DEF Ring!Narrow
  <2> HIDE DEF first, second, old
  <2>5. /\ first \in Seq(Nat) /\ Len(first) = w - t
        /\ \A i \in 1 .. (w - t) : first[i] = (pos - w) + (i - 1)
    BY <1>1, <1>2, <1>6, <2>3
  <2>6. /\ second \in Seq(Nat) /\ Len(second) = t
        /\ \A i \in 1 .. t : second[i] = (pos - t) + (i - 1)
    BY <1>1, <1>2, <1>3, <2>4
  <2>7. /\ first \o second \in Seq(Nat)
        /\ Len(first \o second) = Len(first) + Len(second)
        /\ \A i \in 1 .. (Len(first) + Len(second)) :
             (first \o second)[i] = IF i <= Len(first) THEN first[i] ELSE second[i - Len(first)]
    BY <2>5, <2>6, ConcatProperties, Zenon
  <2>8. Len(first) + Len(second) = w
    BY <1>2, <2>5, <2>6
  <2>9. ASSUME NEW i \in 1 .. w PROVE (first \o second)[i] = (pos - w) + (i - 1)
    <3>1. CASE i <= w - t
      BY <1>2, <2>5, <2>7, <2>8, <3>1
    <3>2. CASE i > w - t
      <4>1. i - (w - t) \in 1 .. t /\ ~(i <= Len(first))
        BY <1>2, <2>5, <3>2
      <4>2. (first \o second)[i] = second[i - (w - t)]
        BY <2>5, <2>7, <2>8, <4>1
      <4>3. second[i - (w - t)] = (pos - t) + ((i - (w - t)) - 1)
        BY <2>6, <4>1
      <4> QED
        BY <1>1, <1>2, <4>2, <4>3
    <3>3. i <= w - t \/ i > w - t
      BY <1>2
    <3> QED
      BY <3>1, <3>2, <3>3, Zenon
  <2> QED
    BY <2>1, <2>2, <2>7, <2>8, <2>9 DEF old
<1> QED
  BY <1>1, <1>4, <1>5, <1>6

(* The first position of a view, of a chunk or of a full layer.            *)
Base == IF IsFullAttn(il) THEN 0 ELSE pos - Ring!Smaller(pos, Window(il))

(* Such a view holds the positions from there to the end of the chunk.     *)
LEMMA ViewInOrder ==
  ASSUME Types, IsFullAttn(il) \/ seq # 1
  PROVE  /\ Base \in 0 .. pos
         /\ Len(ViewPositions) = (pos - Base) + seq
         /\ \A c \in 0 .. ((pos - Base) + seq) - 1 : ViewPositions[c + 1] = Base + c
<1>1. seq \in Nat \ {0} /\ pos \in Nat
  BY CaseFacts
<1>2. CASE IsFullAttn(il)
  <2>1. ViewPositions = [c \in 1 .. pos + seq |-> c - 1] /\ Base = 0
    BY <1>2 DEF ViewPositions, Base
  <2> QED
    BY <1>1, <2>1
<1>3. CASE ~IsFullAttn(il)
  <2> DEFINE w == Config.sliding_window
             old == Ring!OrderedExisting(Stored(w), pos, w)
             n == Ring!Smaller(pos, w)
  <2>1. w \in Nat \ {0} /\ Window(il) = w
    BY <1>3, CaseFacts DEF Window
  <2>2. ViewPositions = old \o NewPositions /\ Base = pos - n
    BY <1>3, <2>1 DEF ViewPositions, Base
  <2>3. n \in 0 .. pos
    BY <1>1, <2>1 DEF Ring!Smaller
  <2>4. /\ old \in Seq(Nat) /\ Len(old) = n
        /\ \A i \in 1 .. n : old[i] = (pos - n) + (i - 1)
    BY <2>1, ExistingInOrder, Zenon
  <2>5. /\ NewPositions \in Seq(Nat) /\ Len(NewPositions) = seq
        /\ \A i \in 1 .. seq : NewPositions[i] = pos + i - 1
    BY <1>1 DEF NewPositions
  <2> HIDE DEF old, n
  <2>6. /\ Len(old \o NewPositions) = Len(old) + Len(NewPositions)
        /\ \A i \in 1 .. (Len(old) + Len(NewPositions)) :
             (old \o NewPositions)[i] = IF i <= Len(old) THEN old[i] ELSE NewPositions[i - Len(old)]
    BY <2>4, <2>5, ConcatProperties, Zenon
  <2>7. Len(old) + Len(NewPositions) = n + seq
    BY <2>4, <2>5
  <2>8. ASSUME NEW c \in 0 .. (n + seq) - 1
        PROVE  ViewPositions[c + 1] = (pos - n) + c
    <3>1. c + 1 \in 1 .. (n + seq) /\ c \in Nat /\ n \in Nat
      BY <1>1, <2>3
    <3>2. CASE c + 1 <= n
      <4>1. c + 1 \in 1 .. n
        BY <3>1, <3>2
      <4>2. ViewPositions[c + 1] = old[c + 1]
        BY <2>2, <2>4, <2>6, <2>7, <3>1, <3>2
      <4> QED
        BY <1>1, <2>4, <3>1, <4>1, <4>2
    <3>3. CASE ~(c + 1 <= n)
      <4>1. (c + 1) - n \in 1 .. seq
        BY <1>1, <3>1, <3>3
      <4>2. ViewPositions[c + 1] = NewPositions[(c + 1) - n]
        BY <2>2, <2>4, <2>6, <2>7, <3>1, <3>3
      <4> QED
        BY <1>1, <2>5, <3>1, <4>1, <4>2
    <3> QED
      BY <3>2, <3>3
  <2>9. (pos - (pos - n)) + seq = n + seq /\ pos - n \in 0 .. pos
    BY <1>1, <2>3
  <2> QED
    BY <2>2, <2>6, <2>7, <2>8, <2>9
<1> QED
  BY <1>2, <1>3

(* A decode step reads the ring as it lies: the latest positions, in the   *)
(* order of their slots.                                                   *)
LEMMA ViewOfRing ==
  ASSUME Types, ~IsFullAttn(il), seq = 1
  PROVE  /\ Len(ViewPositions) \in Nat
         /\ {ViewPositions[c + 1] : c \in 0 .. Len(ViewPositions) - 1} =
              {p \in 0 .. pos : pos - p < Config.sliding_window}
<1> DEFINE w == Config.sliding_window
           q == pos \div w
           t == pos % w
           m == Ring!Smaller(pos + 1, w)
           Slot(s) == IF s = t THEN pos ELSE Stored(w)[s]
<1>1. seq \in Nat \ {0} /\ pos \in Nat /\ w \in Nat \ {0} /\ Window(il) = w
  BY CaseFacts DEF Window
<1> HIDE DEF w
<1>2. q \in Nat /\ t \in 0 .. (w - 1) /\ pos = (w * q) + t
  <2>1. q * w = w * q
    BY <1>1, DivBounds
  <2> QED
    BY <1>1, <2>1, DivBounds, Zenon
<1>3. m \in 0 .. w /\ m <= pos + 1
  BY <1>1 DEF Ring!Smaller
<1> HIDE DEF q, t, Slot
<1>4. w * q \in Nat /\ (q = 0 => w * q = 0) /\ (q >= 1 => w * q >= w)
  BY <1>1, <1>2, SMTT(30)
<1>5. ViewPositions = [i \in 1 .. m |-> Slot(i - 1)]
  <2>1. NewPositions = <<pos>>
    BY <1>1 DEF NewPositions
  <2>2. ViewPositions = Ring!Narrow(Ring!SliceSet(Stored(w), <<pos>>, t), 0, m)
    BY <1>1, <2>1 DEF ViewPositions, t
  <2>3. \A s \in 0 .. (w - 1) : Ring!SliceSet(Stored(w), <<pos>>, t)[s] = Slot(s)
    <3>1. DOMAIN Stored(w) = 0 .. (w - 1)
      BY DEF Stored
    <3>2. t .. (t + Len(<<pos>>) - 1) = {t} /\ <<pos>>[t - t + 1] = pos
      BY <1>1, <1>2
    <3> QED
      BY <1>2, <3>1, <3>2 DEF Ring!SliceSet, Slot
  <2>4. \A i \in 1 .. m : 0 + i - 1 \in 0 .. (w - 1) /\ 0 + i - 1 = i - 1
    BY <1>1, <1>3
  <2> QED
    BY <2>2, <2>3, <2>4 DEF Ring!Narrow
<1>6. Len(ViewPositions) = m /\ \A c \in 0 .. m - 1 : ViewPositions[c + 1] = Slot(c)
  BY <1>3, <1>5
<1>7. ASSUME NEW c \in 0 .. m - 1
      PROVE  Slot(c) \in 0 .. pos /\ pos - Slot(c) < w
  <2>1. c \in 0 .. (w - 1) /\ c <= pos
    BY <1>1, <1>3
  <2>2. CASE c = t
    BY <1>1, <2>2 DEF Slot
  <2>3. CASE c < t
    <3>1. Slot(c) = (w * q) + c
      BY <1>1, <1>2, <2>1, <2>3, StoredIs DEF Slot
    <3> QED
      BY <1>1, <1>2, <1>4, <2>1, <2>3, <3>1
  <2>4. CASE c > t
    <3>1. q >= 1
      BY <1>1, <1>2, <1>4, <2>1, <2>4
    <3>2. Slot(c) = ((w * q) - w) + c
      BY <1>1, <1>2, <2>1, <2>4, <3>1, StoredIs DEF Slot
    <3> QED
      BY <1>1, <1>2, <1>4, <2>1, <2>4, <3>1, <3>2
  <2>5. c = t \/ c < t \/ c > t
    BY <1>2, <2>1
  <2> QED
    BY <2>2, <2>3, <2>4, <2>5, Zenon
<1>8. ASSUME NEW p \in 0 .. pos, pos - p < w
      PROVE  \E c \in 0 .. m - 1 : p = Slot(c)
  <2>1. CASE p = pos
    <3>1. t \in 0 .. m - 1
      BY <1>1, <1>2, <1>3, <1>4 DEF Ring!Smaller
    <3> QED
      BY <2>1, <3>1 DEF Slot
  <2>2. CASE p # pos /\ p >= w * q
    <3>1. p - (w * q) \in 0 .. m - 1 /\ p - (w * q) < t /\ p - (w * q) \in 0 .. (w - 1)
      BY <1>1, <1>2, <1>3, <1>4, <2>2 DEF Ring!Smaller
    <3>2. PICK c \in 0 .. m - 1 : c = p - (w * q)
      BY <3>1
    <3>3. Slot(c) = (w * q) + c
      BY <1>1, <1>2, <3>1, <3>2, StoredIs DEF Slot
    <3> QED
      BY <1>4, <3>2, <3>3
  <2>3. CASE p < w * q
    <3>1. q >= 1
      BY <1>2, <1>4, <2>3
    <3>2. m = w
      BY <1>1, <1>2, <1>4, <3>1 DEF Ring!Smaller
    <3>3. (p + w) - (w * q) \in 0 .. (w - 1) /\ (p + w) - (w * q) > t
      BY <1>1, <1>2, <1>4, <1>8, <2>3
    <3>4. PICK c \in 0 .. m - 1 : c = (p + w) - (w * q)
      BY <3>2, <3>3
    <3>5. c \in 0 .. (w - 1) /\ c >= t /\ c # t
      BY <1>2, <3>3, <3>4
    <3>6. Slot(c) = ((w * q) - w) + c
      <4>1. c >= t /\ q >= 1 => Stored(w)[c] = ((w * q) - w) + c
        <5>1. c \in 0 .. (w - 1)
          BY <3>5
        <5> QED
          BY <1>1, <1>2, <5>1, StoredIs, SMTT(30)
      <4> QED
        BY <3>1, <3>5, <4>1 DEF Slot
    <3> QED
      BY <1>1, <1>4, <3>4, <3>6
  <2>4. p = pos \/ (p # pos /\ p >= w * q) \/ p < w * q
    BY <1>4
  <2> QED
    BY <2>1, <2>2, <2>3, <2>4, Zenon
<1> QED
  BY <1>3, <1>6, <1>7, <1>8 DEF w

-----------------------------------------------------------------------------
(* The kernels. *)

(* The tensors of a forward have their dimensions. *)
Shape(x, dims) == DOMAIN x = {"dt", "dims", "cont", "off", "val"} /\ x.dims = dims

(* A call whose launches cover their outputs. *)
Writes(c) == \A l \in S!Range(c.launches) : Covers(l)

(* A call that returns a tensor of the given dimensions, wholly written.   *)
Fine(c, dims) == Shape(c.out, dims) /\ Writes(c)

(* Nothing is launched by a step but by its calls. *)
LEMMA DoWrites ==
  ASSUME NEW calls, NEW regs, NEW next, Do(calls, regs, next),
         \A n \in DOMAIN calls : Writes(calls[n])
  PROVE  \A l \in launched' : Covers(l)
  BY DEF Do, Writes

LEMMA CandleIs ==
  ASSUME NEW out
  PROVE  Candle(out).out = out /\ Writes(Candle(out))
  BY DEF Candle, Call, Writes, S!Range

(* Enough tiles of d for n elements, and one each for n. *)
LEMMA TilesReach ==
  ASSUME NEW n \in Nat, NEW d \in Nat \ {0}
  PROVE  (n - 1) \div d < CeilDiv(n, d)
<1>1. (n + d) - 1 = ((n - 1) + d) /\ n + d - 1 = (n + d) - 1
  OBVIOUS
<1>2. ((n - 1) + d) \div d = ((n - 1) \div d) + 1
  OBVIOUS
<1>3. (n - 1) \div d \in Int
  OBVIOUS
<1> QED
  BY <1>1, <1>2, <1>3 DEF CeilDiv

LEMMA UnitsReach ==
  ASSUME NEW n \in Nat
  PROVE  (n - 1) \div 1 < n
  OBVIOUS

LEMMA GridCovers ==
  ASSUME NEW k, NEW g1, NEW g2, NEW g3, NEW t1, NEW t2, NEW t3, NEW e1, NEW e2, NEW e3,
         (e1 - 1) \div t1 < g1, (e2 - 1) \div t2 < g2, (e3 - 1) \div t3 < g3
  PROVE  Covers(Launch(k, <<g1, g2, g3>>, <<t1, t2, t3>>, <<e1, e2, e3>>))
<1> DEFINE l == Launch(k, <<g1, g2, g3>>, <<t1, t2, t3>>, <<e1, e2, e3>>)
<1>1. l.grid = <<g1, g2, g3>> /\ l.tile = <<t1, t2, t3>> /\ l.extent = <<e1, e2, e3>>
  BY DEF Launch
<1> HIDE DEF l
<1>2. ASSUME NEW i \in 1 .. 3
      PROVE  (l.extent[i] - 1) \div l.tile[i] < l.grid[i]
  <2>1. i = 1 \/ i = 2 \/ i = 3
    OBVIOUS
  <2> QED
    BY <1>1, <2>1
<1> QED
  BY <1>2 DEF Covers, l

LEMMA LinearCovers ==
  ASSUME NEW kernel, NEW n \in Nat
  PROVE  Covers(Linear(kernel, n))
<1>1. (n - 1) \div 256 < CeilDiv(n, 256) /\ (1 - 1) \div 1 < 1
  BY TilesReach, UnitsReach
<1>2. Covers(Launch(kernel, <<CeilDiv(n, 256), 1, 1>>, <<256, 1, 1>>, <<n, 1, 1>>))
  BY <1>1, GridCovers, SMT
<1> QED
  BY <1>2 DEF Linear

(* The number of elements of a tensor, one dimension after another.        *)
LEMMA ElemsRecurs ==
  ASSUME NEW dims \in Seq(Nat)
  PROVE  \E p : /\ Elems(dims) = p[Len(dims)] /\ p[0] = 1
                /\ \A i \in 1 .. Len(dims) : p[i] = p[i - 1] * dims[i]
<1> DEFINE N == Len(dims)
           product == CHOOSE f : f = [i \in 0 .. N |-> IF i = 0 THEN 1 ELSE f[i - 1] * dims[i]]
           step == [p \in Nat \X (1 .. N) |-> p[1] * dims[p[2]]]
<1>1. N \in Nat /\ \A i \in 1 .. N : dims[i] \in Nat
  OBVIOUS
<1>2. Elems(dims) = product[N]
  BY DEF Elems
<1>3. step \in [Nat \X (1 .. N) -> Nat]
  BY <1>1
<1>4. \A v \in Nat, i \in 1 .. N : step[<<v, i>>] = v * dims[i]
  OBVIOUS
<1> HIDE DEF step
<1>5. PICK f \in [0 .. N -> Nat] : Recurs(f, 1, step, N)
  <2>1. 1 \in Nat
    OBVIOUS
  <2> QED
    BY <1>1, <1>3, <2>1, RecursionExists, Zenon
<1>6. f = [i \in 0 .. N |-> IF i = 0 THEN 1 ELSE f[i - 1] * dims[i]]
  <2>1. ASSUME NEW i \in 0 .. N PROVE f[i] = IF i = 0 THEN 1 ELSE f[i - 1] * dims[i]
    <3>1. CASE i = 0
      BY <1>5, <3>1 DEF Recurs
    <3>2. CASE i # 0
      <4>1. i \in 1 .. N /\ i - 1 \in 0 .. N
        BY <1>1, <3>2
      <4> QED
        BY <1>4, <1>5, <3>2, <4>1 DEF Recurs
    <3> QED
      BY <3>1, <3>2
  <2> QED
    BY <2>1
<1>7. product = [i \in 0 .. N |-> IF i = 0 THEN 1 ELSE product[i - 1] * dims[i]]
  <2> DEFINE Solves(h) == h = [i \in 0 .. N |-> IF i = 0 THEN 1 ELSE h[i - 1] * dims[i]]
  <2>1. Solves(f)
    BY <1>6
  <2>2. Solves(CHOOSE h : Solves(h))
    BY <2>1, Zenon
  <2> QED
    BY <2>2
<1> HIDE DEF product
<1>8. product[0] = 1 /\ \A i \in 1 .. N : product[i] = product[i - 1] * dims[i]
  <2>1. 0 \in 0 .. N /\ \A i \in 1 .. N : i \in 0 .. N /\ i # 0
    BY <1>1
  <2> QED
    BY <1>7, <2>1
<1> QED
  BY <1>2, <1>8

(* The number of elements of a tensor. *)
LEMMA ElemsIs ==
  ASSUME NEW dims \in Seq(Nat)
  PROVE  Elems(dims) \in Nat
<1> DEFINE N == Len(dims)
<1>1. N \in Nat /\ \A i \in 1 .. N : dims[i] \in Nat
  OBVIOUS
<1>2. PICK p : /\ Elems(dims) = p[N] /\ p[0] = 1
               /\ \A i \in 1 .. N : p[i] = p[i - 1] * dims[i]
  BY ElemsRecurs
<1> HIDE DEF N
<1>3. ASSUME NEW some \in {n \in 0 .. N : p[n] \notin Nat} PROVE FALSE
  <2> DEFINE Bad == {n \in 0 .. N : p[n] \notin Nat}
  <2>1. Bad \in SUBSET Nat /\ some \in Bad
    BY <1>3
  <2>2. PICK m \in Bad : \A k \in Bad : ~(k < m)
    <3> HIDE DEF Bad
    <3> QED
      BY <2>1, LeastOf, Zenon
  <2>3. m \in 0 .. N /\ p[m] \notin Nat
    OBVIOUS
  <2>4. m # 0
    BY <1>2, <2>3
  <2>5. m \in 1 .. N /\ m - 1 \in 0 .. N /\ m - 1 < m
    BY <1>1, <2>3, <2>4
  <2>6. p[m] = p[m - 1] * dims[m]
    BY <1>2, <2>5
  <2>7. p[m - 1] \in Nat
    BY <2>2, <2>5
  <2>8. PICK a \in Nat, b \in Nat : a = p[m - 1] /\ b = dims[m]
    BY <1>1, <2>5, <2>7
  <2>9. a * b \in Nat
    OBVIOUS
  <2> QED
    BY <2>3, <2>6, <2>8, <2>9
<1>4. N \in 0 .. N
  BY <1>1
<1> QED
  BY <1>2, <1>3, <1>4

LEMMA ElemsOfThree ==
  ASSUME NEW a \in Nat, NEW b \in Nat, NEW c \in Nat
  PROVE  Elems(<<a, b, c>>) \in Nat
<1>1. <<a, b, c>> \in Seq(Nat)
  OBVIOUS
<1> QED
  BY <1>1, ElemsIs, Zenon

(* A grid of tiles of both dimensions, of one, of none; the third has a    *)
(* threadgroup for each.                                                   *)
LEMMA TileGrid ==
  ASSUME NEW k, NEW a \in Nat, NEW b \in Nat, NEW c \in Nat,
         NEW p \in Nat \ {0}, NEW q \in Nat \ {0}
  PROVE  Covers(Launch(k, <<CeilDiv(a, p), CeilDiv(b, q), c>>, <<p, q, 1>>, <<a, b, c>>))
<1>1. (a - 1) \div p < CeilDiv(a, p) /\ (b - 1) \div q < CeilDiv(b, q) /\ (c - 1) \div 1 < c
  BY TilesReach, UnitsReach
<1> QED
  BY <1>1, GridCovers, SMT

LEMMA StripGrid ==
  ASSUME NEW k, NEW a \in Nat, NEW b \in Nat, NEW c \in Nat, NEW p \in Nat \ {0}
  PROVE  Covers(Launch(k, <<CeilDiv(a, p), b, c>>, <<p, 1, 1>>, <<a, b, c>>))
<1>1. (a - 1) \div p < CeilDiv(a, p) /\ (b - 1) \div 1 < b /\ (c - 1) \div 1 < c
  BY TilesReach, UnitsReach
<1> QED
  BY <1>1, GridCovers, SMT

LEMMA UnitGrid ==
  ASSUME NEW k, NEW a \in Nat, NEW b \in Nat, NEW c \in Nat
  PROVE  Covers(Launch(k, <<a, b, c>>, <<1, 1, 1>>, <<a, b, c>>))
<1>1. (a - 1) \div 1 < a /\ (b - 1) \div 1 < b /\ (c - 1) \div 1 < c
  BY UnitsReach
<1> QED
  BY <1>1, GridCovers, Zenon

(* Tensors keep their dimensions under the operations that keep them.      *)
LEMMA TensorIs ==
  ASSUME NEW dt, NEW dims, NEW val
  PROVE  Shape(Tensor(dt, dims, val), dims)
  BY DEF Shape, Tensor

LEMMA CallFine ==
  ASSUME NEW call, NEW dt, NEW dims, NEW val, NEW l,
         call.out = Tensor(dt, dims, val), call.launches = <<l>>, Covers(l)
  PROVE  Fine(call, dims)
<1>1. Writes(call)
  BY DEF Writes, S!Range
<1> QED
  BY <1>1, TensorIs DEF Fine

LEMMA ReshapeIs ==
  ASSUME NEW x, NEW old, Shape(x, old), NEW dims
  PROVE  Shape(Reshape(x, dims), dims)
  BY DEF Shape, Reshape

LEMMA CastIs ==
  ASSUME NEW x, NEW dims, Shape(x, dims), NEW dt, NEW name
  PROVE  Shape(ToDtype(x, dt), dims) /\ Shape(Op(x, name), dims)
  BY DEF Shape, ToDtype, Tensor, Op

(* candle's transposition of the first two axes, made contiguous. *)
LEMMA TransposeIs ==
  ASSUME NEW x, NEW a \in Nat, NEW b \in Nat, NEW c \in Nat, Shape(x, <<a, b, c>>)
  PROVE  Shape(Contiguous(Transpose01(x)), <<b, a, c>>)
<1> DEFINE d == <<a, b, c>>
           y == Transpose01(x)
<1>1. d \in Seq(Nat) /\ Len(d) = 3 /\ d[1] = a /\ d[2] = b /\ d[3] = c
  OBVIOUS
<1> HIDE DEF d
<1>2. SubSeq(d, 3, Len(d)) = <<c>>
  <2>1. SubSeq(d, 3, 3) = [i \in 1 .. 1 |-> d[i + 2]]
    BY <1>1
  <2>2. SubSeq(d, 3, 3) = [i \in 1 .. 1 |-> c]
    BY <1>1, <2>1
  <2>3. [i \in 1 .. 1 |-> c] = <<c>>
    BY Singleton
  <2> QED
    BY <1>1, <2>2, <2>3
<1>3. <<b, a>> \o <<c>> = <<b, a, c>>
  <2>1. <<b, a>> \in Seq(Nat) /\ <<c>> \in Seq(Nat) /\ <<b, a, c>> \in Seq(Nat)
    OBVIOUS
  <2>2. Len(<<b, a>>) = 2 /\ Len(<<c>>) = 1 /\ Len(<<b, a, c>>) = 3
    OBVIOUS
  <2>3. /\ Len(<<b, a, c>>) = Len(<<b, a>>) + Len(<<c>>)
        /\ \A i \in 1 .. Len(<<b, a>>) : <<b, a, c>>[i] = <<b, a>>[i]
        /\ \A i \in 1 .. Len(<<c>>) : <<b, a, c>>[Len(<<b, a>>) + i] = <<c>>[i]
    <3>1. \A i \in 1 .. 2 : i = 1 \/ i = 2
      OBVIOUS
    <3> QED
      BY <2>2, <3>1
  <2> QED
    BY <2>1, <2>3, JoinEqual, Zenon
<1>4. x.dims = d /\ DOMAIN x = {"dt", "dims", "cont", "off", "val"}
  BY DEF Shape, d
<1>5. y = [x EXCEPT !.dims = <<b, a, c>>, !.cont = FALSE]
  BY <1>1, <1>2, <1>3, <1>4 DEF Transpose01
<1>6. y.dims = <<b, a, c>> /\ y.cont = FALSE
  BY <1>4, <1>5
<1> HIDE DEF y
<1>7. Contiguous(y) = Tensor(y.dt, <<b, a, c>>, y.val)
  BY <1>6 DEF Contiguous
<1> QED
  BY <1>7, TensorIs, Zenon DEF y

(* Per kernel: the grid covers the output, whose dimensions follow from    *)
(* those of the input.                                                     *)
LEMMA PermuteFine ==
  ASSUME NEW x, NEW a \in Nat, NEW b \in Nat, NEW c \in Nat, Shape(x, <<a, b, c>>),
         NEW dt
  PROVE  Fine(run_permute_cast(x, dt), <<b, a, c>>)
<1> DEFINE call == run_permute_cast(x, dt)
<1>1. x.dims = <<a, b, c>> /\ Elems(<<a, b, c>>) \in Nat
  BY ElemsOfThree, Zenon DEF Shape
<1>2. call.launches = <<Linear(<<"permute_cast", x.dt, dt>>, Elems(<<a, b, c>>))>>
  BY <1>1 DEF run_permute_cast, Call
<1>3. call.out = Tensor(dt, <<b, a, c>>, Rounded(x, dt))
  BY <1>1 DEF run_permute_cast, Call
<1> HIDE DEF call
<1>4. Covers(Linear(<<"permute_cast", x.dt, dt>>, Elems(<<a, b, c>>)))
  BY <1>1, LinearCovers, Zenon
<1> QED
  BY <1>2, <1>3, <1>4, CallFine, Zenon DEF call

LEMMA CastToFine ==
  ASSUME NEW x, NEW a \in Nat, NEW b \in Nat, NEW c \in Nat, Shape(x, <<a, b, c>>), NEW dt
  PROVE  Fine(cast_to(x, dt), <<a, b, c>>)
<1> DEFINE row == Reshape(x, <<1, 1, Elems(x.dims)>>)
           call == run_permute_cast(row, dt)
<1>1. x.dims = <<a, b, c>> /\ Elems(<<a, b, c>>) \in Nat /\ 1 \in Nat
  BY ElemsOfThree, Zenon DEF Shape
<1>2. Shape(row, <<1, 1, Elems(<<a, b, c>>)>>)
  BY <1>1, ReshapeIs, Zenon
<1> HIDE DEF row
<1>3. Fine(call, <<1, 1, Elems(<<a, b, c>>)>>)
  BY <1>1, <1>2, PermuteFine, Zenon
<1>4. "out" \in DOMAIN call /\ "launches" \in DOMAIN call
  BY DEF run_permute_cast, Call
<1> HIDE DEF call
<1>5. cast_to(x, dt) = [call EXCEPT !.out = Reshape(@, x.dims)]
  BY DEF cast_to, call, row
<1>6. cast_to(x, dt).out = Reshape(call.out, <<a, b, c>>) /\ cast_to(x, dt).launches = call.launches
  BY <1>1, <1>4, <1>5
<1>7. Shape(Reshape(call.out, <<a, b, c>>), <<a, b, c>>) /\ Writes(call)
  BY <1>3, ReshapeIs, Zenon DEF Fine
<1> QED
  BY <1>6, <1>7 DEF Fine, Writes

LEMMA RopeFine ==
  ASSUME NEW x, NEW a \in Nat, NEW b \in Nat, NEW c \in Nat, Shape(x, <<a, b, c>>),
         NEW rows, NEW from, NEW nrot, NEW dt
  PROVE  Fine(run_rope(x, rows, from, nrot, dt), <<a, b, c>>)
<1> DEFINE call == run_rope(x, rows, from, nrot, dt)
<1>1. x.dims = <<a, b, c>> /\ Elems(<<a, b, c>>) \in Nat
  BY ElemsOfThree, Zenon DEF Shape
<1>2. call.launches = <<Linear(<<"rope", dt>>, Elems(<<a, b, c>>))>>
  BY <1>1 DEF run_rope, Call
<1>3. call.out = Tensor(dt, <<a, b, c>>, x.val \o <<"rope">> \o (IF dt = "f16" THEN <<"f16">> ELSE <<>>))
  BY <1>1 DEF run_rope, Call
<1> HIDE DEF call
<1>4. Covers(Linear(<<"rope", dt>>, Elems(<<a, b, c>>)))
  BY <1>1, LinearCovers, Zenon
<1> QED
  BY <1>2, <1>3, <1>4, CallFine, Zenon DEF call

LEMMA AttnGateFine ==
  ASSUME NEW x, NEW a \in Nat, NEW b \in Nat, NEW c \in Nat, Shape(x, <<a, b, c>>),
         NEW gate
  PROVE  Fine(run_attn_gate(x, gate), <<a, b, c>>)
<1> DEFINE call == run_attn_gate(x, gate)
<1>1. x.dims = <<a, b, c>> /\ Elems(<<a, b, c>>) \in Nat
  BY ElemsOfThree, Zenon DEF Shape
<1>2. call.launches = <<Linear(<<"attn_gate", x.dt>>, Elems(<<a, b, c>>))>>
  BY <1>1 DEF run_attn_gate, Call
<1>3. call.out = Tensor("f32", <<a, b, c>>, x.val \o gate.val \o <<"softplus", "gate">>)
  BY <1>1 DEF run_attn_gate, Call
<1> HIDE DEF call
<1>4. Covers(Linear(<<"attn_gate", x.dt>>, Elems(<<a, b, c>>)))
  BY <1>1, LinearCovers, Zenon
<1> QED
  BY <1>2, <1>3, <1>4, CallFine, Zenon DEF call

LEMMA SiluMulFine ==
  ASSUME NEW x, NEW a \in Nat, NEW b \in Nat, NEW c \in Nat, Shape(x, <<a, b, c>>),
         NEW up
  PROVE  Fine(run_silu_mul(x, up), <<a, b, c>>)
<1> DEFINE call == run_silu_mul(x, up)
<1>1. x.dims = <<a, b, c>> /\ Elems(<<a, b, c>>) \in Nat
  BY ElemsOfThree, Zenon DEF Shape
<1>2. call.launches = <<Linear(<<"silu_mul">>, Elems(<<a, b, c>>))>>
  BY <1>1 DEF run_silu_mul, Call
<1>3. call.out = Tensor("f32", <<a, b, c>>, x.val \o <<"silu">> \o up.val \o <<"mul">>)
  BY <1>1 DEF run_silu_mul, Call
<1> HIDE DEF call
<1>4. Covers(Linear(<<"silu_mul">>, Elems(<<a, b, c>>)))
  BY <1>1, LinearCovers, Zenon
<1> QED
  BY <1>2, <1>3, <1>4, CallFine, Zenon DEF call

LEMMA FlashFine ==
  ASSUME NEW q, NEW a \in Nat, NEW b \in Nat, NEW c \in Nat, Shape(q, <<a, b, c>>),
         NEW k, NEW v, NEW from, NEW koff, NEW window
  PROVE  Fine(run_flash_attn(q, k, v, from, koff, window), <<a, b, c>>)
<1> DEFINE call == run_flash_attn(q, k, v, from, koff, window)
           l == Launch(<<"flash">>, <<CeilDiv(b, 32), a, 1>>, <<32, 1, 1>>, <<b, a, 1>>)
<1>1. q.dims = <<a, b, c>> /\ q.dims[1] = a /\ q.dims[2] = b
  BY DEF Shape
<1>2. call.launches = <<l>>
  BY <1>1 DEF run_flash_attn, Call
<1>3. call.out = Tensor("f32", <<a, b, c>>, q.val \o k.val \o v.val \o <<"attend">>)
  BY <1>1 DEF run_flash_attn, Call
<1>4. Covers(l)
  BY StripGrid
<1> HIDE DEF call, l
<1> QED
  BY <1>2, <1>3, <1>4, CallFine, Zenon DEF call

LEMMA CombineFine ==
  ASSUME NEW x, NEW a \in Nat, NEW b \in Nat, NEW c \in Nat, Shape(x, <<a, b, c>>),
         NEW l2, NEW weights
  PROVE  Fine(run_combine(x, l2, weights), <<a, c>>)
<1> DEFINE kernel == IF l2 = NoL2 THEN <<"combine">> ELSE <<"combine_rescale">>
           val == x.val \o (IF l2 = NoL2 THEN <<>> ELSE <<"rescale">>) \o <<"weigh", "sum">>
           call == run_combine(x, l2, weights)
<1>1. x.dims[1] = a /\ x.dims[2] = b /\ x.dims[3] = c
  BY DEF Shape
<1>2. PICK n \in Nat : n = a * c
  OBVIOUS
<1> DEFINE l == Launch(kernel, <<n, 1, 1>>, <<1, 1, 1>>, <<n, 1, 1>>)
<1>3. call.launches = <<l>>
  BY <1>1, <1>2 DEF run_combine, Call
<1>4. call.out = Tensor("f32", <<a, c>>, val)
  BY <1>1 DEF run_combine, Call
<1> HIDE DEF kernel, val, call
<1>5. Covers(l)
  BY UnitGrid
<1> HIDE DEF l
<1> QED
  BY <1>3, <1>4, <1>5, CallFine, Zenon DEF call

(* A matrix product without a launch of laguna's own. *)
LEMMA QLinearFine ==
  ASSUME NEW w, NEW x, NEW dims, Shape(x, dims)
  PROVE  Fine(QLinear(w, x), <<dims[1], w.n_out>>)
<1> DEFINE y == [Contiguous(x) EXCEPT !.off = 0]
           val == (IF y.off = 0 THEN y.val ELSE <<"wrong rows">>) \o <<w.name>>
           t == Tensor("f32", <<dims[1], w.n_out>>, val)
<1>1. y.dims = dims
  BY DEF Shape, Contiguous, Tensor
<1>2. QLinear(w, x) = Candle(t)
  BY <1>1, Zenon DEF QLinear, QMatMul
<1> HIDE DEF val
<1>3. Shape(t, <<dims[1], w.n_out>>)
  BY TensorIs, Zenon
<1> HIDE DEF t
<1> QED
  BY <1>2, <1>3, CandleIs DEF Fine

LEMMA F16Fine ==
  ASSUME NEW switches, NEW w, NEW x, NEW n \in Nat, NEW m \in Nat, x.dims[1] = n, w.n_out = m
  PROVE  Fine(run_matmul_f16(switches, w, x), <<n, m>>)
<1> DEFINE kernel == IF n > F16_MM_MIN_SEQ THEN F16MmKernel(switches) ELSE <<"mul_mv_f16">>
           staged == IF kernel = <<"mul_mm_f16_t">> THEN <<"f16">> ELSE <<>>
           wide == Launch(kernel, <<CeilDiv(n, 32), CeilDiv(m, 64), 1>>, <<32, 64, 1>>, <<n, m, 1>>)
           narrow == Launch(kernel, <<CeilDiv(m, 2), n, 1>>, <<2, 1, 1>>, <<m, n, 1>>)
           l == IF n > F16_MM_MIN_SEQ THEN wide ELSE narrow
           call == run_matmul_f16(switches, w, x)
<1>1. call.launches = <<l>>
  BY DEF run_matmul_f16, Call
<1>2. call.out = Tensor("f32", <<n, m>>, x.val \o staged \o <<w.name>>)
  BY DEF run_matmul_f16, Call
<1> HIDE DEF call, kernel, staged
<1>3. Covers(wide)
  BY TileGrid
<1>4. Covers(narrow)
  BY StripGrid
<1>5. Covers(l)
  BY <1>3, <1>4
<1> HIDE DEF l
<1> QED
  BY <1>1, <1>2, <1>5, CallFine, Zenon DEF call

LEMMA Q8Fine ==
  ASSUME NEW w, NEW x, NEW n \in Nat, NEW m \in Nat, x.dims[1] = n, w.n_out = m
  PROVE  Fine(run_matmul_q8(w, x), <<n, m>>)
<1> DEFINE l == Launch(<<"mul_mv_q8_0_attn">>, <<CeilDiv(m, 2), n, 1>>, <<2, 1, 1>>, <<m, n, 1>>)
           call == run_matmul_q8(w, x)
<1>1. call.launches = <<l>>
  BY DEF run_matmul_q8, Call
<1>2. call.out = Tensor("f32", <<n, m>>, x.val \o <<w.name>>)
  BY DEF run_matmul_q8, Call
<1> HIDE DEF call
<1>3. Covers(l)
  BY StripGrid
<1> HIDE DEF l
<1> QED
  BY <1>1, <1>2, <1>3, CallFine, Zenon DEF call

(* The decode mat-vec of the output head. *)
LEMMA HeadFine ==
  ASSUME NEW w, NEW x, NEW n \in Nat, NEW m \in Nat, x.dims[1] = n, w.n_out = m,
         mv_vendored_supported(w.dt)
  PROVE  Fine(mul_mv(w, x), <<n, m>>)
<1> DEFINE rows == MvVendoredRows(w.dt)
           l == Launch(<<"mul_mv_v", w.dt>>, <<CeilDiv(m, rows), n, 1>>, <<rows, 1, 1>>, <<m, n, 1>>)
           call == mul_mv(w, x)
<1>1. call.launches = <<l>>
  BY DEF mul_mv, Call
<1>2. call.out = Tensor("f32", <<n, m>>, x.val \o <<w.name>>)
  BY DEF mul_mv, Call
<1>3. rows \in Nat \ {0}
  BY DEF MvVendoredRows, mv_vendored_supported, MmDtypes
<1> HIDE DEF call, rows
<1>4. Covers(l)
  BY <1>3, StripGrid
<1> HIDE DEF l
<1> QED
  BY <1>1, <1>2, <1>4, CallFine, Zenon DEF call

(* The matrix-vector kernels of the experts. *)
LEMMA MvIdFine ==
  ASSUME NEW switches, NEW stack, NEW x, NEW ids, NEW n \in Nat, NEW k \in Nat, NEW m \in Nat,
         x.dims[1] = n, ids.dims[2] = k, stack.n_out = m
  PROVE  Fine(mul_mv_id(switches, stack, x, ids), <<n, k, m>>)
<1> DEFINE own == ~switches.MV_CLASSIC /\ mv_vendored_supported(stack.dt)
           rows == IF own THEN MvVendoredRows(stack.dt) ELSE MvAlign(stack.dt)
           kernel == IF own THEN <<"mul_mv_id_v", stack.dt>> ELSE <<"mul_mv_id", stack.dt>>
           call == mul_mv_id(switches, stack, x, ids)
<1>1. PICK slots \in Nat : slots = k * n
  OBVIOUS
<1> DEFINE l == Launch(kernel, <<CeilDiv(m, rows), 1, slots>>, <<rows, 1, 1>>, <<m, 1, slots>>)
<1>2. call.launches = <<l>>
  BY <1>1 DEF mul_mv_id, Call
<1>3. call.out = Tensor("f32", <<n, k, m>>, x.val \o <<>> \o <<stack.name>>)
  BY DEF mul_mv_id, Call, RunOut
<1>4. rows \in Nat \ {0}
  BY DEF MvVendoredRows, MvAlign, mv_vendored_supported, MmDtypes
<1> HIDE DEF call, rows, kernel
<1>5. Covers(l)
  BY <1>4, StripGrid
<1> HIDE DEF l
<1> QED
  BY <1>2, <1>3, <1>5, CallFine, Zenon DEF call

(* The grouped matmul of the experts. *)
LEMMA MmIdFine ==
  ASSUME NEW variant, NEW stack, NEW x, NEW ids, NEW scratch,
         NEW n \in Nat, NEW k \in Nat, NEW m \in Nat, NEW e \in Nat,
         x.dims[1] = n, ids.dims[2] = k, stack.n_out = m, stack.n_expert = e
  PROVE  Fine(mul_mm_id_shared(variant, stack, x, ids, scratch), <<n, k, m>>)
<1> DEFINE kernel == <<"mul_mm_id", stack.dt, Suffix(variant)>>
           l == Launch(kernel, <<CeilDiv(n, 32), CeilDiv(m, 64), e>>, <<32, 64, 1>>, <<n, m, e>>)
           staged == IF Suffix(variant) \in {"_t", ""} THEN <<"f16">> ELSE <<>>
           call == mul_mm_id_shared(variant, stack, x, ids, scratch)
<1>1. call.launches = <<l>>
  BY DEF mul_mm_id_shared, Call, MmLaunch
<1>2. call.out = Tensor("f32", <<n, k, m>>, x.val \o staged \o <<stack.name>>)
  BY DEF mul_mm_id_shared, Call, RunOut
<1> HIDE DEF call, staged, kernel
<1>3. Covers(l)
  BY TileGrid
<1> HIDE DEF l
<1> QED
  BY <1>1, <1>2, <1>3, CallFine, Zenon DEF call

(* The map of the experts is one threadgroup, with a thread for each.      *)
LEMMA Map0Writes ==
  ASSUME NEW n \in Nat \ {0}, NEW ids, NEW routing
  PROVE  Writes(prepare_map0(n, ids, routing))
<1> DEFINE l == Launch(<<"map0", "">>, <<1, 1, 1>>, <<n, 1, 1>>, <<n, 1, 1>>)
<1>1. prepare_map0(n, ids, routing).launches = <<l>>
  BY DEF prepare_map0, Call
<1>2. (n - 1) \div n = 0 /\ (1 - 1) \div 1 = 0
  OBVIOUS
<1>3. (n - 1) \div n < 1 /\ (1 - 1) \div 1 < 1
  BY <1>2
<1>4. Covers(l)
  BY <1>3, GridCovers, Zenon
<1> HIDE DEF l
<1> QED
  BY <1>1, <1>4 DEF Writes, S!Range

-----------------------------------------------------------------------------
(* The tensors of a block, step by step. *)

BlockFields ==
  {"x", "g", "q", "k", "v", "attn", "gate", "up", "act", "l2", "down", "y"}

(* The block in progress holds what its next step takes, in the dimensions *)
(* that step expects.                                                      *)
Blocks ==
  /\ DOMAIN r = BlockFields
  /\ pc \notin {"begin", "failed", "done"} => r.x = Hidden
  /\ pc = "permute" =>
       /\ Shape(r.q, <<seq, NHead(il), HeadDim>>)
       /\ Shape(r.k, <<seq, Config.n_kv_head, HeadDim>>)
       /\ Shape(r.v, <<seq, Config.n_kv_head, HeadDim>>)
  /\ pc \in {"rotate", "append"} =>
       /\ Shape(r.q, <<NHead(il), seq, HeadDim>>)
       /\ Shape(r.k, <<Config.n_kv_head, seq, HeadDim>>)
       /\ Shape(r.v, <<Config.n_kv_head, seq, HeadDim>>)
  /\ pc = "attend" =>
       /\ Shape(r.q, <<NHead(il), seq, HeadDim>>)
       /\ Shape(r.k, <<Config.n_kv_head, Len(ViewPositions), HeadDim>>)
       /\ Shape(r.v, <<Config.n_kv_head, Len(ViewPositions), HeadDim>>)
  /\ pc \in {"gate", "output"} => Shape(r.attn, <<NHead(il), seq, HeadDim>>)
  /\ pc = "activate" =>
       /\ Shape(r.gate, <<seq, Config.n_expert_used, Config.expert_ff>>)
       /\ Shape(r.up, <<seq, Config.n_expert_used, Config.expert_ff>>)
  /\ pc = "down" => Shape(r.act, <<seq, Config.n_expert_used, Config.expert_ff>>)
  /\ pc = "combine" => Shape(r.down, <<seq, Config.n_expert_used, Config.hidden>>)

(* Everything the last step launched covers its output.                    *)
Written == \A l \in launched : Covers(l)

(* What a step that stays in its layer leaves as it was.                   *)
LEMMA SameTerms ==
  ASSUME case' = case, il' = il
  PROVE  /\ seq' = seq /\ pos' = pos /\ sw' = sw
         /\ NHead(il)' = NHead(il)
         /\ Hidden' = Hidden
         /\ ViewPositions' = ViewPositions
<1>1. seq' = seq /\ pos' = pos /\ sw' = sw
  BY DEF seq, pos, sw
<1>2. NHead(il)' = NHead(il)
  BY DEF NHead
<1>3. Hidden' = Hidden
  BY <1>1 DEF Hidden
<1>4. ViewPositions' = ViewPositions
  BY <1>1 DEF ViewPositions, NewPositions, Stored, Window, IsFullAttn
<1> QED
  BY <1>1, <1>2, <1>3, <1>4

(* An abandoned forward keeps the tensors it had. *)
LEMMA BlocksFail ==
  ASSUME Blocks, pc' = "failed", r' = r
  PROVE  Blocks'
  BY DEF Blocks

LEMMA WritesAll ==
  ASSUME NEW a, Writes(a)
  PROVE  /\ \A n \in DOMAIN <<a>> : Writes(<<a>>[n])
         /\ \A b : Writes(b) => \A n \in DOMAIN <<a, b>> : Writes(<<a, b>>[n])
         /\ \A b, c : Writes(b) /\ Writes(c) => \A n \in DOMAIN <<a, b, c>> : Writes(<<a, b, c>>[n])
         /\ \A b, c, d : Writes(b) /\ Writes(c) /\ Writes(d) =>
              \A n \in DOMAIN <<a, b, c, d>> : Writes(<<a, b, c, d>>[n])
<1>1. \A n \in DOMAIN <<a>> : Writes(<<a>>[n])
  OBVIOUS
<1>2. ASSUME NEW b, Writes(b), NEW n \in DOMAIN <<a, b>>
      PROVE  Writes(<<a, b>>[n])
  <2>1. n = 1 \/ n = 2
    OBVIOUS
  <2> QED
    BY <1>2, <2>1
<1>3. ASSUME NEW b, NEW c, Writes(b), Writes(c), NEW n \in DOMAIN <<a, b, c>>
      PROVE  Writes(<<a, b, c>>[n])
  <2>1. n = 1 \/ n = 2 \/ n = 3
    OBVIOUS
  <2> QED
    BY <1>3, <2>1
<1>4. ASSUME NEW b, NEW c, NEW d, Writes(b), Writes(c), Writes(d), NEW n \in DOMAIN <<a, b, c, d>>
      PROVE  Writes(<<a, b, c, d>>[n])
  <2>1. n = 1 \/ n = 2 \/ n = 3 \/ n = 4
    OBVIOUS
  <2> QED
    BY <1>4, <2>1
<1> QED
  BY <1>1, <1>2, <1>3, <1>4

-----------------------------------------------------------------------------
(* A projection of the attention, on each of its paths. *)
LEMMA ProjFine ==
  ASSUME Types, NEW w, NEW x, NEW m \in Nat, NEW c, Shape(x, <<seq, c>>), w.n_out = m
  PROVE  Fine(Proj(w, x), <<seq, m>>)
<1>1. x.dims[1] = seq /\ seq \in Nat
  BY CaseFacts DEF Shape
<1>2. Fine(run_matmul_f16(sw, w, x), <<seq, m>>)
  BY <1>1, F16Fine, Zenon
<1>3. Fine(run_matmul_q8(w, x), <<seq, m>>)
  BY <1>1, Q8Fine, Zenon
<1>4. Fine(QLinear(w, x), <<seq, m>>)
  <2>1. Fine(QLinear(w, x), <<<<seq, c>>[1], w.n_out>>)
    BY QLinearFine, Zenon
  <2> QED
    BY <2>1
<1>5. Proj(w, x) \in {QLinear(w, x), run_matmul_q8(w, x), run_matmul_f16(sw, w, x)}
  BY DEF Proj
<1> QED
  BY <1>2, <1>3, <1>4, <1>5

LEMMA HeadsShape ==
  ASSUME NEW c, NEW old, Shape(c.out, old), NEW n, NEW norm
  PROVE  Shape(Heads(c, n, norm), <<seq, n, HeadDim>>)
<1>1. Shape(Reshape(c.out, <<seq, n, HeadDim>>), <<seq, n, HeadDim>>)
  BY ReshapeIs, Zenon
<1>2. Shape(Op(Reshape(c.out, <<seq, n, HeadDim>>), norm), <<seq, n, HeadDim>>)
  BY <1>1, CastIs, Zenon
<1> QED
  BY <1>1, <1>2 DEF Heads

LEMMA HeadFirstFine ==
  ASSUME Types, NEW x, NEW n \in Nat, Shape(x, <<seq, n, HeadDim>>), NEW dt
  PROVE  Fine(HeadFirst(x, dt), <<n, seq, HeadDim>>)
<1>1. seq \in Nat /\ HeadDim \in Nat
  BY CaseFacts
<1>2. CASE seq = 1
  <2>1. x.dims[2] = n
    BY DEF Shape
  <2>2. Shape(Reshape(x, <<n, 1, HeadDim>>), <<n, seq, HeadDim>>)
    BY <1>2, ReshapeIs, Zenon
  <2>3. HeadFirst(x, dt) = Candle(Reshape(x, <<n, 1, HeadDim>>))
    BY <1>2, <2>1 DEF HeadFirst
  <2> QED
    BY <2>2, <2>3, CandleIs DEF Fine
<1>3. CASE seq # 1 /\ FusedGlue
  <2>1. HeadFirst(x, dt) = run_permute_cast(x, dt)
    BY <1>3 DEF HeadFirst
  <2> QED
    BY <1>1, <2>1, PermuteFine, Zenon
<1>4. CASE seq # 1 /\ ~FusedGlue
  <2>1. HeadFirst(x, dt) = Candle(Contiguous(Transpose01(x)))
    BY <1>4 DEF HeadFirst
  <2>2. Shape(Contiguous(Transpose01(x)), <<n, seq, HeadDim>>)
    BY <1>1, TransposeIs, Zenon
  <2> QED
    BY <2>1, <2>2, CandleIs DEF Fine
<1> QED
  BY <1>2, <1>3, <1>4

LEMMA RotateFine ==
  ASSUME Types, NEW x, NEW n \in Nat, Shape(x, <<n, seq, HeadDim>>), NEW dt
  PROVE  Fine(RotateBy(x, dt), <<n, seq, HeadDim>>)
<1>1. seq \in Nat /\ HeadDim \in Nat
  BY CaseFacts
<1> DEFINE table == RopeTable(Kind(il))
           fused == run_rope(x, table.rows, pos, table.n_rot, dt)
           plain == Candle(ToDtype(Op(x, "rope"), dt))
<1>2. Fine(fused, <<n, seq, HeadDim>>)
  BY <1>1, RopeFine, Zenon
<1>3. Fine(plain, <<n, seq, HeadDim>>)
  <2>1. Shape(ToDtype(Op(x, "rope"), dt), <<n, seq, HeadDim>>)
    BY CastIs, Zenon
  <2> QED
    BY <2>1, CandleIs DEF Fine
<1>4. RotateBy(x, dt) = fused \/ RotateBy(x, dt) = plain
  BY Zenon DEF RotateBy
<1> QED
  BY <1>2, <1>3, <1>4, Zenon

LEMMA CastF16Fine ==
  ASSUME NEW x, NEW a \in Nat, NEW b \in Nat, NEW c \in Nat, Shape(x, <<a, b, c>>)
  PROVE  Fine(CastF16(x), <<a, b, c>>)
<1>1. Fine(cast_to(x, "f16"), <<a, b, c>>)
  BY CastToFine, Zenon
<1>2. Fine(Candle(x), <<a, b, c>>)
  BY CandleIs DEF Fine
<1>3. Fine(Candle(ToDtype(x, "f16")), <<a, b, c>>)
  <2>1. Shape(ToDtype(x, "f16"), <<a, b, c>>)
    BY CastIs, Zenon
  <2> QED
    BY <2>1, CandleIs DEF Fine
<1> QED
  BY <1>1, <1>2, <1>3, Zenon DEF CastF16

-----------------------------------------------------------------------------
(* The steps of the attention keep the tensors in shape, and cover them.   *)

LEMMA BlocksProject ==
  ASSUME Types, Blocks, Project
  PROVE  Blocks' /\ Written'
<1> DEFINE g == Proj(Weight("g", NHead(il), Config.hidden), r.x)
           q == Proj(Weight("q", NHead(il) * HeadDim, Config.hidden), r.x)
           k == Proj(Weight("k", Config.n_kv_head * HeadDim, Config.hidden), r.x)
           v == Proj(Weight("v", Config.n_kv_head * HeadDim, Config.hidden), r.x)
           regs == [r EXCEPT !.g = g.out, !.q = Heads(q, NHead(il), "q_norm"),
                             !.k = Heads(k, Config.n_kv_head, "k_norm"),
                             !.v = Heads(v, Config.n_kv_head, "")]
<1>1. Do(<<g, q, k, v>>, regs, "permute") /\ case' = case /\ il' = il /\ pc = "project"
  BY Zenon DEF Project
<1>2. DOMAIN r = BlockFields /\ Shape(r.x, <<seq, Config.hidden>>) /\ r.x = Hidden
  BY <1>1, TensorIs DEF Blocks, Hidden
<1>3. ASSUME NEW name, NEW m \in Nat
      PROVE  Fine(Proj(Weight(name, m, Config.hidden), r.x), <<seq, m>>)
  <2>1. Weight(name, m, Config.hidden).n_out = m
    BY DEF Weight
  <2> QED
    BY <1>2, <2>1, ProjFine, Zenon
<1>4. NHead(il) \in Nat /\ NHead(il) * HeadDim \in Nat /\ Config.n_kv_head * HeadDim \in Nat
  <2>1. NHead(il) \in Nat /\ HeadDim \in Nat /\ Config.n_kv_head \in Nat
    BY CaseFacts, ConfigAssumption
  <2> QED
    BY <2>1
<1>5. Writes(g) /\ Writes(q) /\ Writes(k) /\ Writes(v)
  BY <1>3, <1>4, Zenon DEF Fine
<1>6. /\ Shape(Heads(q, NHead(il), "q_norm"), <<seq, NHead(il), HeadDim>>)
      /\ Shape(Heads(k, Config.n_kv_head, "k_norm"), <<seq, Config.n_kv_head, HeadDim>>)
      /\ Shape(Heads(v, Config.n_kv_head, ""), <<seq, Config.n_kv_head, HeadDim>>)
  <2>1. \E old : Shape(q.out, old)
    BY <1>3, <1>4, Zenon DEF Fine
  <2>2. \E old : Shape(k.out, old)
    BY <1>3, <1>4, Zenon DEF Fine
  <2>3. \E old : Shape(v.out, old)
    BY <1>3, <1>4, Zenon DEF Fine
  <2> HIDE DEF q, k, v
  <2> QED
    BY <2>1, <2>2, <2>3, HeadsShape, Zenon
<1> HIDE DEF g, q, k, v
<1>7. Written'
  <2>1. \A n \in DOMAIN <<g, q, k, v>> : Writes(<<g, q, k, v>>[n])
    BY <1>5, WritesAll, Zenon
  <2> HIDE DEF regs
  <2> QED
    BY <1>1, <2>1, DoWrites, Zenon DEF Written
<1>8. Blocks'
  <2>1. CASE pc' = "failed" /\ r' = r
    BY <2>1, BlocksFail
  <2>2. CASE pc' = "permute" /\ r' = regs
    <3>1. /\ DOMAIN r' = BlockFields /\ r'.x = r.x
          /\ r'.q = Heads(q, NHead(il), "q_norm") /\ r'.k = Heads(k, Config.n_kv_head, "k_norm")
          /\ r'.v = Heads(v, Config.n_kv_head, "")
      BY <1>2, <2>2 DEF BlockFields
    <3>2. seq' = seq /\ NHead(il)' = NHead(il) /\ Hidden' = Hidden
      BY <1>1, SameTerms
    <3> QED
      BY <1>2, <1>6, <2>2, <3>1, <3>2 DEF Blocks
  <2> HIDE DEF regs
  <2> QED
    BY <1>1, <2>1, <2>2, DoLeads, Zenon
<1> QED
  BY <1>7, <1>8

LEMMA BlocksPermute ==
  ASSUME Types, Blocks, Permute
  PROVE  Blocks' /\ Written'
<1> DEFINE q == HeadFirst(r.q, "f32")
           k == HeadFirst(r.k, "f32")
           v == HeadFirst(r.v, "f16")
           regs == [r EXCEPT !.q = q.out, !.k = k.out, !.v = v.out]
<1>1. Do(<<q, k, v>>, regs, "rotate") /\ case' = case /\ il' = il /\ pc = "permute"
  BY Zenon DEF Permute
<1>2. /\ DOMAIN r = BlockFields /\ r.x = Hidden
      /\ Shape(r.q, <<seq, NHead(il), HeadDim>>)
      /\ Shape(r.k, <<seq, Config.n_kv_head, HeadDim>>)
      /\ Shape(r.v, <<seq, Config.n_kv_head, HeadDim>>)
  BY <1>1 DEF Blocks
<1>3. NHead(il) \in Nat /\ Config.n_kv_head \in Nat
  BY CaseFacts, ConfigAssumption
<1>4. /\ Fine(q, <<NHead(il), seq, HeadDim>>)
      /\ Fine(k, <<Config.n_kv_head, seq, HeadDim>>)
      /\ Fine(v, <<Config.n_kv_head, seq, HeadDim>>)
  BY <1>2, <1>3, HeadFirstFine, Zenon
<1> HIDE DEF q, k, v
<1>5. Written'
  <2>1. \A n \in DOMAIN <<q, k, v>> : Writes(<<q, k, v>>[n])
    BY <1>4, WritesAll, Zenon DEF Fine
  <2> HIDE DEF regs
  <2> QED
    BY <1>1, <2>1, DoWrites, Zenon DEF Written
<1>6. Blocks'
  <2>1. CASE pc' = "failed" /\ r' = r
    BY <2>1, BlocksFail
  <2>2. CASE pc' = "rotate" /\ r' = regs
    <3>1. DOMAIN r' = BlockFields /\ r'.x = r.x /\ r'.q = q.out /\ r'.k = k.out /\ r'.v = v.out
      BY <1>2, <2>2 DEF BlockFields
    <3>2. seq' = seq /\ NHead(il)' = NHead(il) /\ Hidden' = Hidden
      BY <1>1, SameTerms
    <3> QED
      BY <1>2, <1>4, <2>2, <3>1, <3>2 DEF Blocks, Fine
  <2> HIDE DEF regs
  <2> QED
    BY <1>1, <2>1, <2>2, DoLeads, Zenon
<1> QED
  BY <1>5, <1>6

LEMMA BlocksRotate ==
  ASSUME Types, Blocks, Rotate
  PROVE  Blocks' /\ Written'
<1> DEFINE q == RotateBy(r.q, IF FusedGlue /\ seq = 1 /\ ~sw.SDPA_F32 THEN "f16" ELSE "f32")
           k == RotateBy(r.k, IF FusedGlue THEN "f16" ELSE "f32")
           regs == [r EXCEPT !.q = q.out, !.k = k.out]
<1>1. Do(<<q, k>>, regs, "append") /\ case' = case /\ il' = il /\ pc = "rotate"
  BY Zenon DEF Rotate
<1>2. /\ DOMAIN r = BlockFields /\ r.x = Hidden
      /\ Shape(r.q, <<NHead(il), seq, HeadDim>>)
      /\ Shape(r.k, <<Config.n_kv_head, seq, HeadDim>>)
      /\ Shape(r.v, <<Config.n_kv_head, seq, HeadDim>>)
  BY <1>1 DEF Blocks
<1>3. NHead(il) \in Nat /\ Config.n_kv_head \in Nat
  BY CaseFacts, ConfigAssumption
<1>4. Fine(q, <<NHead(il), seq, HeadDim>>) /\ Fine(k, <<Config.n_kv_head, seq, HeadDim>>)
  BY <1>2, <1>3, RotateFine, Zenon
<1> HIDE DEF q, k
<1>5. Written'
  <2>1. \A n \in DOMAIN <<q, k>> : Writes(<<q, k>>[n])
    BY <1>4, WritesAll, Zenon DEF Fine
  <2> HIDE DEF regs
  <2> QED
    BY <1>1, <2>1, DoWrites, Zenon DEF Written
<1>6. Blocks'
  <2>1. CASE pc' = "failed" /\ r' = r
    BY <2>1, BlocksFail
  <2>2. CASE pc' = "append" /\ r' = regs
    <3>1. DOMAIN r' = BlockFields /\ r'.x = r.x /\ r'.q = q.out /\ r'.k = k.out /\ r'.v = r.v
      BY <1>2, <2>2 DEF BlockFields
    <3>2. seq' = seq /\ NHead(il)' = NHead(il) /\ Hidden' = Hidden
      BY <1>1, SameTerms
    <3> QED
      BY <1>2, <1>4, <2>2, <3>1, <3>2 DEF Blocks, Fine
  <2> HIDE DEF regs
  <2> QED
    BY <1>1, <2>1, <2>2, DoLeads, Zenon
<1> QED
  BY <1>5, <1>6

LEMMA BlocksAppend ==
  ASSUME Types, Blocks, CacheAppend
  PROVE  Blocks' /\ Written'
<1> DEFINE k == Candle(ToDtype(r.k, "f16"))
           v == CastF16(r.v)
           View(x) == [Reshape(x, <<Config.n_kv_head, Len(ViewPositions), HeadDim>>)
                         EXCEPT !.cont = FALSE]
           regs == [r EXCEPT !.k = View(k.out), !.v = View(v.out)]
<1>1. Do(<<k, v>>, regs, "attend") /\ case' = case /\ il' = il /\ pc = "append"
  BY Zenon DEF CacheAppend
<1>2. /\ DOMAIN r = BlockFields /\ r.x = Hidden
      /\ Shape(r.q, <<NHead(il), seq, HeadDim>>)
      /\ Shape(r.k, <<Config.n_kv_head, seq, HeadDim>>)
      /\ Shape(r.v, <<Config.n_kv_head, seq, HeadDim>>)
  BY <1>1 DEF Blocks
<1>3. HeadDim \in Nat /\ seq \in Nat /\ Config.n_kv_head \in Nat
  BY CaseFacts, ConfigAssumption
<1>4. Fine(k, <<Config.n_kv_head, seq, HeadDim>>) /\ Fine(v, <<Config.n_kv_head, seq, HeadDim>>)
  <2>1. Shape(ToDtype(r.k, "f16"), <<Config.n_kv_head, seq, HeadDim>>)
    BY <1>2, CastIs, Zenon
  <2>2. Fine(v, <<Config.n_kv_head, seq, HeadDim>>)
    BY <1>2, <1>3, CastF16Fine, Zenon
  <2> QED
    BY <2>1, <2>2, CandleIs DEF Fine
<1> HIDE DEF k, v
<1>5. /\ Shape(View(k.out), <<Config.n_kv_head, Len(ViewPositions), HeadDim>>)
      /\ Shape(View(v.out), <<Config.n_kv_head, Len(ViewPositions), HeadDim>>)
  <2>1. ASSUME NEW x, Shape(x, <<Config.n_kv_head, seq, HeadDim>>)
        PROVE  Shape(View(x), <<Config.n_kv_head, Len(ViewPositions), HeadDim>>)
    BY <2>1 DEF Shape, Reshape
  <2> HIDE DEF View
  <2> QED
    BY <1>4, <2>1 DEF Fine
<1> HIDE DEF View
<1>6. Written'
  <2>1. \A n \in DOMAIN <<k, v>> : Writes(<<k, v>>[n])
    BY <1>4, WritesAll, Zenon DEF Fine
  <2> HIDE DEF regs
  <2> QED
    BY <1>1, <2>1, DoWrites, Zenon DEF Written
<1>7. Blocks'
  <2>1. CASE pc' = "failed" /\ r' = r
    BY <2>1, BlocksFail
  <2>2. CASE pc' = "attend" /\ r' = regs
    <3>1. /\ DOMAIN r' = BlockFields /\ r'.x = r.x /\ r'.q = r.q
          /\ r'.k = View(k.out) /\ r'.v = View(v.out)
      BY <1>2, <2>2 DEF BlockFields
    <3>2. seq' = seq /\ NHead(il)' = NHead(il) /\ Hidden' = Hidden /\ ViewPositions' = ViewPositions
      BY <1>1, SameTerms
    <3> QED
      BY <1>2, <1>5, <2>2, <3>1, <3>2 DEF Blocks
  <2> HIDE DEF regs
  <2> QED
    BY <1>1, <2>1, <2>2, DoLeads, Zenon
<1> QED
  BY <1>6, <1>7

(* The steps that leave the output of the attention.                       *)
LEMMA BlocksAttn ==
  ASSUME Types, Blocks, pc \notin {"begin", "failed", "done"}, case' = case, il' = il,
         NEW calls, NEW out, NEW next \in {"gate", "output"},
         Do(calls, [r EXCEPT !.attn = out], next),
         Shape(out, <<NHead(il), seq, HeadDim>>),
         \A n \in DOMAIN calls : Writes(calls[n])
  PROVE  Blocks' /\ Written'
<1> DEFINE regs == [r EXCEPT !.attn = out]
<1>1. Do(calls, regs, next)
  OBVIOUS
<1>2. DOMAIN r = BlockFields /\ r.x = Hidden
  BY DEF Blocks
<1>3. Written'
  <2> HIDE DEF regs
  <2> QED
    BY <1>1, DoWrites, Zenon DEF Written
<1>4. Blocks'
  <2>1. CASE pc' = "failed" /\ r' = r
    BY <2>1, BlocksFail
  <2>2. CASE pc' = next /\ r' = regs
    <3>1. DOMAIN r' = BlockFields /\ r'.x = r.x /\ r'.attn = out
      BY <1>2, <2>2 DEF BlockFields
    <3>2. seq' = seq /\ NHead(il)' = NHead(il) /\ Hidden' = Hidden
      BY SameTerms
    <3> QED
      BY <1>2, <2>2, <3>1, <3>2 DEF Blocks
  <2> HIDE DEF regs
  <2> QED
    BY <1>1, <2>1, <2>2, DoLeads, Zenon
<1> QED
  BY <1>3, <1>4

LEMMA SoftmaxFine ==
  ASSUME NEW q, NEW k, NEW v, NEW dt, NEW dims, Shape(q, dims)
  PROVE  Fine(Softmax(q, k, v, dt), dims)
<1> DEFINE call == Softmax(q, k, v, dt)
           val == q.val \o k.val \o v.val \o <<"attend">>
<1>1. call.launches = <<>>
  BY DEF Softmax, Call
<1>2. call.out = Tensor(dt, dims, IF dt = "f16" THEN val \o <<"f16">> ELSE val)
  BY DEF Softmax, Call, Shape
<1> HIDE DEF call, val
<1>3. Shape(call.out, dims)
  BY <1>2, TensorIs, Zenon
<1>4. Writes(call)
  BY <1>1 DEF Writes, S!Range
<1> QED
  BY <1>3, <1>4 DEF Fine, call

LEMMA BlocksAttend ==
  ASSUME Types, Blocks, AttendFlash \/ AttendSdpa \/ AttendManual
  PROVE  Blocks' /\ Written'
<1> DEFINE D == <<NHead(il), seq, HeadDim>>
<1>1. pc = "attend" /\ case' = case /\ il' = il
  BY DEF AttendFlash, AttendSdpa, AttendManual
<1>2. /\ Shape(r.q, D)
      /\ Shape(r.k, <<Config.n_kv_head, Len(ViewPositions), HeadDim>>)
      /\ Shape(r.v, <<Config.n_kv_head, Len(ViewPositions), HeadDim>>)
  BY <1>1 DEF Blocks
<1>3. seq \in Nat /\ HeadDim \in Nat /\ NHead(il) \in Nat
  BY CaseFacts
<1>4. pc \notin {"begin", "failed", "done"} /\ "gate" \in {"gate", "output"}
  BY <1>1
<1>5. ASSUME NEW a, Fine(a, D), Do(<<a>>, [r EXCEPT !.attn = a.out], "gate")
      PROVE  Blocks' /\ Written'
  <2>1. \A n \in DOMAIN <<a>> : Writes(<<a>>[n])
    BY <1>5, WritesAll, Zenon DEF Fine
  <2> QED
    BY <1>1, <1>4, <1>5, <2>1, BlocksAttn, Zenon DEF Fine
<1>6. CASE AttendFlash
  <2> DEFINE c == FlashCall
             a == run_flash_attn(r.q, r.k, r.v, c.pos, c.koff, c.window)
  <2>1. Do(<<a>>, [r EXCEPT !.attn = a.out], "gate")
    BY <1>6, Zenon DEF AttendFlash
  <2>2. Fine(a, D)
    BY <1>2, <1>3, FlashFine, Zenon
  <2> HIDE DEF a
  <2> QED
    BY <1>5, <2>1, <2>2, Zenon
<1>7. ASSUME Do(<<Softmax(r.q, ToDtype(r.k, "f32"), ToDtype(r.v, "f32"), "f32")>>,
                [r EXCEPT !.attn = Softmax(r.q, ToDtype(r.k, "f32"), ToDtype(r.v, "f32"), "f32").out],
                "gate")
      PROVE  Blocks' /\ Written'
  <2>1. Fine(Softmax(r.q, ToDtype(r.k, "f32"), ToDtype(r.v, "f32"), "f32"), D)
    BY <1>2, SoftmaxFine, Zenon
  <2> QED
    BY <1>5, <1>7, <2>1, Zenon
<1>8. ASSUME AttendSdpa, ~sw.SDPA_F32
      PROVE  Blocks' /\ Written'
  <2> DEFINE q == CastF16(r.q)
             a == Softmax(q.out, r.k, r.v, "f16")
             w == IF FusedGlue /\ seq = 1 THEN Candle(a.out)
                  ELSE IF FusedGlue THEN cast_to(a.out, "f32")
                  ELSE Candle(ToDtype(a.out, "f32"))
  <2>1. Do(<<q, a, w>>, [r EXCEPT !.attn = w.out], "gate")
    BY <1>8, Zenon DEF AttendSdpa
  <2>2. Fine(q, D)
    BY <1>2, <1>3, CastF16Fine, Zenon
  <2> HIDE DEF q
  <2>3. Fine(a, D)
    BY <2>2, SoftmaxFine, Zenon DEF Fine
  <2> HIDE DEF a
  <2>4. Fine(w, D)
    <3>1. Shape(a.out, D)
      BY <2>3 DEF Fine
    <3>2. Fine(Candle(a.out), D)
      BY <3>1, CandleIs DEF Fine
    <3>3. Fine(cast_to(a.out, "f32"), D)
      BY <1>3, <3>1, CastToFine, Zenon
    <3>4. Fine(Candle(ToDtype(a.out, "f32")), D)
      <4>1. Shape(ToDtype(a.out, "f32"), D)
        BY <3>1, CastIs, Zenon
      <4> QED
        BY <4>1, CandleIs DEF Fine
    <3> QED
      BY <3>2, <3>3, <3>4, Zenon
  <2> HIDE DEF w
  <2>5. \A n \in DOMAIN <<q, a, w>> : Writes(<<q, a, w>>[n])
    BY <2>2, <2>3, <2>4, WritesAll, Zenon DEF Fine
  <2>6. Shape(w.out, D)
    BY <2>4 DEF Fine
  <2> QED
    BY <1>1, <1>4, <2>1, <2>5, <2>6, BlocksAttn, Zenon
<1>9. ASSUME AttendSdpa, sw.SDPA_F32
      PROVE  Blocks' /\ Written'
  BY <1>7, <1>9, Zenon DEF AttendSdpa
<1>10. CASE AttendManual
  BY <1>7, <1>10, Zenon DEF AttendManual
<1> QED
  BY <1>6, <1>8, <1>9, <1>10, Zenon

LEMMA BlocksGate ==
  ASSUME Types, Blocks, Gate
  PROVE  Blocks' /\ Written'
<1> DEFINE D == <<NHead(il), seq, HeadDim>>
           fused == run_attn_gate(r.attn, r.g)
           plain == Candle(Tensor("f32", r.attn.dims, r.attn.val \o r.g.val \o <<"softplus", "gate">>))
           a == IF FusedGlue THEN fused ELSE plain
<1>1. /\ Do(<<a>>, [r EXCEPT !.attn = a.out], "output")
      /\ case' = case /\ il' = il /\ pc = "gate"
  BY Zenon DEF Gate
<1>2. Shape(r.attn, D) /\ r.attn.dims = D
  BY <1>1 DEF Blocks, Shape
<1>3. Fine(fused, D)
  <2>1. seq \in Nat /\ HeadDim \in Nat /\ NHead(il) \in Nat
    BY CaseFacts
  <2> QED
    BY <1>2, <2>1, AttnGateFine, Zenon
<1>4. Fine(plain, D)
  <2>1. \A val : Shape(Tensor("f32", r.attn.dims, val), D)
    BY <1>2, TensorIs, Zenon
  <2> QED
    BY <2>1, CandleIs DEF Fine
<1> HIDE DEF fused, plain
<1>5. Fine(a, D)
  BY <1>3, <1>4
<1> HIDE DEF a
<1>6. \A n \in DOMAIN <<a>> : Writes(<<a>>[n])
  BY <1>5, WritesAll, Zenon DEF Fine
<1>7. pc \notin {"begin", "failed", "done"} /\ "output" \in {"gate", "output"}
  BY <1>1
<1> QED
  BY <1>1, <1>5, <1>6, <1>7, BlocksAttn, Zenon DEF Fine

(* A step to a place where only the residual stream is needed.             *)
LEMMA BlocksOver ==
  ASSUME Types, Blocks, case' = case,
         NEW calls, NEW next \in {"ffn", "project", "head"},
         Do(calls, [r EXCEPT !.x = Hidden], next),
         \A n \in DOMAIN calls : Writes(calls[n])
  PROVE  Blocks' /\ Written'
<1> DEFINE regs == [r EXCEPT !.x = Hidden]
<1>1. Do(calls, regs, next) /\ DOMAIN r = BlockFields
  BY DEF Blocks
<1>2. Written'
  <2> HIDE DEF regs
  <2> QED
    BY <1>1, DoWrites, Zenon DEF Written
<1>3. Blocks'
  <2>1. CASE pc' = "failed" /\ r' = r
    BY <2>1, BlocksFail
  <2>2. CASE pc' = next /\ r' = regs
    <3>1. DOMAIN r' = BlockFields /\ r'.x = Hidden
      BY <1>1, <2>2 DEF BlockFields
    <3>2. Hidden' = Hidden
      BY DEF Hidden, seq
    <3> QED
      BY <2>2, <3>1, <3>2 DEF Blocks
  <2> HIDE DEF regs
  <2> QED
    BY <1>1, <2>1, <2>2, DoLeads, Zenon
<1> QED
  BY <1>2, <1>3

LEMMA BlocksOutput ==
  ASSUME Types, Blocks, Output
  PROVE  Blocks' /\ Written'
<1> DEFINE width == NHead(il) * HeadDim
           p == IF seq = 1 THEN Candle(r.attn)
                ELSE IF FusedGlue THEN run_permute_cast(r.attn, "f32")
                ELSE Candle(Contiguous(Transpose01(r.attn)))
           x == Reshape(p.out, <<seq, width>>)
           o == Proj(Weight("o", Config.hidden, width), x)
<1>1. /\ Do(<<p, o>>, [r EXCEPT !.x = Hidden], "ffn")
      /\ case' = case /\ il' = il /\ pc = "output"
  BY Zenon DEF Output
<1>2. Shape(r.attn, <<NHead(il), seq, HeadDim>>)
  BY <1>1 DEF Blocks
<1>3. seq \in Nat /\ HeadDim \in Nat /\ NHead(il) \in Nat /\ Config.hidden \in Nat
  BY CaseFacts, ConfigAssumption
<1>4. Writes(p) /\ \E old : Shape(p.out, old)
  <2>1. Fine(Candle(r.attn), <<NHead(il), seq, HeadDim>>)
    BY <1>2, CandleIs DEF Fine
  <2>2. Fine(run_permute_cast(r.attn, "f32"), <<seq, NHead(il), HeadDim>>)
    BY <1>2, <1>3, PermuteFine, Zenon
  <2>3. Fine(Candle(Contiguous(Transpose01(r.attn))), <<seq, NHead(il), HeadDim>>)
    <3>1. Shape(Contiguous(Transpose01(r.attn)), <<seq, NHead(il), HeadDim>>)
      BY <1>2, <1>3, TransposeIs, Zenon
    <3> QED
      BY <3>1, CandleIs DEF Fine
  <2> QED
    BY <2>1, <2>2, <2>3, Zenon DEF Fine
<1> HIDE DEF p
<1>5. Writes(o)
  <2>1. Shape(x, <<seq, width>>)
    BY <1>4, ReshapeIs, Zenon
  <2>2. Weight("o", Config.hidden, width).n_out = Config.hidden
    BY DEF Weight
  <2> HIDE DEF x, width
  <2>3. Fine(o, <<seq, Config.hidden>>)
    BY <1>3, <2>1, <2>2, ProjFine, Zenon
  <2> QED
    BY <2>3 DEF Fine
<1> HIDE DEF o
<1>6. \A n \in DOMAIN <<p, o>> : Writes(<<p, o>>[n])
  BY <1>4, <1>5, WritesAll, Zenon
<1> QED
  BY <1>1, <1>6, BlocksOver, Zenon

-----------------------------------------------------------------------------
(* The steps of the feed-forward half keep the tensors in shape, and cover *)
(* them.                                                                   *)

(* A matmul of the experts, grouped or not. *)
LEMMA MatmulFine ==
  ASSUME Types, NEW name, NEW dt, NEW m \in Nat, NEW d, NEW x, x.dims[1] = seq
  PROVE  Fine(Matmul(Stack(name, dt, m, d), x), <<seq, Config.n_expert_used, m>>)
<1> DEFINE stack == Stack(name, dt, m, d)
<1>1. stack.n_out = m /\ stack.n_expert = Config.n_expert
  BY DEF Stack
<1> HIDE DEF stack
<1>2. Ids.dims[2] = Config.n_expert_used
  BY DEF Ids, Tensor
<1>3. seq \in Nat /\ Config.n_expert \in Nat /\ Config.n_expert_used \in Nat
  BY CaseFacts, ConfigAssumption
<1>4. Fine(mul_mm_id_shared(MmVariant, stack, x, Ids, map0), <<seq, Config.n_expert_used, m>>)
  BY <1>1, <1>2, <1>3, MmIdFine, Zenon
<1>5. Fine(mul_mv_id(sw, stack, x, Ids), <<seq, Config.n_expert_used, m>>)
  BY <1>1, <1>2, <1>3, MvIdFine, Zenon
<1> QED
  BY <1>4, <1>5, Zenon DEF Matmul, stack

LEMMA BlocksGateUp ==
  ASSUME Types, Blocks, GateUp
  PROVE  Blocks' /\ Written'
<1> DEFINE D == <<seq, Config.n_expert_used, Config.expert_ff>>
           x == Reshape(r.x, <<seq, 1, Config.hidden>>)
           g == Matmul(GateStack, x)
           u == Matmul(UpStack, x)
           regs == [r EXCEPT !.gate = g.out, !.up = u.out]
<1>1. Do(<<g, u>>, regs, "activate") /\ case' = case /\ il' = il /\ pc = "gate_up"
  BY Zenon DEF GateUp
<1>2. DOMAIN r = BlockFields /\ r.x = Hidden /\ Config.expert_ff \in Nat
  BY <1>1, ConfigAssumption DEF Blocks
<1>3. x.dims[1] = seq
  BY <1>2 DEF Reshape, Hidden, Tensor
<1> HIDE DEF x
<1>4. Fine(g, D) /\ Fine(u, D)
  BY <1>2, <1>3, MatmulFine, Zenon DEF GateStack, UpStack
<1> HIDE DEF g, u
<1>5. Written'
  <2>1. \A n \in DOMAIN <<g, u>> : Writes(<<g, u>>[n])
    BY <1>4, WritesAll, Zenon DEF Fine
  <2> HIDE DEF regs
  <2> QED
    BY <1>1, <2>1, DoWrites, Zenon DEF Written
<1>6. Blocks'
  <2>1. CASE pc' = "failed" /\ r' = r
    BY <2>1, BlocksFail
  <2>2. CASE pc' = "activate" /\ r' = regs
    <3>1. DOMAIN r' = BlockFields /\ r'.x = r.x /\ r'.gate = g.out /\ r'.up = u.out
      BY <1>2, <2>2 DEF BlockFields
    <3>2. seq' = seq /\ Hidden' = Hidden
      BY <1>1, SameTerms
    <3> QED
      BY <1>2, <1>4, <2>2, <3>1, <3>2 DEF Blocks, Fine
  <2> HIDE DEF regs
  <2> QED
    BY <1>1, <2>1, <2>2, DoLeads, Zenon
<1> QED
  BY <1>5, <1>6

LEMMA BlocksActivate ==
  ASSUME Types, Blocks, Activate
  PROVE  Blocks' /\ Written'
<1> DEFINE D == <<seq, Config.n_expert_used, Config.expert_ff>>
           fused == run_silu_mul(r.gate, r.up)
           plain == Candle(SiluMul(r.gate, r.up))
           a == IF sw.ACT_CLASSIC THEN plain ELSE fused
           regs == [r EXCEPT !.act = a.out]
<1>1. Do(<<a>>, regs, "down") /\ case' = case /\ il' = il /\ pc = "activate"
  BY Zenon DEF Activate
<1>2. /\ DOMAIN r = BlockFields /\ r.x = Hidden
      /\ Shape(r.gate, D) /\ r.gate.dims = D
  BY <1>1 DEF Blocks, Shape
<1>3. Fine(fused, D)
  <2>1. seq \in Nat /\ Config.n_expert_used \in Nat /\ Config.expert_ff \in Nat
    BY CaseFacts, ConfigAssumption
  <2> QED
    BY <1>2, <2>1, SiluMulFine, Zenon
<1>4. Fine(plain, D)
  <2>1. Shape(SiluMul(r.gate, r.up), D)
    BY <1>2, TensorIs, Zenon DEF SiluMul
  <2> QED
    BY <2>1, CandleIs DEF Fine
<1> HIDE DEF fused, plain
<1>5. Fine(a, D)
  BY <1>3, <1>4
<1> HIDE DEF a
<1>6. Written'
  <2>1. \A n \in DOMAIN <<a>> : Writes(<<a>>[n])
    BY <1>5, WritesAll, Zenon DEF Fine
  <2> HIDE DEF regs
  <2> QED
    BY <1>1, <2>1, DoWrites, Zenon DEF Written
<1>7. Blocks'
  <2>1. CASE pc' = "failed" /\ r' = r
    BY <2>1, BlocksFail
  <2>2. CASE pc' = "down" /\ r' = regs
    <3>1. DOMAIN r' = BlockFields /\ r'.x = r.x /\ r'.act = a.out
      BY <1>2, <2>2 DEF BlockFields
    <3>2. seq' = seq /\ Hidden' = Hidden
      BY <1>1, SameTerms
    <3> QED
      BY <1>2, <1>5, <2>2, <3>1, <3>2 DEF Blocks, Fine
  <2> HIDE DEF regs
  <2> QED
    BY <1>1, <2>1, <2>2, DoLeads, Zenon
<1> QED
  BY <1>6, <1>7

LEMMA BlocksDown ==
  ASSUME Types, Blocks, Down
  PROVE  Blocks' /\ Written'
<1> DEFINE D == <<seq, Config.n_expert_used, Config.hidden>>
           A == <<seq, Config.n_expert_used, Config.expert_ff>>
           l2 == IF NeedsRescale THEN <<Tensor("f32", <<seq, Config.n_expert_used, 1>>, <<"l2">>)>>
                 ELSE NoL2
           x == IF NeedsRescale THEN Op(r.act, "scale") ELSE r.act
           d == Matmul(DownStack, x)
           regs == [r EXCEPT !.down = d.out, !.l2 = l2]
<1>1. Do(<<d>>, regs, "combine") /\ case' = case /\ il' = il /\ pc = "down"
  BY Zenon DEF Down
<1>2. DOMAIN r = BlockFields /\ r.x = Hidden /\ Config.hidden \in Nat /\ Shape(r.act, A)
  BY <1>1, ConfigAssumption DEF Blocks
<1>3. x.dims[1] = seq
  <2>1. Shape(Op(r.act, "scale"), A)
    BY <1>2, CastIs, Zenon
  <2>2. Shape(x, A)
    BY <1>2, <2>1
  <2> HIDE DEF x
  <2> QED
    BY <2>2 DEF Shape
<1> HIDE DEF x
<1>4. Fine(d, D)
  BY <1>2, <1>3, MatmulFine, Zenon DEF DownStack
<1> HIDE DEF d, l2
<1>5. Written'
  <2>1. \A n \in DOMAIN <<d>> : Writes(<<d>>[n])
    BY <1>4, WritesAll, Zenon DEF Fine
  <2> HIDE DEF regs
  <2> QED
    BY <1>1, <2>1, DoWrites, Zenon DEF Written
<1>6. Blocks'
  <2>1. CASE pc' = "failed" /\ r' = r
    BY <2>1, BlocksFail
  <2>2. CASE pc' = "combine" /\ r' = regs
    <3>1. DOMAIN r' = BlockFields /\ r'.x = r.x /\ r'.down = d.out
      BY <1>2, <2>2 DEF BlockFields
    <3>2. seq' = seq /\ Hidden' = Hidden
      BY <1>1, SameTerms
    <3> QED
      BY <1>2, <1>4, <2>2, <3>1, <3>2 DEF Blocks, Fine
  <2> HIDE DEF regs
  <2> QED
    BY <1>1, <2>1, <2>2, DoLeads, Zenon
<1> QED
  BY <1>5, <1>6

(* The steps after which only the residual stream and the output of the    *)
(* experts matter.                                                         *)
LEMMA BlocksExperts ==
  ASSUME Types, Blocks, case' = case, pc \notin {"begin", "failed", "done"},
         NEW calls, NEW regs, NEW next \in {"gate_up", "shared", "reference", "experts"},
         Do(calls, regs, next), DOMAIN regs = DOMAIN r, regs.x = r.x,
         \A n \in DOMAIN calls : Writes(calls[n])
  PROVE  Blocks' /\ Written'
<1>1. Written'
  BY DoWrites, Zenon DEF Written
<1>2. Blocks'
  <2>1. CASE pc' = "failed" /\ r' = r
    BY <2>1, BlocksFail
  <2>2. CASE pc' = next /\ r' = regs
    <3>1. DOMAIN r' = BlockFields /\ r'.x = Hidden
      BY <2>2 DEF Blocks
    <3>2. Hidden' = Hidden
      BY DEF Hidden, seq
    <3> QED
      BY <2>2, <3>1, <3>2 DEF Blocks
  <2> QED
    BY <2>1, <2>2, DoLeads, Zenon
<1> QED
  BY <1>1, <1>2

LEMMA BlocksCombine ==
  ASSUME Types, Blocks, Combine
  PROVE  Blocks' /\ Written'
<1> DEFINE fused == run_combine(r.down, r.l2, RouteWeights)
           plain == CombineClassic(r.down, r.l2)
           c == IF sw.COMBINE_CLASSIC THEN plain ELSE fused
           regs == [r EXCEPT !.y = c.out]
<1>1. Do(<<c>>, regs, "shared") /\ case' = case /\ pc = "combine"
  BY Zenon DEF Combine
<1>2. DOMAIN r = BlockFields /\ Shape(r.down, <<seq, Config.n_expert_used, Config.hidden>>)
  BY <1>1 DEF Blocks
<1>3. Writes(fused)
  <2>1. seq \in Nat /\ Config.n_expert_used \in Nat /\ Config.hidden \in Nat
    BY CaseFacts, ConfigAssumption
  <2> QED
    BY <1>2, <2>1, CombineFine, Zenon DEF Fine
<1>4. Writes(plain)
  BY CandleIs DEF CombineClassic
<1> HIDE DEF fused, plain
<1>5. Writes(c)
  BY <1>3, <1>4
<1> HIDE DEF c
<1>6. \A n \in DOMAIN <<c>> : Writes(<<c>>[n])
  BY <1>5, WritesAll, Zenon
<1>7. DOMAIN regs = DOMAIN r /\ regs.x = r.x
  BY <1>2 DEF BlockFields
<1>8. pc \notin {"begin", "failed", "done"} /\ "shared" \in {"gate_up", "shared", "reference", "experts"}
  BY <1>1
<1> HIDE DEF regs
<1> QED
  BY <1>1, <1>6, <1>7, <1>8, BlocksExperts, Zenon

LEMMA BlocksPrepare ==
  ASSUME Types, Blocks, PrepareMap \/ NoMapNeeded \/ Route \/ ReferenceExperts
  PROVE  Blocks' /\ Written'
<1>1. DOMAIN r = BlockFields
  BY DEF Blocks
<1>2. DOMAIN r = DOMAIN r /\ r.x = r.x
  OBVIOUS
<1>3. \A n \in DOMAIN <<>> : Writes(<<>>[n])
  OBVIOUS
<1>4. CASE PrepareMap
  <2> DEFINE m == prepare_map0(Config.n_expert, Ids, Routing)
  <2>1. Do(<<m>>, r, "gate_up") /\ case' = case /\ pc = "experts"
    BY <1>4, Zenon DEF PrepareMap
  <2>2. Writes(m)
    BY ConfigAssumption, Map0Writes
  <2> HIDE DEF m
  <2>3. \A n \in DOMAIN <<m>> : Writes(<<m>>[n])
    BY <2>2, WritesAll, Zenon
  <2>4. pc \notin {"begin", "failed", "done"} /\ "gate_up" \in {"gate_up", "shared", "reference", "experts"}
    BY <2>1
  <2> QED
    BY <1>2, <2>1, <2>3, <2>4, BlocksExperts, Zenon
<1>5. CASE NoMapNeeded
  <2>1. Do(<<>>, r, "gate_up") /\ case' = case /\ pc = "experts"
    BY <1>5, Zenon DEF NoMapNeeded
  <2>2. pc \notin {"begin", "failed", "done"} /\ "gate_up" \in {"gate_up", "shared", "reference", "experts"}
    BY <2>1
  <2> QED
    BY <1>2, <1>3, <2>1, <2>2, BlocksExperts, Zenon
<1>6. CASE Route
  <2> DEFINE next == IF case.runner = "reference" THEN "reference" ELSE "experts"
  <2>1. Do(<<>>, r, next) /\ case' = case /\ pc = "ffn"
    BY <1>6, Zenon DEF Route
  <2>2. pc \notin {"begin", "failed", "done"} /\ next \in {"gate_up", "shared", "reference", "experts"}
    BY <2>1
  <2> HIDE DEF next
  <2> QED
    BY <1>2, <1>3, <2>1, <2>2, BlocksExperts, Zenon
<1>7. CASE ReferenceExperts
  <2> DEFINE h == SiluMul(Op(r.x, "gate"), Op(r.x, "up"))
             y == Tensor("f32", <<seq, Config.hidden>>, h.val \o <<"down", "weigh", "sum">>)
             regs == [r EXCEPT !.y = y]
  <2>1. Do(<<>>, regs, "shared") /\ case' = case /\ pc = "reference"
    BY <1>7, Zenon DEF ReferenceExperts
  <2> HIDE DEF y
  <2>2. DOMAIN regs = DOMAIN r /\ regs.x = r.x
    BY <1>1 DEF BlockFields
  <2>3. pc \notin {"begin", "failed", "done"} /\ "shared" \in {"gate_up", "shared", "reference", "experts"}
    BY <2>1
  <2> HIDE DEF regs
  <2> QED
    BY <1>3, <2>1, <2>2, <2>3, BlocksExperts, Zenon
<1> QED
  BY <1>4, <1>5, <1>6, <1>7

(* candle's matmul launches nothing of laguna's. *)
LEMMA QLinearWrites ==
  ASSUME NEW w, NEW x
  PROVE  Writes(QLinear(w, x))
  BY CandleIs DEF QLinear, QMatMul

LEMMA BlocksEnd ==
  ASSUME Types, Blocks, Dense \/ Shared
  PROVE  Blocks' /\ Written'
<1>1. ASSUME NEW name, NEW width, NEW x
      PROVE  \A n \in DOMAIN Swiglu(name, width, x) : Writes(Swiglu(name, width, x)[n])
  <2> DEFINE g == QLinear(Weight(name \o ".gate", width, Config.hidden), x)
             u == QLinear(Weight(name \o ".up", width, Config.hidden), x)
             d == QLinear(Weight(name \o ".down", Config.hidden, width), SiluMul(g.out, u.out))
  <2>1. Writes(g) /\ Writes(u) /\ Writes(d)
    BY QLinearWrites, Zenon
  <2>2. Swiglu(name, width, x) = <<g, u, d>>
    BY DEF Swiglu
  <2> HIDE DEF g, u, d
  <2> QED
    BY <2>1, <2>2, WritesAll, Zenon
<1>2. ASSUME NEW name, NEW width, NEW out, EndLayer(Swiglu(name, width, r.x), out)
      PROVE  Blocks' /\ Written'
  <2>1. Do(Swiglu(name, width, r.x), [r EXCEPT !.x = Hidden], NextLayer) /\ case' = case
    BY <1>2 DEF EndLayer
  <2>2. NextLayer \in {"ffn", "project", "head"}
    BY DEF NextLayer
  <2> QED
    BY <1>1, <2>1, <2>2, BlocksOver, Zenon
<1>3. CASE Shared
  <2> DEFINE s == Swiglu("shared", Config.expert_ff, r.x)
  <2>1. \E out : EndLayer(s, out)
    BY <1>3, Zenon DEF Shared
  <2> QED
    BY <1>2, <2>1, Zenon
<1>4. CASE Dense
  <2> DEFINE s == Swiglu("dense", Config.dense_ff, r.x)
  <2>1. \E out : EndLayer(s, out)
    BY <1>4, Zenon DEF Dense
  <2> QED
    BY <1>2, <2>1, Zenon
<1> QED
  BY <1>3, <1>4

LEMMA BlocksHead ==
  ASSUME Types, Blocks, LastLogits \/ AllLogits
  PROVE  Blocks' /\ Written'
<1>1. DOMAIN NoBlock = BlockFields
  BY DEF NoBlock, BlockFields
<1>2. ASSUME NEW c, Writes(c), EmitLogits(c)
      PROVE  Blocks' /\ Written'
  <2>1. Do(<<c>>, NoBlock, "done")
    BY <1>2 DEF EmitLogits
  <2>2. \A n \in DOMAIN <<c>> : Writes(<<c>>[n])
    BY <1>2, WritesAll, Zenon
  <2>3. Written'
    BY <2>1, <2>2, DoWrites, Zenon DEF Written
  <2>4. CASE pc' = "failed" /\ r' = r
    BY <2>3, <2>4, BlocksFail
  <2>5. CASE pc' = "done" /\ r' = NoBlock
    BY <1>1, <2>3, <2>5 DEF Blocks
  <2> QED
    BY <2>1, <2>4, <2>5, DoLeads, Zenon
<1>3. ASSUME mv_vendored_supported(case.ck.head)
      PROVE  Writes(mul_mv(HeadWeight, LastRow(Normed)))
  <2>1. LastRow(Normed).dims[1] = 1
    BY DEF LastRow, Normed, Op, Tensor
  <2>2. HeadWeight.n_out = Config.vocab /\ HeadWeight.dt = case.ck.head
    BY DEF HeadWeight
  <2>3. 1 \in Nat /\ Config.vocab \in Nat
    BY ConfigAssumption
  <2>4. Fine(mul_mv(HeadWeight, LastRow(Normed)), <<1, Config.vocab>>)
    BY <1>3, <2>1, <2>2, <2>3, HeadFine, Zenon
  <2> QED
    BY <2>4 DEF Fine
<1>4. CASE LastLogits
  <2>1. \E c : Writes(c) /\ EmitLogits(c)
    <3> DEFINE own == case.metal /\ seq = 1 /\ ~sw.MV_CLASSIC /\ mv_vendored_supported(case.ck.head)
               fused == mul_mv(HeadWeight, LastRow(Normed))
               plain == QLinear(HeadWeight, LastRow(Normed))
    <3>1. EmitLogits(IF own THEN fused ELSE plain)
      BY <1>4, Zenon DEF LastLogits
    <3>2. own => Writes(fused)
      BY <1>3, Zenon
    <3>3. Writes(plain)
      BY QLinearWrites, Zenon
    <3> HIDE DEF own, fused, plain
    <3> QED
      BY <3>1, <3>2, <3>3, Zenon
  <2> QED
    BY <1>2, <2>1, Zenon
<1>5. CASE AllLogits
  BY <1>2, <1>5, QLinearWrites, Zenon DEF AllLogits
<1> QED
  BY <1>4, <1>5

LEMMA BlocksBegin ==
  ASSUME Types, Blocks, Begin
  PROVE  Blocks' /\ Written'
<1>1. pc = "begin" /\ case' = case
  BY DEF Begin
<1>2. CASE pos + seq <= Config.max_ctx
  <2>1. Do(<<>>, [r EXCEPT !.x = Hidden], "project")
    BY <1>2 DEF Begin
  <2>2. \A n \in DOMAIN <<>> : Writes(<<>>[n])
    OBVIOUS
  <2>3. "project" \in {"ffn", "project", "head"}
    OBVIOUS
  <2> QED
    BY <1>1, <2>1, <2>2, <2>3, BlocksOver, Zenon
<1>3. CASE ~(pos + seq <= Config.max_ctx)
  <2> DEFINE refused == Call(FALSE, NoTensor, <<>>)
  <2>1. Do(<<refused>>, r, "project")
    BY <1>3 DEF Begin
  <2>2. ~refused.ok /\ Writes(refused)
    BY DEF Call, Writes, S!Range
  <2> HIDE DEF refused
  <2>3. \A n \in DOMAIN <<refused>> : Writes(<<refused>>[n])
    BY <2>2, WritesAll, Zenon
  <2>4. Written'
    BY <2>1, <2>3, DoWrites, Zenon DEF Written
  <2>5. pc' = "failed"
    <3>1. pc' # "failed" => \A n \in DOMAIN <<refused>> : <<refused>>[n].ok
      BY <2>1, DoOk, Zenon
    <3> QED
      BY <2>2, <3>1
  <2>6. r' = r
    <3>1. \/ pc' = "project" /\ r' = r
          \/ pc' = "failed" /\ r' = r
      BY <2>1, DoLeads, Zenon
    <3> QED
      BY <3>1
  <2> QED
    BY <2>4, <2>5, <2>6, BlocksFail
<1> QED
  BY <1>2, <1>3

LEMMA BlocksInit == Init => Blocks /\ Written
  BY DEF Init, Blocks, Written, NoBlock, BlockFields

LEMMA BlocksStep ==
  ASSUME Types, Blocks, Next
  PROVE  Blocks' /\ Written'
<1>1. CASE Begin
  BY <1>1, BlocksBegin
<1>2. CASE Attention
  BY <1>2, BlocksProject, BlocksPermute, BlocksRotate, BlocksAppend, BlocksAttend, BlocksGate,
    BlocksOutput, Zenon DEF Attention
<1>3. CASE Ffn
  BY <1>3, BlocksEnd, BlocksPrepare, BlocksGateUp, BlocksActivate, BlocksDown, BlocksCombine,
    Zenon DEF Ffn
<1>4. CASE LastLogits \/ AllLogits
  BY <1>4, BlocksHead
<1> QED
  BY <1>1, <1>2, <1>3, <1>4 DEF Next

-----------------------------------------------------------------------------
(* What is attended to. *)

(* The window of query row i. *)
WindowOf(i) == {p \in 0 .. pos + i : IsFullAttn(il) \/ (pos + i) - p < Config.sliding_window}

(* The columns of a view in order that hold it. *)
ColsOf(i) ==
  {c \in 0 .. ((pos - Base) + seq) - 1 :
     Base + c <= pos + i /\ (IsFullAttn(il) \/ (pos + i) - (Base + c) < Config.sliding_window)}

(* The view begins early enough for the window of every row of the chunk.  *)
LEMMA ColsSee ==
  ASSUME Types, IsFullAttn(il) \/ seq # 1, NEW i \in 0 .. seq - 1
  PROVE  See(ColsOf(i)) = WindowOf(i)
<1> DEFINE w == Config.sliding_window
           n == (pos - Base) + seq
<1>1. /\ Base \in 0 .. pos /\ Len(ViewPositions) = n
      /\ \A c \in 0 .. n - 1 : ViewPositions[c + 1] = Base + c
  BY ViewInOrder
<1>2. seq \in Nat \ {0} /\ pos \in Nat /\ w \in Nat \ {0}
  BY CaseFacts
<1>3. IsFullAttn(il) => Base = 0
  BY DEF Base
<1>4. ~IsFullAttn(il) => Base = pos - Ring!Smaller(pos, w)
  BY DEF Base, Window
<1>5. ASSUME NEW c \in ColsOf(i)
      PROVE  c \in 0 .. n - 1 /\ Base + c \in WindowOf(i)
  BY <1>1, <1>2 DEF ColsOf, WindowOf
<1>6. ASSUME NEW p \in WindowOf(i)
      PROVE  p - Base \in ColsOf(i) /\ Base + (p - Base) = p
  <2>1. p \in 0 .. pos + i /\ (IsFullAttn(il) \/ (pos + i) - p < w)
    BY DEF WindowOf
  <2>2. p >= Base
    <3>1. CASE IsFullAttn(il)
      BY <1>3, <2>1, <3>1
    <3>2. CASE ~IsFullAttn(il)
      BY <1>2, <1>4, <2>1, <3>2 DEF Ring!Smaller
    <3> QED
      BY <3>1, <3>2
  <2>3. p - Base \in 0 .. n - 1 /\ Base + (p - Base) = p
    BY <1>1, <1>2, <2>1, <2>2
  <2> QED
    BY <2>1, <2>3 DEF ColsOf
<1>7. See(ColsOf(i)) = {Base + c : c \in ColsOf(i)}
  <2>1. \A c \in ColsOf(i) : (IF c < Len(ViewPositions) THEN ViewPositions[c + 1] ELSE -1) = Base + c
    BY <1>1, <1>2, <1>5
  <2> QED
    BY <2>1, Zenon DEF See
<1> QED
  BY <1>5, <1>6, <1>7

(* The prefill masks are those of the forward, for as long as it lasts.    *)
Masked == pc \notin {"begin", "failed"} => masks = HoistedMasks

(* The flash kernel takes the window, for the view begins where the call   *)
(* says.                                                                   *)
LEMMA FlashSees ==
  ASSUME Types, Blocks, AttendFlash, pc' = "gate", NEW i \in 0 .. seq - 1
  PROVE  seen'[i] = WindowOf(i)
<1> DEFINE c == FlashCall
           a == run_flash_attn(r.q, r.k, r.v, c.pos, c.koff, c.window)
           w == Config.sliding_window
<1>1. /\ pc = "attend" /\ TakesFlash
      /\ Do(<<a>>, [r EXCEPT !.attn = a.out], "gate")
      /\ seen' = [j \in 0 .. seq - 1 |-> See(Flash!FlashCols(c, j))]
  BY Zenon DEF AttendFlash
<1>2. seq \in Nat \ {0} /\ pos \in Nat /\ w \in Nat \ {0}
  BY CaseFacts
<1>3. seq # 1
  BY <1>1, <1>2 DEF TakesFlash
<1>4. Base \in 0 .. pos /\ Len(ViewPositions) = (pos - Base) + seq
  BY <1>3, ViewInOrder
<1>5. r.q.dims[2] = seq /\ r.k.dims[2] = Len(ViewPositions)
  BY <1>1 DEF Blocks, Shape
<1>6. /\ c = [seq |-> seq, kl |-> (pos - Base) + seq, pos |-> pos, koff |-> Base,
              window |-> Window(il)]
      /\ c.seq = seq /\ c.kl = (pos - Base) + seq /\ c.pos = pos /\ c.koff = Base
      /\ c.window = Window(il)
  BY <1>4, <1>5 DEF FlashCall, Base
<1>7. /\ Window(il) \in Nat
      /\ IsFullAttn(il) => Window(il) = 0
      /\ ~IsFullAttn(il) => Window(il) = w /\ Window(il) # 0
  BY <1>2 DEF Window, Flash!NoWindow
<1>8. Flash!FlashAccepts(c)
  <2>1. a.ok
    <3>1. \A n \in DOMAIN <<a>> : <<a>>[n].ok
      <4>1. pc' # "failed"
        OBVIOUS
      <4> HIDE DEF a
      <4> QED
        BY <1>1, <4>1, DoOk, Zenon
    <3> HIDE DEF a
    <3> QED
      BY <3>1
  <2>2. [seq |-> r.q.dims[2], kl |-> r.k.dims[2], pos |-> c.pos, koff |-> c.koff,
         window |-> c.window] = c
    BY <1>4, <1>5, <1>6
  <2> HIDE DEF c
  <2> QED
    BY <2>1, <2>2 DEF run_flash_attn, Call
<1> HIDE DEF c
<1>9. c \in Calls
  BY <1>2, <1>4, <1>6, <1>7 DEF Calls
<1>10. Flash!FlashCols(c, i) = Flash!WindowCols(c, i)
  BY <1>6, <1>8, <1>9, FlashIsExact
<1>11. Flash!WindowCols(c, i) = ColsOf(i)
  BY <1>2, <1>4, <1>6, <1>7 DEF Flash!WindowCols, Flash!Windowed, Flash!NoWindow, ColsOf
<1>12. seen'[i] = See(ColsOf(i))
  BY <1>1, <1>10, <1>11
<1> QED
  BY <1>3, <1>12, ColsSee

(* sdpa and the explicit softmax take it through the hoisted mask, and     *)
(* without one when a single token reads the whole view.                   *)
LEMMA MaskSees ==
  ASSUME Types, Masked, AttendSdpa \/ AttendManual, pc' = "gate", NEW i \in 0 .. seq - 1
  PROVE  seen'[i] = WindowOf(i)
<1> DEFINE w == Config.sliding_window
           cols == {c \in 0 .. Len(ViewPositions) - 1 :
                      masks[Kind(il)] = NoMask \/ Unmasked(il, i, c)}
<1>1. pc = "attend" /\ ~TakesFlash /\ seen' = SeenThroughMask
  BY Zenon DEF AttendSdpa, AttendManual, TakesFlash
<1>2. seq \in Nat \ {0} /\ pos \in Nat /\ w \in Nat \ {0} /\ il \in Layers
  BY CaseFacts DEF Types
<1>3. seen'[i] = See(cols)
  BY <1>1, Zenon DEF SeenThroughMask
<1>4. Kind(il) \in {"full", "swa"} /\ masks = HoistedMasks
  BY <1>1 DEF Kind, Masked
<1>5. CASE seq = 1
  <2>1. masks[Kind(il)] = NoMask
    BY <1>4, <1>5 DEF HoistedMasks
  <2>2. cols = 0 .. Len(ViewPositions) - 1
    BY <2>1
  <2>3. i = 0
    BY <1>5
  <2>4. CASE IsFullAttn(il)
    <3>1. /\ Base \in 0 .. pos /\ Len(ViewPositions) = (pos - Base) + seq
      BY <2>4, ViewInOrder
    <3>2. Base = 0
      BY <2>4 DEF Base
    <3>3. ColsOf(i) = 0 .. Len(ViewPositions) - 1
      BY <1>2, <1>5, <2>3, <2>4, <3>1, <3>2 DEF ColsOf
    <3> QED
      BY <1>3, <2>2, <2>4, <3>3, ColsSee
  <2>5. CASE ~IsFullAttn(il)
    <3>1. /\ Len(ViewPositions) \in Nat
          /\ {ViewPositions[c + 1] : c \in 0 .. Len(ViewPositions) - 1} =
               {p \in 0 .. pos : pos - p < w}
      BY <1>5, <2>5, ViewOfRing, Zenon
    <3>2. See(cols) = {ViewPositions[c + 1] : c \in 0 .. Len(ViewPositions) - 1}
      <4>1. \A c \in 0 .. Len(ViewPositions) - 1 :
              (IF c < Len(ViewPositions) THEN ViewPositions[c + 1] ELSE -1) = ViewPositions[c + 1]
        BY <3>1
      <4> QED
        BY <2>2, <4>1, Zenon DEF See
    <3>3. WindowOf(i) = {p \in 0 .. pos : pos - p < w}
      BY <1>2, <2>3, <2>5 DEF WindowOf
    <3> QED
      BY <1>3, <3>1, <3>2, <3>3
  <2> QED
    BY <2>4, <2>5
<1>6. CASE seq # 1
  <2>1. seq > 1
    BY <1>2, <1>6
  <2>2. masks[Kind(il)] # NoMask
    <3> DEFINE of == {j \in Layers : Kind(j) = Kind(il)}
               one == CHOOSE j \in of : \A k \in of : j <= k
    <3>1. of # {}
      BY <1>2
    <3>2. ~(case.metal /\ ~sw.FLASH_CLASSIC)
      BY <1>1, <2>1, Zenon DEF TakesFlash
    <3>3. masks[Kind(il)] = PrefillMask(one)
      BY <1>4, <2>1, <3>1, <3>2 DEF HoistedMasks
    <3> HIDE DEF one
    <3>4. "seq" \in DOMAIN PrefillMask(one) /\ DOMAIN NoMask = {}
      BY DEF PrefillMask, NoMask
    <3> QED
      BY <3>3, <3>4
  <2>3. Base \in 0 .. pos /\ Len(ViewPositions) = (pos - Base) + seq
    BY <1>6, ViewInOrder
  <2>4. ASSUME NEW c \in 0 .. ((pos - Base) + seq) - 1
        PROVE  Unmasked(il, i, c) <=>
                 Base + c <= pos + i /\ (IsFullAttn(il) \/ (pos + i) - (Base + c) < w)
    <3>1. CASE IsFullAttn(il)
      <4>1. Base = 0
        BY <3>1 DEF Base
      <4> QED
        BY <1>2, <3>1, <4>1 DEF Unmasked, Ring!FullUnmasked
    <3>2. CASE ~IsFullAttn(il)
      <4>1. Window(il) = w /\ Base = pos - Ring!Smaller(pos, w)
        BY <3>2 DEF Base, Window
      <4> QED
        BY <3>2, <4>1 DEF Unmasked, Ring!SwaUnmasked
    <3> QED
      BY <3>1, <3>2
  <2>5. cols = ColsOf(i)
    BY <2>2, <2>3, <2>4 DEF ColsOf
  <2> QED
    BY <1>3, <1>6, <2>5, ColsSee
<1> QED
  BY <1>5, <1>6

-----------------------------------------------------------------------------
(* The inductive invariant: the case and the layer exist, the masks are    *)
(* those of the forward, the map is that of its routing, and the block in  *)
(* progress holds what the next step takes.                                *)
TheMap == Map!Map0(Routing, Config.n_expert, Config.n_expert_used)
Mapped == map0 \in {NoMap, TheMap}

ForwardInv == Types /\ Masked /\ Mapped /\ Blocks /\ Written /\ SeesItsWindow

LEMMA ForwardInitInv == Init => ForwardInv
<1> SUFFICES ASSUME Init PROVE ForwardInv
  OBVIOUS
<1>1. Types /\ Blocks /\ Written
  BY TypesInit, BlocksInit
<1>2. Masked /\ Mapped /\ SeesItsWindow
  BY DEF Init, Masked, Mapped, SeesItsWindow
<1> QED
  BY <1>1, <1>2 DEF ForwardInv

(* Only Begin builds masks, and nothing else follows it but a failure.     *)
LEMMA MaskedStep ==
  ASSUME Masked, Next
  PROVE  Masked'
<1>1. HoistedMasks' = HoistedMasks
  <2>1. case' = case
    BY SameCase
  <2> QED
    BY <2>1 DEF HoistedMasks, PrefillMask, NHead, IsFullAttn, Kind, Window, Layers, seq, pos, sw
<1>2. CASE Begin
  <2>1. CASE pos + seq <= Config.max_ctx
    BY <1>1, <1>2, <2>1 DEF Begin, Masked
  <2>2. CASE ~(pos + seq <= Config.max_ctx)
    <3> DEFINE refused == Call(FALSE, NoTensor, <<>>)
    <3>1. Do(<<refused>>, r, "project")
      BY <1>2, <2>2 DEF Begin
    <3>2. ~refused.ok
      BY DEF Call
    <3> HIDE DEF refused
    <3>3. pc' # "failed" => \A n \in DOMAIN <<refused>> : <<refused>>[n].ok
      BY <3>1, DoOk, Zenon
    <3> QED
      BY <3>2, <3>3 DEF Masked
  <2> QED
    BY <2>1, <2>2
<1>3. CASE masks' = masks /\ pc \notin {"begin", "failed"}
  BY <1>1, <1>3 DEF Masked
<1>4. ~Begin => masks' = masks /\ pc \notin {"begin", "failed"}
  <2>1. Attention => masks' = masks /\ pc \notin {"begin", "failed"}
    BY DEF Attention, Project, Permute, Rotate, CacheAppend, AttendFlash, AttendSdpa,
      AttendManual, Gate, Output
  <2>2. Ffn => masks' = masks /\ pc \notin {"begin", "failed"}
    BY DEF Ffn, Dense, Route, ReferenceExperts, PrepareMap, NoMapNeeded, GateUp, Activate, Down,
      Combine, Shared, EndLayer
  <2>3. LastLogits \/ AllLogits => masks' = masks /\ pc \notin {"begin", "failed"}
    BY DEF LastLogits, AllLogits, EmitLogits
  <2> QED
    BY <2>1, <2>2, <2>3 DEF Next
<1> QED
  BY <1>2, <1>3, <1>4

(* Only PrepareMap makes a map.                                            *)
LEMMA MappedStep ==
  ASSUME Mapped, Next
  PROVE  Mapped'
<1>1. TheMap' = TheMap
  <2>1. case' = case
    BY SameCase
  <2>2. Routing' = Routing
    BY <2>1 DEF Routing, seq
  <2> QED
    BY <2>2 DEF TheMap
<1>2. map0' \in {map0, NoMap, TheMap}
  <2>1. CASE PrepareMap
    <3>1. prepare_map0(Config.n_expert, Ids, Routing).out = TheMap
      BY DEF prepare_map0, Call, TheMap, Ids, Tensor
    <3>2. map0' \in {prepare_map0(Config.n_expert, Ids, Routing).out, NoMap}
      BY <2>1, Zenon DEF PrepareMap
    <3> QED
      BY <3>1, <3>2
  <2>2. CASE Combine
    BY <2>2 DEF Combine
  <2>3. CASE Begin
    BY <2>3 DEF Begin
  <2>4. CASE Attention
    BY <2>4 DEF Attention, Project, Permute, Rotate, CacheAppend, AttendFlash, AttendSdpa,
      AttendManual, Gate, Output
  <2>5. CASE Dense \/ Route \/ ReferenceExperts \/ NoMapNeeded \/ GateUp \/ Activate \/ Down \/ Shared
    BY <2>5 DEF Dense, Route, ReferenceExperts, NoMapNeeded, GateUp, Activate, Down, Shared, EndLayer
  <2>6. CASE LastLogits \/ AllLogits
    BY <2>6 DEF LastLogits, AllLogits, EmitLogits
  <2> QED
    BY <2>1, <2>2, <2>3, <2>4, <2>5, <2>6 DEF Next, Ffn
<1> QED
  BY <1>1, <1>2 DEF Mapped

(* The gate is due only after the attention.                               *)
LEMMA GateAfterAttend ==
  ASSUME Next, pc' = "gate"
  PROVE  AttendFlash \/ AttendSdpa \/ AttendManual
<1>1. ASSUME NEW calls, NEW regs, NEW next, Do(calls, regs, next)
      PROVE  next = "gate"
  <2>1. pc' = next \/ pc' = "failed"
    BY <1>1, DoLeads, Zenon
  <2> QED
    BY <2>1
<1>2. ~Begin /\ ~LastLogits /\ ~AllLogits
  <2>1. "project" # "gate" /\ "done" # "gate"
    OBVIOUS
  <2> QED
    BY <1>1, <2>1, Zenon DEF Begin, LastLogits, AllLogits, EmitLogits
<1>3. ~Project /\ ~Permute /\ ~Rotate /\ ~CacheAppend /\ ~Gate /\ ~Output
  <2>1. /\ "permute" # "gate" /\ "rotate" # "gate" /\ "append" # "gate" /\ "attend" # "gate"
        /\ "output" # "gate" /\ "ffn" # "gate"
    OBVIOUS
  <2> QED
    BY <1>1, <2>1, Zenon DEF Project, Permute, Rotate, CacheAppend, Gate, Output
<1>4. ~Ffn
  <2>1. /\ "experts" # "gate" /\ "reference" # "gate" /\ "gate_up" # "gate" /\ "activate" # "gate"
        /\ "down" # "gate" /\ "combine" # "gate" /\ "shared" # "gate"
    OBVIOUS
  <2>2. ~Route
    <3>1. (IF case.runner = "reference" THEN "reference" ELSE "experts") # "gate"
      OBVIOUS
    <3> QED
      BY <1>1, <3>1, Zenon DEF Route
  <2>3. ~ReferenceExperts /\ ~PrepareMap /\ ~NoMapNeeded /\ ~GateUp /\ ~Activate /\ ~Down /\ ~Combine
    BY <1>1, <2>1, Zenon DEF ReferenceExperts, PrepareMap, NoMapNeeded, GateUp, Activate, Down, Combine
  <2>4. ~Dense /\ ~Shared
    <3>1. NextLayer # "gate"
      BY DEF NextLayer
    <3> QED
      BY <1>1, <3>1, Zenon DEF Dense, Shared, EndLayer
  <2> QED
    BY <2>2, <2>3, <2>4, Zenon DEF Ffn
<1> QED
  BY <1>2, <1>3, <1>4, Zenon DEF Next, Attention

LEMMA WindowStep ==
  ASSUME Types, Masked, Blocks, Next
  PROVE  SeesItsWindow'
<1> SUFFICES ASSUME pc' = "gate" PROVE SeesItsWindow'
  BY DEF SeesItsWindow
<1>1. AttendFlash \/ AttendSdpa \/ AttendManual
  BY GateAfterAttend
<1>2. case' = case /\ il' = il
  BY <1>1 DEF AttendFlash, AttendSdpa, AttendManual
<1>3. \A i \in 0 .. seq - 1 : seen'[i] = WindowOf(i)
  BY <1>1, FlashSees, MaskSees
<1>4. seq' = seq /\ pos' = pos /\ IsFullAttn(il)' = IsFullAttn(il)
  BY <1>2 DEF seq, pos, IsFullAttn
<1> QED
  BY <1>3, <1>4 DEF SeesItsWindow, WindowOf

LEMMA ForwardStepInv == ForwardInv /\ [Next]_vars => ForwardInv'
<1> SUFFICES ASSUME ForwardInv, [Next]_vars PROVE ForwardInv'
  OBVIOUS
<1>1. CASE Next
  BY <1>1, TypesStep, MaskedStep, MappedStep, BlocksStep, WindowStep DEF ForwardInv
<1>2. CASE UNCHANGED vars
  <2>1. case' = case /\ il' = il /\ pc' = pc /\ r' = r /\ masks' = masks /\ map0' = map0
        /\ seen' = seen /\ launched' = launched
    BY <1>2 DEF vars
  <2>2. Types' /\ Masked' /\ Mapped' /\ Written'
    BY <2>1 DEF ForwardInv, Types, Masked, Mapped, Written, TheMap, Routing, HoistedMasks, PrefillMask,
      NHead, IsFullAttn, Kind, Window, Layers, seq, pos, sw
  <2>3. Blocks'
    <3>1. seq' = seq /\ NHead(il)' = NHead(il) /\ Hidden' = Hidden /\ ViewPositions' = ViewPositions
      BY <2>1, SameTerms
    <3> QED
      BY <2>1, <3>1 DEF ForwardInv, Blocks
  <2>4. SeesItsWindow'
    BY <2>1 DEF ForwardInv, SeesItsWindow, IsFullAttn, seq, pos
  <2> QED
    BY <2>2, <2>3, <2>4 DEF ForwardInv
<1> QED
  BY <1>1, <1>2

LEMMA ForwardInductive == Spec => []ForwardInv
  BY ForwardInitInv, ForwardStepInv, PTL DEF Spec

-----------------------------------------------------------------------------
(* Every query attends to its own position and the ones before it, down to *)
(* the window of its layer, on each of the routes of attention, for every  *)
(* chunk, window, position and pattern of layers (attention.rs, the views  *)
(* LayerCache::append returns and the integer bounds of flash.metal).      *)
THEOREM QueriesSeeTheirWindow == Spec => []SeesItsWindow
<1>1. ForwardInv => SeesItsWindow
  BY DEF ForwardInv
<1> QED
  BY <1>1, ForwardInductive, PTL

(* The routing of a forward is one that route_from_logits returns.         *)
LEMMA RoutingIs ==
  ASSUME Types
  PROVE  Routing \in Routings(Config.n_expert, Config.n_expert_used)
<1> DEFINE E == [1 .. Config.n_expert_used -> 0 .. Config.n_expert - 1]
           route == case.route
           m == Len(case.route)
<1>1. seq \in Nat \ {0}
  BY CaseFacts
<1>2. /\ route \in Seq(E) /\ route # <<>>
      /\ \A n \in 1 .. Len(route) : \A a, b \in 1 .. Config.n_expert_used :
           route[n][a] = route[n][b] => a = b
  BY CasesAssumption, Zenon DEF Types
<1>3. m \in Nat \ {0} /\ \A n \in 1 .. m : route[n] \in E
  <2>1. Len(route) \in Nat /\ Len(route) # 0
    BY <1>2, EmptySeq, LenProperties
  <2> QED
    BY <1>2, <2>1, ElementOfSeq
<1> HIDE DEF route, m, E
<1>4. ASSUME NEW t \in 1 .. seq
      PROVE  ((t - 1) % m) + 1 \in 1 .. m /\ Routing[t] = route[((t - 1) % m) + 1]
  <2>1. t - 1 \in Nat
    BY <1>1
  <2>2. (t - 1) % m \in 0 .. (m - 1)
    BY <1>3, <2>1, DivBounds, Zenon
  <2>3. PICK q \in 0 .. (m - 1) : q = (t - 1) % m
    BY <2>2
  <2>4. Routing[t] = case.route[((t - 1) % Len(case.route)) + 1]
    BY Zenon DEF Routing
  <2>5. Routing[t] = route[((t - 1) % m) + 1]
    BY <2>4, Zenon DEF route, m
  <2>6. q + 1 \in 1 .. m
    BY <1>3, <2>3
  <2> QED
    BY <2>3, <2>5, <2>6
<1>5. Routing \in Seq(E) /\ Len(Routing) = seq
  <2>1. Routing = [t \in 1 .. seq |-> Routing[t]]
    BY DEF Routing
  <2>2. Routing \in [1 .. seq -> E]
    BY <1>3, <1>4, <2>1
  <2> QED
    BY <1>1, <2>2, IsSequence, Zenon
<1>6. ASSUME NEW n \in 1 .. Len(Routing)
      PROVE  \A a, b \in 1 .. Config.n_expert_used : Routing[n][a] = Routing[n][b] => a = b
  <2>1. n \in 1 .. seq
    BY <1>5
  <2>2. PICK k \in 1 .. m : Routing[n] = route[k]
    BY <1>4, <2>1, Zenon
  <2>3. \A a, b \in 1 .. Config.n_expert_used : route[k][a] = route[k][b] => a = b
    <3>1. m = Len(route)
      BY DEF m, route
    <3> QED
      BY <1>2, <3>1, Zenon
  <2> QED
    BY <2>2, <2>3, Zenon
<1> QED
  BY <1>5, <1>6 DEF Routings, E

(* Every element of every output is computed by some threadgroup of its    *)
(* launch (the grids of ops/dispatch.rs), and the grouped matmul stores    *)
(* every slot of the routing once, under its expert (mm_id.metal): for     *)
(* every configuration and every forward of a chunk within the kernel's    *)
(* 16 bit index of a token.                                                *)
THEOREM OutputsAreWhole ==
  ASSUME ShortChunks
  PROVE  Spec => []WritesOnce
<1>1. ForwardInv => WritesOnce
  <2> SUFFICES ASSUME ForwardInv PROVE WritesOnce
    OBVIOUS
  <2>1. Routing \in Routings(Config.n_expert, Config.n_expert_used)
    BY RoutingIs DEF ForwardInv
  <2>2. Config.n_expert \in Nat /\ Config.n_expert_used \in Nat
    BY ConfigAssumption
  <2>3. Len(Routing) <= Map!ShortTokens
    <3>1. seq \in Nat /\ seq <= Map!ShortTokens
      BY CaseFacts DEF ForwardInv, Types, ShortChunks, seq
    <3> QED
      BY <3>1 DEF Routing
  <2>4. Map!GroupsEverySlot(Routing, TheMap)
    BY <2>1, <2>2, <2>3, SlotsGrouped, Zenon DEF TheMap
  <2> QED
    BY <2>4 DEF ForwardInv, Mapped, Written, WritesOnce
<1> QED
  BY <1>1, ForwardInductive, PTL

-----------------------------------------------------------------------------
(* The kernels that ran. *)

(* Laguna's own kernels among those a call launches. *)
Runs(c) == {l.kernel : l \in {k \in S!Range(c.launches) : k.lib # "candle"}}

(* What a step adds to the kernels that ran: those of its calls, all of    *)
(* them unless it fails.                                                   *)
LEMMA DoRuns ==
  ASSUME NEW calls, NEW regs, NEW next, Do(calls, regs, next)
  PROVE  /\ ran \subseteq ran'
         /\ ran' \subseteq ran \cup UNION {Runs(calls[n]) : n \in DOMAIN calls}
         /\ pc' # "failed" => \A n \in DOMAIN calls : Runs(calls[n]) \subseteq ran'
<1> DEFINE Works(c) == c.ok /\ \A l \in S!Range(c.launches) : Found(l)
           failed == {n \in DOMAIN calls : ~Works(calls[n])}
           reached == {n \in DOMAIN calls : \A m \in failed : n <= m}
<1>1. /\ launched' = UNION {S!Range(calls[n].launches) : n \in reached \ failed}
      /\ ran' = ran \cup {l.kernel : l \in {k \in launched' : k.lib # "candle"}}
      /\ failed # {} => pc' = "failed"
  BY DEF Do
<1>2. ran \subseteq ran'
  BY <1>1
<1>3. ASSUME NEW kernel \in ran', kernel \notin ran
      PROVE  kernel \in UNION {Runs(calls[n]) : n \in DOMAIN calls}
  <2>1. PICK l \in launched' : l.lib # "candle" /\ kernel = l.kernel
    BY <1>1, <1>3
  <2>2. PICK n \in DOMAIN calls : l \in S!Range(calls[n].launches)
    BY <1>1, <2>1
  <2>3. kernel \in Runs(calls[n])
    BY <2>1, <2>2 DEF Runs
  <2> QED
    BY <2>2, <2>3
<1>4. ASSUME pc' # "failed", NEW n \in DOMAIN calls, NEW kernel \in Runs(calls[n])
      PROVE  kernel \in ran'
  <2>1. PICK l \in S!Range(calls[n].launches) : l.lib # "candle" /\ kernel = l.kernel
    BY <1>4 DEF Runs
  <2>2. failed = {}
    BY <1>1, <1>4
  <2>3. n \in reached \ failed
    BY <2>2
  <2>4. l \in launched'
    BY <1>1, <2>1, <2>3
  <2> QED
    BY <1>1, <2>1, <2>4
<1> QED
  BY <1>2, <1>3, <1>4

(* candle's operations run none of them, and a call with one launch runs   *)
(* its kernel, unless it is candle's.                                      *)
LEMMA CandleRuns ==
  ASSUME NEW out
  PROVE  Runs(Candle(out)) = {}
  BY DEF Runs, Candle, Call, S!Range

LEMMA OneRuns ==
  ASSUME NEW call, NEW kernel, NEW grid, NEW tile, NEW extent,
         call.launches = <<Launch(kernel, grid, tile, extent)>>
  PROVE  Runs(call) = IF LibraryOf(kernel) = "candle" THEN {} ELSE {kernel}
<1> DEFINE l == Launch(kernel, grid, tile, extent)
<1>1. l.kernel = kernel /\ l.lib = LibraryOf(kernel)
  BY DEF Launch
<1> HIDE DEF l
<1>2. S!Range(call.launches) = {l}
  BY DEF S!Range, l
<1> QED
  BY <1>1, <1>2 DEF Runs

(* The library of each kernel. *)
LEMMA Libraries ==
  /\ \A dt : LibraryOf(<<"mul_mv_id_v", dt>>) # "candle"
  /\ LibraryOf(<<"mul_mv_f16">>) # "candle" /\ LibraryOf(<<"mul_mm_f16">>) # "candle"
  /\ LibraryOf(<<"mul_mm_f16_t">>) # "candle" /\ LibraryOf(<<"mul_mv_q8_0_attn">>) # "candle"
  /\ LibraryOf(<<"combine">>) # "candle" /\ LibraryOf(<<"combine_rescale">>) # "candle"
  /\ LibraryOf(<<"silu_mul">>) # "candle" /\ LibraryOf(<<"flash">>) # "candle"
  /\ \A dt : LibraryOf(<<"attn_gate", dt>>) # "candle"
  BY DEF LibraryOf

-----------------------------------------------------------------------------
(* A call whose kernels all have one of these names. *)
Named(c, names) == \A k \in Runs(c) : k[1] \in names

Glue == {"attn_gate", "permute_cast", "rope"}

LEMMA OneNamed ==
  ASSUME NEW call, NEW kernel, NEW grid, NEW tile, NEW extent,
         call.launches = <<Launch(kernel, grid, tile, extent)>>, NEW names, kernel[1] \in names
  PROVE  Named(call, names)
<1>1. Runs(call) \subseteq {kernel}
  BY OneRuns, Zenon
<1> QED
  BY <1>1 DEF Named

LEMMA CandleNamed ==
  ASSUME NEW out, NEW names
  PROVE  Named(Candle(out), names)
  BY CandleRuns DEF Named

LEMMA QLinearRuns ==
  ASSUME NEW w, NEW x
  PROVE  Runs(QLinear(w, x)) = {}
  BY CandleRuns DEF QLinear, QMatMul

LEMMA GlueNamed ==
  ASSUME NEW x, NEW y, NEW dt, NEW rows, NEW from, NEW nrot
  PROVE  /\ Named(run_permute_cast(x, dt), Glue) /\ Named(cast_to(x, dt), Glue)
         /\ Named(run_rope(x, rows, from, nrot, dt), Glue)
         /\ Named(run_attn_gate(x, y), Glue)
<1>1. ASSUME NEW z PROVE Named(run_permute_cast(z, dt), Glue)
  <2> DEFINE call == run_permute_cast(z, dt)
             kernel == <<"permute_cast", z.dt, dt>>
             n == Elems(z.dims)
  <2>1. call.launches = <<Launch(kernel, <<CeilDiv(n, 256), 1, 1>>, <<256, 1, 1>>, <<n, 1, 1>>)>>
    BY DEF run_permute_cast, Call, Linear
  <2>2. kernel[1] \in Glue
    BY DEF Glue
  <2> HIDE DEF call, kernel, n
  <2>3. Named(call, Glue)
    BY <2>1, <2>2, OneNamed, Zenon
  <2> QED
    BY <2>3 DEF call
<1>2. Named(cast_to(x, dt), Glue)
  <2> DEFINE row == Reshape(x, <<1, 1, Elems(x.dims)>>)
             call == run_permute_cast(row, dt)
  <2>1. cast_to(x, dt).launches = call.launches
    BY DEF cast_to, run_permute_cast, Call
  <2> HIDE DEF row
  <2>2. Named(call, Glue)
    BY <1>1
  <2> HIDE DEF call
  <2> QED
    BY <2>1, <2>2 DEF Named, Runs
<1>3. Named(run_rope(x, rows, from, nrot, dt), Glue)
  <2> DEFINE call == run_rope(x, rows, from, nrot, dt)
             kernel == <<"rope", dt>>
             n == Elems(x.dims)
  <2>1. call.launches = <<Launch(kernel, <<CeilDiv(n, 256), 1, 1>>, <<256, 1, 1>>, <<n, 1, 1>>)>>
    BY DEF run_rope, Call, Linear
  <2>2. kernel[1] \in Glue
    BY DEF Glue
  <2> HIDE DEF call, kernel, n
  <2>3. Named(call, Glue)
    BY <2>1, <2>2, OneNamed, Zenon
  <2> QED
    BY <2>3 DEF call
<1>4. Named(run_attn_gate(x, y), Glue)
  <2> DEFINE call == run_attn_gate(x, y)
             kernel == <<"attn_gate", x.dt>>
             n == Elems(x.dims)
  <2>1. call.launches = <<Launch(kernel, <<CeilDiv(n, 256), 1, 1>>, <<256, 1, 1>>, <<n, 1, 1>>)>>
    BY DEF run_attn_gate, Call, Linear
  <2>2. kernel[1] \in Glue
    BY DEF Glue
  <2> HIDE DEF call, kernel, n
  <2>3. Named(call, Glue)
    BY <2>1, <2>2, OneNamed, Zenon
  <2> QED
    BY <2>3 DEF call
<1> QED
  BY <1>1, <1>2, <1>3, <1>4

(* The gate of the fused glue runs its kernel. *)
LEMMA AttnGateRuns ==
  ASSUME NEW x, NEW gate
  PROVE  \E k \in Runs(run_attn_gate(x, gate)) : k[1] \in Glue
<1> DEFINE call == run_attn_gate(x, gate)
           kernel == <<"attn_gate", x.dt>>
           n == Elems(x.dims)
<1>1. call.launches = <<Launch(kernel, <<CeilDiv(n, 256), 1, 1>>, <<256, 1, 1>>, <<n, 1, 1>>)>>
  BY DEF run_attn_gate, Call, Linear
<1>2. kernel[1] \in Glue /\ LibraryOf(kernel) # "candle"
  BY Libraries DEF Glue
<1> HIDE DEF call, kernel, n
<1>3. Runs(call) = {kernel}
  BY <1>1, <1>2, OneRuns
<1> QED
  BY <1>2, <1>3 DEF call

LEMMA FlashRuns ==
  ASSUME NEW q, NEW k, NEW v, NEW from, NEW koff, NEW window
  PROVE  Runs(run_flash_attn(q, k, v, from, koff, window)) = {<<"flash">>}
<1> DEFINE call == run_flash_attn(q, k, v, from, koff, window)
<1>1. call.launches = <<Launch(<<"flash">>, <<CeilDiv(q.dims[2], 32), q.dims[1], 1>>, <<32, 1, 1>>,
                               <<q.dims[2], q.dims[1], 1>>)>>
  BY DEF run_flash_attn, Call
<1> HIDE DEF call
<1> QED
  BY <1>1, OneRuns, Libraries DEF call

LEMMA SiluMulRuns ==
  ASSUME NEW g, NEW u
  PROVE  Runs(run_silu_mul(g, u)) = {<<"silu_mul">>}
<1> DEFINE call == run_silu_mul(g, u)
           n == Elems(g.dims)
<1>1. call.launches = <<Launch(<<"silu_mul">>, <<CeilDiv(n, 256), 1, 1>>, <<256, 1, 1>>, <<n, 1, 1>>)>>
  BY DEF run_silu_mul, Call, Linear
<1> HIDE DEF call, n
<1> QED
  BY <1>1, OneRuns, Libraries DEF call

LEMMA CombineRuns ==
  ASSUME NEW down, NEW l2, NEW weights
  PROVE  \E name \in {"combine", "combine_rescale"} : Runs(run_combine(down, l2, weights)) = {<<name>>}
<1> DEFINE call == run_combine(down, l2, weights)
           name == IF l2 = NoL2 THEN "combine" ELSE "combine_rescale"
           n == down.dims[1] * down.dims[3]
<1>1. call.launches = <<Launch(<<name>>, <<n, 1, 1>>, <<1, 1, 1>>, <<n, 1, 1>>)>>
  BY DEF run_combine, Call
<1>2. name \in {"combine", "combine_rescale"} /\ LibraryOf(<<name>>) # "candle"
  BY Libraries
<1> HIDE DEF call, name, n
<1>3. Runs(call) = {<<name>>}
  BY <1>1, <1>2, OneRuns
<1> QED
  BY <1>2, <1>3 DEF call

(* The kernel of the five projections of a block. *)
ProjKernels ==
  IF sw.ATTN_F32 THEN {}
  ELSE IF case.ck.attn = "q8_0" /\ seq <= 8 /\ ~sw.ATTN_DEQUANT THEN {<<"mul_mv_q8_0_attn">>}
  ELSE IF seq > 8 THEN {F16MmKernel(sw)} ELSE {<<"mul_mv_f16">>}

LEMMA F16Runs ==
  ASSUME NEW w, NEW x
  PROVE  Runs(run_matmul_f16(sw, w, x)) =
           IF x.dims[1] > 8 THEN {F16MmKernel(sw)} ELSE {<<"mul_mv_f16">>}
<1> DEFINE call == run_matmul_f16(sw, w, x)
           t == x.dims[1]
           mm == F16MmKernel(sw)
<1>1. CASE t > 8
  <2>1. call.launches = <<Launch(mm, <<CeilDiv(t, 32), CeilDiv(w.n_out, 64), 1>>, <<32, 64, 1>>,
                                 <<t, w.n_out, 1>>)>>
    BY <1>1 DEF run_matmul_f16, Call, F16_MM_MIN_SEQ
  <2>2. LibraryOf(mm) # "candle"
    BY Libraries DEF F16MmKernel
  <2> HIDE DEF call, mm
  <2> QED
    BY <1>1, <2>1, <2>2, OneRuns DEF call, mm
<1>2. CASE ~(t > 8)
  <2>1. call.launches = <<Launch(<<"mul_mv_f16">>, <<CeilDiv(w.n_out, 2), t, 1>>, <<2, 1, 1>>,
                                 <<w.n_out, t, 1>>)>>
    BY <1>2 DEF run_matmul_f16, Call, F16_MM_MIN_SEQ
  <2> HIDE DEF call
  <2> QED
    BY <1>2, <2>1, OneRuns, Libraries DEF call
<1> QED
  BY <1>1, <1>2

LEMMA Q8Runs ==
  ASSUME NEW w, NEW x
  PROVE  Runs(run_matmul_q8(w, x)) = {<<"mul_mv_q8_0_attn">>}
<1> DEFINE call == run_matmul_q8(w, x)
<1>1. call.launches = <<Launch(<<"mul_mv_q8_0_attn">>, <<CeilDiv(w.n_out, 2), x.dims[1], 1>>,
                               <<2, 1, 1>>, <<w.n_out, x.dims[1], 1>>)>>
  BY DEF run_matmul_q8, Call
<1> HIDE DEF call
<1> QED
  BY <1>1, OneRuns, Libraries DEF call

LEMMA ProjRuns ==
  ASSUME Types, NEW w, NEW x, x.dims[1] = seq
  PROVE  Runs(Proj(w, x)) = ProjKernels
<1>1. CASE sw.ATTN_F32
  <2>1. Proj(w, x) = QLinear(w, x)
    BY <1>1 DEF Proj, ProjKind
  <2> QED
    BY <1>1, <2>1, QLinearRuns DEF ProjKernels
<1>2. CASE ~sw.ATTN_F32 /\ case.ck.attn = "q8_0" /\ seq <= 8 /\ ~sw.ATTN_DEQUANT
  <2>1. Proj(w, x) = run_matmul_q8(w, x)
    BY <1>2 DEF Proj, ProjKind, Q8_DECODE_MAX_SEQ
  <2> QED
    BY <1>2, <2>1, Q8Runs DEF ProjKernels
<1>3. CASE ~sw.ATTN_F32 /\ ~(case.ck.attn = "q8_0" /\ seq <= 8 /\ ~sw.ATTN_DEQUANT)
  <2>1. Proj(w, x) = run_matmul_f16(sw, w, x)
    BY <1>3 DEF Proj, ProjKind, Q8_DECODE_MAX_SEQ
  <2> QED
    BY <1>3, <2>1, F16Runs DEF ProjKernels
<1> QED
  BY <1>1, <1>2, <1>3

-----------------------------------------------------------------------------
(* The kernels a forward may run, under its switches and on its checkpoint:*)
(* the record's side of RecordTrue, kernel by kernel.                      *)
OfExperts == case.runner # "reference"

Allowed(k) ==
  /\ k[1] = "mul_mm_f16_t" => ~sw.ATTN_F32 /\ seq > 8 /\ ~sw.ATTN_MM_CLASSIC
  /\ k[1] = "mul_mm_f16" => ~sw.ATTN_F32 /\ seq > 8 /\ sw.ATTN_MM_CLASSIC
  /\ k[1] = "mul_mv_q8_0_attn" =>
       ~sw.ATTN_F32 /\ seq <= 8 /\ ~sw.ATTN_DEQUANT /\ case.ck.attn = "q8_0"
  /\ k[1] = "mul_mv_f16" =>
       ~sw.ATTN_F32 /\ seq <= 8 /\ ~(~sw.ATTN_DEQUANT /\ case.ck.attn = "q8_0")
  /\ k[1] \in {"combine", "combine_rescale"} => OfExperts /\ ~sw.COMBINE_CLASSIC
  /\ k[1] = "silu_mul" => OfExperts /\ ~sw.ACT_CLASSIC
  /\ k[1] \in Glue => case.metal /\ ~sw.GLUE_CLASSIC
  /\ k[1] = "flash" => TakesFlash
  /\ k[1] \in {"map0", "mul_mm_id"} => OfExperts /\ seq >= case.min_seq /\ ~sw.NO_MM_ID
  /\ k[1] = "mul_mm_id" => k[3] = Suffix(MmVariant)

RanAllowed == \A k \in ran : Allowed(k)
Clean(c) == \A k \in Runs(c) : Allowed(k)

LEMMA SameAllowed ==
  ASSUME case' = case
  PROVE  \A k : Allowed(k)' = Allowed(k)
  BY DEF Allowed, OfExperts, TakesFlash, MmVariant, seq, sw

LEMMA DoClean ==
  ASSUME RanAllowed, case' = case, NEW calls, NEW regs, NEW next, Do(calls, regs, next),
         \A n \in DOMAIN calls : Clean(calls[n])
  PROVE  RanAllowed'
<1>1. ran' \subseteq ran \cup UNION {Runs(calls[n]) : n \in DOMAIN calls}
  BY DoRuns, Zenon
<1>2. \A k \in ran' : Allowed(k)
  BY <1>1 DEF RanAllowed, Clean
<1>3. \A k : Allowed(k)' = Allowed(k)
  BY SameAllowed
<1> QED
  BY <1>2, <1>3 DEF RanAllowed

LEMMA CleanAll ==
  ASSUME NEW a, Clean(a)
  PROVE  /\ \A n \in DOMAIN <<a>> : Clean(<<a>>[n])
         /\ \A b : Clean(b) => \A n \in DOMAIN <<a, b>> : Clean(<<a, b>>[n])
         /\ \A b, c : Clean(b) /\ Clean(c) => \A n \in DOMAIN <<a, b, c>> : Clean(<<a, b, c>>[n])
         /\ \A b, c, d : Clean(b) /\ Clean(c) /\ Clean(d) =>
              \A n \in DOMAIN <<a, b, c, d>> : Clean(<<a, b, c, d>>[n])
<1>1. \A n \in DOMAIN <<a>> : Clean(<<a>>[n])
  OBVIOUS
<1>2. ASSUME NEW b, Clean(b), NEW n \in DOMAIN <<a, b>>
      PROVE  Clean(<<a, b>>[n])
  <2>1. n = 1 \/ n = 2
    OBVIOUS
  <2> QED
    BY <1>2, <2>1
<1>3. ASSUME NEW b, NEW c, Clean(b), Clean(c), NEW n \in DOMAIN <<a, b, c>>
      PROVE  Clean(<<a, b, c>>[n])
  <2>1. n = 1 \/ n = 2 \/ n = 3
    OBVIOUS
  <2> QED
    BY <1>3, <2>1
<1>4. ASSUME NEW b, NEW c, NEW d, Clean(b), Clean(c), Clean(d), NEW n \in DOMAIN <<a, b, c, d>>
      PROVE  Clean(<<a, b, c, d>>[n])
  <2>1. n = 1 \/ n = 2 \/ n = 3 \/ n = 4
    OBVIOUS
  <2> QED
    BY <1>4, <2>1
<1> QED
  BY <1>1, <1>2, <1>3, <1>4

(* Clean calls, by what they launch. *)
LEMMA NothingClean ==
  ASSUME NEW c, Runs(c) = {}
  PROVE  Clean(c)
  BY DEF Clean

LEMMA CandleClean ==
  ASSUME NEW out
  PROVE  Clean(Candle(out))
  BY CandleRuns, NothingClean, Zenon

LEMMA GlueClean ==
  ASSUME NEW c, Named(c, Glue), FusedGlue
  PROVE  Clean(c)
<1>1. \A k \in Runs(c) : k[1] = "attn_gate" \/ k[1] = "permute_cast" \/ k[1] = "rope"
  BY DEF Named, Glue
<1> QED
  BY <1>1 DEF Clean, Allowed, FusedGlue

LEMMA ProjClean ==
  ASSUME Types, NEW w, NEW x, x.dims[1] = seq
  PROVE  Clean(Proj(w, x))
<1>1. Runs(Proj(w, x)) = ProjKernels
  BY ProjRuns, Zenon
<1>2. seq \in Nat
  BY CaseFacts
<1>3. ASSUME NEW k \in ProjKernels PROVE Allowed(k)
  <2>1. CASE ~sw.ATTN_F32 /\ case.ck.attn = "q8_0" /\ seq <= 8 /\ ~sw.ATTN_DEQUANT
    <3>1. k[1] = "mul_mv_q8_0_attn"
      BY <1>3, <2>1 DEF ProjKernels
    <3> QED
      BY <2>1, <3>1 DEF Allowed, Glue
  <2>2. CASE ~sw.ATTN_F32 /\ ~(case.ck.attn = "q8_0" /\ seq <= 8 /\ ~sw.ATTN_DEQUANT) /\ seq > 8
    <3>1. k[1] = IF sw.ATTN_MM_CLASSIC THEN "mul_mm_f16" ELSE "mul_mm_f16_t"
      BY <1>3, <2>2 DEF ProjKernels, F16MmKernel
    <3> QED
      BY <2>2, <3>1 DEF Allowed, Glue
  <2>3. CASE ~sw.ATTN_F32 /\ ~(case.ck.attn = "q8_0" /\ seq <= 8 /\ ~sw.ATTN_DEQUANT) /\ ~(seq > 8)
    <3>1. k[1] = "mul_mv_f16"
      BY <1>3, <2>3 DEF ProjKernels
    <3>2. seq <= 8
      BY <1>2, <2>3
    <3> QED
      BY <2>3, <3>1, <3>2 DEF Allowed, Glue
  <2>4. CASE sw.ATTN_F32
    BY <1>3, <2>4 DEF ProjKernels
  <2> QED
    BY <2>1, <2>2, <2>3, <2>4
<1> QED
  BY <1>1, <1>3 DEF Clean

LEMMA MatmulClean ==
  ASSUME OfExperts, NEW stack, NEW x
  PROVE  Clean(Matmul(stack, x))
<1>1. CASE UseMm
  <2> DEFINE call == mul_mm_id_shared(MmVariant, stack, x, Ids, map0)
             kernel == <<"mul_mm_id", stack.dt, Suffix(MmVariant)>>
             t == x.dims[1]
  <2>1. call.launches = <<Launch(kernel, <<CeilDiv(t, 32), CeilDiv(stack.n_out, 64), stack.n_expert>>,
                                 <<32, 64, 1>>, <<t, stack.n_out, stack.n_expert>>)>>
    BY DEF mul_mm_id_shared, MmLaunch, Call
  <2>2. kernel[1] = "mul_mm_id" /\ kernel[3] = Suffix(MmVariant)
    OBVIOUS
  <2> HIDE DEF call, kernel, t
  <2>3. Runs(call) \subseteq {kernel}
    BY <2>1, OneRuns, Zenon
  <2>4. Allowed(kernel)
    BY <1>1, <2>2 DEF Allowed, Glue, UseMm
  <2>5. Clean(call)
    BY <2>3, <2>4 DEF Clean
  <2> QED
    BY <1>1, <2>5 DEF Matmul, call
<1>2. CASE ~UseMm
  <2> DEFINE call == mul_mv_id(sw, stack, x, Ids)
             own == ~sw.MV_CLASSIC /\ mv_vendored_supported(stack.dt)
             rows == IF own THEN MvVendoredRows(stack.dt) ELSE MvAlign(stack.dt)
             kernel == IF own THEN <<"mul_mv_id_v", stack.dt>> ELSE <<"mul_mv_id", stack.dt>>
             slots == Ids.dims[2] * x.dims[1]
  <2>1. call.launches = <<Launch(kernel, <<CeilDiv(stack.n_out, rows), 1, slots>>, <<rows, 1, 1>>,
                                 <<stack.n_out, 1, slots>>)>>
    BY DEF mul_mv_id, Call
  <2>2. kernel[1] = "mul_mv_id_v" \/ kernel[1] = "mul_mv_id"
    OBVIOUS
  <2> HIDE DEF call, kernel, slots, rows
  <2>3. Runs(call) \subseteq {kernel}
    BY <2>1, OneRuns, Zenon
  <2>4. Allowed(kernel)
    BY <2>2 DEF Allowed, Glue
  <2>5. Clean(call)
    BY <2>3, <2>4 DEF Clean
  <2> QED
    BY <1>2, <2>5 DEF Matmul, call
<1> QED
  BY <1>1, <1>2

-----------------------------------------------------------------------------
(* Where a forward stands. *)

Routed == {"gate_up", "activate", "down", "combine"}

(* The runner the experts of this block are computed by, and where the     *)
(* layers end.                                                             *)
Staged ==
  /\ pc \in {"experts"} \cup Routed => OfExperts
  /\ pc = "reference" => ~OfExperts
  /\ pc \in {"experts", "reference", "shared"} \cup Routed => il >= Config.dense_layers
  /\ pc \in {"head", "done"} => il + 1 \notin Layers

(* The steps of a forward that is not abandoned. *)
LEMMA Moves ==
  ASSUME Next, pc' # "failed"
  PROVE  \/ /\ il' = il
            /\ \/ <<pc, pc'>> \in {<<"begin", "project">>, <<"project", "permute">>,
                    <<"permute", "rotate">>, <<"rotate", "append">>, <<"append", "attend">>,
                    <<"attend", "gate">>, <<"gate", "output">>, <<"output", "ffn">>,
                    <<"gate_up", "activate">>, <<"activate", "down">>, <<"down", "combine">>,
                    <<"combine", "shared">>, <<"experts", "gate_up">>, <<"reference", "shared">>,
                    <<"head", "done">>}
               \/ pc = "ffn" /\ pc' = "experts" /\ OfExperts /\ il >= Config.dense_layers
               \/ pc = "ffn" /\ pc' = "reference" /\ ~OfExperts /\ il >= Config.dense_layers
         \/ /\ pc = "shared" \/ (pc = "ffn" /\ il < Config.dense_layers)
            /\ \/ pc' = "project" /\ il' = il + 1
               \/ pc' = "head" /\ il' = il /\ il + 1 \notin Layers
<1> DEFINE Step(a, b) == pc = a /\ pc' = b /\ il' = il
<1>1. \A calls, regs, next : Do(calls, regs, next) => pc' = next
  BY DoLeads, Zenon
<1>2. Begin => Step("begin", "project")
  BY <1>1, Zenon DEF Begin
<1>3. /\ Project => Step("project", "permute")
      /\ Permute => Step("permute", "rotate")
      /\ Rotate => Step("rotate", "append")
      /\ CacheAppend => Step("append", "attend")
  BY <1>1, Zenon DEF Project, Permute, Rotate, CacheAppend
<1>4. AttendFlash \/ AttendSdpa \/ AttendManual => Step("attend", "gate")
  BY <1>1, Zenon DEF AttendFlash, AttendSdpa, AttendManual
<1>5. (Gate => Step("gate", "output")) /\ (Output => Step("output", "ffn"))
  BY <1>1, Zenon DEF Gate, Output
<1>6. PrepareMap \/ NoMapNeeded => Step("experts", "gate_up")
  BY <1>1, Zenon DEF PrepareMap, NoMapNeeded
<1>7. /\ GateUp => Step("gate_up", "activate")
      /\ Activate => Step("activate", "down")
      /\ Down => Step("down", "combine")
      /\ Combine => Step("combine", "shared")
      /\ ReferenceExperts => Step("reference", "shared")
  BY <1>1, Zenon DEF GateUp, Activate, Down, Combine, ReferenceExperts
<1>8. LastLogits \/ AllLogits => Step("head", "done")
  BY <1>1, Zenon DEF LastLogits, AllLogits, EmitLogits
<1>9. ASSUME Route
      PROVE  /\ pc = "ffn" /\ il' = il /\ il >= Config.dense_layers
             /\ pc' = IF case.runner = "reference" THEN "reference" ELSE "experts"
  BY <1>1, <1>9, Zenon DEF Route
<1>10. ASSUME NEW calls, NEW out, EndLayer(calls, out)
       PROVE  \/ pc' = "project" /\ il' = il + 1
              \/ pc' = "head" /\ il' = il /\ il + 1 \notin Layers
  <2>1. pc' = NextLayer /\ il' = IF pc' = "project" THEN il + 1 ELSE il
    BY <1>1, <1>10, Zenon DEF EndLayer
  <2> QED
    BY <2>1 DEF NextLayer
<1>11. ASSUME Dense \/ Shared
       PROVE  /\ pc = "shared" \/ (pc = "ffn" /\ il < Config.dense_layers)
              /\ \/ pc' = "project" /\ il' = il + 1
                 \/ pc' = "head" /\ il' = il /\ il + 1 \notin Layers
  BY <1>10, <1>11, Zenon DEF Dense, Shared
<1>12. CASE Route
  BY <1>9, <1>12 DEF OfExperts
<1>13. CASE Dense \/ Shared
  BY <1>11, <1>13
<1>14. CASE ~Route /\ ~Dense /\ ~Shared
  <2>1. \/ Step("begin", "project") \/ Step("project", "permute") \/ Step("permute", "rotate")
        \/ Step("rotate", "append") \/ Step("append", "attend") \/ Step("attend", "gate")
        \/ Step("gate", "output") \/ Step("output", "ffn") \/ Step("experts", "gate_up")
        \/ Step("gate_up", "activate") \/ Step("activate", "down") \/ Step("down", "combine")
        \/ Step("combine", "shared") \/ Step("reference", "shared") \/ Step("head", "done")
    <3> HIDE DEF Step
    <3> QED
      BY <1>2, <1>3, <1>4, <1>5, <1>6, <1>7, <1>8, <1>14, Zenon DEF Next, Attention, Ffn
  <2> QED
    BY <2>1
<1> QED
  BY <1>12, <1>13, <1>14

LEMMA SameStage ==
  ASSUME case' = case
  PROVE  OfExperts' = OfExperts /\ TakesFlash' = TakesFlash /\ FusedGlue' = FusedGlue /\ sw' = sw
  BY DEF OfExperts, TakesFlash, FusedGlue, seq, sw

LEMMA StagedStep ==
  ASSUME Types, Staged, Next
  PROVE  Staged'
<1>1. OfExperts' = OfExperts
  BY SameCase, SameStage, Zenon
<1>2. Layers' = Layers
  BY DEF Layers
<1>3. CASE pc' = "failed"
  BY <1>3 DEF Staged, Routed
<1>4. CASE pc' # "failed"
  <2>1. CASE /\ pc = "shared" \/ (pc = "ffn" /\ il < Config.dense_layers)
             /\ \/ pc' = "project" /\ il' = il + 1
                \/ pc' = "head" /\ il' = il /\ il + 1 \notin Layers
    BY <1>2, <2>1 DEF Staged, Routed
  <2>2. CASE /\ il' = il
             /\ \/ pc = "ffn" /\ pc' = "experts" /\ OfExperts /\ il >= Config.dense_layers
                \/ pc = "ffn" /\ pc' = "reference" /\ ~OfExperts /\ il >= Config.dense_layers
    BY <1>1, <2>2 DEF Staged, Routed
  <2>3. CASE /\ il' = il
             /\ <<pc, pc'>> \in {<<"begin", "project">>, <<"project", "permute">>,
                    <<"permute", "rotate">>, <<"rotate", "append">>, <<"append", "attend">>,
                    <<"attend", "gate">>, <<"gate", "output">>, <<"output", "ffn">>,
                    <<"gate_up", "activate">>, <<"activate", "down">>, <<"down", "combine">>,
                    <<"combine", "shared">>, <<"experts", "gate_up">>, <<"reference", "shared">>,
                    <<"head", "done">>}
    BY <1>1, <1>2, <2>3 DEF Staged, Routed
  <2> QED
    BY <1>4, <2>1, <2>2, <2>3, Moves, Zenon
<1> QED
  BY <1>3, <1>4

-----------------------------------------------------------------------------
(* Every kernel a step runs is allowed. *)

LEMMA RanProject ==
  ASSUME Types, Blocks, RanAllowed, Project
  PROVE  RanAllowed'
<1> DEFINE g == Proj(Weight("g", NHead(il), Config.hidden), r.x)
           q == Proj(Weight("q", NHead(il) * HeadDim, Config.hidden), r.x)
           k == Proj(Weight("k", Config.n_kv_head * HeadDim, Config.hidden), r.x)
           v == Proj(Weight("v", Config.n_kv_head * HeadDim, Config.hidden), r.x)
<1>1. r.x.dims[1] = seq
  BY DEF Project, Blocks, Hidden, Tensor
<1>2. Clean(g) /\ Clean(q) /\ Clean(k) /\ Clean(v)
  BY <1>1, ProjClean, Zenon
<1>3. case' = case /\ \E regs : Do(<<g, q, k, v>>, regs, "permute")
  BY Zenon DEF Project
<1> HIDE DEF g, q, k, v
<1>4. \A n \in DOMAIN <<g, q, k, v>> : Clean(<<g, q, k, v>>[n])
  BY <1>2, CleanAll, Zenon
<1> QED
  BY <1>3, <1>4, DoClean, Zenon

LEMMA HeadFirstClean ==
  ASSUME NEW x, NEW dt
  PROVE  Clean(HeadFirst(x, dt))
<1>1. \A out : Clean(Candle(out))
  BY CandleClean
<1>2. FusedGlue => Clean(run_permute_cast(x, dt))
  BY GlueNamed, GlueClean, Zenon
<1> QED
  BY <1>1, <1>2 DEF HeadFirst

LEMMA RanPermute ==
  ASSUME RanAllowed, Permute
  PROVE  RanAllowed'
<1> DEFINE q == HeadFirst(r.q, "f32")
           k == HeadFirst(r.k, "f32")
           v == HeadFirst(r.v, "f16")
<1>1. Clean(q) /\ Clean(k) /\ Clean(v)
  BY HeadFirstClean, Zenon
<1>2. case' = case /\ \E regs : Do(<<q, k, v>>, regs, "rotate")
  BY Zenon DEF Permute
<1> HIDE DEF q, k, v
<1>3. \A n \in DOMAIN <<q, k, v>> : Clean(<<q, k, v>>[n])
  BY <1>1, CleanAll, Zenon
<1> QED
  BY <1>2, <1>3, DoClean, Zenon

LEMMA RotateClean ==
  ASSUME NEW x, NEW dt
  PROVE  Clean(RotateBy(x, dt))
<1> DEFINE table == RopeTable(Kind(il))
           fused == run_rope(x, table.rows, pos, table.n_rot, dt)
<1>1. \A out : Clean(Candle(out))
  BY CandleClean
<1>2. FusedGlue => Clean(fused)
  BY GlueNamed, GlueClean, Zenon
<1>3. RotateBy(x, dt) = IF case.metal /\ x.cont /\ ~sw.GLUE_CLASSIC THEN fused
                        ELSE Candle(ToDtype(Op(x, "rope"), dt))
  BY Zenon DEF RotateBy
<1> HIDE DEF fused
<1> QED
  BY <1>1, <1>2, <1>3 DEF FusedGlue

LEMMA RanRotate ==
  ASSUME RanAllowed, Rotate
  PROVE  RanAllowed'
<1> DEFINE qdt == IF FusedGlue /\ seq = 1 /\ ~sw.SDPA_F32 THEN "f16" ELSE "f32"
           kdt == IF FusedGlue THEN "f16" ELSE "f32"
           q == RotateBy(r.q, qdt)
           k == RotateBy(r.k, kdt)
<1>1. Clean(q) /\ Clean(k)
  BY RotateClean, Zenon
<1>2. case' = case /\ \E regs : Do(<<q, k>>, regs, "append")
  BY Zenon DEF Rotate
<1> HIDE DEF q, k
<1>3. \A n \in DOMAIN <<q, k>> : Clean(<<q, k>>[n])
  BY <1>1, CleanAll, Zenon
<1> QED
  BY <1>2, <1>3, DoClean, Zenon

LEMMA CastF16Clean ==
  ASSUME NEW x
  PROVE  Clean(CastF16(x))
<1>1. \A out : Clean(Candle(out))
  BY CandleClean
<1>2. FusedGlue => Clean(cast_to(x, "f16"))
  BY GlueNamed, GlueClean, Zenon
<1> QED
  BY <1>1, <1>2 DEF CastF16

LEMMA RanAppend ==
  ASSUME RanAllowed, CacheAppend
  PROVE  RanAllowed'
<1> DEFINE k == Candle(ToDtype(r.k, "f16"))
           v == CastF16(r.v)
<1>1. Clean(k) /\ Clean(v)
  BY CandleClean, CastF16Clean, Zenon
<1>2. case' = case /\ \E regs : Do(<<k, v>>, regs, "attend")
  BY Zenon DEF CacheAppend
<1> HIDE DEF k, v
<1>3. \A n \in DOMAIN <<k, v>> : Clean(<<k, v>>[n])
  BY <1>1, CleanAll, Zenon
<1> QED
  BY <1>2, <1>3, DoClean, Zenon

LEMMA SoftmaxRuns ==
  ASSUME NEW q, NEW k, NEW v, NEW dt
  PROVE  Clean(Softmax(q, k, v, dt))
<1>1. Softmax(q, k, v, dt).launches = <<>>
  BY DEF Softmax, Call
<1>2. Runs(Softmax(q, k, v, dt)) = {}
  BY <1>1 DEF Runs, S!Range
<1> QED
  BY <1>2, NothingClean

LEMMA RanAttend ==
  ASSUME RanAllowed, AttendFlash \/ AttendSdpa \/ AttendManual
  PROVE  RanAllowed'
<1>1. CASE AttendFlash
  <2> DEFINE c == FlashCall
             a == run_flash_attn(r.q, r.k, r.v, c.pos, c.koff, c.window)
  <2>1. case' = case /\ TakesFlash /\ \E regs : Do(<<a>>, regs, "gate")
    BY <1>1, Zenon DEF AttendFlash
  <2>2. Runs(a) = {<<"flash">>}
    BY FlashRuns, Zenon
  <2> HIDE DEF a
  <2>3. Clean(a)
    BY <2>1, <2>2 DEF Clean, Allowed, Glue
  <2>4. \A n \in DOMAIN <<a>> : Clean(<<a>>[n])
    BY <2>3, CleanAll, Zenon
  <2> QED
    BY <2>1, <2>4, DoClean, Zenon
<1>2. CASE AttendManual \/ (AttendSdpa /\ sw.SDPA_F32)
  <2> DEFINE a == Softmax(r.q, ToDtype(r.k, "f32"), ToDtype(r.v, "f32"), "f32")
  <2>1. case' = case /\ \E regs : Do(<<a>>, regs, "gate")
    BY <1>2, Zenon DEF AttendManual, AttendSdpa
  <2>2. Clean(a)
    BY SoftmaxRuns, Zenon
  <2> HIDE DEF a
  <2>3. \A n \in DOMAIN <<a>> : Clean(<<a>>[n])
    BY <2>2, CleanAll, Zenon
  <2> QED
    BY <2>1, <2>3, DoClean, Zenon
<1>3. CASE AttendSdpa /\ ~sw.SDPA_F32
  <2> DEFINE q == CastF16(r.q)
             a == Softmax(q.out, r.k, r.v, "f16")
             w == IF FusedGlue /\ seq = 1 THEN Candle(a.out)
                  ELSE IF FusedGlue THEN cast_to(a.out, "f32")
                  ELSE Candle(ToDtype(a.out, "f32"))
  <2>1. case' = case /\ \E regs : Do(<<q, a, w>>, regs, "gate")
    BY <1>3, Zenon DEF AttendSdpa
  <2>2. Clean(q) /\ Clean(a)
    BY CastF16Clean, SoftmaxRuns, Zenon
  <2>3. Clean(w)
    <3> HIDE DEF a
    <3>1. \A out : Clean(Candle(out))
      BY CandleClean
    <3>2. FusedGlue => Clean(cast_to(a.out, "f32"))
      BY GlueNamed, GlueClean, Zenon
    <3> QED
      BY <3>1, <3>2
  <2> HIDE DEF q, a, w
  <2>4. \A n \in DOMAIN <<q, a, w>> : Clean(<<q, a, w>>[n])
    BY <2>2, <2>3, CleanAll, Zenon
  <2> QED
    BY <2>1, <2>4, DoClean, Zenon
<1> QED
  BY <1>1, <1>2, <1>3

LEMMA RanGate ==
  ASSUME RanAllowed, Gate
  PROVE  RanAllowed'
<1> DEFINE fused == run_attn_gate(r.attn, r.g)
           plain == Candle(Tensor("f32", r.attn.dims, r.attn.val \o r.g.val \o <<"softplus", "gate">>))
           a == IF FusedGlue THEN fused ELSE plain
<1>1. case' = case /\ \E regs : Do(<<a>>, regs, "output")
  BY Zenon DEF Gate
<1>2. FusedGlue => Clean(fused)
  BY GlueNamed, GlueClean, Zenon
<1>3. Clean(plain)
  BY CandleClean
<1> HIDE DEF fused, plain
<1>4. Clean(a)
  BY <1>2, <1>3
<1> HIDE DEF a
<1>5. \A n \in DOMAIN <<a>> : Clean(<<a>>[n])
  BY <1>4, CleanAll, Zenon
<1> QED
  BY <1>1, <1>5, DoClean, Zenon

LEMMA RanOutput ==
  ASSUME Types, RanAllowed, Output
  PROVE  RanAllowed'
<1> DEFINE width == NHead(il) * HeadDim
           fused == run_permute_cast(r.attn, "f32")
           p == IF seq = 1 THEN Candle(r.attn)
                ELSE IF FusedGlue THEN fused
                ELSE Candle(Contiguous(Transpose01(r.attn)))
           x == Reshape(p.out, <<seq, width>>)
           o == Proj(Weight("o", Config.hidden, width), x)
<1>1. case' = case /\ \E regs : Do(<<p, o>>, regs, "ffn")
  BY Zenon DEF Output
<1>2. x.dims[1] = seq
  <2> HIDE DEF p
  <2>1. x.dims = <<seq, width>>
    BY DEF Reshape
  <2> QED
    BY <2>1
<1>3. Clean(p)
  <2>1. \A out : Clean(Candle(out))
    BY CandleClean
  <2>2. FusedGlue => Clean(fused)
    BY GlueNamed, GlueClean, Zenon
  <2> HIDE DEF fused
  <2> QED
    BY <2>1, <2>2
<1> HIDE DEF p, x, width
<1>4. Clean(o)
  BY <1>2, ProjClean, Zenon
<1> HIDE DEF o
<1>5. \A n \in DOMAIN <<p, o>> : Clean(<<p, o>>[n])
  BY <1>3, <1>4, CleanAll, Zenon
<1> QED
  BY <1>1, <1>5, DoClean, Zenon

LEMMA QLinearClean ==
  ASSUME NEW w, NEW x
  PROVE  Clean(QLinear(w, x))
  BY QLinearRuns, NothingClean, Zenon

LEMMA RanEnd ==
  ASSUME RanAllowed, NEW name, NEW width, NEW x, NEW out, EndLayer(Swiglu(name, width, x), out)
  PROVE  RanAllowed'
<1> DEFINE g == QLinear(Weight(name \o ".gate", width, Config.hidden), x)
           u == QLinear(Weight(name \o ".up", width, Config.hidden), x)
           d == QLinear(Weight(name \o ".down", Config.hidden, width), SiluMul(g.out, u.out))
<1>1. Clean(g) /\ Clean(u) /\ Clean(d)
  BY QLinearClean, Zenon
<1>2. Swiglu(name, width, x) = <<g, u, d>>
  BY Zenon DEF Swiglu
<1>3. case' = case /\ \E regs : Do(Swiglu(name, width, x), regs, NextLayer)
  BY Zenon DEF EndLayer
<1> HIDE DEF g, u, d
<1>4. \A n \in DOMAIN <<g, u, d>> : Clean(<<g, u, d>>[n])
  BY <1>1, CleanAll, Zenon
<1> QED
  BY <1>2, <1>3, <1>4, DoClean, Zenon

LEMMA RanExperts ==
  ASSUME RanAllowed, Staged, PrepareMap \/ NoMapNeeded
  PROVE  RanAllowed'
<1>1. CASE NoMapNeeded
  <2>1. case' = case /\ Do(<<>>, r, "gate_up")
    BY <1>1 DEF NoMapNeeded
  <2>2. \A n \in DOMAIN <<>> : Clean(<<>>[n])
    OBVIOUS
  <2> QED
    BY <2>1, <2>2, DoClean, Zenon
<1>2. CASE PrepareMap
  <2> DEFINE m == prepare_map0(Config.n_expert, Ids, Routing)
             kernel == <<"map0", "">>
             one == <<1, 1, 1>>
             all == <<Config.n_expert, 1, 1>>
  <2>1. case' = case /\ Do(<<m>>, r, "gate_up") /\ UseMm /\ OfExperts
    BY <1>2 DEF PrepareMap, Staged
  <2>2. m.launches = <<Launch(kernel, one, all, all)>>
    BY DEF prepare_map0, Call
  <2>3. kernel[1] = "map0"
    OBVIOUS
  <2> HIDE DEF m, kernel, one, all
  <2>4. Runs(m) \subseteq {kernel}
    BY <2>2, OneRuns, Zenon
  <2>5. Allowed(kernel)
    BY <2>1, <2>3 DEF Allowed, Glue, UseMm
  <2>6. Clean(m)
    BY <2>4, <2>5 DEF Clean
  <2>7. \A k \in DOMAIN <<m>> : Clean(<<m>>[k])
    BY <2>6, CleanAll, Zenon
  <2> QED
    BY <2>1, <2>7, DoClean, Zenon
<1> QED
  BY <1>1, <1>2

LEMMA RanMatmul ==
  ASSUME RanAllowed, Staged, GateUp \/ Down
  PROVE  RanAllowed'
<1>1. OfExperts
  BY DEF GateUp, Down, Staged, Routed
<1>2. CASE GateUp
  <2> DEFINE x == Reshape(r.x, <<seq, 1, Config.hidden>>)
             g == Matmul(GateStack, x)
             u == Matmul(UpStack, x)
  <2>1. case' = case /\ \E regs : Do(<<g, u>>, regs, "activate")
    BY <1>2, Zenon DEF GateUp
  <2>2. Clean(g) /\ Clean(u)
    BY <1>1, MatmulClean, Zenon
  <2> HIDE DEF g, u
  <2>3. \A n \in DOMAIN <<g, u>> : Clean(<<g, u>>[n])
    BY <2>2, CleanAll, Zenon
  <2> QED
    BY <2>1, <2>3, DoClean, Zenon
<1>3. CASE Down
  <2> DEFINE d == Matmul(DownStack, IF NeedsRescale THEN Op(r.act, "scale") ELSE r.act)
  <2>1. case' = case /\ \E regs : Do(<<d>>, regs, "combine")
    BY <1>3, Zenon DEF Down
  <2>2. Clean(d)
    BY <1>1, MatmulClean, Zenon
  <2> HIDE DEF d
  <2>3. \A n \in DOMAIN <<d>> : Clean(<<d>>[n])
    BY <2>2, CleanAll, Zenon
  <2> QED
    BY <2>1, <2>3, DoClean, Zenon
<1> QED
  BY <1>2, <1>3

LEMMA RanActivate ==
  ASSUME RanAllowed, Staged, Activate
  PROVE  RanAllowed'
<1> DEFINE fused == run_silu_mul(r.gate, r.up)
           plain == Candle(SiluMul(r.gate, r.up))
           a == IF sw.ACT_CLASSIC THEN plain ELSE fused
<1>1. case' = case /\ \E regs : Do(<<a>>, regs, "down")
  BY Zenon DEF Activate
<1>2. OfExperts
  BY DEF Activate, Staged, Routed
<1>3. Clean(plain)
  BY CandleClean
<1>4. Runs(fused) = {<<"silu_mul">>}
  BY SiluMulRuns
<1> HIDE DEF fused, plain
<1>5. ~sw.ACT_CLASSIC => Clean(fused)
  BY <1>2, <1>4 DEF Clean, Allowed, Glue
<1>6. Clean(a)
  BY <1>3, <1>5
<1> HIDE DEF a
<1>7. \A n \in DOMAIN <<a>> : Clean(<<a>>[n])
  BY <1>6, CleanAll, Zenon
<1> QED
  BY <1>1, <1>7, DoClean, Zenon

LEMMA RanCombine ==
  ASSUME RanAllowed, Staged, Combine
  PROVE  RanAllowed'
<1> DEFINE fused == run_combine(r.down, r.l2, RouteWeights)
           plain == CombineClassic(r.down, r.l2)
           c == IF sw.COMBINE_CLASSIC THEN plain ELSE fused
<1>1. case' = case /\ \E regs : Do(<<c>>, regs, "shared")
  BY Zenon DEF Combine
<1>2. OfExperts
  BY DEF Combine, Staged, Routed
<1>3. Clean(plain)
  BY CandleClean DEF CombineClassic
<1>4. PICK name \in {"combine", "combine_rescale"} : Runs(fused) = {<<name>>}
  BY CombineRuns, Zenon
<1> HIDE DEF fused, plain
<1>5. ~sw.COMBINE_CLASSIC => Clean(fused)
  BY <1>2, <1>4 DEF Clean, Allowed, Glue
<1>6. Clean(c)
  BY <1>3, <1>5
<1> HIDE DEF c
<1>7. \A n \in DOMAIN <<c>> : Clean(<<c>>[n])
  BY <1>6, CleanAll, Zenon
<1> QED
  BY <1>1, <1>7, DoClean, Zenon

LEMMA RanHead ==
  ASSUME RanAllowed, LastLogits \/ AllLogits
  PROVE  RanAllowed'
<1>1. ASSUME NEW c, EmitLogits(c), Clean(c)
      PROVE  RanAllowed'
  <2>1. case' = case /\ Do(<<c>>, NoBlock, "done")
    BY <1>1 DEF EmitLogits
  <2>2. \A n \in DOMAIN <<c>> : Clean(<<c>>[n])
    BY <1>1, CleanAll, Zenon
  <2> QED
    BY <2>1, <2>2, DoClean, Zenon
<1>2. CASE AllLogits
  BY <1>1, <1>2, QLinearClean, Zenon DEF AllLogits
<1>3. CASE LastLogits
  <2> DEFINE mv == mul_mv(HeadWeight, LastRow(Normed))
             mm == QLinear(HeadWeight, LastRow(Normed))
             kernel == <<"mul_mv_v", HeadWeight.dt>>
             n == HeadWeight.n_out
             rows == MvVendoredRows(HeadWeight.dt)
             t == LastRow(Normed).dims[1]
  <2>1. EmitLogits(mv) \/ EmitLogits(mm)
    BY <1>3, Zenon DEF LastLogits
  <2>2. Clean(mm)
    BY QLinearClean, Zenon
  <2>3. mv.launches = <<Launch(kernel, <<CeilDiv(n, rows), t, 1>>, <<rows, 1, 1>>, <<n, t, 1>>)>>
    BY DEF mul_mv, Call
  <2>4. kernel[1] = "mul_mv_v"
    OBVIOUS
  <2> HIDE DEF mv, mm, kernel, n, rows, t
  <2>5. Runs(mv) \subseteq {kernel}
    BY <2>3, OneRuns, Zenon
  <2>6. Allowed(kernel)
    BY <2>4 DEF Allowed, Glue
  <2>7. Clean(mv)
    BY <2>5, <2>6 DEF Clean
  <2> QED
    BY <1>1, <2>1, <2>2, <2>7, Zenon
<1> QED
  BY <1>2, <1>3

LEMMA RanStep ==
  ASSUME Types, Blocks, Staged, RanAllowed, Next
  PROVE  RanAllowed'
<1>1. ASSUME NEW regs, NEW next, Do(<<>>, regs, next), case' = case
      PROVE  RanAllowed'
  <2>1. \A n \in DOMAIN <<>> : Clean(<<>>[n])
    OBVIOUS
  <2> QED
    BY <1>1, <2>1, DoClean, Zenon
<1>2. CASE Begin
  <2>1. CASE pos + seq <= Config.max_ctx
    BY <1>1, <1>2, <2>1, Zenon DEF Begin
  <2>2. CASE ~(pos + seq <= Config.max_ctx)
    <3> DEFINE refused == Call(FALSE, NoTensor, <<>>)
    <3>1. Do(<<refused>>, r, "project") /\ case' = case
      BY <1>2, <2>2 DEF Begin
    <3>2. refused.launches = <<>>
      BY DEF Call
    <3> HIDE DEF refused
    <3>3. Clean(refused)
      BY <3>2 DEF Clean, Runs, S!Range
    <3>4. \A n \in DOMAIN <<refused>> : Clean(<<refused>>[n])
      BY <3>3, CleanAll, Zenon
    <3> QED
      BY <3>1, <3>4, DoClean, Zenon
  <2> QED
    BY <2>1, <2>2
<1>3. CASE Attention
  BY <1>3, RanProject, RanPermute, RanRotate, RanAppend, RanAttend, RanGate, RanOutput, Zenon
  DEF Attention
<1>4. CASE Route \/ ReferenceExperts
  BY <1>1, <1>4, Zenon DEF Route, ReferenceExperts
<1>5. CASE Dense \/ Shared
  BY <1>5, RanEnd, Zenon DEF Dense, Shared
<1>6. CASE PrepareMap \/ NoMapNeeded \/ GateUp \/ Activate \/ Down \/ Combine
  BY <1>6, RanExperts, RanMatmul, RanActivate, RanCombine, Zenon
<1>7. CASE LastLogits \/ AllLogits
  BY <1>7, RanHead
<1> QED
  BY <1>2, <1>3, <1>4, <1>5, <1>6, <1>7, Zenon DEF Next, Ffn

-----------------------------------------------------------------------------
(* What a forward has run by then. *)

(* The steps of a layer after its attention.                               *)
Later == {"ffn", "experts", "reference", "shared", "head", "done"} \cup Routed

ProjRan ==
  (pc # "failed" /\ (pc \notin {"begin", "project"} \/ il > 0)) => ProjKernels \subseteq ran
FlashRan ==
  (TakesFlash /\ pc # "failed" /\ (pc \in {"gate", "output"} \cup Later \/ il > 0)) =>
    <<"flash">> \in ran
GateRan ==
  (FusedGlue /\ pc # "failed" /\ (pc \in {"output"} \cup Later \/ il > 0)) =>
    \E k \in ran : k[1] \in Glue
SiluRan ==
  (/\ OfExperts /\ ~sw.ACT_CLASSIC /\ pc # "failed"
   /\ \/ pc \in {"down", "combine", "shared", "head", "done"} /\ il >= Config.dense_layers
      \/ il > Config.dense_layers) =>
    <<"silu_mul">> \in ran
CombineRan ==
  (/\ OfExperts /\ ~sw.COMBINE_CLASSIC /\ pc # "failed"
   /\ \/ pc \in {"shared", "head", "done"} /\ il >= Config.dense_layers
      \/ il > Config.dense_layers) =>
    \E name \in {"combine", "combine_rescale"} : <<name>> \in ran

(* The step that is due is the one that is taken. *)
LEMMA Due ==
  ASSUME Next
  PROVE  /\ pc = "project" => Project
         /\ pc = "attend" => AttendFlash \/ AttendSdpa \/ AttendManual
         /\ pc = "gate" => Gate
         /\ pc = "activate" => Activate
         /\ pc = "combine" => Combine
<1>1. /\ Begin => pc = "begin"
      /\ Permute => pc = "permute"
      /\ Rotate => pc = "rotate"
      /\ CacheAppend => pc = "append"
      /\ Output => pc = "output"
  BY Zenon DEF Begin, Permute, Rotate, CacheAppend, Output
<1>2. /\ Project => pc = "project"
      /\ Gate => pc = "gate"
      /\ Activate => pc = "activate"
      /\ Combine => pc = "combine"
      /\ AttendFlash \/ AttendSdpa \/ AttendManual => pc = "attend"
  BY Zenon DEF Project, Gate, Activate, Combine, AttendFlash, AttendSdpa, AttendManual
<1>3. /\ Dense \/ Route => pc = "ffn"
      /\ ReferenceExperts => pc = "reference"
      /\ PrepareMap \/ NoMapNeeded => pc = "experts"
      /\ GateUp => pc = "gate_up"
      /\ Down => pc = "down"
      /\ Shared => pc = "shared"
  BY Zenon DEF Dense, Route, ReferenceExperts, PrepareMap, NoMapNeeded, GateUp, Down, Shared
<1>4. LastLogits \/ AllLogits => pc = "head"
  BY Zenon DEF LastLogits, AllLogits
<1> QED
  BY <1>1, <1>2, <1>3, <1>4 DEF Next, Attention, Ffn

LEMMA RanGrows ==
  ASSUME Next
  PROVE  ran \subseteq ran'
<1>1. \A calls, regs, next : Do(calls, regs, next) => ran \subseteq ran'
  BY DoRuns, Zenon
<1>2. CASE Begin
  BY <1>1, <1>2, Zenon DEF Begin
<1>3. CASE Attention
  <2>1. CASE Project \/ Permute \/ Rotate \/ CacheAppend
    BY <1>1, <2>1, Zenon DEF Project, Permute, Rotate, CacheAppend
  <2>2. CASE AttendFlash \/ AttendSdpa \/ AttendManual
    BY <1>1, <2>2, Zenon DEF AttendFlash, AttendSdpa, AttendManual
  <2>3. CASE Gate \/ Output
    BY <1>1, <2>3, Zenon DEF Gate, Output
  <2> QED
    BY <1>3, <2>1, <2>2, <2>3 DEF Attention
<1>4. CASE Ffn
  <2>1. CASE Dense \/ Shared
    BY <1>1, <2>1, Zenon DEF Dense, Shared, EndLayer
  <2>2. CASE Route \/ ReferenceExperts \/ PrepareMap \/ NoMapNeeded
    BY <1>1, <2>2, Zenon DEF Route, ReferenceExperts, PrepareMap, NoMapNeeded
  <2>3. CASE GateUp \/ Activate \/ Down \/ Combine
    BY <1>1, <2>3, Zenon DEF GateUp, Activate, Down, Combine
  <2> QED
    BY <1>4, <2>1, <2>2, <2>3 DEF Ffn
<1>5. CASE LastLogits \/ AllLogits
  BY <1>1, <1>5, Zenon DEF LastLogits, AllLogits, EmitLogits
<1> QED
  BY <1>2, <1>3, <1>4, <1>5 DEF Next

(* A step that leads on has run the kernels of each of its calls. *)
LEMMA DoneRuns ==
  ASSUME NEW calls, NEW regs, NEW next, Do(calls, regs, next), pc' # "failed",
         NEW n \in DOMAIN calls
  PROVE  Runs(calls[n]) \subseteq ran'
  BY DoRuns, Zenon

LEMMA ProjRanStep ==
  ASSUME Types, Blocks, ProjRan, Next
  PROVE  ProjRan'
<1> SUFFICES ASSUME pc' # "failed", pc' \notin {"begin", "project"} \/ il' > 0
             PROVE  ProjKernels \subseteq ran'
  <2>1. case' = case
    BY SameCase
  <2>2. ProjKernels' = ProjKernels
    BY <2>1 DEF ProjKernels, F16MmKernel, seq, sw
  <2> QED
    BY <2>2 DEF ProjRan
<1>1. CASE pc = "project"
  <2> DEFINE g == Proj(Weight("g", NHead(il), Config.hidden), r.x)
             q == Proj(Weight("q", NHead(il) * HeadDim, Config.hidden), r.x)
             k == Proj(Weight("k", Config.n_kv_head * HeadDim, Config.hidden), r.x)
             v == Proj(Weight("v", Config.n_kv_head * HeadDim, Config.hidden), r.x)
  <2>1. r.x.dims[1] = seq
    BY <1>1 DEF Blocks, Hidden, Tensor
  <2>2. Runs(g) = ProjKernels
    BY <2>1, ProjRuns, Zenon
  <2>3. PICK regs : Do(<<g, q, k, v>>, regs, "permute")
    BY <1>1, Due, Zenon DEF Project
  <2> HIDE DEF g, q, k, v
  <2>4. 1 \in DOMAIN <<g, q, k, v>> /\ <<g, q, k, v>>[1] = g
    OBVIOUS
  <2>5. Runs(<<g, q, k, v>>[1]) \subseteq ran'
    BY <2>3, <2>4, DoneRuns, Zenon
  <2> QED
    BY <2>2, <2>4, <2>5
<1>2. CASE pc # "project"
  <2>1. pc # "failed" /\ (pc \notin {"begin", "project"} \/ il > 0)
    BY <1>2, Moves DEF Types, Layers
  <2> QED
    BY <2>1, RanGrows DEF ProjRan
<1> QED
  BY <1>1, <1>2

LEMMA FlashRanStep ==
  ASSUME Types, FlashRan, Next
  PROVE  FlashRan'
<1> SUFFICES ASSUME TakesFlash, pc' # "failed", pc' \in {"gate", "output"} \cup Later \/ il' > 0
             PROVE  <<"flash">> \in ran'
  <2>1. TakesFlash' = TakesFlash
    BY SameCase, SameStage, Zenon
  <2>2. Later' = Later
    BY DEF Later, Routed
  <2> QED
    BY <2>1, <2>2 DEF FlashRan
<1>1. CASE pc = "attend"
  <2> DEFINE c == FlashCall
             a == run_flash_attn(r.q, r.k, r.v, c.pos, c.koff, c.window)
  <2>1. AttendFlash
    <3>1. ~AttendSdpa /\ ~AttendManual
      BY Zenon DEF AttendSdpa, AttendManual, TakesFlash
    <3> QED
      BY <1>1, <3>1, Due
  <2>2. PICK regs : Do(<<a>>, regs, "gate")
    BY <2>1, Zenon DEF AttendFlash
  <2>3. Runs(a) = {<<"flash">>}
    BY FlashRuns, Zenon
  <2> HIDE DEF a
  <2>4. 1 \in DOMAIN <<a>> /\ <<a>>[1] = a
    OBVIOUS
  <2>5. Runs(<<a>>[1]) \subseteq ran'
    BY <2>2, <2>4, DoneRuns, Zenon
  <2> QED
    BY <2>3, <2>4, <2>5
<1>2. CASE pc # "attend"
  <2>1. pc # "failed" /\ (pc \in {"gate", "output"} \cup Later \/ il > 0)
    BY <1>2, Moves DEF Types, Layers, Later, Routed
  <2> QED
    BY <2>1, RanGrows DEF FlashRan
<1> QED
  BY <1>1, <1>2

LEMMA GateRanStep ==
  ASSUME Types, GateRan, Next
  PROVE  GateRan'
<1> SUFFICES ASSUME FusedGlue, pc' # "failed", pc' \in {"output"} \cup Later \/ il' > 0
             PROVE  \E k \in ran' : k[1] \in Glue
  <2>1. FusedGlue' = FusedGlue
    BY SameCase, SameStage, Zenon
  <2>2. Later' = Later /\ Glue' = Glue
    BY DEF Later, Routed, Glue
  <2> QED
    BY <2>1, <2>2 DEF GateRan
<1>1. CASE pc = "gate"
  <2> DEFINE a == run_attn_gate(r.attn, r.g)
  <2>1. PICK regs : Do(<<a>>, regs, "output")
    <3>1. Gate
      BY <1>1, Due
    <3> QED
      BY <3>1, Zenon DEF Gate
  <2>2. \E k \in Runs(a) : k[1] \in Glue
    BY AttnGateRuns, Zenon
  <2> HIDE DEF a
  <2>3. 1 \in DOMAIN <<a>> /\ <<a>>[1] = a
    OBVIOUS
  <2>4. Runs(<<a>>[1]) \subseteq ran'
    BY <2>1, <2>3, DoneRuns, Zenon
  <2> QED
    BY <2>2, <2>3, <2>4
<1>2. CASE pc # "gate"
  <2>1. pc # "failed" /\ (pc \in {"output"} \cup Later \/ il > 0)
    BY <1>2, Moves DEF Types, Layers, Later, Routed
  <2> QED
    BY <2>1, RanGrows DEF GateRan
<1> QED
  BY <1>1, <1>2

LEMMA SiluRanStep ==
  ASSUME Types, Config.dense_layers \in Nat, Staged, SiluRan, Next
  PROVE  SiluRan'
<1> DEFINE After == {"down", "combine", "shared", "head", "done"}
<1> SUFFICES ASSUME OfExperts, ~sw.ACT_CLASSIC, pc' # "failed",
                    \/ pc' \in After /\ il' >= Config.dense_layers
                    \/ il' > Config.dense_layers
             PROVE  <<"silu_mul">> \in ran'
  <2>1. OfExperts' = OfExperts /\ sw' = sw
    BY SameCase, SameStage, Zenon
  <2> QED
    BY <2>1 DEF SiluRan
<1>1. CASE pc = "activate"
  <2> DEFINE a == run_silu_mul(r.gate, r.up)
  <2>1. PICK regs : Do(<<a>>, regs, "down")
    <3>1. Activate
      BY <1>1, Due
    <3> QED
      BY <3>1, Zenon DEF Activate
  <2>2. Runs(a) = {<<"silu_mul">>}
    BY SiluMulRuns, Zenon
  <2> HIDE DEF a
  <2>3. 1 \in DOMAIN <<a>> /\ <<a>>[1] = a
    OBVIOUS
  <2>4. Runs(<<a>>[1]) \subseteq ran'
    BY <2>1, <2>3, DoneRuns, Zenon
  <2> QED
    BY <2>2, <2>3, <2>4
<1>2. CASE pc # "activate"
  <2>1. /\ pc # "failed"
        /\ \/ pc \in After /\ il >= Config.dense_layers
           \/ il > Config.dense_layers
    BY <1>2, Moves DEF Types, Layers, Staged
  <2> QED
    BY <2>1, RanGrows DEF SiluRan
<1> QED
  BY <1>1, <1>2

LEMMA CombineRanStep ==
  ASSUME Types, Config.dense_layers \in Nat, Staged, CombineRan, Next
  PROVE  CombineRan'
<1> DEFINE After == {"shared", "head", "done"}
<1> SUFFICES ASSUME OfExperts, ~sw.COMBINE_CLASSIC, pc' # "failed",
                    \/ pc' \in After /\ il' >= Config.dense_layers
                    \/ il' > Config.dense_layers
             PROVE  \E name \in {"combine", "combine_rescale"} : <<name>> \in ran'
  <2>1. OfExperts' = OfExperts /\ sw' = sw
    BY SameCase, SameStage, Zenon
  <2> QED
    BY <2>1 DEF CombineRan
<1>1. CASE pc = "combine"
  <2> DEFINE a == run_combine(r.down, r.l2, RouteWeights)
  <2>1. PICK regs : Do(<<a>>, regs, "shared")
    <3>1. Combine
      BY <1>1, Due
    <3> QED
      BY <3>1, Zenon DEF Combine
  <2>2. PICK name \in {"combine", "combine_rescale"} : Runs(a) = {<<name>>}
    BY CombineRuns, Zenon
  <2> HIDE DEF a
  <2>3. 1 \in DOMAIN <<a>> /\ <<a>>[1] = a
    OBVIOUS
  <2>4. Runs(<<a>>[1]) \subseteq ran'
    BY <2>1, <2>3, DoneRuns, Zenon
  <2> QED
    BY <2>2, <2>3, <2>4
<1>2. CASE pc # "combine"
  <2>1. /\ pc # "failed"
        /\ \/ pc \in After /\ il >= Config.dense_layers
           \/ il > Config.dense_layers
    BY <1>2, Moves DEF Types, Layers, Staged
  <2> QED
    BY <2>1, RanGrows DEF CombineRan
<1> QED
  BY <1>1, <1>2

RecordInv ==
  Types /\ Blocks /\ Staged /\ RanAllowed /\ ProjRan /\ FlashRan /\ GateRan /\ SiluRan /\ CombineRan

(* LagunaConfig does not refuse a file whose every layer is dense; such a  *)
(* model runs no expert kernel, though its record names some.              *)
HasExperts == Config.dense_layers \in 0 .. Config.n_layer - 1

LEMMA RecordInit ==
  ASSUME HasExperts, Init
  PROVE  RecordInv
<1>1. Types /\ Blocks
  BY TypesInit, BlocksInit
<1>2. pc = "begin" /\ il = 0 /\ ran = {}
  BY DEF Init
<1>3. Staged /\ RanAllowed
  BY <1>2 DEF Staged, Routed, RanAllowed
<1>4. ProjRan /\ FlashRan /\ GateRan
  BY <1>2 DEF ProjRan, FlashRan, GateRan, Later, Routed
<1>5. SiluRan /\ CombineRan
  BY <1>2, ConfigAssumption DEF SiluRan, CombineRan, HasExperts
<1> QED
  BY <1>1, <1>3, <1>4, <1>5 DEF RecordInv

LEMMA RecordStep ==
  ASSUME HasExperts, RecordInv, [Next]_vars
  PROVE  RecordInv'
<1>1. CASE Next
  <2>1. Config.dense_layers \in Nat
    BY ConfigAssumption DEF HasExperts
  <2>2. Types' /\ Blocks' /\ Staged' /\ RanAllowed'
    BY <1>1, TypesStep, BlocksStep, StagedStep, RanStep DEF RecordInv
  <2>3. ProjRan' /\ FlashRan' /\ GateRan'
    BY <1>1, ProjRanStep, FlashRanStep, GateRanStep DEF RecordInv
  <2>4. SiluRan' /\ CombineRan'
    BY <1>1, <2>1, SiluRanStep, CombineRanStep DEF RecordInv
  <2> QED
    BY <2>2, <2>3, <2>4 DEF RecordInv
<1>2. CASE UNCHANGED vars
  <2>1. case' = case /\ il' = il /\ pc' = pc /\ r' = r /\ ran' = ran
    BY <1>2 DEF vars
  <2>2. Types' /\ Blocks'
    <3>1. seq' = seq /\ NHead(il)' = NHead(il) /\ Hidden' = Hidden /\ ViewPositions' = ViewPositions
      BY <2>1, SameTerms
    <3> QED
      BY <2>1, <3>1 DEF RecordInv, Types, Blocks
  <2>3. /\ OfExperts' = OfExperts /\ TakesFlash' = TakesFlash /\ FusedGlue' = FusedGlue
        /\ sw' = sw /\ ProjKernels' = ProjKernels
    BY <2>1 DEF OfExperts, TakesFlash, FusedGlue, ProjKernels, F16MmKernel, seq, sw
  <2>4. \A k : Allowed(k)' = Allowed(k)
    BY <2>1, SameAllowed
  <2>5. Staged' /\ RanAllowed'
    BY <2>1, <2>3, <2>4 DEF RecordInv, Staged, Routed, RanAllowed, Layers
  <2>6. ProjRan' /\ FlashRan' /\ GateRan'
    BY <2>1, <2>3 DEF RecordInv, ProjRan, FlashRan, GateRan, Later, Routed, Glue
  <2>7. SiluRan' /\ CombineRan'
    BY <2>1, <2>3 DEF RecordInv, SiluRan, CombineRan
  <2> QED
    BY <2>2, <2>5, <2>6, <2>7 DEF RecordInv
<1> QED
  BY <1>1, <1>2

-----------------------------------------------------------------------------
(* Values.  A value is a sequence, whatever its operations are called.     *)
IsVal(v) == \E set : v \in Seq(set)

LEMMA ValsJoin ==
  ASSUME NEW a, NEW b, IsVal(a), IsVal(b)
  PROVE  \E set : a \in Seq(set) /\ b \in Seq(set)
<1>1. PICK s : a \in Seq(s)
  BY DEF IsVal
<1>2. PICK t : b \in Seq(t)
  BY DEF IsVal
<1>3. a \in Seq(s \cup t) /\ b \in Seq(s \cup t)
  BY <1>1, <1>2
<1> QED
  BY <1>3

LEMMA Concat ==
  ASSUME NEW a, NEW b, IsVal(a), IsVal(b)
  PROVE  IsVal(a \o b)
<1>1. PICK s : a \in Seq(s) /\ b \in Seq(s)
  BY ValsJoin
<1>2. a \o b \in Seq(s)
  BY <1>1, ConcatProperties
<1> QED
  BY <1>2 DEF IsVal

LEMMA Assoc ==
  ASSUME NEW a, NEW b, NEW c, IsVal(a), IsVal(b), IsVal(c)
  PROVE  (a \o b) \o c = a \o (b \o c)
<1>1. PICK s : a \in Seq(s) /\ b \in Seq(s)
  BY ValsJoin
<1>2. PICK t : c \in Seq(t)
  BY DEF IsVal
<1>3. a \in Seq(s \cup t) /\ b \in Seq(s \cup t) /\ c \in Seq(s \cup t)
  BY <1>1, <1>2
<1> QED
  BY <1>3, ConcatAssociative

LEMMA Nothing ==
  ASSUME NEW a, IsVal(a)
  PROVE  a \o <<>> = a
<1>1. PICK s : a \in Seq(s)
  BY DEF IsVal
<1> QED
  BY <1>1, ConcatEmptySeq, Zenon

LEMMA Extended ==
  ASSUME NEW set, NEW a \in Seq(set), NEW e \in set, NEW b \in Seq(set),
         Len(b) = Len(a) + 1, \A i \in 1 .. Len(a) : b[i] = a[i], b[Len(a) + 1] = e
  PROVE  a \o <<e>> = b
<1> DEFINE c == Append(a, e)
<1>1. a \o <<e>> = c
  BY AppendIsConcat
<1>2. /\ c \in Seq(set) /\ Len(c) = Len(a) + 1
      /\ \A i \in 1 .. Len(a) : c[i] = a[i]
      /\ c[Len(a) + 1] = e
  BY AppendProperties
<1> HIDE DEF c
<1>3. Len(a) \in Nat
  BY LenProperties
<1>4. \A i \in 1 .. Len(c) : c[i] = b[i]
  <2> SUFFICES ASSUME NEW i \in 1 .. Len(a) + 1 PROVE c[i] = b[i]
    BY <1>2
  <2>1. i \in 1 .. Len(a) \/ i = Len(a) + 1
    BY <1>3
  <2> QED
    BY <1>2, <2>1
<1>5. c = b
  BY <1>2, <1>4, SeqEqual
<1> QED
  BY <1>1, <1>5

LEMMA Words ==
  /\ IsVal(<<>>)
  /\ \A p : IsVal(<<p>>)
  /\ \A p, q : IsVal(<<p, q>>) /\ <<p>> \o <<q>> = <<p, q>>
  /\ \A p, q, s : /\ IsVal(<<p, q, s>>)
                  /\ <<p, q>> \o <<s>> = <<p, q, s>> /\ <<p>> \o <<q, s>> = <<p, q, s>>
  /\ \A p, q, s, t : IsVal(<<p, q, s, t>>) /\ <<p, q, s>> \o <<t>> = <<p, q, s, t>>
<1>1. IsVal(<<>>)
  <2>1. <<>> \in Seq({})
    OBVIOUS
  <2> QED
    BY <2>1 DEF IsVal
<1>3. ASSUME NEW p PROVE IsVal(<<p>>)
  <2>1. <<p>> \in Seq({p})
    OBVIOUS
  <2> QED
    BY <2>1 DEF IsVal
<1>4. ASSUME NEW p, NEW q
      PROVE  IsVal(<<p, q>>) /\ <<p>> \o <<q>> = <<p, q>>
  <2> DEFINE set == {p, q}
             a == <<p>>
             b == <<p, q>>
  <2>1. b \in Seq(set) /\ a \in Seq(set) /\ q \in set
    OBVIOUS
  <2>2. Len(a) = 1 /\ Len(b) = 2
    OBVIOUS
  <2>3. b[1] = a[1] /\ b[2] = q
    OBVIOUS
  <2> HIDE DEF a, b, set
  <2>4. \A i \in 1 .. Len(a) : b[i] = a[i]
    BY <2>2, <2>3
  <2>5. Len(b) = Len(a) + 1 /\ b[Len(a) + 1] = q
    BY <2>2, <2>3
  <2>6. a \o <<q>> = b
    BY <2>1, <2>4, <2>5, Extended, Zenon
  <2> QED
    BY <2>1, <2>6 DEF IsVal, a, b
<1>5. ASSUME NEW p, NEW q, NEW s
      PROVE  IsVal(<<p, q, s>>) /\ <<p, q>> \o <<s>> = <<p, q, s>>
  <2> DEFINE set == {p, q, s}
             a == <<p, q>>
             b == <<p, q, s>>
  <2>1. b \in Seq(set) /\ a \in Seq(set) /\ s \in set
    OBVIOUS
  <2>2. Len(a) = 2 /\ Len(b) = 3
    OBVIOUS
  <2>3. b[1] = a[1] /\ b[2] = a[2] /\ b[3] = s
    OBVIOUS
  <2> HIDE DEF a, b, set
  <2>4. \A i \in 1 .. Len(a) : b[i] = a[i]
    BY <2>2, <2>3
  <2>5. Len(b) = Len(a) + 1 /\ b[Len(a) + 1] = s
    BY <2>2, <2>3
  <2>6. a \o <<s>> = b
    BY <2>1, <2>4, <2>5, Extended, Zenon
  <2> QED
    BY <2>1, <2>6 DEF IsVal, a, b
<1>6. ASSUME NEW p, NEW q, NEW s
      PROVE  <<p>> \o <<q, s>> = <<p, q, s>>
  <2> DEFINE a == <<p>>
             b == <<q>>
             c == <<s>>
  <2>1. IsVal(a) /\ IsVal(b) /\ IsVal(c)
    BY <1>3, Zenon
  <2>2. /\ b \o c = <<q, s>> /\ a \o b = <<p, q>>
        /\ <<p, q>> \o c = <<p, q, s>>
    BY <1>4, <1>5, Zenon
  <2> HIDE DEF a, b, c
  <2>3. (a \o b) \o c = a \o (b \o c)
    BY <2>1, Assoc
  <2>4. a \o <<q, s>> = <<p, q, s>>
    BY <2>2, <2>3
  <2> QED
    BY <2>4 DEF a
<1>7. ASSUME NEW p, NEW q, NEW s, NEW t
      PROVE  IsVal(<<p, q, s, t>>) /\ <<p, q, s>> \o <<t>> = <<p, q, s, t>>
  <2> DEFINE set == {p, q, s, t}
             a == <<p, q, s>>
             b == <<p, q, s, t>>
  <2>1. b \in Seq(set) /\ a \in Seq(set) /\ t \in set
    OBVIOUS
  <2>2. Len(a) = 3 /\ Len(b) = 4
    OBVIOUS
  <2>3. b[1] = a[1] /\ b[2] = a[2] /\ b[3] = a[3] /\ b[4] = t
    OBVIOUS
  <2> HIDE DEF a, b, set
  <2>4. \A i \in 1 .. Len(a) : b[i] = a[i]
    BY <2>2, <2>3
  <2>5. Len(b) = Len(a) + 1 /\ b[Len(a) + 1] = t
    BY <2>2, <2>3
  <2>6. a \o <<t>> = b
    BY <2>1, <2>4, <2>5, Extended, Zenon
  <2> QED
    BY <2>1, <2>6 DEF IsVal, a, b
<1> QED
  BY <1>1, <1>3, <1>4, <1>5, <1>6, <1>7

Chains(a, b, c, d) == (a \o b) \o c = a \o d

LEMMA Longer ==
  ASSUME NEW a, IsVal(a), NEW p, NEW q
  PROVE  /\ Chains(a, <<p>>, <<q>>, <<p, q>>)
         /\ \A s : Chains(a, <<p, q>>, <<s>>, <<p, q, s>>) /\ Chains(a, <<p>>, <<q, s>>, <<p, q, s>>)
         /\ \A s, t : Chains(a, <<p, q, s>>, <<t>>, <<p, q, s, t>>)
<1>1. IsVal(<<p>>) /\ IsVal(<<q>>) /\ IsVal(<<p, q>>)
  BY Words, Zenon
<1>2. (a \o <<p>>) \o <<q>> = a \o <<p, q>>
  <2>1. (a \o <<p>>) \o <<q>> = a \o (<<p>> \o <<q>>)
    BY <1>1, Assoc
  <2>2. <<p>> \o <<q>> = <<p, q>>
    BY Words
  <2> QED
    BY <2>1, <2>2
<1>3. ASSUME NEW s
      PROVE  /\ (a \o <<p, q>>) \o <<s>> = a \o <<p, q, s>>
             /\ (a \o <<p>>) \o <<q, s>> = a \o <<p, q, s>>
  <2>1. IsVal(<<s>>) /\ IsVal(<<q, s>>)
    BY Words, Zenon
  <2>2. /\ (a \o <<p, q>>) \o <<s>> = a \o (<<p, q>> \o <<s>>)
        /\ (a \o <<p>>) \o <<q, s>> = a \o (<<p>> \o <<q, s>>)
    <3> DEFINE b == <<p, q>>
               c == <<s>>
               d == <<p>>
               e == <<q, s>>
    <3>1. IsVal(b) /\ IsVal(c) /\ IsVal(d) /\ IsVal(e)
      BY <1>1, <2>1
    <3> HIDE DEF b, c, d, e
    <3>2. (a \o b) \o c = a \o (b \o c)
      BY <3>1, Assoc
    <3>3. (a \o d) \o e = a \o (d \o e)
      BY <3>1, Assoc
    <3> QED
      BY <3>2, <3>3 DEF b, c, d, e
  <2>3. <<p, q>> \o <<s>> = <<p, q, s>> /\ <<p>> \o <<q, s>> = <<p, q, s>>
    BY Words
  <2> QED
    BY <2>2, <2>3
<1>4. ASSUME NEW s, NEW t
      PROVE  (a \o <<p, q, s>>) \o <<t>> = a \o <<p, q, s, t>>
  <2>1. IsVal(<<p, q, s>>) /\ IsVal(<<t>>)
    BY Words, Zenon
  <2>2. (a \o <<p, q, s>>) \o <<t>> = a \o (<<p, q, s>> \o <<t>>)
    BY <2>1, Assoc
  <2>3. <<p, q, s>> \o <<t>> = <<p, q, s, t>>
    BY Words
  <2> QED
    BY <2>2, <2>3
<1>5. Chains(a, <<p>>, <<q>>, <<p, q>>)
  BY <1>2 DEF Chains
<1>6. \A s : Chains(a, <<p, q>>, <<s>>, <<p, q, s>>) /\ Chains(a, <<p>>, <<q, s>>, <<p, q, s>>)
  BY <1>3 DEF Chains
<1>7. \A s, t : Chains(a, <<p, q, s>>, <<t>>, <<p, q, s, t>>)
  BY <1>4 DEF Chains
<1> QED
  BY <1>5, <1>6, <1>7

(* A value that came in from a projection, behind another one.             *)
Follows(a, x, i, c) == a \o ((x \o i) \o c) = ((a \o x) \o i) \o c

LEMMA Behind ==
  ASSUME NEW a, NEW x, NEW i, NEW c, IsVal(a), IsVal(x), IsVal(i), IsVal(c)
  PROVE  Follows(a, x, i, c)
<1>1. IsVal(x \o i)
  BY Concat, Zenon
<1>2. a \o ((x \o i) \o c) = (a \o (x \o i)) \o c
  BY <1>1, Assoc
<1>3. a \o (x \o i) = (a \o x) \o i
  BY Assoc
<1> QED
  BY <1>2, <1>3 DEF Follows

(* The values of an attention block, as its steps put them together: from  *)
(* what a projection does to its input, and to queries and results.        *)
Entry(in, name) == (<<"x">> \o in) \o <<name>>
QVal(in) == (Entry(in, "q") \o <<"q_norm">>) \o <<"rope">>
KVal(in) == (Entry(in, "k") \o <<"k_norm">>) \o <<"rope">>
VVal(in) == Entry(in, "v")
AttnVal(in, half) ==
  ((((QVal(in) \o half) \o (KVal(in) \o <<"f16">>)) \o (VVal(in) \o <<"f16">>)) \o <<"attend">>) \o half
GateVal(in, half) == (AttnVal(in, half) \o Entry(in, "g")) \o <<"softplus", "gate">>
OVal(in, half) == (GateVal(in, half) \o in) \o <<"o">>

LEMMA EntryIs ==
  ASSUME NEW in, IsVal(in), NEW name
  PROVE  IsVal(Entry(in, name)) /\ IsVal(<<"x">> \o in)
<1>1. IsVal(<<"x">>) /\ IsVal(<<name>>)
  BY Words, Zenon
<1>2. IsVal(<<"x">> \o in)
  BY <1>1, Concat, Zenon
<1> QED
  BY <1>1, <1>2, Concat, Zenon DEF Entry

LEMMA AttnVals ==
  ASSUME NEW in, NEW half, IsVal(in), IsVal(half)
  PROVE  /\ IsVal(QVal(in)) /\ IsVal(KVal(in)) /\ IsVal(VVal(in))
         /\ IsVal(AttnVal(in, half)) /\ IsVal(GateVal(in, half))
<1>1. /\ IsVal(<<"q_norm">>) /\ IsVal(<<"k_norm">>) /\ IsVal(<<"rope">>) /\ IsVal(<<"f16">>)
      /\ IsVal(<<"attend">>) /\ IsVal(<<"softplus", "gate">>)
  BY Words, Zenon
<1>2. \A name : IsVal(Entry(in, name))
  BY EntryIs, Zenon
<1>3. IsVal(Entry(in, "q") \o <<"q_norm">>) /\ IsVal(Entry(in, "k") \o <<"k_norm">>)
  BY <1>1, <1>2, Concat, Zenon
<1>4. IsVal(QVal(in)) /\ IsVal(KVal(in)) /\ IsVal(VVal(in))
  BY <1>1, <1>2, <1>3, Concat, Zenon DEF QVal, KVal, VVal
<1>5. IsVal(QVal(in) \o half) /\ IsVal(KVal(in) \o <<"f16">>) /\ IsVal(VVal(in) \o <<"f16">>)
  BY <1>1, <1>4, Concat, Zenon
<1>6. IsVal((QVal(in) \o half) \o (KVal(in) \o <<"f16">>))
  BY <1>5, Concat, Zenon
<1>7. IsVal(((QVal(in) \o half) \o (KVal(in) \o <<"f16">>)) \o (VVal(in) \o <<"f16">>))
  BY <1>5, <1>6, Concat, Zenon
<1>8. IsVal((((QVal(in) \o half) \o (KVal(in) \o <<"f16">>)) \o (VVal(in) \o <<"f16">>)) \o <<"attend">>)
  BY <1>1, <1>7, Concat, Zenon
<1>9. IsVal(AttnVal(in, half))
  BY <1>8, Concat, Zenon DEF AttnVal
<1>10. IsVal(AttnVal(in, half) \o Entry(in, "g"))
  BY <1>2, <1>9, Concat, Zenon
<1> QED
  BY <1>1, <1>4, <1>9, <1>10, Concat, Zenon DEF GateVal

LEMMA AttnFlat ==
  ASSUME NEW in, NEW half, IsVal(in), IsVal(half)
  PROVE  OVal(in, half) =
           <<"x">> \o in \o <<"q", "q_norm", "rope">> \o half
           \o <<"x">> \o in \o <<"k", "k_norm", "rope", "f16">>
           \o <<"x">> \o in \o <<"v", "f16">> \o <<"attend">> \o half
           \o <<"x">> \o in \o <<"g", "softplus", "gate">> \o in \o <<"o">>
<1> DEFINE X == <<"x">>
           b == X \o in
           q == b \o <<"q", "q_norm", "rope">>
           qh == q \o half
           k == <<"k", "k_norm", "rope", "f16">>
           v == <<"v", "f16">>
           qk == ((qh \o X) \o in) \o k
           qkv == ((qk \o X) \o in) \o v
           att == (qkv \o <<"attend">>) \o half
           g == <<"g", "softplus", "gate">>
           gg == ((att \o X) \o in) \o g
<1>1. IsVal(X) /\ IsVal(b) /\ IsVal(k) /\ IsVal(v) /\ IsVal(<<"q", "q_norm", "rope">>) /\ IsVal(<<"attend">>)
  BY Words, EntryIs, Zenon
<1>0. IsVal(b)
  BY <1>1
<1>2. IsVal(q)
  BY <1>1, Concat, Zenon
<1>3. IsVal(qh)
  BY <1>2, Concat, Zenon
<1>4. \A name : Entry(in, name) = b \o <<name>>
  BY DEF Entry
<1> HIDE DEF b
<1>5. QVal(in) = q
  <2>1. Chains(b, <<"q">>, <<"q_norm">>, <<"q", "q_norm">>)
    BY <1>0, Longer, Zenon
  <2>2. Chains(b, <<"q", "q_norm">>, <<"rope">>, <<"q", "q_norm", "rope">>)
    BY <1>0, Longer, Zenon
  <2> QED
    BY <1>4, <2>1, <2>2 DEF QVal, Chains
<1>6. KVal(in) \o <<"f16">> = b \o k
  <2>1. Chains(b, <<"k">>, <<"k_norm">>, <<"k", "k_norm">>)
    BY <1>0, Longer, Zenon
  <2>2. Chains(b, <<"k", "k_norm">>, <<"rope">>, <<"k", "k_norm", "rope">>)
    BY <1>0, Longer, Zenon
  <2>3. Chains(b, <<"k", "k_norm", "rope">>, <<"f16">>, <<"k", "k_norm", "rope", "f16">>)
    BY <1>0, Longer
  <2> QED
    BY <1>4, <2>1, <2>2, <2>3 DEF KVal, Chains
<1>7. VVal(in) \o <<"f16">> = b \o v
  <2>1. Chains(b, <<"v">>, <<"f16">>, <<"v", "f16">>)
    BY <1>0, Longer, Zenon
  <2> QED
    BY <1>4, <2>1 DEF VVal, Chains
<1>8. b = X \o in
  BY DEF b
<1> HIDE DEF X, q, qh, k, v
<1>9. qh \o (b \o k) = qk /\ IsVal(qk)
  <2>1. qh \o ((X \o in) \o k) = ((qh \o X) \o in) \o k
    <3>1. Follows(qh, X, in, k)
      BY <1>1, <1>3, Behind, Zenon
    <3> QED
      BY <3>1 DEF Follows
  <2>2. IsVal(qh \o X)
    BY <1>1, <1>3, Concat, Zenon
  <2>3. IsVal((qh \o X) \o in)
    BY <2>2, Concat, Zenon
  <2>4. IsVal(((qh \o X) \o in) \o k)
    BY <1>1, <2>3, Concat, Zenon
  <2> QED
    BY <1>8, <2>1, <2>4
<1> HIDE DEF qk
<1>10. qk \o (b \o v) = qkv
  <2>1. qk \o ((X \o in) \o v) = ((qk \o X) \o in) \o v
    <3>1. Follows(qk, X, in, v)
      BY <1>1, <1>9, Behind, Zenon
    <3> QED
      BY <3>1 DEF Follows
  <2> QED
    BY <1>8, <2>1
<1>11. AttnVal(in, half) = att
  <2>1. AttnVal(in, half) = (((qh \o (b \o k)) \o (b \o v)) \o <<"attend">>) \o half
    BY <1>5, <1>6, <1>7 DEF AttnVal, qh
  <2> QED
    BY <1>9, <1>10, <2>1
<1>12. IsVal(att)
  BY <1>11, AttnVals, Zenon
<1> HIDE DEF qkv, att
<1>13. att \o Entry(in, "g") = ((att \o X) \o in) \o <<"g">>
  <2>1. IsVal(<<"g">>)
    BY Words, Zenon
  <2>2. att \o ((X \o in) \o <<"g">>) = ((att \o X) \o in) \o <<"g">>
    <3>1. Follows(att, X, in, <<"g">>)
      BY <1>1, <1>12, <2>1, Behind, Zenon
    <3> QED
      BY <3>1 DEF Follows
  <2> QED
    BY <1>4, <1>8, <2>2
<1>14. IsVal((att \o X) \o in)
  <2>1. IsVal(att \o X)
    BY <1>1, <1>12, Concat, Zenon
  <2> QED
    BY <2>1, Concat, Zenon
<1>15. GateVal(in, half) = gg
  <2> DEFINE c == (att \o X) \o in
  <2>1. IsVal(c)
    BY <1>14
  <2> HIDE DEF c
  <2>2. Chains(c, <<"g">>, <<"softplus", "gate">>, <<"g", "softplus", "gate">>)
    BY <2>1, Longer, Zenon
  <2> QED
    BY <1>11, <1>13, <2>2 DEF GateVal, c, Chains
<1> QED
  BY <1>15 DEF OVal, att, qkv, qk, qh, q, b, X, k, v

(* The values of a feed-forward block likewise.                            *)
ActVal(in) == ((Entry(in, "gate") \o <<"silu">>) \o Entry(in, "up")) \o <<"mul">>
DownVal(in, scaled) == (ActVal(in) \o If(scaled, <<"scale", "f16">>)) \o <<"down">>
YVal(in, scaled) == (DownVal(in, scaled) \o If(scaled, <<"rescale">>)) \o <<"weigh", "sum">>

LEMMA ActFlat ==
  ASSUME NEW in, IsVal(in)
  PROVE  /\ ActVal(in) = <<"x">> \o in \o <<"gate", "silu", "x">> \o in \o <<"up", "mul">>
         /\ IsVal(ActVal(in))
<1> DEFINE X == <<"x">>
           b == X \o in
           a == b \o <<"gate", "silu">>
           ax == b \o <<"gate", "silu", "x">>
           c == ax \o in
<1>1. IsVal(X) /\ IsVal(b)
  BY Words, EntryIs, Zenon
<1>2. IsVal(a) /\ IsVal(ax) /\ IsVal(<<"up">>) /\ IsVal(<<"mul">>)
  <2>1. IsVal(<<"gate", "silu">>) /\ IsVal(<<"gate", "silu", "x">>) /\ IsVal(<<"up">>) /\ IsVal(<<"mul">>)
    BY Words, Zenon
  <2> QED
    BY <1>1, <2>1, Concat, Zenon
<1>3. Entry(in, "gate") = b \o <<"gate">> /\ Entry(in, "up") = b \o <<"up">>
  BY DEF Entry
<1>4. b = X \o in
  OBVIOUS
<1> HIDE DEF b
<1>5. Entry(in, "gate") \o <<"silu">> = a
  <2>1. Chains(b, <<"gate">>, <<"silu">>, <<"gate", "silu">>)
    BY <1>1, Longer, Zenon
  <2> QED
    BY <1>3, <2>1 DEF Chains
<1>6. a \o X = ax
  <2>1. Chains(b, <<"gate", "silu">>, <<"x">>, <<"gate", "silu", "x">>)
    BY <1>1, Longer, Zenon
  <2> QED
    BY <2>1 DEF Chains
<1>7. IsVal(c)
  BY <1>2, Concat, Zenon
<1>8. a \o Entry(in, "up") = c \o <<"up">>
  <2> HIDE DEF a, ax, X
  <2>1. Follows(a, X, in, <<"up">>)
    BY <1>1, <1>2, Behind, Zenon
  <2>2. a \o ((X \o in) \o <<"up">>) = ((a \o X) \o in) \o <<"up">>
    BY <2>1 DEF Follows
  <2> QED
    BY <1>3, <1>4, <1>6, <2>2
<1> HIDE DEF c
<1>9. Chains(c, <<"up">>, <<"mul">>, <<"up", "mul">>)
  BY <1>7, Longer, Zenon
<1>10. ActVal(in) = c \o <<"up", "mul">>
  BY <1>5, <1>8, <1>9 DEF ActVal, Chains
<1>11. IsVal(<<"up", "mul">>)
  BY Words, Zenon
<1>12. IsVal(c \o <<"up", "mul">>)
  BY <1>7, <1>11, Concat, Zenon
<1> QED
  BY <1>10, <1>12 DEF c, ax, b, X

(* Three operations of candle's, the last two applied to both halves.      *)
LEMMA SwigluFlat ==
  ASSUME NEW g, NEW u, NEW d
  PROVE  ((((<<"x">> \o <<g>>) \o <<"silu">>) \o (<<"x">> \o <<u>>)) \o <<"mul">>) \o <<d>>
           = <<"x", g, "silu", "x", u, "mul", d>>
<1> DEFINE s == <<"x", g, "silu">>
<1>1. <<"x">> \o <<g>> = <<"x", g>> /\ <<"x">> \o <<u>> = <<"x", u>>
  BY Words, Zenon
<1>2. <<"x", g>> \o <<"silu">> = s /\ IsVal(s)
  BY Words, Zenon
<1>3. <<"x", g, "silu">> \o <<"x">> = <<"x", g, "silu", "x">>
  <2> DEFINE set == {"x", g, "silu", "x"}
             a == <<"x", g, "silu">>
             b == <<"x", g, "silu", "x">>
  <2>1. b \in Seq(set) /\ a \in Seq(set) /\ "x" \in set
    OBVIOUS
  <2>2. Len(a) = 3 /\ Len(b) = 4
    OBVIOUS
  <2>3. /\ b[1] = a[1] /\ b[2] = a[2] /\ b[3] = a[3]
        /\ b[4] = "x"
    OBVIOUS
  <2> HIDE DEF a, b, set
  <2>4. \A i \in 1 .. Len(a) : b[i] = a[i]
    BY <2>2, <2>3
  <2>5. Len(b) = Len(a) + 1 /\ b[Len(a) + 1] = "x"
    BY <2>2, <2>3
  <2>6. a \o <<"x">> = b
    BY <2>1, <2>4, <2>5, Extended, Zenon
  <2> QED
    BY <2>6 DEF a, b
<1>4. <<"x", g, "silu", "x">> \o <<u>> = <<"x", g, "silu", "x", u>>
  <2> DEFINE set == {"x", g, "silu", "x", u}
             a == <<"x", g, "silu", "x">>
             b == <<"x", g, "silu", "x", u>>
  <2>1. b \in Seq(set) /\ a \in Seq(set) /\ u \in set
    OBVIOUS
  <2>2. Len(a) = 4 /\ Len(b) = 5
    OBVIOUS
  <2>3. /\ b[1] = a[1] /\ b[2] = a[2] /\ b[3] = a[3] /\ b[4] = a[4]
        /\ b[5] = u
    OBVIOUS
  <2> HIDE DEF a, b, set
  <2>4. \A i \in 1 .. Len(a) : b[i] = a[i]
    BY <2>2, <2>3
  <2>5. Len(b) = Len(a) + 1 /\ b[Len(a) + 1] = u
    BY <2>2, <2>3
  <2>6. a \o <<u>> = b
    BY <2>1, <2>4, <2>5, Extended, Zenon
  <2> QED
    BY <2>6 DEF a, b
<1>5. <<"x", g, "silu", "x", u>> \o <<"mul">> = <<"x", g, "silu", "x", u, "mul">>
  <2> DEFINE set == {"x", g, "silu", "x", u, "mul"}
             a == <<"x", g, "silu", "x", u>>
             b == <<"x", g, "silu", "x", u, "mul">>
  <2>1. b \in Seq(set) /\ a \in Seq(set) /\ "mul" \in set
    OBVIOUS
  <2>2. Len(a) = 5 /\ Len(b) = 6
    OBVIOUS
  <2>3. /\ b[1] = a[1] /\ b[2] = a[2] /\ b[3] = a[3] /\ b[4] = a[4] /\ b[5] = a[5]
        /\ b[6] = "mul"
    OBVIOUS
  <2> HIDE DEF a, b, set
  <2>4. \A i \in 1 .. Len(a) : b[i] = a[i]
    BY <2>2, <2>3
  <2>5. Len(b) = Len(a) + 1 /\ b[Len(a) + 1] = "mul"
    BY <2>2, <2>3
  <2>6. a \o <<"mul">> = b
    BY <2>1, <2>4, <2>5, Extended, Zenon
  <2> QED
    BY <2>6 DEF a, b
<1>6. <<"x", g, "silu", "x", u, "mul">> \o <<d>> = <<"x", g, "silu", "x", u, "mul", d>>
  <2> DEFINE set == {"x", g, "silu", "x", u, "mul", d}
             a == <<"x", g, "silu", "x", u, "mul">>
             b == <<"x", g, "silu", "x", u, "mul", d>>
  <2>1. b \in Seq(set) /\ a \in Seq(set) /\ d \in set
    OBVIOUS
  <2>2. Len(a) = 6 /\ Len(b) = 7
    OBVIOUS
  <2>3. /\ b[1] = a[1] /\ b[2] = a[2] /\ b[3] = a[3] /\ b[4] = a[4] /\ b[5] = a[5] /\ b[6] = a[6]
        /\ b[7] = d
    OBVIOUS
  <2> HIDE DEF a, b, set
  <2>4. \A i \in 1 .. Len(a) : b[i] = a[i]
    BY <2>2, <2>3
  <2>5. Len(b) = Len(a) + 1 /\ b[Len(a) + 1] = d
    BY <2>2, <2>3
  <2>6. a \o <<d>> = b
    BY <2>1, <2>4, <2>5, Extended, Zenon
  <2> QED
    BY <2>6 DEF a, b
<1>7. s \o <<"x", u>> = <<"x", g, "silu", "x", u>>
  <2>1. IsVal(s)
    BY <1>2
  <2>2. (s \o <<"x">>) \o <<u>> = s \o <<"x", u>>
    <3>1. /\ IsVal(<<"x">>) /\ IsVal(<<u>>)
          /\ <<"x">> \o <<u>> = <<"x", u>>
      BY Words, Zenon
    <3> DEFINE X == <<"x">>
               U == <<u>>
    <3> HIDE DEF s, X, U
    <3>2. (s \o X) \o U = s \o (X \o U)
      <4>1. IsVal(s) /\ IsVal(X) /\ IsVal(U)
        BY <2>1, <3>1 DEF X, U
      <4> QED
        BY <4>1, Assoc
    <3> QED
      BY <3>1, <3>2 DEF X, U
  <2> QED
    BY <1>3, <1>4, <2>2, Zenon
<1> QED
  BY <1>1, <1>2, <1>5, <1>6, <1>7, Zenon

(* The experts one by one: nothing is rounded between them. *)
LEMMA ReferenceFlat ==
  (((<<"x">> \o <<"gate">>) \o <<"silu">>) \o (<<"x">> \o <<"up">>)) \o <<"mul">>
    \o <<"down", "weigh", "sum">> = YVal(<<>>, FALSE)
<1> DEFINE a == ActVal(<<>>)
<1>1. IsVal(<<>>) /\ IsVal(<<"x">>)
  BY Words, Zenon
<1>2. <<"x">> \o <<>> = <<"x">>
  BY <1>1, Nothing, Zenon
<1>3. (((<<"x">> \o <<"gate">>) \o <<"silu">>) \o (<<"x">> \o <<"up">>)) \o <<"mul">> = a
  BY <1>2, Zenon DEF ActVal, Entry
<1>4. IsVal(a)
  BY <1>1, ActFlat, Zenon
<1> HIDE DEF a
<1>5. a \o <<>> = a
  BY <1>4, Nothing, Zenon
<1>6. DownVal(<<>>, FALSE) = a \o <<"down">>
  BY <1>5 DEF DownVal, If, a
<1>7. IsVal(a \o <<"down">>)
  <2>1. IsVal(<<"down">>)
    BY Words, Zenon
  <2> QED
    BY <1>4, <2>1, Concat, Zenon
<1>8. (a \o <<"down">>) \o <<>> = a \o <<"down">>
  BY <1>7, Nothing, Zenon
<1>9. Chains(a, <<"down">>, <<"weigh", "sum">>, <<"down", "weigh", "sum">>)
  BY <1>4, Longer, Zenon
<1> QED
  BY <1>3, <1>6, <1>8, <1>9 DEF YVal, If, Chains

-----------------------------------------------------------------------------
(* The values of the block in progress. *)

(* What a projection, the sdpa and the tiles of the expert matmul do to    *)
(* what goes into them.                                                    *)
In == If(TensorGemm, <<"f16">>)
Sdpa == If(HalfSdpa, <<"f16">>)
Tiles == If(HalfTiles, <<"f16">>)

Wide(x, v) == x.dt = "f32" /\ x.val = v
Narrow(x, v) == x.dt = "f16" /\ x.val = v \o <<"f16">>

Vals ==
  /\ pc \in {"permute", "rotate", "append", "attend", "gate"} => r.g.val = Entry(In, "g")
  /\ pc \in {"permute", "rotate"} =>
       /\ Wide(r.q, Entry(In, "q") \o <<"q_norm">>)
       /\ Wide(r.k, Entry(In, "k") \o <<"k_norm">>)
  /\ pc = "permute" => Wide(r.v, VVal(In))
  /\ pc \in {"rotate", "append"} => Wide(r.v, VVal(In)) \/ Narrow(r.v, VVal(In))
  /\ pc = "append" => Wide(r.k, KVal(In)) \/ Narrow(r.k, KVal(In))
  /\ pc \in {"append", "attend"} =>
       IF FusedGlue /\ seq = 1 /\ ~sw.SDPA_F32 THEN Narrow(r.q, QVal(In)) ELSE Wide(r.q, QVal(In))
  /\ pc = "attend" => Narrow(r.k, KVal(In)) /\ Narrow(r.v, VVal(In))
  /\ pc = "gate" => r.attn.val = AttnVal(In, Sdpa)
  /\ pc = "output" => r.attn.val = GateVal(In, Sdpa)
  /\ pc = "activate" => r.gate.val = Entry(Tiles, "gate") /\ r.up.val = Entry(Tiles, "up")
  /\ pc = "down" => r.act.val = ActVal(Tiles)
  /\ pc = "combine" => r.down.val = DownVal(Tiles, HalfTiles) /\ (r.l2 = NoL2 <=> ~HalfTiles)
  /\ pc = "shared" => r.y.val = YVal(Tiles, HalfTiles)

(* Nothing of this changes under a forward.                                *)
LEMMA SameVals ==
  ASSUME case' = case
  PROVE  /\ In' = In /\ Sdpa' = Sdpa /\ Tiles' = Tiles /\ HalfTiles' = HalfTiles
         /\ FusedGlue' = FusedGlue /\ seq' = seq /\ sw' = sw
<1>1. seq' = seq /\ sw' = sw
  BY DEF seq, sw
<1>2. FusedGlue' = FusedGlue /\ TensorGemm' = TensorGemm /\ HalfSdpa' = HalfSdpa
  BY <1>1 DEF FusedGlue, TensorGemm, HalfSdpa
<1>3. HalfTiles' = HalfTiles
  BY <1>1 DEF HalfTiles, MmVariant
<1>4. In' = In
  BY <1>2 DEF In, If
<1>5. Sdpa' = Sdpa
  BY <1>2 DEF Sdpa, If
<1>6. Tiles' = Tiles
  BY <1>3 DEF Tiles, If
<1> QED
  BY <1>1, <1>2, <1>3, <1>4, <1>5, <1>6

LEMMA InVals ==
  IsVal(In) /\ IsVal(Sdpa) /\ IsVal(Tiles)
<1>1. IsVal(<<>>) /\ IsVal(<<"f16">>)
  BY Words, Zenon
<1>2. \A b : If(b, <<"f16">>) \in {<<>>, <<"f16">>}
  BY DEF If
<1> QED
  BY <1>1, <1>2 DEF In, Sdpa, Tiles

(* What operations do to a value. *)
Whole(x) == {"dt", "dims", "cont", "off", "val"} \subseteq DOMAIN x

LEMMA ContiguousVal ==
  ASSUME NEW x
  PROVE  Contiguous(x).val = x.val /\ Contiguous(x).dt = x.dt
  BY DEF Contiguous, Tensor

LEMMA QLinearVal ==
  ASSUME NEW w, NEW x, Whole(x)
  PROVE  QLinear(w, x).out.val = x.val \o <<w.name>> /\ QLinear(w, x).out.dt = "f32"
<1> DEFINE y == [Contiguous(x) EXCEPT !.off = 0]
<1>1. Whole(Contiguous(x))
  BY DEF Whole, Contiguous, Tensor
<1>2. y.val = x.val /\ y.off = 0
  BY <1>1, ContiguousVal DEF Whole
<1> HIDE DEF y
<1>3. QMatMul(w, y).out.val = x.val \o <<w.name>> /\ QMatMul(w, y).out.dt = "f32"
  BY <1>2 DEF QMatMul, Candle, Call, Tensor
<1> QED
  BY <1>3 DEF QLinear, y

LEMMA ProjVal ==
  ASSUME Types, NEW w, NEW x, x.dims[1] = seq, Whole(x), IsVal(x.val)
  PROVE  Wide(Proj(w, x).out, (x.val \o In) \o <<w.name>>)
<1>1. x.val \o <<>> = x.val
  BY Nothing, Zenon
<1>2. seq \in Nat
  BY CaseFacts
<1>3. CASE sw.ATTN_F32
  <2>1. Proj(w, x) = QLinear(w, x)
    BY <1>3 DEF Proj, ProjKind
  <2>2. In = <<>>
    BY <1>3 DEF In, If, TensorGemm
  <2> QED
    BY <1>1, <2>1, <2>2, QLinearVal DEF Wide
<1>4. CASE ~sw.ATTN_F32 /\ case.ck.attn = "q8_0" /\ seq <= 8 /\ ~sw.ATTN_DEQUANT
  <2>1. Proj(w, x) = run_matmul_q8(w, x)
    BY <1>4 DEF Proj, ProjKind, Q8_DECODE_MAX_SEQ
  <2>2. In = <<>>
    BY <1>2, <1>4 DEF In, If, TensorGemm
  <2>3. Wide(run_matmul_q8(w, x).out, x.val \o <<w.name>>)
    BY DEF run_matmul_q8, Call, Tensor, Wide
  <2> QED
    BY <1>1, <2>1, <2>2, <2>3
<1>5. CASE ~sw.ATTN_F32 /\ ~(case.ck.attn = "q8_0" /\ seq <= 8 /\ ~sw.ATTN_DEQUANT)
  <2> DEFINE kernel == IF x.dims[1] > F16_MM_MIN_SEQ THEN F16MmKernel(sw) ELSE <<"mul_mv_f16">>
             staged == IF kernel = <<"mul_mm_f16_t">> THEN <<"f16">> ELSE <<>>
  <2>1. Proj(w, x) = run_matmul_f16(sw, w, x)
    BY <1>5 DEF Proj, ProjKind, Q8_DECODE_MAX_SEQ
  <2>2. Wide(run_matmul_f16(sw, w, x).out, (x.val \o staged) \o <<w.name>>)
    BY DEF run_matmul_f16, Call, Tensor, Wide
  <2>3. staged = In
    <3>1. <<"mul_mm_f16_t">> # <<"mul_mm_f16">> /\ <<"mul_mm_f16_t">> # <<"mul_mv_f16">>
      OBVIOUS
    <3> QED
      BY <1>5, <3>1 DEF In, If, TensorGemm, F16MmKernel, F16_MM_MIN_SEQ
  <2> QED
    BY <2>1, <2>2, <2>3
<1> QED
  BY <1>3, <1>4, <1>5

LEMMA ReshapeVal ==
  ASSUME NEW x, Whole(x), NEW dims
  PROVE  /\ Reshape(x, dims).val = x.val /\ Reshape(x, dims).dt = x.dt
         /\ Whole(Reshape(x, dims))
  BY DEF Whole, Reshape

LEMMA ShapeWhole ==
  ASSUME NEW x, NEW dims, Shape(x, dims)
  PROVE  Whole(x)
  BY DEF Shape, Whole

LEMMA OpVal ==
  ASSUME NEW x, NEW name
  PROVE  Wide(Op(x, name), x.val \o <<name>>)
  BY DEF Op, Tensor, Wide

(* Rounding to f16 marks a wide value, and widening marks none.            *)
LEMMA RoundedVal ==
  ASSUME NEW x, NEW v, IsVal(v), x.val = v
  PROVE  /\ Rounded(x, "f32") = v
         /\ x.dt = "f32" => Rounded(x, "f16") = v \o <<"f16">>
<1>1. v \o <<>> = v
  BY Nothing, Zenon
<1> QED
  BY <1>1 DEF Rounded

LEMMA DtypeVal ==
  ASSUME NEW x, NEW v, IsVal(v)
  PROVE  /\ Wide(x, v) => Narrow(ToDtype(x, "f16"), v) /\ Wide(ToDtype(x, "f32"), v)
         /\ Narrow(x, v) => /\ Narrow(ToDtype(x, "f16"), v)
                            /\ ToDtype(x, "f32").val = x.val
<1>1. CASE Wide(x, v)
  <2>1. Rounded(x, "f16") = v \o <<"f16">>
    BY <1>1, RoundedVal DEF Wide
  <2>2. ToDtype(x, "f32") = x
    BY <1>1 DEF ToDtype, Wide
  <2> QED
    BY <1>1, <2>1, <2>2 DEF ToDtype, Wide, Narrow, Tensor
<1>2. CASE Narrow(x, v)
  <2>1. ToDtype(x, "f16") = x
    BY <1>2 DEF ToDtype, Narrow
  <2>2. IsVal(v \o <<"f16">>)
    <3>1. IsVal(<<"f16">>)
      BY Words, Zenon
    <3> QED
      BY <3>1, Concat, Zenon
  <2>3. Rounded(x, "f32") = x.val
    BY <1>2, <2>2, RoundedVal, Zenon DEF Narrow
  <2>4. ToDtype(x, "f32").val = x.val
    BY <1>2, <2>3 DEF ToDtype, Tensor, Narrow
  <2> QED
    BY <1>2, <2>1, <2>4 DEF Wide, Narrow
<1> QED
  BY <1>1, <1>2

LEMMA PermuteVal ==
  ASSUME NEW x, NEW v, IsVal(v), Wide(x, v)
  PROVE  /\ Wide(run_permute_cast(x, "f32").out, v)
         /\ Narrow(run_permute_cast(x, "f16").out, v)
<1>1. Rounded(x, "f32") = v /\ Rounded(x, "f16") = v \o <<"f16">>
  BY RoundedVal DEF Wide
<1> QED
  BY <1>1 DEF run_permute_cast, Call, Tensor, Wide, Narrow

LEMMA CastToVal ==
  ASSUME NEW x, NEW v, IsVal(v), Whole(x), x.val = v
  PROVE  /\ x.dt = "f32" => Narrow(cast_to(x, "f16").out, v)
         /\ cast_to(x, "f32").out.val = v
<1> DEFINE row == Reshape(x, <<1, 1, Elems(x.dims)>>)
<1>1. row.val = v /\ row.dt = x.dt
  BY ReshapeVal
<1>2. \A dt : cast_to(x, dt).out = Reshape(run_permute_cast(row, dt).out, x.dims)
  BY DEF cast_to, run_permute_cast, Call
<1> HIDE DEF row
<1>3. Rounded(row, "f32") = v /\ (x.dt = "f32" => Rounded(row, "f16") = v \o <<"f16">>)
  BY <1>1, RoundedVal
<1>4. \A dt : /\ Whole(run_permute_cast(row, dt).out)
              /\ run_permute_cast(row, dt).out.dt = dt
              /\ run_permute_cast(row, dt).out.val = Rounded(row, dt)
  BY DEF run_permute_cast, Call, Tensor, Whole
<1>5. \A dt : cast_to(x, dt).out.val = Rounded(row, dt) /\ cast_to(x, dt).out.dt = dt
  BY <1>2, <1>4, ReshapeVal
<1> QED
  BY <1>3, <1>5 DEF Narrow

(* A step of a block leaves what its field assignments say, or nothing.    *)
LEMMA NoVals ==
  ASSUME pc' = "failed" \/ pc' \in {"project", "ffn", "experts", "reference", "gate_up", "head", "done"}
  PROVE  Vals'
  BY DEF Vals

LEMMA HeadsVal ==
  ASSUME NEW c, NEW v, NEW n, Whole(c.out), Wide(c.out, v)
  PROVE  /\ Wide(Heads(c, n, ""), v)
         /\ \A norm : norm # "" => Wide(Heads(c, n, norm), v \o <<norm>>)
<1> DEFINE split == Reshape(c.out, <<seq, n, HeadDim>>)
<1>1. split.val = v /\ split.dt = "f32"
  BY ReshapeVal DEF Wide
<1>2. Heads(c, n, "") = split /\ \A norm : norm # "" => Heads(c, n, norm) = Op(split, norm)
  BY DEF Heads
<1> HIDE DEF split
<1>3. \A norm : Wide(Op(split, norm), v \o <<norm>>)
  BY <1>1, OpVal
<1> QED
  BY <1>1, <1>2, <1>3 DEF Wide

LEMMA ValsProject ==
  ASSUME Types, Blocks, Project
  PROVE  Vals'
<1> DEFINE nh == NHead(il)
           nkv == Config.n_kv_head
           wg == Weight("g", nh, Config.hidden)
           wq == Weight("q", nh * HeadDim, Config.hidden)
           wk == Weight("k", nkv * HeadDim, Config.hidden)
           wv == Weight("v", nkv * HeadDim, Config.hidden)
           g == Proj(wg, r.x)
           q == Proj(wq, r.x)
           k == Proj(wk, r.x)
           v == Proj(wv, r.x)
           regs == [r EXCEPT !.g = g.out, !.q = Heads(q, nh, "q_norm"),
                             !.k = Heads(k, nkv, "k_norm"), !.v = Heads(v, nkv, "")]
<1>1. pc = "project" /\ Do(<<g, q, k, v>>, regs, "permute") /\ case' = case
  BY Zenon DEF Project
<1>2. DOMAIN r = BlockFields /\ r.x = Hidden
  BY <1>1 DEF Blocks
<1>3. r.x.dims[1] = seq /\ Whole(r.x) /\ r.x.val = <<"x">> /\ Shape(r.x, <<seq, Config.hidden>>)
  BY <1>2 DEF Hidden, Tensor, Whole, Shape
<1>4. IsVal(<<"x">>)
  BY Words, Zenon
<1>5. /\ wg.name = "g" /\ wq.name = "q" /\ wk.name = "k" /\ wv.name = "v"
      /\ wg.n_out = nh /\ wq.n_out = nh * HeadDim /\ wk.n_out = nkv * HeadDim /\ wv.n_out = nkv * HeadDim
  BY DEF Weight
<1>6. \A w : Wide(Proj(w, r.x).out, (<<"x">> \o In) \o <<w.name>>)
  BY <1>3, <1>4, ProjVal
<1>7. nh \in Nat /\ nkv \in Nat /\ HeadDim \in Nat /\ nh * HeadDim \in Nat /\ nkv * HeadDim \in Nat
  <2>1. nh \in Nat /\ HeadDim \in Nat
    BY CaseFacts, Zenon
  <2>2. nkv \in Nat
    BY ConfigAssumption, Zenon
  <2> HIDE DEF nh, nkv
  <2>3. \A a, b \in Nat : a * b \in Nat
    OBVIOUS
  <2> QED
    BY <2>1, <2>2, <2>3, Zenon
<1> HIDE DEF nh, nkv, wg, wq, wk, wv
<1>8. Whole(g.out) /\ Whole(q.out) /\ Whole(k.out) /\ Whole(v.out)
  <2>1. \A w : \A m \in Nat : w.n_out = m => Whole(Proj(w, r.x).out)
    BY <1>3, ProjFine, ShapeWhole DEF Fine
  <2> QED
    BY <1>5, <1>7, <2>1
<1>9. /\ Wide(g.out, Entry(In, "g")) /\ Wide(q.out, Entry(In, "q"))
      /\ Wide(k.out, Entry(In, "k")) /\ Wide(v.out, Entry(In, "v"))
  BY <1>5, <1>6 DEF Entry
<1> HIDE DEF g, q, k, v
<1>10. Wide(Heads(q, nh, "q_norm"), Entry(In, "q") \o <<"q_norm">>)
  <2>1. \A norm : norm # "" => Wide(Heads(q, nh, norm), Entry(In, "q") \o <<norm>>)
    BY <1>8, <1>9, HeadsVal
  <2> QED
    BY <2>1
<1>11. Wide(Heads(k, nkv, "k_norm"), Entry(In, "k") \o <<"k_norm">>)
  <2>1. \A norm : norm # "" => Wide(Heads(k, nkv, norm), Entry(In, "k") \o <<norm>>)
    BY <1>8, <1>9, HeadsVal
  <2> QED
    BY <2>1
<1>14. Wide(Heads(v, nkv, ""), Entry(In, "v"))
  BY <1>8, <1>9, HeadsVal
<1>12. CASE pc' = "failed"
  BY <1>12, NoVals
<1>13. CASE pc' # "failed"
  <2>1. pc' = "permute" /\ r' = regs
    BY <1>1, <1>13, DoLeads, Zenon
  <2>2. /\ r'.g = g.out /\ r'.q = Heads(q, nh, "q_norm") /\ r'.k = Heads(k, nkv, "k_norm")
        /\ r'.v = Heads(v, nkv, "")
    BY <1>2, <2>1 DEF BlockFields
  <2> HIDE DEF regs
  <2>3. In' = In
    BY <1>1, SameVals
  <2> QED
    BY <1>9, <1>10, <1>11, <1>14, <2>1, <2>2, <2>3 DEF Vals, Wide, VVal, Entry
<1> QED
  BY <1>12, <1>13

LEMMA HeadFirstVal ==
  ASSUME NEW x, NEW v, IsVal(v), Whole(x), Wide(x, v)
  PROVE  /\ Wide(HeadFirst(x, "f32").out, v)
         /\ Wide(HeadFirst(x, "f16").out, v) \/ Narrow(HeadFirst(x, "f16").out, v)
<1>1. CASE seq = 1
  <2>1. \A dt : HeadFirst(x, dt).out = Reshape(x, <<x.dims[2], 1, HeadDim>>)
    BY <1>1 DEF HeadFirst, Candle, Call
  <2>2. Wide(Reshape(x, <<x.dims[2], 1, HeadDim>>), v)
    BY ReshapeVal DEF Wide
  <2> QED
    BY <2>1, <2>2
<1>2. CASE seq # 1 /\ FusedGlue
  <2>1. \A dt : HeadFirst(x, dt) = run_permute_cast(x, dt)
    BY <1>2 DEF HeadFirst
  <2> QED
    BY <2>1, PermuteVal
<1>3. CASE seq # 1 /\ ~FusedGlue
  <2> DEFINE y == Transpose01(x)
  <2>1. y.val = v /\ y.dt = "f32"
    BY DEF Transpose01, Whole, Wide
  <2> HIDE DEF y
  <2>2. Wide(Contiguous(y), v)
    BY <2>1, ContiguousVal DEF Wide
  <2>3. \A dt : HeadFirst(x, dt).out = Contiguous(y)
    BY <1>3 DEF HeadFirst, Candle, Call, y
  <2> QED
    BY <2>2, <2>3
<1> QED
  BY <1>1, <1>2, <1>3

LEMMA RotateVal ==
  ASSUME NEW x, NEW v, IsVal(v), Wide(x, v)
  PROVE  /\ Wide(RotateBy(x, "f32").out, v \o <<"rope">>)
         /\ Narrow(RotateBy(x, "f16").out, v \o <<"rope">>)
<1> DEFINE w == v \o <<"rope">>
           table == RopeTable(Kind(il))
           fused(dt) == run_rope(x, table.rows, pos, table.n_rot, dt)
           plain(dt) == Candle(ToDtype(Op(x, "rope"), dt))
<1>1. IsVal(w)
  <2>1. IsVal(<<"rope">>)
    BY Words, Zenon
  <2> QED
    BY <2>1, Concat, Zenon
<1>2. x.val \o <<"rope">> = w
  BY DEF Wide
<1>3. Wide(Op(x, "rope"), w)
  BY <1>2, OpVal
<1> HIDE DEF w
<1>4. w \o <<>> = w
  BY <1>1, Nothing, Zenon
<1>5. Wide(fused("f32").out, w) /\ Narrow(fused("f16").out, w)
  BY <1>2, <1>4 DEF run_rope, Call, Tensor, Wide, Narrow
<1>6. Wide(plain("f32").out, w) /\ Narrow(plain("f16").out, w)
  BY <1>1, <1>3, DtypeVal DEF Candle, Call
<1>7. \A dt : RotateBy(x, dt) = fused(dt) \/ RotateBy(x, dt) = plain(dt)
  BY Zenon DEF RotateBy
<1> HIDE DEF fused, plain
<1>8. Wide(RotateBy(x, "f32").out, w) /\ Narrow(RotateBy(x, "f16").out, w)
  BY <1>5, <1>6, <1>7
<1> QED
  BY <1>8 DEF w

LEMMA CastF16Val ==
  ASSUME NEW x, NEW v, IsVal(v), Whole(x), Wide(x, v) \/ Narrow(x, v)
  PROVE  Narrow(CastF16(x).out, v)
<1>1. CASE Narrow(x, v)
  BY <1>1 DEF CastF16, Candle, Call, Narrow
<1>2. CASE Wide(x, v) /\ FusedGlue
  <2>1. CastF16(x) = cast_to(x, "f16")
    BY <1>2 DEF CastF16, Wide
  <2> QED
    BY <1>2, <2>1, CastToVal DEF Wide
<1>3. CASE Wide(x, v) /\ ~FusedGlue
  <2>1. CastF16(x).out = ToDtype(x, "f16")
    BY <1>3 DEF CastF16, Wide, Candle, Call
  <2> QED
    BY <1>3, <2>1, DtypeVal
<1> QED
  BY <1>1, <1>2, <1>3

(* The values of projections that are on their way.                        *)
LEMMA Projected ==
  \A name : /\ IsVal(Entry(In, name))
            /\ \A norm : IsVal(Entry(In, name) \o <<norm>>)
<1>1. ASSUME NEW name PROVE IsVal(Entry(In, name))
  BY InVals, EntryIs, Zenon
<1>2. \A norm : IsVal(<<norm>>)
  BY Words, Zenon
<1>3. ASSUME NEW name, NEW norm PROVE IsVal(Entry(In, name) \o <<norm>>)
  BY <1>1, <1>2, Concat, Zenon
<1> QED
  BY <1>1, <1>3, Zenon

LEMMA ValsPermute ==
  ASSUME Types, Blocks, Vals, Permute
  PROVE  Vals'
<1> DEFINE q == HeadFirst(r.q, "f32")
           k == HeadFirst(r.k, "f32")
           v == HeadFirst(r.v, "f16")
           regs == [r EXCEPT !.q = q.out, !.k = k.out, !.v = v.out]
           qv == Entry(In, "q") \o <<"q_norm">>
           kv == Entry(In, "k") \o <<"k_norm">>
<1>1. pc = "permute" /\ Do(<<q, k, v>>, regs, "rotate") /\ case' = case
  BY Zenon DEF Permute
<1>2. DOMAIN r = BlockFields /\ Whole(r.q) /\ Whole(r.k) /\ Whole(r.v)
  BY <1>1, ShapeWhole DEF Blocks
<1>3. r.g.val = Entry(In, "g") /\ Wide(r.q, qv) /\ Wide(r.k, kv) /\ Wide(r.v, VVal(In))
  BY <1>1 DEF Vals
<1>4. IsVal(qv) /\ IsVal(kv) /\ IsVal(VVal(In))
  BY Projected, Zenon DEF VVal
<1> HIDE DEF qv, kv
<1>5. Wide(q.out, qv) /\ Wide(k.out, kv) /\ (Wide(v.out, VVal(In)) \/ Narrow(v.out, VVal(In)))
  BY <1>2, <1>3, <1>4, HeadFirstVal
<1> HIDE DEF q, k, v
<1>6. CASE pc' = "failed"
  BY <1>6, NoVals
<1>7. CASE pc' # "failed"
  <2>1. pc' = "rotate" /\ r' = regs
    BY <1>1, <1>7, DoLeads, Zenon
  <2>2. r'.g = r.g /\ r'.q = q.out /\ r'.k = k.out /\ r'.v = v.out
    BY <1>2, <2>1 DEF BlockFields
  <2> HIDE DEF regs
  <2>3. In' = In
    BY <1>1, SameVals
  <2> QED
    BY <1>3, <1>5, <2>1, <2>2, <2>3 DEF Vals, Wide, Narrow, VVal, Entry, qv, kv
<1> QED
  BY <1>6, <1>7

LEMMA ValsRotate ==
  ASSUME Types, Blocks, Vals, Rotate
  PROVE  Vals'
<1> DEFINE early == FusedGlue /\ seq = 1 /\ ~sw.SDPA_F32
           q == RotateBy(r.q, IF early THEN "f16" ELSE "f32")
           k == RotateBy(r.k, IF FusedGlue THEN "f16" ELSE "f32")
           regs == [r EXCEPT !.q = q.out, !.k = k.out]
           qv == Entry(In, "q") \o <<"q_norm">>
           kv == Entry(In, "k") \o <<"k_norm">>
<1>1. pc = "rotate" /\ Do(<<q, k>>, regs, "append") /\ case' = case
  BY Zenon DEF Rotate
<1>2. DOMAIN r = BlockFields
  BY DEF Blocks
<1>3. r.g.val = Entry(In, "g") /\ Wide(r.q, qv) /\ Wide(r.k, kv)
  BY <1>1 DEF Vals
<1>9. Wide(r.v, VVal(In)) \/ Narrow(r.v, VVal(In))
  BY <1>1 DEF Vals
<1>4. IsVal(qv) /\ IsVal(kv)
  BY Projected, Zenon
<1>5. QVal(In) = qv \o <<"rope">> /\ KVal(In) = kv \o <<"rope">>
  BY DEF QVal, KVal
<1> HIDE DEF qv, kv
<1>6. /\ IF early THEN Narrow(q.out, QVal(In)) ELSE Wide(q.out, QVal(In))
      /\ Wide(k.out, KVal(In)) \/ Narrow(k.out, KVal(In))
  <2>1. /\ Wide(RotateBy(r.q, "f32").out, QVal(In)) /\ Narrow(RotateBy(r.q, "f16").out, QVal(In))
        /\ Wide(RotateBy(r.k, "f32").out, KVal(In)) /\ Narrow(RotateBy(r.k, "f16").out, KVal(In))
    BY <1>3, <1>4, <1>5, RotateVal
  <2> QED
    BY <2>1
<1> HIDE DEF q, k
<1>7. CASE pc' = "failed"
  BY <1>7, NoVals
<1>8. CASE pc' # "failed"
  <2>1. pc' = "append" /\ r' = regs
    BY <1>1, <1>8, DoLeads, Zenon
  <2>2. r'.g = r.g /\ r'.q = q.out /\ r'.k = k.out /\ r'.v = r.v
    BY <1>2, <2>1 DEF BlockFields
  <2> HIDE DEF regs
  <2>3. In' = In /\ FusedGlue' = FusedGlue /\ seq' = seq /\ sw' = sw
    BY <1>1, SameVals
  <2>4. QVal(In)' = QVal(In) /\ KVal(In)' = KVal(In) /\ VVal(In)' = VVal(In) /\ Entry(In, "g")' = Entry(In, "g")
    BY <2>3 DEF QVal, KVal, VVal, Entry
  <2> QED
    BY <1>3, <1>9, <1>6, <2>1, <2>2, <2>3, <2>4 DEF Vals, Wide, Narrow
<1> QED
  BY <1>7, <1>8

LEMMA ValsAppend ==
  ASSUME Types, Blocks, Vals, CacheAppend
  PROVE  Vals'
<1> DEFINE k == Candle(ToDtype(r.k, "f16"))
           v == CastF16(r.v)
           dims == <<Config.n_kv_head, Len(ViewPositions), HeadDim>>
           View(x) == [Reshape(x, dims) EXCEPT !.cont = FALSE]
           regs == [r EXCEPT !.k = View(k.out), !.v = View(v.out)]
<1>1. pc = "append" /\ Do(<<k, v>>, regs, "attend") /\ case' = case
  BY Zenon DEF CacheAppend
<1>2. /\ DOMAIN r = BlockFields
      /\ Shape(r.k, <<Config.n_kv_head, seq, HeadDim>>) /\ Shape(r.v, <<Config.n_kv_head, seq, HeadDim>>)
  BY <1>1 DEF Blocks
<1>3. r.g.val = Entry(In, "g") /\ (Wide(r.k, KVal(In)) \/ Narrow(r.k, KVal(In)))
  BY <1>1 DEF Vals
<1>4. Wide(r.v, VVal(In)) \/ Narrow(r.v, VVal(In))
  BY <1>1 DEF Vals
<1>5. IF FusedGlue /\ seq = 1 /\ ~sw.SDPA_F32 THEN Narrow(r.q, QVal(In)) ELSE Wide(r.q, QVal(In))
  BY <1>1 DEF Vals
<1>6. IsVal(KVal(In)) /\ IsVal(VVal(In))
  BY InVals, AttnVals, Zenon
<1>7. Narrow(k.out, KVal(In)) /\ Whole(k.out)
  <2>1. k.out = ToDtype(r.k, "f16")
    BY CandleIs
  <2>2. Narrow(ToDtype(r.k, "f16"), KVal(In))
    BY <1>3, <1>6, DtypeVal
  <2>3. Whole(ToDtype(r.k, "f16"))
    BY <1>2, CastIs, ShapeWhole, Zenon
  <2> QED
    BY <2>1, <2>2, <2>3
<1>8. Narrow(v.out, VVal(In)) /\ Whole(v.out)
  <2>1. Whole(r.v)
    BY <1>2, ShapeWhole, Zenon
  <2>2. Narrow(v.out, VVal(In))
    BY <1>4, <1>6, <2>1, CastF16Val, Zenon
  <2>3. Config.n_kv_head \in Nat /\ seq \in Nat /\ HeadDim \in Nat
    BY CaseFacts, ConfigAssumption
  <2>4. Fine(v, <<Config.n_kv_head, seq, HeadDim>>)
    BY <1>2, <2>3, CastF16Fine, Zenon
  <2> QED
    BY <2>2, <2>4, ShapeWhole, Zenon DEF Fine
<1> HIDE DEF k, v, dims
<1>9. \A x, w : Whole(x) /\ Narrow(x, w) => Narrow(View(x), w)
  <2>1. ASSUME NEW x, Whole(x) PROVE View(x).val = x.val /\ View(x).dt = x.dt
    BY <2>1, ReshapeVal DEF Whole
  <2> QED
    BY <2>1 DEF Narrow
<1>10. Narrow(View(k.out), KVal(In)) /\ Narrow(View(v.out), VVal(In))
  BY <1>7, <1>8, <1>9
<1> HIDE DEF View
<1>11. CASE pc' = "failed"
  BY <1>11, NoVals
<1>12. CASE pc' # "failed"
  <2>1. pc' = "attend" /\ r' = regs
    BY <1>1, <1>12, DoLeads, Zenon
  <2>2. r'.g = r.g /\ r'.q = r.q /\ r'.k = View(k.out) /\ r'.v = View(v.out)
    BY <1>2, <2>1 DEF BlockFields
  <2> HIDE DEF regs
  <2>3. In' = In /\ FusedGlue' = FusedGlue /\ seq' = seq /\ sw' = sw
    BY <1>1, SameVals
  <2>4. QVal(In)' = QVal(In) /\ KVal(In)' = KVal(In) /\ VVal(In)' = VVal(In) /\ Entry(In, "g")' = Entry(In, "g")
    BY <2>3 DEF QVal, KVal, VVal, Entry
  <2> QED
    BY <1>3, <1>5, <1>10, <2>1, <2>2, <2>3, <2>4 DEF Vals, Wide, Narrow
<1> QED
  BY <1>11, <1>12

(* What attention and its gate leave, whichever way they were computed.    *)
LEMMA ValsAttn ==
  ASSUME Types, Blocks, Vals, case' = case, NEW calls, NEW out, NEW next,
         Do(calls, [r EXCEPT !.attn = out], next),
         \/ pc = "attend" /\ next = "gate" /\ out.val = AttnVal(In, Sdpa)
         \/ pc = "gate" /\ next = "output" /\ out.val = GateVal(In, Sdpa)
  PROVE  Vals'
<1> DEFINE regs == [r EXCEPT !.attn = out]
<1>1. DOMAIN r = BlockFields
  BY DEF Blocks
<1>2. r.g.val = Entry(In, "g")
  BY DEF Vals
<1>3. CASE pc' = "failed"
  BY <1>3, NoVals
<1>4. CASE pc' # "failed"
  <2>1. pc' = next /\ r' = regs
    BY <1>4, DoLeads, Zenon
  <2>2. r'.g = r.g /\ r'.attn = out
    BY <1>1, <2>1 DEF BlockFields
  <2> HIDE DEF regs
  <2>3. In' = In /\ Sdpa' = Sdpa
    BY SameVals
  <2>4. /\ Entry(In, "g")' = Entry(In, "g") /\ AttnVal(In, Sdpa)' = AttnVal(In, Sdpa)
        /\ GateVal(In, Sdpa)' = GateVal(In, Sdpa)
    BY <2>3 DEF QVal, KVal, VVal, AttnVal, GateVal, Entry
  <2> QED
    BY <1>2, <2>1, <2>2, <2>4 DEF Vals
<1> QED
  BY <1>3, <1>4

Attended(q, k, v) == ((q.val \o k.val) \o v.val) \o <<"attend">>

LEMMA SoftmaxVal ==
  ASSUME NEW q, NEW k, NEW v
  PROVE  /\ Softmax(q, k, v, "f32").out.val = Attended(q, k, v)
         /\ Narrow(Softmax(q, k, v, "f16").out, Attended(q, k, v))
  BY DEF Softmax, Call, Tensor, Narrow, Attended

(* Attention without a rounding of its own. *)
LEMMA PlainAttend ==
  ASSUME ~HalfSdpa, NEW q, NEW k, NEW v,
         q = QVal(In), k = KVal(In) \o <<"f16">>, v = VVal(In) \o <<"f16">>
  PROVE  ((q \o k) \o v) \o <<"attend">> = AttnVal(In, Sdpa)
<1>1. Sdpa = <<>>
  BY DEF Sdpa, If
<1>2. IsVal(QVal(In)) /\ IsVal(AttnVal(In, Sdpa))
  BY InVals, AttnVals, Zenon
<1>3. QVal(In) \o <<>> = QVal(In)
  BY <1>2, Nothing, Zenon
<1> DEFINE out == ((QVal(In) \o (KVal(In) \o <<"f16">>)) \o (VVal(In) \o <<"f16">>)) \o <<"attend">>
<1>4. AttnVal(In, Sdpa) = out \o <<>>
  BY <1>1, <1>3 DEF AttnVal
<1>5. IsVal(out)
  <2>1. IsVal(<<"f16">>) /\ IsVal(<<"attend">>) /\ IsVal(KVal(In)) /\ IsVal(VVal(In))
    BY Words, InVals, AttnVals, Zenon
  <2>2. IsVal(KVal(In) \o <<"f16">>) /\ IsVal(VVal(In) \o <<"f16">>)
    BY <2>1, Concat, Zenon
  <2>3. IsVal(QVal(In) \o (KVal(In) \o <<"f16">>))
    BY <1>2, <2>2, Concat, Zenon
  <2>4. IsVal((QVal(In) \o (KVal(In) \o <<"f16">>)) \o (VVal(In) \o <<"f16">>))
    BY <2>2, <2>3, Concat, Zenon
  <2> QED
    BY <2>1, <2>4, Concat, Zenon
<1>6. out \o <<>> = out
  BY <1>5, Nothing, Zenon
<1> QED
  BY <1>4, <1>6

LEMMA ValsAttend ==
  ASSUME Types, Blocks, Vals, AttendFlash \/ AttendSdpa \/ AttendManual
  PROVE  Vals'
<1>1. pc = "attend" /\ case' = case
  BY DEF AttendFlash, AttendSdpa, AttendManual
<1>2. Narrow(r.k, KVal(In)) /\ Narrow(r.v, VVal(In))
  BY <1>1 DEF Vals
<1>3. IF FusedGlue /\ seq = 1 /\ ~sw.SDPA_F32 THEN Narrow(r.q, QVal(In)) ELSE Wide(r.q, QVal(In))
  BY <1>1 DEF Vals
<1>4. r.k.val = KVal(In) \o <<"f16">> /\ r.v.val = VVal(In) \o <<"f16">>
  BY <1>2 DEF Narrow
<1>5. /\ Shape(r.q, <<NHead(il), seq, HeadDim>>) /\ seq \in Nat /\ HeadDim \in Nat /\ NHead(il) \in Nat
  BY <1>1, CaseFacts DEF Blocks
<1>6. /\ IsVal(QVal(In)) /\ IsVal(KVal(In)) /\ IsVal(VVal(In))
  BY InVals, AttnVals, Zenon
<1>7. ASSUME NEW a, Do(<<a>>, [r EXCEPT !.attn = a.out], "gate"), ~HalfSdpa, Wide(r.q, QVal(In)),
             a.out.val = ((r.q.val \o r.k.val) \o r.v.val) \o <<"attend">>
      PROVE  Vals'
  <2>1. r.q.val = QVal(In)
    BY <1>7 DEF Wide
  <2>2. a.out.val = AttnVal(In, Sdpa)
    BY <1>4, <1>7, <2>1, PlainAttend
  <2> QED
    BY <1>1, <1>7, <2>2, ValsAttn, Zenon
<1>8. CASE AttendFlash
  <2> DEFINE c == FlashCall
             a == run_flash_attn(r.q, r.k, r.v, c.pos, c.koff, c.window)
  <2>1. Do(<<a>>, [r EXCEPT !.attn = a.out], "gate")
    BY <1>8, Zenon DEF AttendFlash
  <2>2. a.out.val = ((r.q.val \o r.k.val) \o r.v.val) \o <<"attend">>
    BY DEF run_flash_attn, Call, Tensor
  <2> HIDE DEF a
  <2>3. case.metal /\ seq > 1 /\ ~sw.FLASH_CLASSIC
    BY <1>8 DEF AttendFlash, TakesFlash
  <2>4. ~HalfSdpa
    BY <2>3 DEF HalfSdpa
  <2>5. Wide(r.q, QVal(In))
    BY <1>3, <2>3
  <2> QED
    BY <1>7, <2>1, <2>2, <2>4, <2>5, Zenon
<1>9. ASSUME sw.SDPA_F32 \/ ~case.metal,
             Do(<<Softmax(r.q, ToDtype(r.k, "f32"), ToDtype(r.v, "f32"), "f32")>>,
                [r EXCEPT !.attn = Softmax(r.q, ToDtype(r.k, "f32"), ToDtype(r.v, "f32"), "f32").out],
                "gate")
      PROVE  Vals'
  <2> DEFINE k == ToDtype(r.k, "f32")
             v == ToDtype(r.v, "f32")
             a == Softmax(r.q, k, v, "f32")
  <2>1. k.val = r.k.val /\ v.val = r.v.val
    BY <1>2, <1>6, DtypeVal
  <2> HIDE DEF k, v
  <2>2. a.out.val = ((r.q.val \o r.k.val) \o r.v.val) \o <<"attend">>
    <3>1. a.out.val = Attended(r.q, k, v)
      BY SoftmaxVal, Zenon
    <3> HIDE DEF a
    <3> QED
      BY <2>1, <3>1 DEF Attended
  <2>3. Do(<<a>>, [r EXCEPT !.attn = a.out], "gate")
    BY <1>9, Zenon DEF a, k, v
  <2> HIDE DEF a
  <2>4. ~HalfSdpa
    BY <1>9 DEF HalfSdpa
  <2>5. Wide(r.q, QVal(In))
    BY <1>3, <1>9 DEF FusedGlue
  <2> QED
    BY <1>7, <2>2, <2>3, <2>4, <2>5, Zenon
<1>10. ASSUME AttendSdpa, ~sw.SDPA_F32
       PROVE  Vals'
  <2> DEFINE q == CastF16(r.q)
             a == Softmax(q.out, r.k, r.v, "f16")
             w == IF FusedGlue /\ seq = 1 THEN Candle(a.out)
                  ELSE IF FusedGlue THEN cast_to(a.out, "f32")
                  ELSE Candle(ToDtype(a.out, "f32"))
             val == ((QVal(In) \o <<"f16">>) \o (KVal(In) \o <<"f16">>)) \o (VVal(In) \o <<"f16">>)
             out == val \o <<"attend">>
  <2>1. Do(<<q, a, w>>, [r EXCEPT !.attn = w.out], "gate") /\ case.metal /\ ~TakesFlash
    BY <1>10, Zenon DEF AttendSdpa
  <2>2. Narrow(q.out, QVal(In)) /\ Fine(q, <<NHead(il), seq, HeadDim>>)
    <3>1. Whole(r.q)
      BY <1>5, ShapeWhole, Zenon
    <3>2. Wide(r.q, QVal(In)) \/ Narrow(r.q, QVal(In))
      BY <1>3
    <3> QED
      BY <1>5, <1>6, <3>1, <3>2, CastF16Val, CastF16Fine, Zenon
  <2> HIDE DEF q
  <2>3. Narrow(a.out, out)
    <3>1. Narrow(a.out, Attended(q.out, r.k, r.v))
      BY SoftmaxVal, Zenon
    <3>2. Attended(q.out, r.k, r.v) = out
      BY <1>4, <2>2 DEF Narrow, Attended
    <3> HIDE DEF a, out
    <3> QED
      BY <3>1, <3>2
  <2>4. Whole(a.out)
    BY <2>2, SoftmaxFine, ShapeWhole, Zenon DEF Fine
  <2>5. IsVal(out)
    <3>1. IsVal(<<"f16">>) /\ IsVal(<<"attend">>)
      BY Words, Zenon
    <3>2. IsVal(QVal(In) \o <<"f16">>) /\ IsVal(KVal(In) \o <<"f16">>) /\ IsVal(VVal(In) \o <<"f16">>)
      BY <1>6, <3>1, Concat, Zenon
    <3>3. IsVal((QVal(In) \o <<"f16">>) \o (KVal(In) \o <<"f16">>))
      BY <3>2, Concat, Zenon
    <3>4. IsVal(val)
      BY <3>2, <3>3, Concat, Zenon
    <3> QED
      BY <3>1, <3>4, Concat, Zenon
  <2> HIDE DEF a
  <2>6. w.out.val = a.out.val
    <3> HIDE DEF out
    <3>1. ToDtype(a.out, "f32").val = a.out.val
      BY <2>3, <2>5, DtypeVal
    <3>2. cast_to(a.out, "f32").out.val = a.out.val
      <4> DEFINE y == a.out.val
      <4>1. IsVal(y)
        <5>1. y = out \o <<"f16">>
          BY <2>3 DEF Narrow
        <5>2. IsVal(<<"f16">>)
          BY Words, Zenon
        <5>3. IsVal(out \o <<"f16">>)
          BY <2>5, <5>2, Concat, Zenon
        <5> QED
          BY <5>1, <5>3
      <4> QED
        BY <2>4, <4>1, CastToVal
    <3>3. w = Candle(a.out) \/ w = cast_to(a.out, "f32") \/ w = Candle(ToDtype(a.out, "f32"))
      OBVIOUS
    <3> HIDE DEF w
    <3> QED
      BY <3>1, <3>2, <3>3, CandleIs
  <2> HIDE DEF w
  <2>7. w.out.val = AttnVal(In, Sdpa)
    <3>1. Sdpa = <<"f16">>
      BY <1>10, <2>1 DEF Sdpa, If, HalfSdpa, TakesFlash
    <3>2. a.out.val = out \o <<"f16">>
      BY <2>3 DEF Narrow
    <3> QED
      BY <2>6, <3>1, <3>2 DEF AttnVal
  <2> QED
    BY <1>1, <2>1, <2>7, ValsAttn, Zenon
<1>11. ASSUME AttendSdpa, sw.SDPA_F32
       PROVE  Vals'
  BY <1>9, <1>11, Zenon DEF AttendSdpa
<1>12. CASE AttendManual
  BY <1>9, <1>12, Zenon DEF AttendManual
<1> QED
  BY <1>8, <1>10, <1>11, <1>12, Zenon

LEMMA ValsGate ==
  ASSUME Types, Blocks, Vals, Gate
  PROVE  Vals'
<1> DEFINE plain == Candle(Tensor("f32", r.attn.dims,
                                  r.attn.val \o r.g.val \o <<"softplus", "gate">>))
           a == IF FusedGlue THEN run_attn_gate(r.attn, r.g) ELSE plain
<1>1. pc = "gate" /\ Do(<<a>>, [r EXCEPT !.attn = a.out], "output") /\ case' = case
  BY Zenon DEF Gate
<1>2. r.attn.val = AttnVal(In, Sdpa) /\ r.g.val = Entry(In, "g")
  BY <1>1 DEF Vals
<1>3. run_attn_gate(r.attn, r.g).out.val = (r.attn.val \o r.g.val) \o <<"softplus", "gate">>
  BY DEF run_attn_gate, Call, Tensor
<1>4. plain.out.val = (r.attn.val \o r.g.val) \o <<"softplus", "gate">>
  BY DEF Candle, Call, Tensor
<1>5. a = run_attn_gate(r.attn, r.g) \/ a = plain
  OBVIOUS
<1> HIDE DEF a, plain
<1>6. a.out.val = GateVal(In, Sdpa)
  BY <1>2, <1>3, <1>4, <1>5 DEF GateVal
<1> QED
  BY <1>1, <1>6, ValsAttn, Zenon

(* The attention block ends in what the precision design says.             *)
LEMMA OutputVal ==
  ASSUME Types, Blocks, Vals, Output
  PROVE  \E o, calls : /\ o.out.val = ExpectedAttn /\ case' = case
                       /\ Do(calls, [r EXCEPT !.x = Hidden], "ffn")
                       /\ log' = IF pc' = "ffn"
                                 THEN Append(log, [at |-> "attn", il |-> il, out |-> o.out]) ELSE log
<1> DEFINE width == NHead(il) * HeadDim
           p == IF seq = 1 THEN Candle(r.attn)
                ELSE IF FusedGlue THEN run_permute_cast(r.attn, "f32")
                ELSE Candle(Contiguous(Transpose01(r.attn)))
           x == Reshape(p.out, <<seq, width>>)
           weight == Weight("o", Config.hidden, width)
           o == Proj(weight, x)
<1>1. /\ Do(<<p, o>>, [r EXCEPT !.x = Hidden], "ffn")
      /\ case' = case /\ pc = "output"
      /\ log' = IF pc' = "ffn" THEN Append(log, [at |-> "attn", il |-> il, out |-> o.out]) ELSE log
  BY Zenon DEF Output
<1>2. Shape(r.attn, <<NHead(il), seq, HeadDim>>) /\ r.attn.val = GateVal(In, Sdpa)
  BY <1>1 DEF Blocks, Vals
<1>3. seq \in Nat /\ HeadDim \in Nat /\ NHead(il) \in Nat
  BY CaseFacts
<1>4. IsVal(GateVal(In, Sdpa))
  BY InVals, AttnVals, Zenon
<1>5. p.out.val = r.attn.val /\ Whole(p.out)
  <2>1. Whole(r.attn) /\ Candle(r.attn).out = r.attn
    BY <1>2, ShapeWhole, CandleIs, Zenon
  <2>2. /\ run_permute_cast(r.attn, "f32").out.val = r.attn.val
        /\ Whole(run_permute_cast(r.attn, "f32").out)
    <3>1. Rounded(r.attn, "f32") = r.attn.val
      BY <1>2, <1>4, RoundedVal
    <3>2. run_permute_cast(r.attn, "f32").out.val = Rounded(r.attn, "f32")
      BY DEF run_permute_cast, Call, Tensor
    <3>3. Fine(run_permute_cast(r.attn, "f32"), <<seq, NHead(il), HeadDim>>)
      BY <1>2, <1>3, PermuteFine, Zenon
    <3> QED
      BY <3>1, <3>2, <3>3, ShapeWhole DEF Fine
  <2>3. /\ Contiguous(Transpose01(r.attn)).val = r.attn.val
        /\ Whole(Contiguous(Transpose01(r.attn)))
    <3>1. Transpose01(r.attn).val = r.attn.val
      BY <2>1 DEF Transpose01, Whole
    <3>2. Shape(Contiguous(Transpose01(r.attn)), <<seq, NHead(il), HeadDim>>)
      BY <1>2, <1>3, TransposeIs, Zenon
    <3> QED
      BY <3>1, <3>2, ContiguousVal, ShapeWhole
  <2>4. \/ p = Candle(r.attn) \/ p = run_permute_cast(r.attn, "f32")
        \/ p = Candle(Contiguous(Transpose01(r.attn)))
    OBVIOUS
  <2> HIDE DEF p
  <2> QED
    BY <2>1, <2>2, <2>3, <2>4, CandleIs
<1> HIDE DEF p, width
<1>6. x.val = GateVal(In, Sdpa) /\ Whole(x) /\ x.dims[1] = seq
  <2>1. x.val = p.out.val /\ Whole(x)
    BY <1>5, ReshapeVal
  <2>2. x.dims = <<seq, width>>
    BY <1>5 DEF Reshape, Whole
  <2> QED
    BY <1>2, <1>5, <2>1, <2>2
<1>7. weight.name = "o"
  BY DEF Weight
<1> HIDE DEF x, weight
<1>9. o.out.val = OVal(In, Sdpa)
  <2>1. IsVal(x.val)
    BY <1>4, <1>6
  <2>2. Wide(o.out, (x.val \o In) \o <<weight.name>>)
    BY <1>6, <2>1, ProjVal
  <2> QED
    BY <1>6, <1>7, <2>2 DEF OVal, Wide
<1> HIDE DEF o
<1>10. OVal(In, Sdpa) = ExpectedAttn
  <2>1. IsVal(In) /\ IsVal(Sdpa)
    BY InVals
  <2> QED
    BY <2>1, AttnFlat DEF ExpectedAttn, AttnValue, In, Sdpa
<1>11. o.out.val = ExpectedAttn
  BY <1>9, <1>10
<1> QED
  BY <1>1, <1>11

(* The half tiles are used where the grouped matmul is, and rescaled.      *)
LEMMA HalfIs ==
  ASSUME Types, OfExperts
  PROVE  /\ HalfTiles <=> NeedsRescale
         /\ HalfTiles <=> UseMm /\ Suffix(MmVariant) \in {"_t", ""}
<1>1. case.runner = "fused"
  BY CasesAssumption DEF Types, OfExperts
<1>2. MmVariant \in {"tensor", "tensor_hp", "classic_hp", "classic_f16"}
  BY DEF MmVariant
<1> DEFINE half == MmVariant \in {"tensor", "classic_f16"}
<1>3. half <=> CastsActivationF16(MmVariant)
  BY DEF CastsActivationF16
<1>4. half <=> Suffix(MmVariant) \in {"_t", ""}
  BY <1>2 DEF Suffix
<1>5. GateStack.dt = case.ck.gate /\ UpStack.dt = case.ck.up /\ DownStack.dt = case.ck.down
  BY DEF GateStack, UpStack, DownStack, Stack
<1>6. half => \A dt : supported(dt, Config.n_expert_used, MmVariant)
                        <=> dt \in MmDtypes /\ Config.n_expert_used \in Map0Sizes
  BY DEF supported, mm_kernel_instantiated
<1>7. HalfTiles <=> half /\ UseMm
  <2>1. half => (HalfTiles <=> UseMm)
    BY <1>1, <1>5, <1>6 DEF HalfTiles, UseMm
  <2>2. HalfTiles => half
    BY DEF HalfTiles
  <2> QED
    BY <2>1, <2>2
<1> HIDE DEF half
<1> QED
  BY <1>3, <1>4, <1>7 DEF NeedsRescale

(* The operand of a matmul, as it goes into the tiles.                     *)
Tiled(x, name) == (x \o Tiles) \o <<name>>

LEMMA MatmulVal ==
  ASSUME Types, OfExperts, NEW stack, NEW x, IsVal(x.val)
  PROVE  Matmul(stack, x).out.val = Tiled(x.val, stack.name)
<1> DEFINE staged == IF Suffix(MmVariant) \in {"_t", ""} THEN <<"f16">> ELSE <<>>
<1>1. CASE UseMm
  <2>1. Matmul(stack, x) = mul_mm_id_shared(MmVariant, stack, x, Ids, map0)
    BY <1>1 DEF Matmul
  <2>2. mul_mm_id_shared(MmVariant, stack, x, Ids, map0).out = RunOut(stack, x, Ids, staged)
    BY Zenon DEF mul_mm_id_shared, Call
  <2>3. staged = Tiles
    BY <1>1, HalfIs DEF Tiles, If
  <2> HIDE DEF staged
  <2>4. RunOut(stack, x, Ids, Tiles).val = (x.val \o Tiles) \o <<stack.name>>
    BY DEF RunOut, Tensor
  <2> QED
    BY <2>1, <2>2, <2>3, <2>4 DEF Tiled
<1>2. CASE ~UseMm
  <2>1. Matmul(stack, x) = mul_mv_id(sw, stack, x, Ids)
    BY <1>2 DEF Matmul
  <2>2. mul_mv_id(sw, stack, x, Ids).out = RunOut(stack, x, Ids, <<>>)
    BY DEF mul_mv_id, Call
  <2>3. RunOut(stack, x, Ids, <<>>).val = (x.val \o <<>>) \o <<stack.name>>
    BY DEF RunOut, Tensor
  <2>4. Tiles = <<>>
    BY <1>2, HalfIs DEF Tiles, If
  <2> QED
    BY <2>1, <2>2, <2>3, <2>4 DEF Tiled
<1> QED
  BY <1>1, <1>2

(* The feed-forward half of a block keeps its values in fields of its own. *)
LEMMA ValsGateUp ==
  ASSUME Types, Blocks, Staged, Vals, GateUp
  PROVE  Vals'
<1> DEFINE x == Reshape(r.x, <<seq, 1, Config.hidden>>)
           g == Matmul(GateStack, x)
           u == Matmul(UpStack, x)
           regs == [r EXCEPT !.gate = g.out, !.up = u.out]
<1>1. pc = "gate_up" /\ Do(<<g, u>>, regs, "activate") /\ case' = case
  BY Zenon DEF GateUp
<1>2. DOMAIN r = BlockFields /\ r.x = Hidden /\ OfExperts
  BY <1>1 DEF Blocks, Staged, Routed
<1>3. x.val = <<"x">>
  <2>1. Whole(r.x) /\ r.x.val = <<"x">>
    BY <1>2 DEF Hidden, Tensor, Whole
  <2> QED
    BY <2>1, ReshapeVal
<1>4. IsVal(x.val)
  BY <1>3, Words, Zenon
<1>5. GateStack.name = "gate" /\ UpStack.name = "up"
  BY DEF GateStack, UpStack, Stack
<1> HIDE DEF x
<1>6. g.out.val = Tiled(x.val, GateStack.name) /\ u.out.val = Tiled(x.val, UpStack.name)
  BY <1>2, <1>4, MatmulVal, Zenon
<1>7. g.out.val = Entry(Tiles, "gate") /\ u.out.val = Entry(Tiles, "up")
  BY <1>3, <1>5, <1>6 DEF Tiled, Entry
<1> HIDE DEF g, u
<1>8. CASE pc' = "failed"
  BY <1>8, NoVals
<1>9. CASE pc' # "failed"
  <2>1. pc' = "activate" /\ r' = regs
    BY <1>1, <1>9, DoLeads, Zenon
  <2>2. r'.gate = g.out /\ r'.up = u.out
    BY <1>2, <2>1 DEF BlockFields
  <2> HIDE DEF regs
  <2>3. Tiles' = Tiles
    BY <1>1, SameVals
  <2> QED
    BY <1>7, <2>1, <2>2, <2>3 DEF Vals, Entry
<1> QED
  BY <1>8, <1>9

LEMMA ValsActivate ==
  ASSUME Types, Blocks, Vals, Activate
  PROVE  Vals'
<1> DEFINE a == IF sw.ACT_CLASSIC THEN Candle(SiluMul(r.gate, r.up)) ELSE run_silu_mul(r.gate, r.up)
           regs == [r EXCEPT !.act = a.out]
<1>1. pc = "activate" /\ Do(<<a>>, regs, "down") /\ case' = case
  BY Zenon DEF Activate
<1>2. DOMAIN r = BlockFields
  BY DEF Blocks
<1>3. r.gate.val = Entry(Tiles, "gate") /\ r.up.val = Entry(Tiles, "up")
  BY <1>1 DEF Vals
<1>4. run_silu_mul(r.gate, r.up).out.val = ((r.gate.val \o <<"silu">>) \o r.up.val) \o <<"mul">>
  BY DEF run_silu_mul, Call, Tensor
<1>5. Candle(SiluMul(r.gate, r.up)).out.val = ((r.gate.val \o <<"silu">>) \o r.up.val) \o <<"mul">>
  BY DEF SiluMul, Candle, Call, Tensor
<1>6. a.out.val = ActVal(Tiles)
  <2>1. a = Candle(SiluMul(r.gate, r.up)) \/ a = run_silu_mul(r.gate, r.up)
    OBVIOUS
  <2> HIDE DEF a
  <2> QED
    BY <1>3, <1>4, <1>5, <2>1 DEF ActVal
<1> HIDE DEF a
<1>7. CASE pc' = "failed"
  BY <1>7, NoVals
<1>8. CASE pc' # "failed"
  <2>1. pc' = "down" /\ r' = regs
    BY <1>1, <1>8, DoLeads, Zenon
  <2>2. r'.act = a.out
    BY <1>2, <2>1 DEF BlockFields
  <2> HIDE DEF regs
  <2>3. Tiles' = Tiles
    BY <1>1, SameVals
  <2> QED
    BY <1>6, <2>1, <2>2, <2>3 DEF Vals, ActVal, Entry
<1> QED
  BY <1>7, <1>8

LEMMA ValsDown ==
  ASSUME Types, Blocks, Staged, Vals, Down
  PROVE  Vals'
<1> DEFINE l2 == IF NeedsRescale THEN <<Tensor("f32", <<seq, Config.n_expert_used, 1>>, <<"l2">>)>>
                 ELSE NoL2
           x == IF NeedsRescale THEN Op(r.act, "scale") ELSE r.act
           d == Matmul(DownStack, x)
           regs == [r EXCEPT !.down = d.out, !.l2 = l2]
<1>1. pc = "down" /\ Do(<<d>>, regs, "combine") /\ case' = case
  BY Zenon DEF Down
<1>2. DOMAIN r = BlockFields /\ OfExperts
  BY <1>1 DEF Blocks, Staged, Routed
<1>3. r.act.val = ActVal(Tiles)
  BY <1>1 DEF Vals
<1>4. IsVal(ActVal(Tiles))
  BY InVals, ActFlat, Zenon
<1>5. l2 = NoL2 <=> ~HalfTiles
  <2>1. \A t : <<t>> # NoL2
    BY DEF NoL2
  <2> QED
    BY <1>2, <2>1, HalfIs
<1> HIDE DEF l2
<1>6. DownStack.name = "down"
  BY DEF DownStack, Stack
<1>7. IsVal(x.val) /\ Tiled(x.val, "down") = DownVal(Tiles, HalfTiles)
  <2> DEFINE a == ActVal(Tiles)
  <2>1. IsVal(a) /\ r.act.val = a
    BY <1>3, <1>4
  <2> HIDE DEF a
  <2>2. CASE HalfTiles
    <3>1. x.val = a \o <<"scale">> /\ Tiles = <<"f16">>
      BY <1>2, <2>1, <2>2, HalfIs, OpVal DEF Wide, Tiles, If
    <3>2. IsVal(a \o <<"scale">>)
      <4>1. IsVal(<<"scale">>)
        BY Words, Zenon
      <4> QED
        BY <2>1, <4>1, Concat, Zenon
    <3>3. Chains(a, <<"scale">>, <<"f16">>, <<"scale", "f16">>)
      BY <2>1, Longer, Zenon
    <3>4. DownVal(Tiles, HalfTiles) = (a \o <<"scale", "f16">>) \o <<"down">>
      BY <2>2 DEF DownVal, If, a
    <3> HIDE DEF x
    <3> QED
      BY <3>1, <3>2, <3>3, <3>4 DEF Tiled, Chains
  <2>3. CASE ~HalfTiles
    <3>1. x.val = a /\ Tiles = <<>>
      BY <1>2, <2>1, <2>3, HalfIs DEF Tiles, If
    <3>2. DownVal(Tiles, HalfTiles) = (a \o <<>>) \o <<"down">>
      BY <2>3 DEF DownVal, If, a
    <3> HIDE DEF x
    <3> QED
      BY <2>1, <3>1, <3>2 DEF Tiled
  <2> QED
    BY <2>2, <2>3
<1> HIDE DEF x
<1>8. d.out.val = DownVal(Tiles, HalfTiles)
  <2>1. d.out.val = Tiled(x.val, DownStack.name)
    BY <1>2, <1>7, MatmulVal, Zenon
  <2> QED
    BY <1>6, <1>7, <2>1
<1> HIDE DEF d
<1>9. CASE pc' = "failed"
  BY <1>9, NoVals
<1>10. CASE pc' # "failed"
  <2>1. pc' = "combine" /\ r' = regs
    BY <1>1, <1>10, DoLeads, Zenon
  <2>2. r'.down = d.out /\ r'.l2 = l2
    BY <1>2, <2>1 DEF BlockFields
  <2> HIDE DEF regs
  <2>3. Tiles' = Tiles /\ HalfTiles' = HalfTiles
    BY <1>1, SameVals
  <2>4. DownVal(Tiles, HalfTiles)' = DownVal(Tiles, HalfTiles)
    BY <2>3 DEF DownVal, ActVal, Entry, If
  <2> QED
    BY <1>5, <1>8, <2>1, <2>2, <2>3, <2>4 DEF Vals
<1> QED
  BY <1>9, <1>10

LEMMA ValsCombine ==
  ASSUME Types, Blocks, Vals, Combine
  PROVE  Vals'
<1> DEFINE fused == run_combine(r.down, r.l2, RouteWeights)
           plain == CombineClassic(r.down, r.l2)
           c == IF sw.COMBINE_CLASSIC THEN plain ELSE fused
           regs == [r EXCEPT !.y = c.out]
           back == IF r.l2 = NoL2 THEN <<>> ELSE <<"rescale">>
<1>1. Do(<<c>>, regs, "shared") /\ case' = case /\ pc = "combine"
  BY Zenon DEF Combine
<1>2. DOMAIN r = BlockFields
  BY DEF Blocks
<1>3. r.down.val = DownVal(Tiles, HalfTiles) /\ back = If(HalfTiles, <<"rescale">>)
  BY <1>1 DEF Vals, If
<1>4. fused.out.val = (r.down.val \o back) \o <<"weigh", "sum">>
  BY DEF run_combine, Call, Tensor
<1>5. plain.out.val = (r.down.val \o back) \o <<"weigh", "sum">>
  BY DEF CombineClassic, Candle, Call, Tensor
<1>6. c = plain \/ c = fused
  OBVIOUS
<1> HIDE DEF c, plain, fused, back
<1>7. c.out.val = YVal(Tiles, HalfTiles)
  BY <1>3, <1>4, <1>5, <1>6 DEF YVal
<1>8. CASE pc' = "failed"
  BY <1>8, NoVals
<1>9. CASE pc' # "failed"
  <2>1. pc' = "shared" /\ r' = regs
    BY <1>1, <1>9, DoLeads, Zenon
  <2>2. r'.y = c.out
    BY <1>2, <2>1 DEF BlockFields
  <2> HIDE DEF regs
  <2>3. Tiles' = Tiles /\ HalfTiles' = HalfTiles
    BY <1>1, SameVals
  <2>4. YVal(Tiles, HalfTiles)' = YVal(Tiles, HalfTiles)
    BY <2>3 DEF YVal, DownVal, ActVal, Entry, If
  <2> QED
    BY <1>7, <2>1, <2>2, <2>4 DEF Vals
<1> QED
  BY <1>8, <1>9

LEMMA ValsReference ==
  ASSUME Types, Blocks, Staged, Vals, ReferenceExperts
  PROVE  Vals'
<1> DEFINE h == SiluMul(Op(r.x, "gate"), Op(r.x, "up"))
           y == Tensor("f32", <<seq, Config.hidden>>, h.val \o <<"down", "weigh", "sum">>)
           regs == [r EXCEPT !.y = y]
<1>1. Do(<<>>, regs, "shared") /\ case' = case /\ pc = "reference"
  BY Zenon DEF ReferenceExperts
<1>2. DOMAIN r = BlockFields /\ r.x = Hidden /\ ~OfExperts
  BY <1>1 DEF Blocks, Staged
<1>3. r.x.val = <<"x">>
  BY <1>2 DEF Hidden, Tensor
<1>4. Op(r.x, "gate").val = <<"x">> \o <<"gate">> /\ Op(r.x, "up").val = <<"x">> \o <<"up">>
  BY <1>3 DEF Op, Tensor
<1>5. h.val = (((<<"x">> \o <<"gate">>) \o <<"silu">>) \o (<<"x">> \o <<"up">>)) \o <<"mul">>
  BY <1>4 DEF SiluMul, Tensor
<1>6. y.val = h.val \o <<"down", "weigh", "sum">>
  BY DEF Tensor
<1> HIDE DEF h, y
<1>7. y.val = YVal(<<>>, FALSE)
  BY <1>5, <1>6, ReferenceFlat
<1>8. ~HalfTiles /\ Tiles = <<>>
  BY <1>2 DEF HalfTiles, OfExperts, Tiles, If
<1>9. CASE pc' = "failed"
  BY <1>9, NoVals
<1>10. CASE pc' # "failed"
  <2>1. pc' = "shared" /\ r' = regs
    BY <1>1, <1>10, DoLeads, Zenon
  <2>2. r'.y = y
    BY <1>2, <2>1 DEF BlockFields
  <2> HIDE DEF regs
  <2>3. Tiles' = Tiles /\ HalfTiles' = HalfTiles
    BY <1>1, SameVals
  <2>4. YVal(Tiles, HalfTiles)' = YVal(<<>>, FALSE)
    BY <1>8, <2>3 DEF YVal, DownVal, ActVal, Entry, If
  <2> QED
    BY <1>7, <2>1, <2>2, <2>4 DEF Vals
<1> QED
  BY <1>9, <1>10

LEMMA ValsStep ==
  ASSUME Types, Blocks, Staged, Vals, Next
  PROVE  Vals'
<1>1. CASE Begin \/ Output \/ Dense \/ Shared \/ Route \/ PrepareMap \/ NoMapNeeded
           \/ LastLogits \/ AllLogits
  <2>1. \A calls, regs, next : Do(calls, regs, next) => pc' \in {next, "failed"}
    BY DoLeads
  <2>2. ASSUME NEW calls, NEW out, EndLayer(calls, out)
        PROVE  pc' \in {"project", "head", "failed"}
    BY <2>1, <2>2 DEF EndLayer, NextLayer
  <2>3. Dense \/ Shared => pc' \in {"project", "head", "failed"}
    BY <2>2, Zenon DEF Dense, Shared
  <2>4. LastLogits \/ AllLogits => pc' \in {"done", "failed"}
    BY <2>1, Zenon DEF LastLogits, AllLogits, EmitLogits
  <2>5. Begin => pc' \in {"project", "failed"}
    BY <2>1, Zenon DEF Begin
  <2>6. Output => pc' \in {"ffn", "failed"}
    BY <2>1, Zenon DEF Output
  <2>7. PrepareMap \/ NoMapNeeded => pc' \in {"gate_up", "failed"}
    BY <2>1, Zenon DEF PrepareMap, NoMapNeeded
  <2>8. Route => pc' \in {"reference", "experts", "failed"}
    <3> DEFINE next == IF case.runner = "reference" THEN "reference" ELSE "experts"
    <3>1. Route => pc' \in {next, "failed"}
      BY <2>1, Zenon DEF Route
    <3> QED
      BY <3>1
  <2> QED
    BY <1>1, <2>3, <2>4, <2>5, <2>6, <2>7, <2>8, NoVals
<1> QED
  BY <1>1, ValsProject, ValsPermute, ValsRotate, ValsAppend, ValsAttend, ValsGate, ValsGateUp,
    ValsActivate, ValsDown, ValsCombine, ValsReference, Zenon DEF Next, Attention, Ffn

-----------------------------------------------------------------------------
(* What the blocks end in. *)
Right(e) ==
  e.out.val = CASE e.at = "attn" -> ExpectedAttn
                [] e.at = "ffn" -> ExpectedFfn(e.il)
                [] e.at = "head" -> <<"x", "output_norm", "output">>

LEMMA SameExpected ==
  ASSUME case' = case
  PROVE  ExpectedAttn' = ExpectedAttn /\ \A i : ExpectedFfn(i)' = ExpectedFfn(i)
<1>1. /\ TensorGemm' = TensorGemm /\ HalfSdpa' = HalfSdpa /\ HalfTiles' = HalfTiles
  BY DEF TensorGemm, HalfSdpa, HalfTiles, MmVariant, seq, sw
<1> QED
  BY <1>1 DEF ExpectedAttn, AttnValue, ExpectedFfn, SwigluValue, If

(* A step that records nothing, or a block that came out right.            *)
LEMMA Recorded ==
  ASSUME IsVal(log), SwitchesInvisible, case' = case,
         log' = log \/ \E e : log' = Append(log, e) /\ Right(e)
  PROVE  IsVal(log') /\ SwitchesInvisible'
<1>1. \A n \in DOMAIN log : Right(log[n])
  BY DEF SwitchesInvisible, Right
<1>2. PICK set : log \in Seq(set)
  BY DEF IsVal
<1>3. IsVal(log') /\ \A n \in DOMAIN log' : Right(log'[n])
  <2>1. CASE log' = log
    BY <1>1, <1>2, <2>1 DEF IsVal
  <2>2. ASSUME NEW e, log' = Append(log, e), Right(e)
        PROVE  IsVal(log') /\ \A n \in DOMAIN log' : Right(log'[n])
    <3> DEFINE both == set \cup {e}
    <3>1. log \in Seq(both) /\ e \in both
      BY <1>2
    <3> HIDE DEF both
    <3>2. /\ log' \in Seq(both) /\ Len(log') = Len(log) + 1
          /\ \A i \in 1 .. Len(log) : log'[i] = log[i]
          /\ log'[Len(log) + 1] = e
      BY <2>2, <3>1, AppendProperties
    <3>3. DOMAIN log = 1 .. Len(log) /\ DOMAIN log' = 1 .. Len(log') /\ Len(log) \in Nat
      BY <3>1, <3>2, LenProperties
    <3>4. ASSUME NEW n \in 1 .. Len(log) + 1 PROVE Right(log'[n])
      <4>1. n \in 1 .. Len(log) \/ n = Len(log) + 1
        <5>1. \A m \in Nat : \A i \in 1 .. m + 1 : i \in 1 .. m \/ i = m + 1
          OBVIOUS
        <5> QED
          BY <3>3, <5>1
      <4>2. CASE n \in 1 .. Len(log)
        <5>1. log'[n] = log[n] /\ Right(log[n])
          BY <1>1, <3>2, <3>3, <4>2
        <5> QED
          BY <5>1
      <4>3. CASE n = Len(log) + 1
        BY <2>2, <3>2, <4>3
      <4> QED
        BY <4>1, <4>2, <4>3
    <3> QED
      BY <3>2, <3>3, <3>4 DEF IsVal
  <2> QED
    BY <2>1, <2>2
<1>4. ExpectedAttn' = ExpectedAttn /\ \A i : ExpectedFfn(i)' = ExpectedFfn(i)
  BY SameExpected
<1> QED
  BY <1>3, <1>4 DEF SwitchesInvisible, Right

(* The dense and the shared expert: three of candle's matmuls.             *)
LEMMA SwigluVal ==
  ASSUME NEW name, NEW width, NEW x, Whole(x), x.val = <<"x">>
  PROVE  Swiglu(name, width, x)[3].out.val = SwigluValue(name)
<1> DEFINE gn == name \o ".gate"
           un == name \o ".up"
           dn == name \o ".down"
           wg == Weight(gn, width, Config.hidden)
           wu == Weight(un, width, Config.hidden)
           wd == Weight(dn, Config.hidden, width)
           g == QLinear(wg, x)
           u == QLinear(wu, x)
           s == SiluMul(g.out, u.out)
           d == QLinear(wd, s)
<1>1. Swiglu(name, width, x) = <<g, u, d>>
  BY DEF Swiglu
<1>2. SwigluValue(name) = <<"x", gn, "silu", "x", un, "mul", dn>>
  BY DEF SwigluValue
<1> HIDE DEF gn, un, dn
<1>3. wg.name = gn /\ wu.name = un /\ wd.name = dn
  BY DEF Weight
<1> HIDE DEF wg, wu, wd
<1>4. g.out.val = <<"x">> \o <<gn>> /\ u.out.val = <<"x">> \o <<un>>
  BY <1>3, QLinearVal
<1> HIDE DEF g, u
<1>5. s.val = (((<<"x">> \o <<gn>>) \o <<"silu">>) \o (<<"x">> \o <<un>>)) \o <<"mul">> /\ Whole(s)
  BY <1>4 DEF SiluMul, Tensor, Whole
<1> HIDE DEF s
<1>6. d.out.val = s.val \o <<dn>>
  BY <1>3, <1>5, QLinearVal
<1>7. s.val \o <<dn>> = <<"x", gn, "silu", "x", un, "mul", dn>>
  BY <1>5, SwigluFlat
<1>8. Swiglu(name, width, x)[3] = d
  BY <1>1
<1> HIDE DEF d
<1> QED
  BY <1>2, <1>6, <1>7, <1>8

LEMMA EndVal ==
  ASSUME Types, Blocks, Staged, Vals, Dense \/ Shared
  PROVE  log' = log \/ \E e : log' = Append(log, e) /\ Right(e)
<1>1. Whole(r.x) /\ r.x.val = <<"x">>
  <2>1. r.x = Hidden
    BY DEF Blocks, Dense, Shared
  <2> QED
    BY <2>1 DEF Hidden, Tensor, Whole
<1>2. il \in Int /\ Config.dense_layers \in Int
  BY CaseFacts, ConfigAssumption
<1>3. ASSUME NEW calls, NEW out, EndLayer(calls, out), out.val = ExpectedFfn(il)
      PROVE  log' = log \/ \E e : log' = Append(log, e) /\ Right(e)
  <2>1. log' = log \/ log' = Append(log, Block(out))
    BY <1>3 DEF EndLayer
  <2>2. Block(out).at = "ffn" /\ Block(out).il = il /\ Block(out).out = out
    BY DEF Block
  <2>3. Right(Block(out))
    BY <1>3, <2>2 DEF Right
  <2> QED
    BY <2>1, <2>3, Zenon
<1>4. CASE Dense
  <2> DEFINE s == Swiglu("dense", Config.dense_ff, r.x)
  <2>1. EndLayer(s, s[3].out) /\ il < Config.dense_layers
    BY <1>4, Zenon DEF Dense
  <2>2. s[3].out.val = SwigluValue("dense")
    BY <1>1, SwigluVal, Zenon
  <2> HIDE DEF s
  <2>3. s[3].out.val = ExpectedFfn(il)
    BY <2>1, <2>2 DEF ExpectedFfn
  <2> QED
    BY <1>3, <2>1, <2>3, Zenon
<1>5. CASE Shared
  <2> DEFINE s == Swiglu("shared", Config.expert_ff, r.x)
             val == r.y.val \o s[3].out.val \o <<"add">>
             out == Tensor("f32", <<seq, Config.hidden>>, val)
  <2>1. EndLayer(s, out) /\ pc = "shared"
    BY <1>5, Zenon DEF Shared
  <2>2. s[3].out.val = SwigluValue("shared")
    BY <1>1, SwigluVal, Zenon
  <2> HIDE DEF s
  <2>3. il >= Config.dense_layers /\ r.y.val = YVal(Tiles, HalfTiles)
    BY <2>1 DEF Staged, Vals
  <2>4. ~(il < Config.dense_layers)
    BY <1>2, <2>3
  <2>5. val = (YVal(Tiles, HalfTiles) \o SwigluValue("shared")) \o <<"add">>
    BY <2>2, <2>3
  <2>6. ActVal(Tiles) = <<"x">> \o Tiles \o <<"gate", "silu", "x">> \o Tiles \o <<"up", "mul">>
    BY InVals, ActFlat
  <2>7. val = ExpectedFfn(il)
    <3> DEFINE w == SwigluValue("shared")
    <3> HIDE DEF val, w
    <3>1. val = (YVal(Tiles, HalfTiles) \o w) \o <<"add">>
      BY <2>5 DEF w
    <3>2. ExpectedFfn(il) =
            <<"x">> \o Tiles \o <<"gate", "silu", "x">> \o Tiles \o <<"up", "mul">>
            \o If(HalfTiles, <<"scale", "f16">>) \o <<"down">> \o If(HalfTiles, <<"rescale">>)
            \o <<"weigh", "sum">> \o w \o <<"add">>
      BY <2>4 DEF ExpectedFfn, Tiles, w
    <3> QED
      BY <2>6, <3>1, <3>2 DEF YVal, DownVal
  <2>8. out.val = val
    BY DEF Tensor
  <2> HIDE DEF out, val
  <2>9. out.val = ExpectedFfn(il)
    BY <2>7, <2>8
  <2> QED
    BY <1>3, <2>1, <2>9, Zenon
<1> QED
  BY <1>4, <1>5

LEMMA HeadVal ==
  ASSUME Types, Blocks, LastLogits \/ AllLogits
  PROVE  log' = log \/ \E e : log' = Append(log, e) /\ Right(e)
<1> DEFINE in == <<"x">> \o <<"output_norm">>
<1>1. r.x.val = <<"x">> /\ Whole(r.x)
  <2>1. r.x = Hidden
    BY DEF Blocks, LastLogits, AllLogits
  <2> QED
    BY <2>1 DEF Hidden, Tensor, Whole
<1>2. Normed.val = in /\ Whole(Normed)
  BY <1>1 DEF Normed, Op, Tensor, Whole
<1>3. LastRow(Normed).val = in /\ Whole(LastRow(Normed))
  BY <1>2 DEF LastRow, Whole
<1>4. HeadWeight.name = "output"
  BY DEF HeadWeight
<1> HIDE DEF in
<1>5. in \o <<"output">> = <<"x", "output_norm", "output">>
  <2>1. in = <<"x", "output_norm">>
    BY Words, Zenon DEF in
  <2>2. <<"x", "output_norm">> \o <<"output">> = <<"x", "output_norm", "output">>
    BY Words, Zenon
  <2> QED
    BY <2>1, <2>2
<1>6. ASSUME NEW c, EmitLogits(c), c.out.val = in \o <<"output">>
      PROVE  log' = log \/ \E e : log' = Append(log, e) /\ Right(e)
  <2> DEFINE e == [at |-> "head", il |-> il, out |-> c.out]
  <2>1. log' = log \/ log' = Append(log, e)
    BY <1>6 DEF EmitLogits
  <2>2. Right(e)
    BY <1>5, <1>6 DEF Right
  <2> HIDE DEF e
  <2> QED
    BY <2>1, <2>2, Zenon
<1>7. \A x : Whole(x) /\ x.val = in => QLinear(HeadWeight, x).out.val = in \o <<"output">>
  BY <1>4, QLinearVal
<1>8. mul_mv(HeadWeight, LastRow(Normed)).out.val = in \o <<"output">>
  BY <1>3, <1>4 DEF mul_mv, Call, Tensor
<1>9. CASE LastLogits
  <2> DEFINE own == case.metal /\ seq = 1 /\ ~sw.MV_CLASSIC /\ mv_vendored_supported(case.ck.head)
             fused == mul_mv(HeadWeight, LastRow(Normed))
             plain == QLinear(HeadWeight, LastRow(Normed))
             c == IF own THEN fused ELSE plain
  <2>1. EmitLogits(c)
    BY <1>9, Zenon DEF LastLogits
  <2>2. fused.out.val = in \o <<"output">> /\ plain.out.val = in \o <<"output">>
    BY <1>3, <1>7, <1>8
  <2> HIDE DEF own, fused, plain
  <2>3. c.out.val = in \o <<"output">>
    BY <2>2
  <2> HIDE DEF c
  <2> QED
    BY <1>6, <2>1, <2>3
<1>10. CASE AllLogits
  <2> DEFINE c == QLinear(HeadWeight, Normed)
  <2>1. EmitLogits(c)
    BY <1>10, Zenon DEF AllLogits
  <2>2. c.out.val = in \o <<"output">>
    BY <1>2, <1>7
  <2> HIDE DEF c
  <2> QED
    BY <1>6, <2>1, <2>2
<1> QED
  BY <1>9, <1>10

LEMMA LogStep ==
  ASSUME Types, Blocks, Staged, Vals, IsVal(log), SwitchesInvisible, Next
  PROVE  IsVal(log') /\ SwitchesInvisible'
<1>1. case' = case
  BY SameCase
<1>2. log' = log \/ \E e : log' = Append(log, e) /\ Right(e)
  <2>1. CASE Begin
    BY <2>1 DEF Begin
  <2>2. CASE Attention /\ ~Output
    BY <2>2 DEF Attention, Project, Permute, Rotate, CacheAppend, AttendFlash, AttendSdpa,
      AttendManual, Gate
  <2>3. CASE Output
    <3>1. PICK o, calls :
            /\ o.out.val = ExpectedAttn
            /\ log' = IF pc' = "ffn"
                      THEN Append(log, [at |-> "attn", il |-> il, out |-> o.out]) ELSE log
      BY <2>3, OutputVal, Zenon
    <3> DEFINE e == [at |-> "attn", il |-> il, out |-> o.out]
    <3>2. Right(e)
      BY <3>1 DEF Right
    <3>3. log' = log \/ log' = Append(log, e)
      BY <3>1
    <3> HIDE DEF e
    <3> QED
      BY <3>2, <3>3, Zenon
  <2>4. CASE Dense \/ Shared
    BY <2>4, EndVal, Zenon
  <2>5. CASE Ffn /\ ~Dense /\ ~Shared
    BY <2>5 DEF Ffn, Route, ReferenceExperts, PrepareMap, NoMapNeeded, GateUp, Activate, Down, Combine
  <2>6. CASE LastLogits \/ AllLogits
    BY <2>6, HeadVal, Zenon
  <2> QED
    BY <2>1, <2>2, <2>3, <2>4, <2>5, <2>6 DEF Next, Ffn
<1> QED
  BY <1>1, <1>2, Recorded

ValueInv == Types /\ Blocks /\ Staged /\ Vals /\ IsVal(log) /\ SwitchesInvisible

LEMMA ValueInit == Init => ValueInv
<1> SUFFICES ASSUME Init PROVE ValueInv
  OBVIOUS
<1>1. pc = "begin" /\ log = <<>>
  BY DEF Init
<1>2. Types /\ Blocks
  BY TypesInit, BlocksInit
<1>3. Staged /\ Vals
  BY <1>1 DEF Staged, Routed, Vals
<1>4. IsVal(log)
  BY <1>1, Words, Zenon
<1>5. SwitchesInvisible
  BY <1>1 DEF SwitchesInvisible
<1> QED
  BY <1>2, <1>3, <1>4, <1>5 DEF ValueInv

LEMMA ValueStep == ValueInv /\ [Next]_vars => ValueInv'
<1> SUFFICES ASSUME ValueInv, [Next]_vars PROVE ValueInv'
  OBVIOUS
<1>1. CASE Next
  <2>1. Types' /\ Blocks' /\ Staged'
    BY <1>1, TypesStep, BlocksStep, StagedStep DEF ValueInv
  <2>2. Vals'
    BY <1>1, ValsStep DEF ValueInv
  <2>3. IsVal(log') /\ SwitchesInvisible'
    BY <1>1, LogStep DEF ValueInv
  <2> QED
    BY <2>1, <2>2, <2>3 DEF ValueInv, IsVal
<1>2. CASE UNCHANGED vars
  <2>1. case' = case /\ il' = il /\ pc' = pc /\ r' = r /\ log' = log
    BY <1>2 DEF vars
  <2>2. Types' /\ Blocks'
    <3>1. seq' = seq /\ NHead(il)' = NHead(il) /\ Hidden' = Hidden /\ ViewPositions' = ViewPositions
      BY <2>1, SameTerms
    <3> QED
      BY <2>1, <3>1 DEF ValueInv, Types, Blocks
  <2>3. Staged'
    BY <2>1 DEF ValueInv, Staged, Routed, OfExperts, Layers
  <2>4. Vals'
    <3>1. /\ In' = In /\ Sdpa' = Sdpa /\ Tiles' = Tiles /\ HalfTiles' = HalfTiles
          /\ FusedGlue' = FusedGlue /\ seq' = seq /\ sw' = sw
      BY <2>1, SameVals
    <3>2. /\ \A name : Entry(In, name)' = Entry(In, name) /\ Entry(Tiles, name)' = Entry(Tiles, name)
          /\ QVal(In)' = QVal(In) /\ KVal(In)' = KVal(In) /\ VVal(In)' = VVal(In)
      BY <3>1 DEF Entry, QVal, KVal, VVal
    <3>3. AttnVal(In, Sdpa)' = AttnVal(In, Sdpa) /\ GateVal(In, Sdpa)' = GateVal(In, Sdpa)
      BY <3>1 DEF AttnVal, GateVal, Entry, QVal, KVal, VVal
    <3>4. /\ ActVal(Tiles)' = ActVal(Tiles)
          /\ DownVal(Tiles, HalfTiles)' = DownVal(Tiles, HalfTiles)
          /\ YVal(Tiles, HalfTiles)' = YVal(Tiles, HalfTiles)
      BY <3>1 DEF ActVal, DownVal, YVal, Entry, If
    <3> QED
      BY <2>1, <3>1, <3>2, <3>3, <3>4 DEF ValueInv, Vals, Wide, Narrow
  <2>5. IsVal(log') /\ SwitchesInvisible'
    BY <2>1, Recorded DEF ValueInv
  <2> QED
    BY <2>2, <2>3, <2>4, <2>5 DEF ValueInv, IsVal
<1> QED
  BY <1>1, <1>2

(* Whatever the kill switches, the checkpoint, the device and the length   *)
(* of the chunk, every block of every layer and the head compute the chain *)
(* of operations and roundings the precision design names for it: the      *)
(* fused kernels and the chains they replace agree on where f16 enters.    *)
THEOREM SwitchesAreInvisible == Spec => []SwitchesInvisible
<1>1. ValueInv => SwitchesInvisible
  BY DEF ValueInv
<1> QED
  BY <1>1, ValueInit, ValueStep, PTL DEF Spec

LEMMA RecordHolds ==
  ASSUME HasExperts, RecordInv, SwitchesInvisible
  PROVE  RecordTrue
<1> DEFINE p == Provenance
<1> SUFFICES ASSUME pc = "done", case.metal
             PROVE  /\ Ran(Projections) <=> p.attn_dtype = "f16"
                    /\ Ran({"mul_mm_f16_t"}) <=> (seq > 8 /\ p.attn_mm = "tensor")
                    /\ Ran({"mul_mm_f16"}) <=> (seq > 8 /\ p.attn_mm = "classic")
                    /\ Ran({"mul_mv_q8_0_attn"}) <=> (seq <= 8 /\ p.attn_decode = "q8")
                    /\ Ran({"mul_mv_f16"}) <=> (seq <= 8 /\ p.attn_decode = "f16")
                    /\ Ran({"combine", "combine_rescale"}) <=> p.combine = "fused"
                    /\ Ran({"silu_mul"}) <=> p.act = "fused"
                    /\ Ran({"attn_gate", "permute_cast", "rope"}) <=> p.attn_glue = "fused"
                    /\ Ran({"flash"}) <=> (seq > 1 /\ p.flash = "fused")
                    /\ Ran({"map0", "mul_mm_id"}) => p.mm_on
                    /\ \A k \in ran : k[1] = "mul_mm_id" => k[3] = Suffix(p.mm_variant)
                    /\ \A n \in DOMAIN log : log[n].at = "attn" =>
                         log[n].out.val = AttnValue(seq > 8 /\ p.attn_mm = "tensor",
                           ~(seq > 1 /\ p.flash = "fused") /\ p.sdpa = "f16")
  BY Zenon DEF RecordTrue
<1>1. /\ p.attn_dtype = (IF sw.ATTN_F32 THEN "f32" ELSE "f16")
      /\ p.sdpa = (IF sw.SDPA_F32 THEN "f32" ELSE "f16")
      /\ p.attn_mm = AttnMm /\ p.attn_decode = AttnDecode
      /\ p.combine = IF case.runner = "reference" THEN "reference"
                     ELSE IF sw.COMBINE_CLASSIC THEN "classic" ELSE "fused"
      /\ p.act = IF case.runner = "reference" \/ sw.ACT_CLASSIC THEN "classic" ELSE "fused"
      /\ p.attn_glue = IF sw.GLUE_CLASSIC THEN "classic" ELSE "fused"
      /\ p.flash = IF sw.FLASH_CLASSIC THEN "classic" ELSE "fused"
      /\ p.mm_variant = MmVariant
      /\ p.mm_on = (case.runner # "reference" /\ seq >= case.min_seq /\ ~sw.NO_MM_ID)
  BY DEF Provenance
<1> HIDE DEF p
<1>2. seq \in Nat \ {0} /\ il \in Nat
  BY CaseFacts DEF RecordInv
<1>3. il >= Config.dense_layers
  <2>1. il \in Layers /\ il + 1 \notin Layers
    BY DEF RecordInv, Types, Staged
  <2> QED
    BY <2>1, ConfigAssumption DEF HasExperts, Layers
<1>4. \A k \in ran : Allowed(k)
  BY DEF RecordInv, RanAllowed
<1>5. ProjKernels \subseteq ran
  BY DEF RecordInv, ProjRan
<1>6. Ran({"mul_mm_f16_t"}) <=> (seq > 8 /\ p.attn_mm = "tensor")
  <2>1. p.attn_mm = "tensor" <=> ~sw.ATTN_F32 /\ ~sw.ATTN_MM_CLASSIC
    BY <1>1 DEF AttnMm
  <2>2. ASSUME seq > 8, ~sw.ATTN_F32, ~sw.ATTN_MM_CLASSIC
        PROVE  <<"mul_mm_f16_t">> \in ProjKernels
    BY <1>2, <2>2 DEF ProjKernels, F16MmKernel
  <2>3. <<"mul_mm_f16_t">>[1] = "mul_mm_f16_t"
    OBVIOUS
  <2>4. \A k \in ran : k[1] = "mul_mm_f16_t" => seq > 8 /\ ~sw.ATTN_F32 /\ ~sw.ATTN_MM_CLASSIC
    BY <1>4 DEF Allowed
  <2> QED
    BY <1>5, <2>1, <2>2, <2>3, <2>4 DEF Ran
<1>7. Ran({"mul_mm_f16"}) <=> (seq > 8 /\ p.attn_mm = "classic")
  <2>1. p.attn_mm = "classic" <=> ~sw.ATTN_F32 /\ sw.ATTN_MM_CLASSIC
    BY <1>1 DEF AttnMm
  <2>2. ASSUME seq > 8, ~sw.ATTN_F32, sw.ATTN_MM_CLASSIC
        PROVE  <<"mul_mm_f16">> \in ProjKernels
    BY <1>2, <2>2 DEF ProjKernels, F16MmKernel
  <2>3. <<"mul_mm_f16">>[1] = "mul_mm_f16"
    OBVIOUS
  <2>4. \A k \in ran : k[1] = "mul_mm_f16" => seq > 8 /\ ~sw.ATTN_F32 /\ sw.ATTN_MM_CLASSIC
    BY <1>4 DEF Allowed
  <2> QED
    BY <1>5, <2>1, <2>2, <2>3, <2>4 DEF Ran
<1>8. Ran({"mul_mv_q8_0_attn"}) <=> (seq <= 8 /\ p.attn_decode = "q8")
  <2>1. p.attn_decode = "q8" <=> ~sw.ATTN_F32 /\ ~sw.ATTN_DEQUANT /\ case.ck.attn = "q8_0"
    BY <1>1 DEF AttnDecode
  <2>2. ASSUME seq <= 8, ~sw.ATTN_F32, ~sw.ATTN_DEQUANT, case.ck.attn = "q8_0"
        PROVE  <<"mul_mv_q8_0_attn">> \in ProjKernels
    BY <2>2 DEF ProjKernels
  <2>3. <<"mul_mv_q8_0_attn">>[1] = "mul_mv_q8_0_attn"
    OBVIOUS
  <2>4. \A k \in ran : k[1] = "mul_mv_q8_0_attn" =>
          seq <= 8 /\ ~sw.ATTN_F32 /\ ~sw.ATTN_DEQUANT /\ case.ck.attn = "q8_0"
    BY <1>4 DEF Allowed
  <2> QED
    BY <1>5, <2>1, <2>2, <2>3, <2>4 DEF Ran
<1>9. Ran({"mul_mv_f16"}) <=> (seq <= 8 /\ p.attn_decode = "f16")
  <2>1. p.attn_decode = "f16" <=> ~sw.ATTN_F32 /\ ~(~sw.ATTN_DEQUANT /\ case.ck.attn = "q8_0")
    BY <1>1 DEF AttnDecode
  <2>2. ASSUME seq <= 8, ~sw.ATTN_F32, ~(~sw.ATTN_DEQUANT /\ case.ck.attn = "q8_0")
        PROVE  <<"mul_mv_f16">> \in ProjKernels
    BY <1>2, <2>2 DEF ProjKernels
  <2>3. <<"mul_mv_f16">>[1] = "mul_mv_f16"
    OBVIOUS
  <2>4. \A k \in ran : k[1] = "mul_mv_f16" =>
          seq <= 8 /\ ~sw.ATTN_F32 /\ ~(~sw.ATTN_DEQUANT /\ case.ck.attn = "q8_0")
    BY <1>4 DEF Allowed
  <2> QED
    BY <1>5, <2>1, <2>2, <2>3, <2>4 DEF Ran
<1>10. Ran({"combine", "combine_rescale"}) <=> p.combine = "fused"
  <2>1. p.combine = "fused" <=> OfExperts /\ ~sw.COMBINE_CLASSIC
    BY <1>1 DEF OfExperts
  <2>2. ASSUME OfExperts, ~sw.COMBINE_CLASSIC
        PROVE  \E name \in {"combine", "combine_rescale"} : <<name>> \in ran
    BY <1>3, <2>2 DEF RecordInv, CombineRan
  <2>3. \A name : <<name>>[1] = name
    OBVIOUS
  <2>4. \A k \in ran : k[1] \in {"combine", "combine_rescale"} => OfExperts /\ ~sw.COMBINE_CLASSIC
    BY <1>4 DEF Allowed
  <2> QED
    BY <2>1, <2>2, <2>3, <2>4 DEF Ran
<1>11. Ran({"silu_mul"}) <=> p.act = "fused"
  <2>1. p.act = "fused" <=> OfExperts /\ ~sw.ACT_CLASSIC
    BY <1>1 DEF OfExperts
  <2>2. ASSUME OfExperts, ~sw.ACT_CLASSIC
        PROVE  <<"silu_mul">> \in ran
    BY <1>3, <2>2 DEF RecordInv, SiluRan
  <2>3. <<"silu_mul">>[1] = "silu_mul"
    OBVIOUS
  <2>4. \A k \in ran : k[1] = "silu_mul" => OfExperts /\ ~sw.ACT_CLASSIC
    BY <1>4 DEF Allowed
  <2> QED
    BY <2>1, <2>2, <2>3, <2>4 DEF Ran
<1>12. Ran({"attn_gate", "permute_cast", "rope"}) <=> p.attn_glue = "fused"
  <2>1. p.attn_glue = "fused" <=> FusedGlue
    BY <1>1 DEF FusedGlue
  <2>2. ASSUME FusedGlue PROVE \E k \in ran : k[1] \in Glue
    BY <2>2 DEF RecordInv, GateRan, Later
  <2>3. \A k \in ran : k[1] \in Glue => FusedGlue
    BY <1>4 DEF Allowed, FusedGlue
  <2> QED
    BY <2>1, <2>2, <2>3 DEF Ran, Glue
<1>13. Ran({"flash"}) <=> (seq > 1 /\ p.flash = "fused")
  <2>1. (seq > 1 /\ p.flash = "fused") <=> TakesFlash
    BY <1>1 DEF TakesFlash
  <2>2. ASSUME TakesFlash PROVE <<"flash">> \in ran
    BY <2>2 DEF RecordInv, FlashRan, Later
  <2>3. <<"flash">>[1] = "flash"
    OBVIOUS
  <2>4. \A k \in ran : k[1] = "flash" => TakesFlash
    BY <1>4 DEF Allowed
  <2> QED
    BY <2>1, <2>2, <2>3, <2>4 DEF Ran
<1>14. Ran({"map0", "mul_mm_id"}) => p.mm_on
  <2>1. \A k \in ran : k[1] \in {"map0", "mul_mm_id"} => OfExperts /\ seq >= case.min_seq /\ ~sw.NO_MM_ID
    BY <1>4 DEF Allowed
  <2> QED
    BY <1>1, <2>1 DEF Ran, OfExperts
<1>15. \A k \in ran : k[1] = "mul_mm_id" => k[3] = Suffix(p.mm_variant)
  BY <1>1, <1>4 DEF Allowed
<1>16. Ran(Projections) <=> p.attn_dtype = "f16"
  <2>1. p.attn_dtype = "f16" <=> ~sw.ATTN_F32
    BY <1>1
  <2>2. ASSUME ~sw.ATTN_F32
        PROVE  \E name \in Projections : <<name>> \in ProjKernels
    BY <1>2, <2>2 DEF ProjKernels, F16MmKernel, Projections
  <2>3. \A name : <<name>>[1] = name
    OBVIOUS
  <2>4. \A k \in ran : k[1] \in Projections => ~sw.ATTN_F32
    BY <1>4 DEF Allowed, Projections
  <2> QED
    BY <1>5, <2>1, <2>2, <2>3, <2>4 DEF Ran
<1>17. ASSUME NEW n \in DOMAIN log, log[n].at = "attn"
       PROVE  log[n].out.val = AttnValue(seq > 8 /\ p.attn_mm = "tensor",
                ~(seq > 1 /\ p.flash = "fused") /\ p.sdpa = "f16")
  <2>1. log[n].out.val = AttnValue(TensorGemm, HalfSdpa)
    BY <1>17 DEF SwitchesInvisible, ExpectedAttn
  <2>2. TensorGemm = (seq > 8 /\ p.attn_mm = "tensor")
    BY <1>1 DEF TensorGemm, AttnMm
  <2>3. HalfSdpa = (~(seq > 1 /\ p.flash = "fused") /\ p.sdpa = "f16")
    BY <1>1 DEF HalfSdpa
  <2> QED
    BY <2>1, <2>2, <2>3
<1> QED
  BY <1>6, <1>7, <1>8, <1>9, <1>10, <1>11, <1>12, <1>13, <1>14, <1>15, <1>16, <1>17, Zenon

(* A dump's record of the paths that were taken names the kernels that     *)
(* really ran and fixes where attention rounded to f16, whatever the       *)
(* switches, the checkpoint and the chunk: the call sites (attention.rs,   *)
(* moe.rs) and provenance (logits-dump.rs) each read the switches for      *)
(* themselves, and agree.                                                  *)
THEOREM DumpsAreTrue ==
  ASSUME HasExperts
  PROVE  Spec => []RecordTrue
<1>1. Init => RecordInv
  BY RecordInit
<1>2. RecordInv /\ [Next]_vars => RecordInv'
  BY RecordStep
<1>3. RecordInv /\ SwitchesInvisible => RecordTrue
  BY RecordHolds
<1> QED
  BY <1>1, <1>2, <1>3, SwitchesAreInvisible, PTL DEF Spec
-----------------------------------------------------------------------------
(* Why a forward fails.                                                    *)

(* The dtype the rope leaves the queries in: that of the sdpa of a decode  *)
(* step.                                                                   *)
QueryDt == IF FusedGlue /\ seq = 1 /\ ~sw.SDPA_F32 THEN "f16" ELSE "f32"

(* The block in progress holds what its next step takes, in the dtypes and *)
(* the layout that step expects.                                           *)
Fit ==
  /\ pc \notin {"begin", "failed"} => pos + seq <= Config.max_ctx
  /\ pc \in {"permute", "rotate", "append", "attend", "gate"} =>
       F32(r.g) /\ r.g.dims = <<seq, NHead(il)>>
  /\ pc \in {"permute", "rotate"} => F32(r.q) /\ F32(r.k)
  /\ pc = "permute" => F32(r.v)
  /\ pc \in {"rotate", "append"} => r.v.cont /\ r.v.dt \in {"f32", "f16"}
  /\ pc \in {"append", "attend"} => r.q.cont /\ r.q.dt = QueryDt
  /\ pc = "attend" => r.k.dt = "f16" /\ r.v.dt = "f16"
  /\ pc = "gate" => r.attn.cont /\ r.attn.dt \in {"f32", "f16"}
  /\ pc = "output" => F32(r.attn) /\ r.attn.off = 0
  /\ pc = "activate" => F32(r.gate) /\ F32(r.up)
  /\ pc = "down" => F32(r.act)
  /\ pc = "combine" => /\ F32(r.down)
                       /\ r.l2 # NoL2 => /\ F32(r.l2[1])
                                         /\ r.l2[1].dims = <<seq, Config.n_expert_used, 1>>
  /\ pc \in {"gate_up", "activate", "down"} /\ UseMm => map0 = TheMap

(* What the theorem asks of the checkpoint and the forwards.               *)
Fits == CheckpointFits /\ \A c \in Cases : ForwardFits(c)

(* Off Metal the forward is to fail at the first kernel of laguna's own.   *)
OffMetal == ~case.metal /\ (~sw.ATTN_F32 \/ case.runner = "fused")

(* A kernel that exists in a library that is needed; a call that is not    *)
(* refused and asks only for those.                                        *)
Served(kernel) ==
  \/ OffMetal
  \/ /\ case.metal
     /\ \/ LibraryOf(kernel) = "candle"
        \/ LibraryOf(kernel) \in Needed /\ kernel \in Defined(LibraryOf(kernel))

Good(c) ==
  c.ok /\ \A l \in S!Range(c.launches) : l.lib = LibraryOf(l.kernel) /\ Served(l.kernel)

LEMMA SameNeeded ==
  ASSUME case' = case
  PROVE  /\ Needed' = Needed /\ seq' = seq /\ pos' = pos /\ sw' = sw
         /\ UseMm' = UseMm /\ QueryDt' = QueryDt /\ TheMap' = TheMap
<1>1. seq' = seq /\ pos' = pos /\ sw' = sw
  BY DEF seq, pos, sw
<1>2. MmVariant' = MmVariant
  BY <1>1, Zenon DEF MmVariant
<1>3. Needed' = Needed
  BY <1>1, <1>2, Zenon DEF Needed
<1>4. UseMm' = UseMm
  BY <1>1, <1>2, Zenon DEF UseMm, GateStack, UpStack, DownStack
<1>5. QueryDt' = QueryDt
  BY <1>1, Zenon DEF QueryDt, FusedGlue
<1>6. TheMap' = TheMap
  BY <1>1, Zenon DEF TheMap, Routing
<1> QED
  BY <1>1, <1>3, <1>4, <1>5, <1>6

(* A step whose calls are good compiles what is needed, and fails for one  *)
(* of the causes.                                                          *)
LEMMA DoGood ==
  ASSUME libs \subseteq Needed, case' = case,
         NEW calls, NEW regs, NEW next, next # "failed", Do(calls, regs, next),
         \A n \in DOMAIN calls : Good(calls[n])
  PROVE  FailsOnlyForCause'
<1> DEFINE Works(c) == c.ok /\ \A l \in S!Range(c.launches) : Found(l)
           failed == {n \in DOMAIN calls : ~Works(calls[n])}
           reached == {n \in DOMAIN calls : \A m \in failed : n <= m}
           looked == {n \in reached : calls[n].ok}
           asked == UNION {S!Range(calls[n].launches) : n \in looked}
<1>1. /\ libs' = libs \cup {l.lib : l \in {k \in asked : k.lib # "candle" /\ Compiles(k)}}
      /\ pc' = "failed" => failed # {}
  BY DEF Do
<1>2. ASSUME NEW n \in DOMAIN calls, NEW l \in S!Range(calls[n].launches)
      PROVE  \/ OffMetal
             \/ /\ case.metal
                /\ l.lib = "candle" \/ (l.lib \in Needed /\ l.kernel \in Defined(l.lib))
  <2>1. l.lib = LibraryOf(l.kernel) /\ Served(l.kernel)
    BY <1>2 DEF Good
  <2> QED
    BY <2>1, Zenon DEF Served
<1>3. libs' \subseteq Needed
  <2> SUFFICES ASSUME NEW lib \in libs', lib \notin libs PROVE lib \in Needed
    OBVIOUS
  <2>1. PICK l \in asked : l.lib # "candle" /\ Compiles(l) /\ lib = l.lib
    BY <1>1
  <2>2. PICK n \in DOMAIN calls : l \in S!Range(calls[n].launches)
    BY <2>1
  <2> QED
    BY <1>2, <2>1, <2>2 DEF Compiles, OffMetal
<1>4. ASSUME pc' = "failed"
      PROVE  \/ Needed \cap case.broken # {}
             \/ case.nofast /\ Needed # {}
             \/ OffMetal
  <2>1. PICK n \in DOMAIN calls : ~Works(calls[n])
    BY <1>1, <1>4
  <2>2. calls[n].ok
    BY DEF Good
  <2>3. PICK l \in S!Range(calls[n].launches) : ~Found(l)
    BY <2>1, <2>2
  <2>4. OffMetal \/ (case.metal /\ l.lib \in Needed /\ l.kernel \in Defined(l.lib) /\ ~Compiles(l))
    BY <1>2, <2>3, Zenon DEF Found
  <2>5. OffMetal \/ (l.lib \in Needed /\ (case.nofast \/ l.lib \in case.broken))
    BY <2>4, Zenon DEF Compiles, FastMath
  <2> QED
    BY <2>5
<1>5. Needed' = Needed /\ pos' = pos /\ seq' = seq /\ sw' = sw
  BY SameNeeded
<1> QED
  BY <1>3, <1>4, <1>5 DEF FailsOnlyForCause, OffMetal

LEMMA GoodAll ==
  ASSUME NEW a, Good(a)
  PROVE  /\ \A n \in DOMAIN <<a>> : Good(<<a>>[n])
         /\ \A b : Good(b) => \A n \in DOMAIN <<a, b>> : Good(<<a, b>>[n])
         /\ \A b, c : Good(b) /\ Good(c) => \A n \in DOMAIN <<a, b, c>> : Good(<<a, b, c>>[n])
         /\ \A b, c, d : Good(b) /\ Good(c) /\ Good(d) =>
              \A n \in DOMAIN <<a, b, c, d>> : Good(<<a, b, c, d>>[n])
<1>1. \A n \in DOMAIN <<a>> : Good(<<a>>[n])
  OBVIOUS
<1>2. ASSUME NEW b, Good(b), NEW n \in DOMAIN <<a, b>>
      PROVE  Good(<<a, b>>[n])
  <2>1. n = 1 \/ n = 2
    OBVIOUS
  <2> QED
    BY <1>2, <2>1
<1>3. ASSUME NEW b, NEW c, Good(b), Good(c), NEW n \in DOMAIN <<a, b, c>>
      PROVE  Good(<<a, b, c>>[n])
  <2>1. n = 1 \/ n = 2 \/ n = 3
    OBVIOUS
  <2> QED
    BY <1>3, <2>1
<1>4. ASSUME NEW b, NEW c, NEW d, Good(b), Good(c), Good(d), NEW n \in DOMAIN <<a, b, c, d>>
      PROVE  Good(<<a, b, c, d>>[n])
  <2>1. n = 1 \/ n = 2 \/ n = 3 \/ n = 4
    OBVIOUS
  <2> QED
    BY <1>4, <2>1
<1> QED
  BY <1>1, <1>2, <1>3, <1>4

(* A call with one launch, and one of candle's.                            *)
LEMMA OneGood ==
  ASSUME NEW call, NEW kernel, NEW grid, NEW tile, NEW extent,
         call.launches = <<Launch(kernel, grid, tile, extent)>>, call.ok, Served(kernel)
  PROVE  Good(call)
<1> DEFINE l == Launch(kernel, grid, tile, extent)
<1>1. l.kernel = kernel /\ l.lib = LibraryOf(kernel)
  BY DEF Launch
<1> HIDE DEF l
<1>2. S!Range(call.launches) = {l}
  BY DEF S!Range, l
<1> QED
  BY <1>1, <1>2 DEF Good

LEMMA NoneGood ==
  ASSUME NEW call, call.launches = <<>>, call.ok
  PROVE  Good(call)
  BY DEF Good, S!Range

LEMMA CandleGood ==
  ASSUME NEW out
  PROVE  Good(Candle(out))
  BY NoneGood DEF Candle, Call

LEMMA QLinearGood ==
  ASSUME NEW w, NEW x
  PROVE  Good(QLinear(w, x))
  BY CandleGood DEF QLinear, QMatMul

-----------------------------------------------------------------------------
(* The libraries a forward needs, kernel by kernel.                        *)
LEMMA NeededFor ==
  /\ case.metal /\ ~sw.ATTN_F32 /\ seq > 8 =>
       /\ sw.ATTN_MM_CLASSIC => "f16" \in Needed
       /\ ~sw.ATTN_MM_CLASSIC => "f16_t" \in Needed
  /\ case.metal /\ ~sw.ATTN_F32 /\ ~(seq > 8) /\ ~(case.ck.attn = "q8_0" /\ ~sw.ATTN_DEQUANT) =>
       "f16" \in Needed
  /\ case.metal /\ ~sw.ATTN_F32 /\ seq <= 8 /\ case.ck.attn = "q8_0" /\ ~sw.ATTN_DEQUANT =>
       "q8" \in Needed
  /\ FusedGlue => "attn_glue" \in Needed /\ "rope" \in Needed
  /\ TakesFlash => "flash" \in Needed
  /\ case.metal /\ ~sw.MV_CLASSIC => "mv" \in Needed
  /\ case.runner = "fused" =>
       /\ seq >= case.min_seq /\ ~sw.NO_MM_ID => "mm_id" \in Needed
       /\ MmVariant = "tensor_hp" /\ ~sw.NO_MM_ID => "mm_id_t_hp" \in Needed
       /\ ~sw.COMBINE_CLASSIC => "combine" \in Needed
       /\ ~sw.ACT_CLASSIC => "silu_mul" \in Needed
  BY DEF Needed, FusedGlue, TakesFlash

LEMMA GlueServed ==
  ASSUME FusedGlue
  PROVE  /\ Served(<<"permute_cast", "f32", "f32">>) /\ Served(<<"permute_cast", "f32", "f16">>)
         /\ Served(<<"permute_cast", "f16", "f32">>)
         /\ \A dt \in {"f32", "f16"} : Served(<<"attn_gate", dt>>) /\ Served(<<"rope", dt>>)
<1>1. case.metal /\ "attn_glue" \in Needed /\ "rope" \in Needed
  BY NeededFor DEF FusedGlue
<1>2. ASSUME NEW kernel, kernel \in Defined("attn_glue"), LibraryOf(kernel) = "attn_glue"
      PROVE  Served(kernel)
  BY <1>1, <1>2 DEF Served
<1>3. \A a, b : LibraryOf(<<"permute_cast", a, b>>) = "attn_glue"
  BY DEF LibraryOf
<1>4. \A dt : LibraryOf(<<"attn_gate", dt>>) = "attn_glue" /\ LibraryOf(<<"rope", dt>>) = "rope"
  BY DEF LibraryOf
<1>5. /\ <<"permute_cast", "f32", "f32">> \in Defined("attn_glue")
      /\ <<"permute_cast", "f32", "f16">> \in Defined("attn_glue")
      /\ <<"permute_cast", "f16", "f32">> \in Defined("attn_glue")
      /\ \A dt \in {"f32", "f16"} : <<"attn_gate", dt>> \in Defined("attn_glue")
  BY DEF Defined
<1>6. \A dt \in {"f32", "f16"} : <<"rope", dt>> \in Defined("rope")
  BY DEF Defined
<1>7. \A dt \in {"f32", "f16"} : Served(<<"rope", dt>>)
  BY <1>1, <1>4, <1>6 DEF Served
<1>8. \A dt \in {"f32", "f16"} : Served(<<"attn_gate", dt>>)
  BY <1>2, <1>4, <1>5
<1> QED
  BY <1>2, <1>3, <1>5, <1>7, <1>8

LEMMA ProjServed ==
  ASSUME Types, ~sw.ATTN_F32
  PROVE  /\ seq > 8 => Served(F16MmKernel(sw))
         /\ ~(seq > 8) /\ ~(case.ck.attn = "q8_0" /\ ~sw.ATTN_DEQUANT) => Served(<<"mul_mv_f16">>)
         /\ seq <= 8 /\ case.ck.attn = "q8_0" /\ ~sw.ATTN_DEQUANT => Served(<<"mul_mv_q8_0_attn">>)
<1>1. CASE ~case.metal
  BY <1>1 DEF Served, OffMetal
<1>2. CASE case.metal
  <2>1. /\ LibraryOf(<<"mul_mm_f16">>) = "f16" /\ LibraryOf(<<"mul_mv_f16">>) = "f16"
        /\ LibraryOf(<<"mul_mm_f16_t">>) = "f16_t" /\ LibraryOf(<<"mul_mv_q8_0_attn">>) = "q8"
    BY DEF LibraryOf
  <2>2. /\ <<"mul_mm_f16">> \in Defined("f16") /\ <<"mul_mv_f16">> \in Defined("f16")
        /\ <<"mul_mm_f16_t">> \in Defined("f16_t") /\ <<"mul_mv_q8_0_attn">> \in Defined("q8")
    BY DEF Defined
  <2>3. ("f16" \in Needed => Served(<<"mul_mm_f16">>) /\ Served(<<"mul_mv_f16">>))
        /\ ("f16_t" \in Needed => Served(<<"mul_mm_f16_t">>))
        /\ ("q8" \in Needed => Served(<<"mul_mv_q8_0_attn">>))
    BY <1>2, <2>1, <2>2 DEF Served
  <2> QED
    BY <1>2, <2>3, NeededFor DEF F16MmKernel
<1> QED
  BY <1>1, <1>2

LEMMA FlashServed == TakesFlash => Served(<<"flash">>)
<1>1. LibraryOf(<<"flash">>) = "flash" /\ <<"flash">> \in Defined("flash")
  BY DEF LibraryOf, Defined
<1> QED
  BY <1>1, NeededFor DEF Served, TakesFlash

LEMMA MvServed ==
  ASSUME ~sw.MV_CLASSIC, case.metal \/ case.runner = "fused", NEW dt \in MmDtypes
  PROVE  Served(<<"mul_mv_id_v", dt>>) /\ Served(<<"mul_mv_v", dt>>)
<1>1. LibraryOf(<<"mul_mv_id_v", dt>>) = "mv" /\ LibraryOf(<<"mul_mv_v", dt>>) = "mv"
  BY DEF LibraryOf
<1>2. <<"mul_mv_id_v", dt>> \in Defined("mv") /\ <<"mul_mv_v", dt>> \in Defined("mv")
  BY DEF Defined
<1>3. case.metal => "mv" \in Needed
  BY NeededFor
<1> QED
  BY <1>1, <1>2, <1>3 DEF Served, OffMetal

(* The grouped matmul is instantiated for every dtype and suffix.          *)
LEMMA Triple ==
  ASSUME NEW A, NEW B, NEW C, NEW a \in A, NEW b \in B, NEW c \in C
  PROVE  <<a, b, c>> \in A \X B \X C
  OBVIOUS

LEMMA GroupedKernels ==
  ASSUME NEW dt \in MmDtypes, NEW sfx \in {"", "_hp", "_t"}
  PROVE  <<"mul_mm_id", dt, sfx>> \in Defined("mm_id")
<1>1. Defined("mm_id") =
        {<<"map0", "">>} \cup ({"mul_mm_id"} \X MmDtypes \X {"", "_hp", "_t"})
  BY Zenon DEF Defined
<1>2. "mul_mm_id" \in {"mul_mm_id"}
  BY Zenon
<1>3. <<"mul_mm_id", dt, sfx>> \in {"mul_mm_id"} \X MmDtypes \X {"", "_hp", "_t"}
  BY <1>2, Triple, Zenon
<1> QED
  BY <1>1, <1>3, Zenon

(* The kernels of the fused experts, candle's own among them.              *)
LEMMA ExpertsServed ==
  ASSUME case.runner = "fused"
  PROVE  /\ \A dt : Served(<<"mul_mv_id", dt>>)
         /\ ~sw.COMBINE_CLASSIC => Served(<<"combine">>) /\ Served(<<"combine_rescale">>)
         /\ ~sw.ACT_CLASSIC => Served(<<"silu_mul">>)
         /\ UseMm => Served(<<"map0", "">>)
         /\ UseMm => \A dt : mm_kernel_instantiated(dt, MmVariant) =>
              Served(<<"mul_mm_id", dt, Suffix(MmVariant)>>)
<1>1. CASE ~case.metal
  BY <1>1 DEF Served, OffMetal
<1>2. CASE case.metal
  <2>1. ASSUME NEW kernel, LibraryOf(kernel) \in Needed, kernel \in Defined(LibraryOf(kernel))
        PROVE  Served(kernel)
    BY <1>2, <2>1 DEF Served
  <2>2. \A dt : Served(<<"mul_mv_id", dt>>)
    BY <1>2 DEF Served, LibraryOf
  <2>3. ~sw.COMBINE_CLASSIC => Served(<<"combine">>) /\ Served(<<"combine_rescale">>)
    <3>1. LibraryOf(<<"combine">>) = "combine" /\ LibraryOf(<<"combine_rescale">>) = "combine"
      BY DEF LibraryOf
    <3>2. <<"combine">> \in Defined("combine") /\ <<"combine_rescale">> \in Defined("combine")
      BY DEF Defined
    <3> QED
      BY <2>1, <3>1, <3>2, NeededFor
  <2>4. ~sw.ACT_CLASSIC => Served(<<"silu_mul">>)
    <3>1. LibraryOf(<<"silu_mul">>) = "silu_mul" /\ <<"silu_mul">> \in Defined("silu_mul")
      BY DEF LibraryOf, Defined
    <3> QED
      BY <2>1, <3>1, NeededFor
  <2>5. UseMm => "mm_id" \in Needed /\ (MmVariant = "tensor_hp" => "mm_id_t_hp" \in Needed)
    BY NeededFor DEF UseMm
  <2>6. UseMm => Served(<<"map0", "">>)
    <3>1. LibraryOf(<<"map0", "">>) = "mm_id" /\ <<"map0", "">> \in Defined("mm_id")
      BY DEF LibraryOf, Defined, MmLibrary
    <3> QED
      BY <2>1, <2>5, <3>1
  <2>7. ASSUME UseMm, NEW dt, mm_kernel_instantiated(dt, MmVariant)
        PROVE  Served(<<"mul_mm_id", dt, Suffix(MmVariant)>>)
    <3> DEFINE kernel == <<"mul_mm_id", dt, Suffix(MmVariant)>>
    <3>1. LibraryOf(kernel) = MmLibrary(Suffix(MmVariant))
      BY DEF LibraryOf
    <3>2. CASE MmVariant = "tensor_hp"
      <4>1. Suffix(MmVariant) = "_t_hp" /\ dt \in {"q4_K", "q6_K"}
        BY <2>7, <3>2 DEF Suffix, mm_kernel_instantiated
      <4>2. kernel \in Defined("mm_id_t_hp")
        BY <4>1 DEF Defined
      <4> QED
        BY <2>1, <2>5, <2>7, <3>1, <3>2, <4>1, <4>2 DEF MmLibrary
    <3>3. CASE MmVariant # "tensor_hp"
      <4>1. Suffix(MmVariant) \in {"", "_hp", "_t"} /\ dt \in MmDtypes
        <5>1. MmVariant \in {"classic_f16", "classic_hp", "tensor_hp", "tensor"}
          BY DEF MmVariant
        <5> QED
          BY <2>7, <3>3, <5>1 DEF Suffix, mm_kernel_instantiated
      <4>2. kernel \in Defined("mm_id")
        BY <4>1, GroupedKernels, Zenon
      <4>3. MmLibrary(Suffix(MmVariant)) = "mm_id"
        BY <4>1 DEF MmLibrary
      <4> QED
        BY <2>1, <2>5, <2>7, <3>1, <4>2, <4>3
    <3> QED
      BY <3>2, <3>3
  <2> QED
    BY <2>2, <2>3, <2>4, <2>6, <2>7
<1> QED
  BY <1>1, <1>2

-----------------------------------------------------------------------------
LEMMA ElemsOfTriple ==
  ASSUME NEW a \in Nat, NEW b \in Nat, NEW c \in Nat
  PROVE  Elems(<<a, b, c>>) = (a * b) * c
<1>1. <<a, b, c>> \in Seq(Nat) /\ Len(<<a, b, c>>) = 3
  OBVIOUS
<1>2. PICK p : /\ Elems(<<a, b, c>>) = p[3] /\ p[0] = 1
               /\ \A i \in 1 .. 3 : p[i] = p[i - 1] * <<a, b, c>>[i]
  BY <1>1, ElemsRecurs
<1>3. p[1] = p[0] * a /\ p[2] = p[1] * b /\ p[3] = p[2] * c
  BY <1>2
<1>4. p[1] = a
  BY <1>2, <1>3
<1>5. p[2] = a * b
  BY <1>3, <1>4
<1> QED
  BY <1>2, <1>3, <1>5

(* Every tensor that an i32 index walks is within its reach.               *)
LEMMA ChunkFits ==
  ASSUME Types, Fits
  PROVE  /\ Elems(<<seq, NHead(il), HeadDim>>) <= MaxI32
         /\ Elems(<<NHead(il), seq, HeadDim>>) <= MaxI32
         /\ Elems(<<seq, Config.n_kv_head, HeadDim>>) <= MaxI32
         /\ Elems(<<Config.n_kv_head, seq, HeadDim>>) <= MaxI32
         /\ Elems(<<seq, Config.n_expert_used, Config.expert_ff>>) <= MaxI32
         /\ (seq * Config.n_expert_used) * Config.hidden <= MaxI32
<1>1. /\ case \in Cases /\ il \in Layers /\ seq = case.seq
      /\ ForwardFits(case)
  BY DEF Types, Fits, seq
<1>2. /\ seq \in Nat /\ NHead(il) \in Nat /\ HeadDim \in Nat /\ Config.n_kv_head \in Nat
      /\ Config.n_expert_used \in Nat /\ Config.expert_ff \in Nat /\ Config.hidden \in Nat
  BY CaseFacts, ConfigAssumption
<1>3. /\ (seq * NHead(il)) * HeadDim <= MaxI32
      /\ (seq * Config.n_kv_head) * HeadDim <= MaxI32
      /\ (seq * Config.n_expert_used) * Config.hidden <= MaxI32
      /\ (seq * Config.n_expert_used) * Config.expert_ff <= MaxI32
  BY <1>1, Zenon DEF ForwardFits, HeadDim
<1>4. \A a, b \in Nat : a * b = b * a
  OBVIOUS
<1>5. NHead(il) * seq = seq * NHead(il) /\ Config.n_kv_head * seq = seq * Config.n_kv_head
  BY <1>2, <1>4, Zenon
<1>6. /\ Elems(<<seq, NHead(il), HeadDim>>) = (seq * NHead(il)) * HeadDim
      /\ Elems(<<NHead(il), seq, HeadDim>>) = (NHead(il) * seq) * HeadDim
      /\ Elems(<<seq, Config.n_kv_head, HeadDim>>) = (seq * Config.n_kv_head) * HeadDim
      /\ Elems(<<Config.n_kv_head, seq, HeadDim>>) = (Config.n_kv_head * seq) * HeadDim
      /\ Elems(<<seq, Config.n_expert_used, Config.expert_ff>>)
           = (seq * Config.n_expert_used) * Config.expert_ff
  BY <1>2, ElemsOfTriple, Zenon
<1> QED
  BY <1>3, <1>5, <1>6, Zenon

-----------------------------------------------------------------------------
(* Calls that are not refused, kernel by kernel.                           *)

LEMMA PermuteGood ==
  ASSUME FusedGlue, NEW x, NEW dims, Shape(x, dims), Len(dims) = 3, x.cont,
         Elems(dims) <= MaxI32, NEW dt,
         \/ x.dt = "f32" /\ dt \in {"f32", "f16"}
         \/ x.dt = "f16" /\ dt = "f32"
  PROVE  Good(run_permute_cast(x, dt))
<1> DEFINE call == run_permute_cast(x, dt)
           n == Elems(dims)
<1>1. x.dims = dims
  BY DEF Shape
<1>2. call.launches = <<Launch(<<"permute_cast", x.dt, dt>>, <<CeilDiv(n, 256), 1, 1>>,
                               <<256, 1, 1>>, <<n, 1, 1>>)>>
  BY <1>1, Zenon DEF run_permute_cast, Call, Linear
<1>3. call.ok = /\ Len(dims) = 3 /\ x.cont /\ n <= MaxI32
                /\ <<x.dt, dt>> \in {<<"f32", "f32">>, <<"f32", "f16">>, <<"f16", "f32">>}
  BY <1>1, Zenon DEF run_permute_cast, Call
<1>4. call.ok
  BY <1>3
<1>5. Served(<<"permute_cast", x.dt, dt>>)
  BY GlueServed
<1> HIDE DEF call
<1> QED
  BY <1>2, <1>4, <1>5, OneGood, Zenon DEF call

LEMMA CastToGood ==
  ASSUME FusedGlue, NEW x, NEW a \in Nat, NEW b \in Nat, NEW c \in Nat, Shape(x, <<a, b, c>>),
         x.cont, Elems(<<a, b, c>>) <= MaxI32, NEW dt,
         \/ x.dt = "f32" /\ dt \in {"f32", "f16"}
         \/ x.dt = "f16" /\ dt = "f32"
  PROVE  Good(cast_to(x, dt)) /\ cast_to(x, dt).out.dt = dt /\ cast_to(x, dt).out.cont
<1> DEFINE n == Elems(<<a, b, c>>)
           row == Reshape(x, <<1, 1, Elems(x.dims)>>)
           call == run_permute_cast(row, dt)
<1>1. x.dims = <<a, b, c>> /\ n \in Nat /\ 1 \in Nat
  BY ElemsOfThree, Zenon DEF Shape
<1>2. Shape(row, <<1, 1, n>>) /\ Len(<<1, 1, n>>) = 3 /\ row.dt = x.dt /\ row.cont = x.cont
      /\ row.val = x.val
  <2>1. Shape(row, <<1, 1, n>>)
    BY <1>1, ReshapeIs, Zenon
  <2> QED
    BY <2>1 DEF Reshape, Shape
<1>3. Elems(<<1, 1, n>>) = n
  <2>1. Elems(<<1, 1, n>>) = (1 * 1) * n
    BY <1>1, ElemsOfTriple, Zenon
  <2> QED
    BY <1>1, <2>1
<1> HIDE DEF row, n
<1>4. Elems(<<1, 1, n>>) <= MaxI32
  BY <1>3 DEF n
<1>5. Good(call)
  BY <1>2, <1>4, PermuteGood
<1>6. call.out = Tensor(dt, <<1, 1, n>>, Rounded(x, dt))
  BY <1>2 DEF run_permute_cast, Call, Shape, Rounded
<1>7. DOMAIN call = {"ok", "out", "launches"}
  BY DEF run_permute_cast, Call
<1> HIDE DEF call
<1>8. cast_to(x, dt) = [call EXCEPT !.out = Reshape(@, x.dims)]
  BY DEF cast_to, call, row
<1>9. /\ cast_to(x, dt).out = Reshape(call.out, <<a, b, c>>)
      /\ cast_to(x, dt).ok = call.ok /\ cast_to(x, dt).launches = call.launches
  BY <1>1, <1>7, <1>8
<1>10. Good(cast_to(x, dt))
  BY <1>5, <1>9 DEF Good
<1>11. (Reshape(call.out, <<a, b, c>>)).dt = dt /\ (Reshape(call.out, <<a, b, c>>)).cont
  BY <1>6 DEF Reshape, Tensor
<1> QED
  BY <1>9, <1>10, <1>11

LEMMA RopeGood ==
  ASSUME FusedGlue, NEW x, NEW n \in Nat, NEW s \in Nat, NEW d \in Nat, Shape(x, <<n, s, d>>),
         F32(x), Elems(<<n, s, d>>) <= MaxI32, NEW rows, NEW from, from + s <= rows,
         NEW nrot \in Nat, nrot > 0, nrot % 2 = 0, nrot <= d,
         NEW dt \in {"f32", "f16"}
  PROVE  Good(run_rope(x, rows, from, nrot, dt))
<1> DEFINE call == run_rope(x, rows, from, nrot, dt)
           m == Elems(<<n, s, d>>)
<1>1. x.dims = <<n, s, d>> /\ x.dims[2] = s /\ x.dims[3] = d
  BY DEF Shape
<1>2. call.launches = <<Launch(<<"rope", dt>>, <<CeilDiv(m, 256), 1, 1>>, <<256, 1, 1>>,
                               <<m, 1, 1>>)>>
  BY <1>1, Zenon DEF run_rope, Call, Linear
<1>3. call.ok
  BY <1>1 DEF run_rope, Call
<1>4. Served(<<"rope", dt>>)
  BY GlueServed
<1> HIDE DEF call, m
<1> QED
  BY <1>2, <1>3, <1>4, OneGood, Zenon DEF call

LEMMA AttnGateGood ==
  ASSUME FusedGlue, NEW x, NEW n \in Nat, NEW s \in Nat, NEW d \in Nat, Shape(x, <<n, s, d>>),
         x.cont, x.dt \in {"f32", "f16"}, Elems(<<n, s, d>>) <= MaxI32,
         NEW gate, F32(gate), gate.dims = <<s, n>>
  PROVE  Good(run_attn_gate(x, gate))
<1> DEFINE call == run_attn_gate(x, gate)
           m == Elems(<<n, s, d>>)
<1>1. x.dims = <<n, s, d>> /\ x.dims[1] = n /\ x.dims[2] = s
  BY DEF Shape
<1>2. call.launches = <<Launch(<<"attn_gate", x.dt>>, <<CeilDiv(m, 256), 1, 1>>, <<256, 1, 1>>,
                               <<m, 1, 1>>)>>
  BY <1>1, Zenon DEF run_attn_gate, Call, Linear
<1>3. call.ok
  BY <1>1 DEF run_attn_gate, Call
<1>4. Served(<<"attn_gate", x.dt>>)
  BY GlueServed
<1> HIDE DEF call, m
<1> QED
  BY <1>2, <1>3, <1>4, OneGood, Zenon DEF call

LEMMA SiluMulGood ==
  ASSUME case.runner = "fused", ~sw.ACT_CLASSIC, NEW dims, NEW x, NEW up,
         F32(x), F32(up), x.dims = dims, up.dims = dims, Elems(dims) <= MaxI32
  PROVE  Good(run_silu_mul(x, up))
<1> DEFINE call == run_silu_mul(x, up)
           m == Elems(dims)
<1>1. call.launches = <<Launch(<<"silu_mul">>, <<CeilDiv(m, 256), 1, 1>>, <<256, 1, 1>>,
                               <<m, 1, 1>>)>>
  BY Zenon DEF run_silu_mul, Call, Linear
<1>2. call.ok
  BY DEF run_silu_mul, Call
<1>3. Served(<<"silu_mul">>)
  BY ExpertsServed
<1> HIDE DEF call, m
<1> QED
  BY <1>1, <1>2, <1>3, OneGood, Zenon DEF call

(* The width of the slot reduction.                                        *)
LEMMA ReductionFits ==
  ASSUME NEW k \in Nat, k <= 65
  PROVE  NextPow2(k \div 2) <= 32
<1>1. PICK n \in 0 .. 32 : n = k \div 2
  OBVIOUS
<1> DEFINE P == {1, 2, 4, 8, 16, 32, 64}
           Is(p) == n <= p /\ (p = 1 \/ p \div 2 < n)
<1>2. \E p \in P : Is(p)
  <2>1. n <= 1 \/ n = 2 \/ (2 < n /\ n <= 4) \/ (4 < n /\ n <= 8) \/ (8 < n /\ n <= 16) \/ (16 < n)
    OBVIOUS
  <2>2. /\ n <= 1 => Is(1)
        /\ n = 2 => Is(2)
        /\ 2 < n /\ n <= 4 => Is(4)
        /\ 4 < n /\ n <= 8 => Is(8)
        /\ 8 < n /\ n <= 16 => Is(16)
        /\ 16 < n => Is(32)
    OBVIOUS
  <2> HIDE DEF Is
  <2> QED
    BY <2>1, <2>2
<1>3. NextPow2(n) = CHOOSE p \in P : Is(p)
  BY DEF NextPow2
<1>4. NextPow2(n) \in P /\ Is(NextPow2(n))
  <2> HIDE DEF P, Is
  <2> QED
    BY <1>2, <1>3, Zenon
<1>5. ~Is(64)
  OBVIOUS
<1>6. NextPow2(n) # 64
  BY <1>4, <1>5
<1> QED
  BY <1>1, <1>4, <1>6

LEMMA CombineGood ==
  ASSUME case.runner = "fused", ~sw.COMBINE_CLASSIC,
         NEW s \in Nat, NEW k \in Nat, NEW n \in Nat, k <= 65, (s * k) * n <= MaxI32,
         NEW x, F32(x), x.dims = <<s, k, n>>,
         NEW l2, l2 # NoL2 => F32(l2[1]) /\ l2[1].dims = <<s, k, 1>>,
         NEW weights, F32(weights), weights.dims = <<s, k>>
  PROVE  Good(run_combine(x, l2, weights))
<1> DEFINE kernel == IF l2 = NoL2 THEN <<"combine">> ELSE <<"combine_rescale">>
           call == run_combine(x, l2, weights)
<1>1. x.dims[1] = s /\ x.dims[2] = k /\ x.dims[3] = n
  OBVIOUS
<1>2. PICK g : g = s * n
  OBVIOUS
<1>3. call.launches = <<Launch(kernel, <<g, 1, 1>>, <<1, 1, 1>>, <<g, 1, 1>>)>>
  BY <1>1, <1>2 DEF run_combine, Call
<1>4. call.ok
  <2>1. NextPow2(k \div 2) <= 32
    BY ReductionFits
  <2> QED
    BY <1>1, <2>1 DEF run_combine, Call
<1>5. Served(kernel)
  BY ExpertsServed
<1> HIDE DEF call, kernel
<1> QED
  BY <1>3, <1>4, <1>5, OneGood, Zenon DEF call

LEMMA FlashGood ==
  ASSUME TakesFlash, NEW h \in Nat, NEW s \in Nat \ {0}, NEW n \in Nat \ {0}, NEW len \in Nat \ {0},
         h % n = 0, NEW q, F32(q), q.dims = <<h, s, 128>>,
         NEW k, k.dt = "f16", k.dims = <<n, len, 128>>,
         NEW v, v.dt = "f16", v.dims = <<n, len, 128>>,
         NEW from \in Nat, NEW koff \in Nat, koff <= from, from + s = koff + len,
         koff + len <= MaxI32, NEW window
  PROVE  Good(run_flash_attn(q, k, v, from, koff, window))
<1> DEFINE call == run_flash_attn(q, k, v, from, koff, window)
           c == [seq |-> s, kl |-> len, pos |-> from, koff |-> koff, window |-> window]
<1>1. /\ q.dims[1] = h /\ q.dims[2] = s /\ q.dims[3] = 128
      /\ k.dims[1] = n /\ k.dims[2] = len /\ k.dims[3] = 128 /\ Len(k.dims) = 3
      /\ v.dims[1] = n /\ v.dims[2] = len /\ v.dims[3] = 128 /\ Len(v.dims) = 3
  OBVIOUS
<1>2. call.launches = <<Launch(<<"flash">>, <<CeilDiv(s, 32), h, 1>>, <<32, 1, 1>>, <<s, h, 1>>)>>
  BY <1>1, Zenon DEF run_flash_attn, Call
<1>3. Flash!FlashAccepts(c)
  BY DEF Flash!FlashAccepts, Flash!MaxI32, MaxI32
<1> HIDE DEF c
<1>4. FlashKv(k) /\ FlashKv(v) /\ k.dims = v.dims
  BY <1>1 DEF FlashKv
<1>5. call.ok = /\ F32(q) /\ q.dims[3] = 128
                /\ FlashKv(k) /\ FlashKv(v) /\ k.dims = v.dims
                /\ n > 0 /\ h % n = 0
                /\ Flash!FlashAccepts(c)
  BY <1>1, Zenon DEF run_flash_attn, Call, c
<1>6. call.ok
  BY <1>1, <1>3, <1>4, <1>5
<1>7. Served(<<"flash">>)
  BY FlashServed
<1> HIDE DEF call
<1> QED
  BY <1>2, <1>6, <1>7, OneGood, Zenon DEF call

(* A projection of the attention, on each of its paths.                    *)
LEMMA ProjGood ==
  ASSUME Types, NEW w, NEW x, NEW k \in Nat, F32(x), x.dims = <<seq, k>>, x.off = 0,
         w.k = k, w.off = 0, w.n_out \in Nat, k % 32 = 0, w.n_out % 4 = 0
  PROVE  Good(Proj(w, x)) /\ F32(Proj(w, x).out) /\ Proj(w, x).out.dims = <<seq, w.n_out>>
<1>1. seq \in Nat /\ x.dims[1] = seq /\ x.dims[2] = k
  BY CaseFacts
<1>2. CASE sw.ATTN_F32
  <2>1. Proj(w, x) = QLinear(w, x)
    BY <1>2 DEF Proj, ProjKind
  <2>2. \E val : QLinear(w, x).out = Tensor("f32", <<seq, w.n_out>>, val)
    <3> DEFINE y == [Contiguous(x) EXCEPT !.off = 0]
    <3>1. y.dims[1] = seq
      BY <1>1 DEF F32, Contiguous
    <3> HIDE DEF y
    <3>2. QMatMul(w, y).out = Tensor("f32", <<seq, w.n_out>>,
            (IF y.off = 0 THEN y.val ELSE <<"wrong rows">>) \o <<w.name>>)
      BY <3>1, Zenon DEF QMatMul, Candle, Call
    <3> QED
      BY <3>2, Zenon DEF QLinear, y
  <2> QED
    BY <2>1, <2>2, QLinearGood DEF F32, Tensor
<1>3. CASE ~sw.ATTN_F32 /\ case.ck.attn = "q8_0" /\ seq <= 8 /\ ~sw.ATTN_DEQUANT
  <2> DEFINE call == run_matmul_q8(w, x)
  <2>1. Proj(w, x) = call
    BY <1>3 DEF Proj, ProjKind, Q8_DECODE_MAX_SEQ
  <2>2. call.launches = <<Launch(<<"mul_mv_q8_0_attn">>, <<CeilDiv(w.n_out, 2), x.dims[1], 1>>,
                                 <<2, 1, 1>>, <<w.n_out, x.dims[1], 1>>)>>
    BY DEF run_matmul_q8, Call
  <2>3. call.ok /\ call.out = Tensor("f32", <<seq, w.n_out>>, x.val \o <<w.name>>)
    BY <1>1 DEF run_matmul_q8, Call
  <2>4. Served(<<"mul_mv_q8_0_attn">>)
    BY <1>3, ProjServed
  <2> HIDE DEF call
  <2>5. Good(call)
    BY <2>2, <2>3, <2>4, OneGood, Zenon
  <2> QED
    BY <2>1, <2>3, <2>5 DEF F32, Tensor
<1>4. CASE ~sw.ATTN_F32 /\ ~(case.ck.attn = "q8_0" /\ seq <= 8 /\ ~sw.ATTN_DEQUANT)
  <2> DEFINE call == run_matmul_f16(sw, w, x)
             kernel == IF seq > 8 THEN F16MmKernel(sw) ELSE <<"mul_mv_f16">>
             staged == IF kernel = <<"mul_mm_f16_t">> THEN <<"f16">> ELSE <<>>
  <2>1. Proj(w, x) = call
    BY <1>4 DEF Proj, ProjKind, Q8_DECODE_MAX_SEQ
  <2>2. \E grid, tile, extent : call.launches = <<Launch(kernel, grid, tile, extent)>>
    <3>1. CASE seq > 8
      BY <1>1, <3>1, Zenon DEF run_matmul_f16, Call, F16_MM_MIN_SEQ
    <3>2. CASE ~(seq > 8)
      BY <1>1, <3>2, Zenon DEF run_matmul_f16, Call, F16_MM_MIN_SEQ
    <3> QED
      BY <3>1, <3>2
  <2>3. call.ok = /\ F32(x) /\ x.dims[2] = w.k
                  /\ w.k % 32 = 0 /\ w.n_out % 4 = 0
                  /\ w.off % 16 = 0 /\ x.off % 16 = 0
    BY Zenon DEF run_matmul_f16, Call
  <2>4. call.ok
    BY <1>1, <2>3
  <2>5. \E val : call.out = Tensor("f32", <<seq, w.n_out>>, val)
    BY <1>1, Zenon DEF run_matmul_f16, Call
  <2>6. Served(kernel)
    BY <1>1, <1>4, ProjServed
  <2> HIDE DEF call, kernel
  <2>7. Good(call)
    BY <2>2, <2>4, <2>6, OneGood, Zenon
  <2> QED
    BY <2>1, <2>5, <2>7 DEF F32, Tensor
<1> QED
  BY <1>2, <1>3, <1>4

(* The matmuls of the experts.                                             *)
LEMMA MatmulGood ==
  ASSUME Types, case.runner = "fused", NEW name, NEW dt, NEW m \in Nat, NEW d \in Nat,
         UseMm => map0 = TheMap /\ mm_kernel_instantiated(dt, MmVariant),
         NEW p \in {1, Config.n_expert_used}, NEW x, F32(x), x.dims = <<seq, p, d>>, d % QK(dt) = 0,
         dt \in MvDtypes
  PROVE  /\ Good(Matmul(Stack(name, dt, m, d), x))
         /\ F32(Matmul(Stack(name, dt, m, d), x).out)
<1> DEFINE stack == Stack(name, dt, m, d)
<1>1. /\ stack.n_out = m /\ stack.n_expert = Config.n_expert /\ stack.k = d /\ stack.dt = dt
      /\ stack.name = name
  BY DEF Stack
<1>2. /\ Ids.dims = <<seq, Config.n_expert_used>> /\ Ids.dims[1] = seq
      /\ Ids.dims[2] = Config.n_expert_used /\ Ids.dt = "u32" /\ Ids.cont
  BY DEF Ids, Tensor
<1>3. x.dims[1] = seq /\ x.dims[2] = p /\ x.dims[3] = d
  OBVIOUS
<1> HIDE DEF stack
<1>4. RunChecks(stack, x, Ids)
  BY <1>1, <1>2, <1>3 DEF RunChecks
<1>5. CASE UseMm
  <2> DEFINE call == mul_mm_id_shared(MmVariant, stack, x, Ids, map0)
             kernel == <<"mul_mm_id", stack.dt, Suffix(MmVariant)>>
             t == x.dims[1]
             staged == IF Suffix(MmVariant) \in {"_t", ""} THEN <<"f16">> ELSE <<>>
  <2>1. call.launches = <<Launch(kernel, <<CeilDiv(t, 32), CeilDiv(stack.n_out, 64), stack.n_expert>>,
                                 <<32, 64, 1>>, <<t, stack.n_out, stack.n_expert>>)>>
    BY Zenon DEF mul_mm_id_shared, MmLaunch, Call
  <2>2. call.out = RunOut(stack, x, Ids, staged)
    BY Zenon DEF mul_mm_id_shared, Call
  <2>3. call.ok = /\ RunChecks(stack, x, Ids)
                  /\ map0.n_expert = stack.n_expert /\ map0.t = x.dims[1]
                  /\ map0.top_k = Ids.dims[2]
    BY Zenon DEF mul_mm_id_shared, Call
  <2>4. /\ TheMap.n_expert = Config.n_expert /\ TheMap.t = Len(Routing)
        /\ TheMap.top_k = Config.n_expert_used
    BY DEF TheMap, Map!Map0
  <2>5. Len(Routing) = seq
    <3>1. seq \in Nat
      BY CaseFacts
    <3> QED
      BY <3>1 DEF Routing
  <2>6. call.ok
    BY <1>1, <1>2, <1>3, <1>4, <1>5, <2>3, <2>4, <2>5
  <2>7. Served(kernel)
    BY <1>1, <1>5, ExpertsServed, Zenon
  <2> HIDE DEF call, kernel, t, staged
  <2>8. Good(call)
    BY <2>1, <2>6, <2>7, OneGood, Zenon
  <2>9. F32(call.out)
    BY <2>2 DEF RunOut, F32, Tensor
  <2> QED
    BY <1>5, <2>8, <2>9, Zenon DEF Matmul, call, stack
<1>6. CASE ~UseMm
  <2> DEFINE call == mul_mv_id(sw, stack, x, Ids)
             own == ~sw.MV_CLASSIC /\ mv_vendored_supported(stack.dt)
             rows == IF own THEN MvVendoredRows(stack.dt) ELSE MvAlign(stack.dt)
             kernel == IF own THEN <<"mul_mv_id_v", stack.dt>> ELSE <<"mul_mv_id", stack.dt>>
             slots == Ids.dims[2] * x.dims[1]
  <2>1. call.launches = <<Launch(kernel, <<CeilDiv(stack.n_out, rows), 1, slots>>, <<rows, 1, 1>>,
                                 <<stack.n_out, 1, slots>>)>>
    BY Zenon DEF mul_mv_id, Call
  <2>2. /\ call.ok = (RunChecks(stack, x, Ids) /\ (own \/ stack.dt \in MvDtypes))
        /\ call.out = RunOut(stack, x, Ids, <<>>)
    BY Zenon DEF mul_mv_id, Call
  <2>3. Served(kernel)
    <3>1. own => Served(<<"mul_mv_id_v", stack.dt>>)
      BY MvServed DEF mv_vendored_supported
    <3>2. Served(<<"mul_mv_id", stack.dt>>)
      BY ExpertsServed, Zenon
    <3> QED
      BY <3>1, <3>2, Zenon
  <2> HIDE DEF call, kernel, slots, rows
  <2>4. Good(call)
    BY <1>1, <1>4, <2>1, <2>2, <2>3, OneGood, Zenon
  <2>5. F32(call.out)
    BY <2>2 DEF RunOut, F32, Tensor
  <2> QED
    BY <1>6, <2>4, <2>5, Zenon DEF Matmul, call, stack
<1> QED
  BY <1>5, <1>6

LEMMA Map0Good ==
  ASSUME case.runner = "fused", UseMm, Fits
  PROVE  Good(prepare_map0(Config.n_expert, Ids, Routing))
<1> DEFINE n == Config.n_expert
           call == prepare_map0(n, Ids, Routing)
<1>1. Ids.dims[2] = Config.n_expert_used /\ Ids.dt = "u32" /\ Ids.cont
  BY DEF Ids, Tensor
<1>2. call.launches = <<Launch(<<"map0", "">>, <<1, 1, 1>>, <<n, 1, 1>>, <<n, 1, 1>>)>>
  BY Zenon DEF prepare_map0, Call
<1>3. call.ok = (Ids.dt = "u32" /\ Ids.cont /\ Map0Fits(n, Ids.dims[2]))
  BY Zenon DEF prepare_map0, Call
<1>4. Map0Fits(n, Config.n_expert_used)
  <2>1. Config.n_expert_used \in Map0Sizes
    BY DEF UseMm, supported
  <2> QED
    BY <2>1 DEF Map0Fits, Fits, CheckpointFits
<1>5. Served(<<"map0", "">>)
  BY ExpertsServed, Zenon
<1> HIDE DEF call
<1> QED
  BY <1>1, <1>2, <1>3, <1>4, <1>5, OneGood, Zenon DEF call

LEMMA HeadGood ==
  ASSUME case.metal, ~sw.MV_CLASSIC, NEW w, w.dt \in MmDtypes, w.k % QK(w.dt) = 0,
         NEW x, F32(x), x.dims[2] = w.k
  PROVE  Good(mul_mv(w, x))
<1> DEFINE call == mul_mv(w, x)
           rows == MvVendoredRows(w.dt)
<1>1. call.launches = <<Launch(<<"mul_mv_v", w.dt>>, <<CeilDiv(w.n_out, rows), x.dims[1], 1>>,
                               <<rows, 1, 1>>, <<w.n_out, x.dims[1], 1>>)>>
  BY Zenon DEF mul_mv, Call
<1>2. call.ok
  BY DEF mul_mv, Call, mv_vendored_supported
<1>3. Served(<<"mul_mv_v", w.dt>>)
  BY MvServed
<1> HIDE DEF call, rows
<1> QED
  BY <1>1, <1>2, <1>3, OneGood, Zenon DEF call

-----------------------------------------------------------------------------
(* The calls of the attention glue, on either path.                        *)

LEMMA TransposeKeeps ==
  ASSUME NEW x, NEW dims, Shape(x, dims), x.cont
  PROVE  LET y == Contiguous(Transpose01(x)) IN y.dt = x.dt /\ y.cont /\ y.off = 0
<1> DEFINE y == Transpose01(x)
           d == <<x.dims[2], x.dims[1]>> \o SubSeq(x.dims, 3, Len(x.dims))
<1>1. DOMAIN x = {"dt", "dims", "cont", "off", "val"}
  BY DEF Shape
<1>2. y = [x EXCEPT !.dims = d, !.cont = FALSE]
  BY <1>1 DEF Transpose01
<1> HIDE DEF d
<1>3. y.cont = FALSE /\ y.dt = x.dt
  BY <1>1, <1>2
<1> HIDE DEF y
<1>4. Contiguous(y) = Tensor(y.dt, y.dims, y.val)
  BY <1>3 DEF Contiguous
<1> QED
  BY <1>3, <1>4 DEF Tensor, y

LEMMA HeadFirstGood ==
  ASSUME Types, NEW x, NEW n \in Nat, Shape(x, <<seq, n, HeadDim>>), F32(x),
         NEW dt \in {"f32", "f16"}, Elems(<<seq, n, HeadDim>>) <= MaxI32
  PROVE  /\ Good(HeadFirst(x, dt))
         /\ HeadFirst(x, dt).out.cont /\ HeadFirst(x, dt).out.dt \in {"f32", dt}
<1>1. x.dt = "f32" /\ x.cont
  BY DEF F32
<1>2. CASE seq = 1
  <2> DEFINE y == Reshape(x, <<x.dims[2], 1, HeadDim>>)
  <2>1. HeadFirst(x, dt) = Candle(y)
    BY <1>2 DEF HeadFirst
  <2>2. y.cont /\ y.dt = "f32"
    BY <1>1 DEF Reshape, Shape
  <2>3. Candle(y).out = y
    BY DEF Candle, Call
  <2> HIDE DEF y
  <2> QED
    BY <2>1, <2>2, <2>3, CandleGood
<1>3. CASE seq # 1 /\ FusedGlue
  <2>1. HeadFirst(x, dt) = run_permute_cast(x, dt)
    BY <1>3 DEF HeadFirst
  <2>2. Len(<<seq, n, HeadDim>>) = 3
    OBVIOUS
  <2>3. Good(run_permute_cast(x, dt))
    BY <1>1, <1>3, <2>2, PermuteGood
  <2>4. run_permute_cast(x, dt).out.dt = dt /\ run_permute_cast(x, dt).out.cont
    BY DEF run_permute_cast, Call, Tensor
  <2> QED
    BY <2>1, <2>3, <2>4
<1>4. CASE seq # 1 /\ ~FusedGlue
  <2> DEFINE y == Contiguous(Transpose01(x))
  <2>1. HeadFirst(x, dt) = Candle(y)
    BY <1>4 DEF HeadFirst
  <2>2. y.dt = "f32" /\ y.cont
    BY <1>1, TransposeKeeps
  <2>3. Candle(y).out = y
    BY DEF Candle, Call
  <2> HIDE DEF y
  <2> QED
    BY <2>1, <2>2, <2>3, CandleGood
<1> QED
  BY <1>2, <1>3, <1>4

(* The dtype a cast leaves, of a tensor that is whole.                     *)
LEMMA CastKeeps ==
  ASSUME NEW x, x.cont, NEW dt
  PROVE  ToDtype(x, dt).dt = dt /\ ToDtype(x, dt).cont
<1>1. CASE x.dt = dt
  BY <1>1 DEF ToDtype
<1>2. CASE x.dt # dt
  <2>1. ToDtype(x, dt) = Tensor(dt, x.dims, Rounded(x, dt))
    BY <1>2 DEF ToDtype
  <2> QED
    BY <2>1 DEF Tensor
<1> QED
  BY <1>1, <1>2

LEMMA RotateGood ==
  ASSUME Types, Fits, pos + seq <= Config.max_ctx, NEW x, NEW n \in Nat,
         Shape(x, <<n, seq, HeadDim>>), F32(x), NEW dt \in {"f32", "f16"},
         Elems(<<n, seq, HeadDim>>) <= MaxI32
  PROVE  /\ Good(RotateBy(x, dt))
         /\ RotateBy(x, dt).out.cont /\ RotateBy(x, dt).out.dt = dt
<1> DEFINE nrot == Config.n_rot[Kind(il)]
           fused == run_rope(x, Config.max_ctx, pos, nrot, dt)
<1>1. CASE FusedGlue
  <2>1. Kind(il) \in {"full", "swa"}
    BY DEF Kind
  <2>2. PICK m \in 1 .. 64 : nrot = 2 * m
    BY <2>1 DEF Fits, CheckpointFits
  <2>3. HeadDim = 128
    BY DEF HeadDim, Fits, CheckpointFits
  <2> HIDE DEF nrot
  <2>4. nrot \in Nat /\ nrot > 0 /\ nrot % 2 = 0 /\ nrot <= HeadDim
    BY <2>2, <2>3
  <2>5. seq \in Nat /\ HeadDim \in Nat
    BY CaseFacts
  <2>6. Good(fused)
    BY <1>1, <2>4, <2>5, RopeGood
  <2>7. fused.out.cont /\ fused.out.dt = dt
    BY DEF run_rope, Call, Tensor
  <2>8. RotateBy(x, dt) = fused
    <3>1. /\ RopeTable(Kind(il)).rows = Config.max_ctx
          /\ RopeTable(Kind(il)).n_rot = nrot
      BY DEF RopeTable, nrot
    <3> QED
      BY <1>1, <3>1, Zenon DEF RotateBy, F32, FusedGlue
  <2> QED
    BY <2>6, <2>7, <2>8
<1>2. CASE ~FusedGlue
  <2> DEFINE y == Op(x, "rope")
  <2>1. RotateBy(x, dt) = Candle(ToDtype(y, dt))
    BY <1>2, Zenon DEF RotateBy, FusedGlue
  <2>2. y.cont
    BY DEF Op, Tensor
  <2> HIDE DEF y
  <2>3. ToDtype(y, dt).dt = dt /\ ToDtype(y, dt).cont
    BY <2>2, CastKeeps
  <2>4. Candle(ToDtype(y, dt)).out = ToDtype(y, dt)
    BY DEF Candle, Call
  <2> QED
    BY <2>1, <2>3, <2>4, CandleGood
<1> QED
  BY <1>1, <1>2

LEMMA CastF16Good ==
  ASSUME NEW x, NEW a \in Nat, NEW b \in Nat, NEW c \in Nat, Shape(x, <<a, b, c>>),
         x.cont, x.dt \in {"f32", "f16"}, Elems(<<a, b, c>>) <= MaxI32
  PROVE  Good(CastF16(x)) /\ CastF16(x).out.dt = "f16"
<1>1. CASE x.dt = "f16"
  <2>1. CastF16(x) = Candle(x) /\ Candle(x).out = x
    BY <1>1 DEF CastF16, Candle, Call
  <2> QED
    BY <1>1, <2>1, CandleGood
<1>2. CASE x.dt # "f16" /\ FusedGlue
  <2>1. CastF16(x) = cast_to(x, "f16")
    BY <1>2 DEF CastF16
  <2> QED
    BY <1>2, <2>1, CastToGood
<1>3. CASE x.dt # "f16" /\ ~FusedGlue
  <2>1. CastF16(x) = Candle(ToDtype(x, "f16"))
    BY <1>3 DEF CastF16
  <2>2. Candle(ToDtype(x, "f16")).out = ToDtype(x, "f16")
    BY DEF Candle, Call
  <2> QED
    BY <2>1, <2>2, CastKeeps, CandleGood
<1> QED
  BY <1>1, <1>2, <1>3

(* The hoisted mask of a kind suits every layer of that kind.              *)
LEMMA MaskFits ==
  ASSUME Types, Masked, pc = "attend", Fits, masks[Kind(il)] # NoMask
  PROVE  /\ masks[Kind(il)].seq = seq /\ masks[Kind(il)].n_head = NHead(il)
         /\ masks[Kind(il)].k = Len(ViewPositions)
<1> DEFINE of == {i \in Layers : Kind(i) = Kind(il)}
           one == CHOOSE i \in of : \A j \in of : i <= j
<1>1. Kind(il) \in {"full", "swa"} /\ masks = HoistedMasks /\ il \in Layers
  BY DEF Kind, Masked, Types
<1>2. seq > 1 /\ masks[Kind(il)] = PrefillMask(one)
  <2> HIDE DEF one
  <2>1. HoistedMasks[Kind(il)] = IF seq > 1 /\ ~(case.metal /\ ~sw.FLASH_CLASSIC) /\ of # {}
                                 THEN PrefillMask(one) ELSE NoMask
    BY <1>1, Zenon DEF HoistedMasks, one
  <2> QED
    BY <1>1, <2>1
<1>3. one \in of
  <2>1. of \in SUBSET Nat /\ il \in of
    <3>1. Layers \in SUBSET Nat
      BY ConfigAssumption DEF Layers
    <3> QED
      BY <1>1, <3>1
  <2> HIDE DEF of
  <2>2. PICK x \in of : \A y \in of : ~(y < x)
    BY <2>1, LeastOf, Zenon
  <2>3. \A y \in of : x <= y
    BY <2>1, <2>2
  <2> QED
    BY <2>3
<1> HIDE DEF one
<1>4. one \in Layers /\ Kind(one) = Kind(il)
  BY <1>3
<1>5. NHead(one) = NHead(il)
  BY <1>1, <1>4 DEF Fits, CheckpointFits
<1>6. IsFullAttn(one) = IsFullAttn(il) /\ Window(one) = Window(il)
  <2>1. IsFullAttn(one) <=> IsFullAttn(il)
    BY <1>4 DEF Kind
  <2> QED
    BY <2>1 DEF Window, IsFullAttn
<1>7. Len(ViewPositions) = IF IsFullAttn(il) THEN pos + seq
                           ELSE Ring!Smaller(pos, Window(il)) + seq
  <2>1. Base \in 0 .. pos /\ Len(ViewPositions) = (pos - Base) + seq
    BY <1>2, ViewInOrder
  <2>2. seq \in Nat /\ pos \in Nat
    BY CaseFacts
  <2>3. CASE IsFullAttn(il)
    BY <2>1, <2>2, <2>3 DEF Base
  <2>4. CASE ~IsFullAttn(il)
    <3>1. PICK m : m = Ring!Smaller(pos, Window(il))
      OBVIOUS
    <3>2. Base = pos - m
      BY <2>4, <3>1 DEF Base
    <3>3. m \in Nat
      <4>1. Config.sliding_window \in Nat
        BY CaseFacts
      <4> QED
        BY <2>2, <2>4, <3>1, <4>1 DEF Window, Ring!Smaller
    <3> QED
      BY <2>1, <2>2, <2>4, <3>1, <3>2, <3>3
  <2> QED
    BY <2>3, <2>4
<1> QED
  BY <1>2, <1>5, <1>6, <1>7 DEF PrefillMask

(* The softmax takes what the cache holds and the mask of its layer.       *)
LEMMA SoftmaxGood ==
  ASSUME Types, Masked, pc = "attend", Fits, NEW q, NEW k, NEW v, NEW dt,
         Shape(q, <<NHead(il), seq, HeadDim>>),
         Shape(k, <<Config.n_kv_head, Len(ViewPositions), HeadDim>>),
         q.dt = k.dt, k.dt = v.dt
  PROVE  /\ Good(Softmax(q, k, v, dt))
         /\ Softmax(q, k, v, dt).out.dt = dt /\ Softmax(q, k, v, dt).out.cont
<1> DEFINE mask == masks[Kind(il)]
           call == Softmax(q, k, v, dt)
<1>1. q.dims[1] = NHead(il) /\ k.dims[2] = Len(ViewPositions)
  BY DEF Shape
<1>2. mask # NoMask => mask.seq = seq /\ mask.n_head = NHead(il) /\ mask.k = Len(ViewPositions)
  BY MaskFits
<1> HIDE DEF mask
<1>3. call.ok = /\ q.dt = k.dt /\ k.dt = v.dt
                /\ mask # NoMask => /\ mask.seq = seq /\ mask.k = k.dims[2]
                                    /\ case.metal => mask.n_head = q.dims[1]
  BY Zenon DEF Softmax, Call, mask
<1>4. call.ok
  BY <1>1, <1>2, <1>3
<1>5. call.launches = <<>>
  BY DEF Softmax, Call
<1>6. call.out.dt = dt /\ call.out.cont
  BY DEF Softmax, Call, Tensor
<1> HIDE DEF call
<1> QED
  BY <1>4, <1>5, <1>6, NoneGood DEF call

LEMMA ContextFits ==
  ASSUME Types, Fits
  PROVE  Config.max_ctx \in Nat /\ Config.max_ctx <= MaxI32
<1>1. Config.max_ctx \in 0 .. MaxI32
  BY Zenon DEF Types, Fits, ForwardFits
<1> QED
  BY <1>1

-----------------------------------------------------------------------------
(* A step of a forward that fits fails only for cause, and leaves what the *)
(* next step takes.                                                        *)
Ready ==
  Fits /\ Types /\ Blocks /\ Staged /\ Masked /\ Fit /\ libs \subseteq Needed

LEMMA FitFail == pc' = "failed" => Fit'
  BY DEF Fit

LEMMA CauseBegin ==
  ASSUME Ready, Begin
  PROVE  FailsOnlyForCause' /\ Fit'
<1>1. case' = case /\ libs \subseteq Needed
  BY DEF Begin, Ready
<1>2. Needed' = Needed /\ seq' = seq /\ pos' = pos /\ sw' = sw /\ UseMm' = UseMm
  BY <1>1, SameNeeded
<1>3. CASE pos + seq <= Config.max_ctx
  <2> DEFINE regs == [r EXCEPT !.x = Hidden]
  <2>1. Do(<<>>, regs, "project")
    BY <1>3 DEF Begin
  <2> HIDE DEF regs
  <2>2. "project" # "failed" /\ \A n \in DOMAIN <<>> : Good(<<>>[n])
    OBVIOUS
  <2>3. FailsOnlyForCause'
    BY <1>1, <2>1, <2>2, DoGood, Zenon
  <2>4. Fit'
    <3>1. CASE pc' = "failed"
      BY <3>1, FitFail
    <3>2. CASE pc' = "project"
      BY <1>2, <1>3, <3>2 DEF Fit
    <3> QED
      BY <2>1, <3>1, <3>2, DoLeads, Zenon
  <2> QED
    BY <2>3, <2>4
<1>4. CASE ~(pos + seq <= Config.max_ctx)
  <2> DEFINE refused == Call(FALSE, NoTensor, <<>>)
  <2>1. Do(<<refused>>, r, "project")
    BY <1>4 DEF Begin
  <2>2. ~refused.ok /\ S!Range(refused.launches) = {}
    BY DEF Call, S!Range
  <2> HIDE DEF refused
  <2>3. pc' = "failed"
    <3>1. pc' # "failed" => \A n \in DOMAIN <<refused>> : <<refused>>[n].ok
      BY <2>1, DoOk, Zenon
    <3> QED
      BY <2>2, <3>1
  <2>4. libs' = libs
    BY <2>1, <2>2 DEF Do
  <2>5. pos \in Nat /\ seq \in Nat /\ Config.max_ctx \in Nat
    <3>1. Types /\ Fits
      BY DEF Ready
    <3> QED
      BY <3>1, CaseFacts, ContextFits
  <2>6. pos + seq > Config.max_ctx
    BY <1>4, <2>5
  <2> QED
    BY <1>1, <1>2, <2>3, <2>4, <2>6, FitFail DEF FailsOnlyForCause
<1> QED
  BY <1>3, <1>4

LEMMA CauseProject ==
  ASSUME Ready, Project
  PROVE  FailsOnlyForCause' /\ Fit'
<1> DEFINE g == Proj(Weight("g", NHead(il), Config.hidden), r.x)
           q == Proj(Weight("q", NHead(il) * HeadDim, Config.hidden), r.x)
           k == Proj(Weight("k", Config.n_kv_head * HeadDim, Config.hidden), r.x)
           v == Proj(Weight("v", Config.n_kv_head * HeadDim, Config.hidden), r.x)
           regs == [r EXCEPT !.g = g.out, !.q = Heads(q, NHead(il), "q_norm"),
                             !.k = Heads(k, Config.n_kv_head, "k_norm"),
                             !.v = Heads(v, Config.n_kv_head, "")]
<1>1. Do(<<g, q, k, v>>, regs, "permute") /\ case' = case /\ il' = il /\ pc = "project"
  BY Zenon DEF Project
<1>2. /\ Types /\ DOMAIN r = BlockFields /\ r.x = Hidden /\ libs \subseteq Needed
      /\ pos + seq <= Config.max_ctx
  BY <1>1 DEF Ready, Blocks, Fit
<1>3. ASSUME NEW name, NEW m \in Nat, m % 4 = 0
      PROVE  LET c == Proj(Weight(name, m, Config.hidden), r.x)
             IN  Good(c) /\ F32(c.out) /\ c.out.dims = <<seq, m>>
  <2> DEFINE w == Weight(name, m, Config.hidden)
  <2>1. w.n_out = m /\ w.k = Config.hidden /\ w.off = 0
    BY DEF Weight
  <2>2. F32(r.x) /\ r.x.dims = <<seq, Config.hidden>> /\ r.x.off = 0
    BY <1>2 DEF Hidden, Tensor, F32
  <2>3. Config.hidden \in Nat /\ Config.hidden % 32 = 0
    <3>1. Config.hidden \in Nat
      BY ConfigAssumption
    <3> QED
      BY <3>1 DEF Ready, Fits, CheckpointFits
  <2> HIDE DEF w
  <2> QED
    BY <1>2, <1>3, <2>1, <2>2, <2>3, ProjGood DEF w
<1>4. /\ NHead(il) \in Nat /\ NHead(il) * HeadDim \in Nat /\ Config.n_kv_head * HeadDim \in Nat
      /\ NHead(il) % 4 = 0 /\ (NHead(il) * HeadDim) % 4 = 0
      /\ (Config.n_kv_head * HeadDim) % 4 = 0
  <2>1. NHead(il) \in Nat /\ Config.n_kv_head \in Nat
    BY <1>2, CaseFacts, ConfigAssumption
  <2>2. NHead(il) % 4 = 0 /\ HeadDim = 128
    BY <1>2 DEF Ready, Fits, CheckpointFits, HeadDim, Types
  <2>3. \A n \in Nat : n * 128 \in Nat /\ (n * 128) % 4 = 0
    OBVIOUS
  <2> QED
    BY <2>1, <2>2, <2>3
<1>5. /\ Good(g) /\ F32(g.out) /\ g.out.dims = <<seq, NHead(il)>>
      /\ Good(q) /\ F32(q.out) /\ Good(k) /\ F32(k.out) /\ Good(v) /\ F32(v.out)
  BY <1>3, <1>4, Zenon
<1>6. \E old : Shape(v.out, old)
  <2>1. Weight("v", Config.n_kv_head * HeadDim, Config.hidden).n_out = Config.n_kv_head * HeadDim
    BY DEF Weight
  <2>2. Shape(r.x, <<seq, Config.hidden>>)
    BY <1>2, TensorIs, Zenon DEF Hidden
  <2> QED
    BY <1>2, <1>4, <2>1, <2>2, ProjFine, Zenon DEF Fine
<1> HIDE DEF g, q, k, v
<1>7. FailsOnlyForCause'
  <2>1. \A n \in DOMAIN <<g, q, k, v>> : Good(<<g, q, k, v>>[n])
    BY <1>5, GoodAll, Zenon
  <2>2. "permute" # "failed"
    OBVIOUS
  <2> HIDE DEF regs
  <2> QED
    BY <1>1, <1>2, <2>1, <2>2, DoGood, Zenon
<1>8. Fit'
  <2>1. CASE pc' = "failed"
    BY <2>1, FitFail
  <2>2. CASE pc' = "permute" /\ r' = regs
    <3>1. /\ r'.g = g.out /\ r'.q = Heads(q, NHead(il), "q_norm")
          /\ r'.k = Heads(k, Config.n_kv_head, "k_norm")
          /\ r'.v = Heads(v, Config.n_kv_head, "")
      BY <1>2, <2>2 DEF BlockFields
    <3>2. F32(Heads(q, NHead(il), "q_norm")) /\ F32(Heads(k, Config.n_kv_head, "k_norm"))
      <4>1. \A x, name : F32(Op(x, name))
        BY DEF Op, Tensor, F32
      <4>2. \A c, n : Heads(c, n, "q_norm") = Op(Reshape(c.out, <<seq, n, HeadDim>>), "q_norm")
                   /\ Heads(c, n, "k_norm") = Op(Reshape(c.out, <<seq, n, HeadDim>>), "k_norm")
        BY DEF Heads
      <4> QED
        BY <4>1, <4>2, Zenon
    <3>3. F32(Heads(v, Config.n_kv_head, ""))
      <4>1. Heads(v, Config.n_kv_head, "") = Reshape(v.out, <<seq, Config.n_kv_head, HeadDim>>)
        BY Zenon DEF Heads
      <4>2. \A x, dims : (F32(x) /\ \E old : Shape(x, old)) => F32(Reshape(x, dims))
        BY DEF F32, Reshape, Shape
      <4> QED
        BY <1>5, <1>6, <4>1, <4>2, Zenon
    <3>4. seq' = seq /\ NHead(il)' = NHead(il) /\ pos' = pos
      BY <1>1, SameTerms
    <3>5. pos' + seq' <= Config.max_ctx
      BY <1>2, <3>4
    <3>6. F32(r'.g) /\ r'.g.dims = <<seq', NHead(il)'>> /\ F32(r'.q) /\ F32(r'.k) /\ F32(r'.v)
      BY <1>5, <3>1, <3>2, <3>3, <3>4, Zenon
    <3> QED
      BY <2>2, <3>5, <3>6 DEF Fit
  <2> HIDE DEF regs
  <2> QED
    BY <1>1, <2>1, <2>2, DoLeads, Zenon
<1> QED
  BY <1>7, <1>8

LEMMA CausePermute ==
  ASSUME Ready, Permute
  PROVE  FailsOnlyForCause' /\ Fit'
<1> DEFINE q == HeadFirst(r.q, "f32")
           k == HeadFirst(r.k, "f32")
           v == HeadFirst(r.v, "f16")
           regs == [r EXCEPT !.q = q.out, !.k = k.out, !.v = v.out]
<1>1. Do(<<q, k, v>>, regs, "rotate") /\ case' = case /\ il' = il /\ pc = "permute"
  BY Zenon DEF Permute
<1>2. /\ Types /\ Fits /\ DOMAIN r = BlockFields /\ libs \subseteq Needed
      /\ Shape(r.q, <<seq, NHead(il), HeadDim>>)
      /\ Shape(r.k, <<seq, Config.n_kv_head, HeadDim>>)
      /\ Shape(r.v, <<seq, Config.n_kv_head, HeadDim>>)
      /\ pos + seq <= Config.max_ctx
      /\ F32(r.g) /\ r.g.dims = <<seq, NHead(il)>> /\ F32(r.q) /\ F32(r.k) /\ F32(r.v)
  BY <1>1 DEF Ready, Blocks, Fit
<1>3. NHead(il) \in Nat /\ Config.n_kv_head \in Nat
  BY <1>2, CaseFacts, ConfigAssumption
<1>4. /\ Elems(<<seq, NHead(il), HeadDim>>) <= MaxI32
      /\ Elems(<<seq, Config.n_kv_head, HeadDim>>) <= MaxI32
  BY <1>2, ChunkFits, Zenon
<1>5. "f32" \in {"f32", "f16"} /\ "f16" \in {"f32", "f16"}
  OBVIOUS
<1>6. /\ Good(q) /\ q.out.cont /\ q.out.dt \in {"f32", "f32"}
      /\ Good(k) /\ k.out.cont /\ k.out.dt \in {"f32", "f32"}
      /\ Good(v) /\ v.out.cont /\ v.out.dt \in {"f32", "f16"}
  BY <1>2, <1>3, <1>4, <1>5, HeadFirstGood, Zenon
<1> HIDE DEF q, k, v
<1>7. FailsOnlyForCause'
  <2>1. \A n \in DOMAIN <<q, k, v>> : Good(<<q, k, v>>[n])
    BY <1>6, GoodAll, Zenon
  <2>2. "rotate" # "failed"
    OBVIOUS
  <2> HIDE DEF regs
  <2> QED
    BY <1>1, <1>2, <2>1, <2>2, DoGood, Zenon
<1>8. Fit'
  <2>1. CASE pc' = "failed"
    BY <2>1, FitFail
  <2>2. CASE pc' = "rotate" /\ r' = regs
    <3>1. r'.g = r.g /\ r'.q = q.out /\ r'.k = k.out /\ r'.v = v.out
      BY <1>2, <2>2 DEF BlockFields
    <3>2. seq' = seq /\ NHead(il)' = NHead(il) /\ pos' = pos
      BY <1>1, SameTerms
    <3>3. pos' + seq' <= Config.max_ctx /\ F32(r'.g) /\ r'.g.dims = <<seq', NHead(il)'>>
      BY <1>2, <3>1, <3>2
    <3>4. F32(r'.q) /\ F32(r'.k) /\ r'.v.cont /\ r'.v.dt \in {"f32", "f16"}
      BY <1>6, <3>1 DEF F32
    <3> QED
      BY <2>2, <3>3, <3>4 DEF Fit
  <2> HIDE DEF regs
  <2> QED
    BY <1>1, <2>1, <2>2, DoLeads, Zenon
<1> QED
  BY <1>7, <1>8

LEMMA CauseRotate ==
  ASSUME Ready, Rotate
  PROVE  FailsOnlyForCause' /\ Fit'
<1> DEFINE kdt == IF FusedGlue THEN "f16" ELSE "f32"
           q == RotateBy(r.q, IF FusedGlue /\ seq = 1 /\ ~sw.SDPA_F32 THEN "f16" ELSE "f32")
           k == RotateBy(r.k, IF FusedGlue THEN "f16" ELSE "f32")
           regs == [r EXCEPT !.q = q.out, !.k = k.out]
<1>1. Do(<<q, k>>, regs, "append") /\ case' = case /\ il' = il /\ pc = "rotate"
  BY Zenon DEF Rotate
<1>2. /\ Types /\ Fits /\ DOMAIN r = BlockFields /\ libs \subseteq Needed
      /\ Shape(r.q, <<NHead(il), seq, HeadDim>>)
      /\ Shape(r.k, <<Config.n_kv_head, seq, HeadDim>>)
      /\ pos + seq <= Config.max_ctx
      /\ F32(r.g) /\ r.g.dims = <<seq, NHead(il)>> /\ F32(r.q) /\ F32(r.k)
      /\ r.v.cont /\ r.v.dt \in {"f32", "f16"}
  BY <1>1 DEF Ready, Blocks, Fit
<1>3. NHead(il) \in Nat /\ Config.n_kv_head \in Nat
  BY <1>2, CaseFacts, ConfigAssumption
<1>4. /\ Elems(<<NHead(il), seq, HeadDim>>) <= MaxI32
      /\ Elems(<<Config.n_kv_head, seq, HeadDim>>) <= MaxI32
  BY <1>2, ChunkFits, Zenon
<1>5. /\ q = RotateBy(r.q, QueryDt) /\ QueryDt \in {"f32", "f16"}
      /\ k = RotateBy(r.k, kdt) /\ kdt \in {"f32", "f16"}
  BY DEF QueryDt
<1> HIDE DEF q, k, kdt
<1>6. Good(q) /\ q.out.cont /\ q.out.dt = QueryDt /\ Good(k)
  <2>1. ASSUME NEW x, NEW n \in Nat, Shape(x, <<n, seq, HeadDim>>), F32(x), NEW dt \in {"f32", "f16"},
               Elems(<<n, seq, HeadDim>>) <= MaxI32
        PROVE  /\ Good(RotateBy(x, dt))
               /\ RotateBy(x, dt).out.cont /\ RotateBy(x, dt).out.dt = dt
    BY <1>2, <2>1, RotateGood, Zenon
  <2> QED
    BY <1>2, <1>3, <1>4, <1>5, <2>1, Zenon
<1>7. FailsOnlyForCause'
  <2>1. \A n \in DOMAIN <<q, k>> : Good(<<q, k>>[n])
    BY <1>6, GoodAll, Zenon
  <2>2. "append" # "failed"
    OBVIOUS
  <2> HIDE DEF regs
  <2> QED
    BY <1>1, <1>2, <2>1, <2>2, DoGood, Zenon
<1>8. Fit'
  <2>1. CASE pc' = "failed"
    BY <2>1, FitFail
  <2>2. CASE pc' = "append" /\ r' = regs
    <3>1. r'.g = r.g /\ r'.q = q.out /\ r'.v = r.v
      BY <1>2, <2>2 DEF BlockFields
    <3>2. seq' = seq /\ NHead(il)' = NHead(il) /\ pos' = pos /\ QueryDt' = QueryDt
      BY <1>1, SameTerms, SameNeeded
    <3>3. pos' + seq' <= Config.max_ctx /\ F32(r'.g) /\ r'.g.dims = <<seq', NHead(il)'>>
      BY <1>2, <3>1, <3>2
    <3>4. r'.q.cont /\ r'.q.dt = QueryDt' /\ r'.v.cont /\ r'.v.dt \in {"f32", "f16"}
      BY <1>2, <1>6, <3>1, <3>2
    <3> QED
      BY <2>2, <3>3, <3>4 DEF Fit
  <2> HIDE DEF regs
  <2> QED
    BY <1>1, <2>1, <2>2, DoLeads, Zenon
<1> QED
  BY <1>7, <1>8

LEMMA CauseAppend ==
  ASSUME Ready, CacheAppend
  PROVE  FailsOnlyForCause' /\ Fit'
<1> DEFINE k == Candle(ToDtype(r.k, "f16"))
           v == CastF16(r.v)
           View(x) == [Reshape(x, <<Config.n_kv_head, Len(ViewPositions), HeadDim>>)
                         EXCEPT !.cont = FALSE]
           regs == [r EXCEPT !.k = View(k.out), !.v = View(v.out)]
<1>1. Do(<<k, v>>, regs, "attend") /\ case' = case /\ il' = il /\ pc = "append"
  BY Zenon DEF CacheAppend
<1>2. /\ Types /\ Fits /\ DOMAIN r = BlockFields /\ libs \subseteq Needed
      /\ Shape(r.k, <<Config.n_kv_head, seq, HeadDim>>)
      /\ Shape(r.v, <<Config.n_kv_head, seq, HeadDim>>)
      /\ pos + seq <= Config.max_ctx
      /\ F32(r.g) /\ r.g.dims = <<seq, NHead(il)>>
      /\ r.v.cont /\ r.v.dt \in {"f32", "f16"} /\ r.q.cont /\ r.q.dt = QueryDt
  BY <1>1 DEF Ready, Blocks, Fit
<1>3. Config.n_kv_head \in Nat /\ seq \in Nat /\ HeadDim \in Nat
  BY <1>2, CaseFacts, ConfigAssumption
<1>4. Elems(<<Config.n_kv_head, seq, HeadDim>>) <= MaxI32
  BY <1>2, ChunkFits, Zenon
<1>5. Good(k) /\ k.out.dt = "f16" /\ Good(v) /\ v.out.dt = "f16"
  <2>1. Good(v) /\ v.out.dt = "f16"
    BY <1>2, <1>3, <1>4, CastF16Good, Zenon
  <2>2. k.out.dt = "f16"
    BY DEF Candle, Call, ToDtype, Tensor
  <2> QED
    BY <2>1, <2>2, CandleGood, Zenon
<1>6. (\E old : Shape(k.out, old)) /\ \E old : Shape(v.out, old)
  <2>1. Shape(ToDtype(r.k, "f16"), <<Config.n_kv_head, seq, HeadDim>>)
    BY <1>2, CastIs, Zenon
  <2>2. Shape(v.out, <<Config.n_kv_head, seq, HeadDim>>)
    BY <1>2, <1>3, CastF16Fine, Zenon DEF Fine
  <2> QED
    BY <2>1, <2>2, CandleIs
<1>7. \A x : (\E old : Shape(x, old)) => View(x).dt = x.dt
  BY DEF Shape, Reshape
<1> HIDE DEF k, v, View
<1>8. FailsOnlyForCause'
  <2>1. \A n \in DOMAIN <<k, v>> : Good(<<k, v>>[n])
    BY <1>5, GoodAll, Zenon
  <2>2. "attend" # "failed"
    OBVIOUS
  <2> HIDE DEF regs
  <2> QED
    BY <1>1, <1>2, <2>1, <2>2, DoGood, Zenon
<1>9. Fit'
  <2>1. CASE pc' = "failed"
    BY <2>1, FitFail
  <2>2. CASE pc' = "attend" /\ r' = regs
    <3>1. r'.g = r.g /\ r'.q = r.q /\ r'.k = View(k.out) /\ r'.v = View(v.out)
      BY <1>2, <2>2 DEF BlockFields
    <3>2. seq' = seq /\ NHead(il)' = NHead(il) /\ pos' = pos /\ QueryDt' = QueryDt
      BY <1>1, SameTerms, SameNeeded
    <3>3. pos' + seq' <= Config.max_ctx /\ F32(r'.g) /\ r'.g.dims = <<seq', NHead(il)'>>
      BY <1>2, <3>1, <3>2
    <3>4. r'.q.cont /\ r'.q.dt = QueryDt' /\ r'.k.dt = "f16" /\ r'.v.dt = "f16"
      BY <1>2, <1>5, <1>6, <1>7, <3>1, <3>2
    <3> QED
      BY <2>2, <3>3, <3>4 DEF Fit
  <2> HIDE DEF regs
  <2> QED
    BY <1>1, <2>1, <2>2, DoLeads, Zenon
<1> QED
  BY <1>8, <1>9

(* The steps that leave the output of the attention for its gate.          *)
LEMMA CauseAttn ==
  ASSUME Ready, pc = "attend", case' = case, il' = il, NEW calls, NEW out,
         Do(calls, [r EXCEPT !.attn = out], "gate"),
         \A n \in DOMAIN calls : Good(calls[n]), out.cont, out.dt \in {"f32", "f16"}
  PROVE  FailsOnlyForCause' /\ Fit'
<1> DEFINE regs == [r EXCEPT !.attn = out]
<1>1. Do(calls, regs, "gate")
  OBVIOUS
<1>2. /\ DOMAIN r = BlockFields /\ libs \subseteq Needed /\ pos + seq <= Config.max_ctx
      /\ F32(r.g) /\ r.g.dims = <<seq, NHead(il)>>
  BY DEF Ready, Blocks, Fit
<1>3. FailsOnlyForCause'
  <2>1. "gate" # "failed"
    OBVIOUS
  <2> HIDE DEF regs
  <2> QED
    BY <1>1, <1>2, <2>1, DoGood, Zenon
<1>4. Fit'
  <2>1. CASE pc' = "failed"
    BY <2>1, FitFail
  <2>2. CASE pc' = "gate" /\ r' = regs
    <3>1. r'.g = r.g /\ r'.attn = out
      BY <1>2, <2>2 DEF BlockFields
    <3>2. seq' = seq /\ NHead(il)' = NHead(il) /\ pos' = pos
      BY SameTerms
    <3>3. pos' + seq' <= Config.max_ctx /\ F32(r'.g) /\ r'.g.dims = <<seq', NHead(il)'>>
      BY <1>2, <3>1, <3>2
    <3>4. r'.attn.cont /\ r'.attn.dt \in {"f32", "f16"}
      BY <3>1
    <3> QED
      BY <2>2, <3>3, <3>4 DEF Fit
  <2> HIDE DEF regs
  <2> QED
    BY <1>1, <2>1, <2>2, DoLeads, Zenon
<1> QED
  BY <1>3, <1>4

LEMMA CauseFlash ==
  ASSUME Ready, AttendFlash
  PROVE  FailsOnlyForCause' /\ Fit'
<1> DEFINE c == FlashCall
           a == run_flash_attn(r.q, r.k, r.v, c.pos, c.koff, c.window)
           len == Len(ViewPositions)
<1>1. /\ Do(<<a>>, [r EXCEPT !.attn = a.out], "gate") /\ TakesFlash
      /\ case' = case /\ il' = il /\ pc = "attend"
  BY Zenon DEF AttendFlash
<1>2. /\ Types /\ Fits /\ pos + seq <= Config.max_ctx
      /\ Shape(r.q, <<NHead(il), seq, HeadDim>>)
      /\ Shape(r.k, <<Config.n_kv_head, Len(ViewPositions), HeadDim>>)
      /\ Shape(r.v, <<Config.n_kv_head, Len(ViewPositions), HeadDim>>)
      /\ r.q.cont /\ r.q.dt = QueryDt /\ r.k.dt = "f16" /\ r.v.dt = "f16"
  BY <1>1 DEF Ready, Blocks, Fit
<1>3. seq \in Nat \ {0} /\ pos \in Nat /\ seq > 1
  BY <1>1, <1>2, CaseFacts DEF TakesFlash
<1>4. /\ HeadDim = 128 /\ Config.n_kv_head \in Nat \ {0} /\ NHead(il) \in Nat
      /\ NHead(il) % Config.n_kv_head = 0
  <2>1. Config.n_kv_head \in Nat /\ NHead(il) \in Nat /\ il \in Layers
    BY <1>2, CaseFacts, ConfigAssumption DEF Types
  <2> QED
    BY <1>2, <2>1 DEF Fits, CheckpointFits, HeadDim
<1>5. Base \in 0 .. pos /\ len = (pos - Base) + seq
  BY <1>2, <1>3, ViewInOrder
<1>6. c.pos = pos /\ c.koff = Base
  BY DEF FlashCall, Base
<1>7. pos + seq <= MaxI32
  <2>1. MaxI32 \in Nat
    BY SMT DEF MaxI32
  <2> QED
    BY <1>2, <1>3, <2>1, ContextFits
<1>8. len \in Nat \ {0} /\ Base \in Nat /\ Base <= pos /\ pos + seq = Base + len
      /\ Base + len <= MaxI32
  BY <1>3, <1>5, <1>7
<1>9. F32(r.q)
  BY <1>2, <1>3 DEF F32, QueryDt
<1>10. /\ r.q.dims = <<NHead(il), seq, 128>>
       /\ r.k.dims = <<Config.n_kv_head, len, 128>> /\ r.v.dims = <<Config.n_kv_head, len, 128>>
  BY <1>2, <1>4 DEF Shape
<1>11. a = run_flash_attn(r.q, r.k, r.v, pos, Base, c.window)
  BY <1>6
<1> HIDE DEF len, c
<1>12. Good(run_flash_attn(r.q, r.k, r.v, pos, Base, c.window))
  BY <1>1, <1>2, <1>3, <1>4, <1>8, <1>9, <1>10, FlashGood
<1>13. a.out.cont /\ a.out.dt = "f32"
  BY DEF run_flash_attn, Call, Tensor
<1> HIDE DEF a
<1>14. Good(a) /\ a.out.dt \in {"f32", "f16"}
  BY <1>11, <1>12, <1>13
<1>15. \A n \in DOMAIN <<a>> : Good(<<a>>[n])
  BY <1>14, GoodAll, Zenon
<1> QED
  BY <1>1, <1>13, <1>14, <1>15, CauseAttn, Zenon

LEMMA CauseSoftmax ==
  ASSUME Ready, AttendSdpa \/ AttendManual
  PROVE  FailsOnlyForCause' /\ Fit'
<1> DEFINE D == <<NHead(il), seq, HeadDim>>
           K == <<Config.n_kv_head, Len(ViewPositions), HeadDim>>
<1>1. pc = "attend" /\ case' = case /\ il' = il
  BY DEF AttendSdpa, AttendManual
<1>2. /\ Types /\ Masked /\ Fits /\ Shape(r.q, D) /\ Shape(r.k, K) /\ Shape(r.v, K)
      /\ r.q.cont /\ r.q.dt = QueryDt /\ r.k.dt = "f16" /\ r.v.dt = "f16"
  BY <1>1 DEF Ready, Blocks, Fit
<1>3. NHead(il) \in Nat /\ seq \in Nat /\ HeadDim \in Nat /\ Elems(D) <= MaxI32
  BY <1>2, CaseFacts, ChunkFits
<1>4. CASE AttendManual \/ (AttendSdpa /\ sw.SDPA_F32)
  <2> DEFINE k == ToDtype(r.k, "f32")
             v == ToDtype(r.v, "f32")
             a == Softmax(r.q, k, v, "f32")
  <2>1. Do(<<a>>, [r EXCEPT !.attn = a.out], "gate")
    BY <1>4, Zenon DEF AttendManual, AttendSdpa
  <2>2. r.q.dt = "f32"
    <3>1. sw.SDPA_F32 \/ ~case.metal
      BY <1>4 DEF AttendManual
    <3> QED
      BY <1>2, <3>1 DEF QueryDt, FusedGlue
  <2>3. Shape(k, K) /\ k.dt = "f32" /\ v.dt = "f32"
    <3>1. Shape(k, K)
      BY <1>2, CastIs, Zenon
    <3>2. k.dt = "f32" /\ v.dt = "f32"
      BY DEF ToDtype, Tensor
    <3> QED
      BY <3>1, <3>2
  <2> HIDE DEF k, v
  <2>4. Good(a) /\ a.out.dt = "f32" /\ a.out.cont
    <3>1. r.q.dt = k.dt /\ k.dt = v.dt
      BY <2>2, <2>3
    <3> QED
      BY <1>1, <1>2, <2>3, <3>1, SoftmaxGood
  <2> HIDE DEF a
  <2>5. \A n \in DOMAIN <<a>> : Good(<<a>>[n])
    BY <2>4, GoodAll, Zenon
  <2>6. a.out.dt \in {"f32", "f16"}
    BY <2>4
  <2> QED
    BY <1>1, <2>1, <2>4, <2>5, <2>6, CauseAttn, Zenon
<1>5. CASE AttendSdpa /\ ~sw.SDPA_F32
  <2> DEFINE q == CastF16(r.q)
             a == Softmax(q.out, r.k, r.v, "f16")
             w == IF FusedGlue /\ seq = 1 THEN Candle(a.out)
                  ELSE IF FusedGlue THEN cast_to(a.out, "f32")
                  ELSE Candle(ToDtype(a.out, "f32"))
  <2>1. Do(<<q, a, w>>, [r EXCEPT !.attn = w.out], "gate")
    BY <1>5, Zenon DEF AttendSdpa
  <2>2. r.q.dt \in {"f32", "f16"}
    BY <1>2 DEF QueryDt
  <2>3. Good(q) /\ q.out.dt = "f16" /\ Shape(q.out, D)
    <3>1. Good(q) /\ q.out.dt = "f16"
      BY <1>2, <1>3, <2>2, CastF16Good, Zenon
    <3>2. Fine(q, D)
      BY <1>2, <1>3, CastF16Fine, Zenon
    <3> QED
      BY <3>1, <3>2 DEF Fine
  <2> HIDE DEF q
  <2>4. Good(a) /\ a.out.dt = "f16" /\ a.out.cont /\ Shape(a.out, D)
    <3>1. Good(a) /\ a.out.dt = "f16" /\ a.out.cont
      <4>1. q.out.dt = r.k.dt /\ r.k.dt = r.v.dt
        BY <1>2, <2>3
      <4> QED
        BY <1>1, <1>2, <2>3, <4>1, SoftmaxGood
    <3>2. Fine(a, D)
      BY <2>3, SoftmaxFine, Zenon
    <3> QED
      BY <3>1, <3>2 DEF Fine
  <2> HIDE DEF a
  <2>5. Good(w) /\ w.out.cont /\ w.out.dt \in {"f32", "f16"}
    <3>1. Candle(a.out).out = a.out /\ Candle(ToDtype(a.out, "f32")).out = ToDtype(a.out, "f32")
      BY DEF Candle, Call
    <3>2. CASE FusedGlue /\ seq = 1
      <4>1. w = Candle(a.out)
        BY <3>2
      <4> HIDE DEF w
      <4> QED
        BY <2>4, <3>1, <4>1, CandleGood
    <3>3. CASE FusedGlue /\ seq # 1
      <4>1. w = cast_to(a.out, "f32")
        BY <3>3
      <4>2. Good(cast_to(a.out, "f32")) /\ cast_to(a.out, "f32").out.dt = "f32"
            /\ cast_to(a.out, "f32").out.cont
        <5>1. "f32" = "f32"
          OBVIOUS
        <5> QED
          BY <1>3, <2>4, <3>3, <5>1, CastToGood, Zenon
      <4> HIDE DEF w
      <4> QED
        BY <4>1, <4>2
    <3>4. CASE ~FusedGlue
      <4>1. w = Candle(ToDtype(a.out, "f32"))
        BY <3>4
      <4> HIDE DEF w
      <4>2. ToDtype(a.out, "f32").dt = "f32" /\ ToDtype(a.out, "f32").cont
        BY <2>4, CastKeeps
      <4> QED
        BY <3>1, <4>1, <4>2, CandleGood
    <3> QED
      BY <3>2, <3>3, <3>4
  <2> HIDE DEF w
  <2>6. \A n \in DOMAIN <<q, a, w>> : Good(<<q, a, w>>[n])
    BY <2>3, <2>4, <2>5, GoodAll, Zenon
  <2> QED
    BY <1>1, <2>1, <2>5, <2>6, CauseAttn, Zenon
<1> QED
  BY <1>4, <1>5

LEMMA CauseGate ==
  ASSUME Ready, Gate
  PROVE  FailsOnlyForCause' /\ Fit'
<1> DEFINE fused == run_attn_gate(r.attn, r.g)
           y == Tensor("f32", r.attn.dims, r.attn.val \o r.g.val \o <<"softplus", "gate">>)
           a == IF FusedGlue THEN fused ELSE Candle(y)
           regs == [r EXCEPT !.attn = a.out]
<1>1. Do(<<a>>, regs, "output") /\ case' = case /\ il' = il /\ pc = "gate"
  BY Zenon DEF Gate
<1>2. /\ Types /\ Fits /\ DOMAIN r = BlockFields /\ libs \subseteq Needed
      /\ Shape(r.attn, <<NHead(il), seq, HeadDim>>) /\ pos + seq <= Config.max_ctx
      /\ F32(r.g) /\ r.g.dims = <<seq, NHead(il)>>
      /\ r.attn.cont /\ r.attn.dt \in {"f32", "f16"}
  BY <1>1 DEF Ready, Blocks, Fit
<1>3. /\ NHead(il) \in Nat /\ seq \in Nat /\ HeadDim \in Nat
      /\ Elems(<<NHead(il), seq, HeadDim>>) <= MaxI32
  BY <1>2, CaseFacts, ChunkFits
<1>4. Good(a)
  <2>1. CASE FusedGlue
    <3>1. Good(fused)
      BY <1>2, <1>3, <2>1, AttnGateGood, Zenon
    <3> QED
      BY <2>1, <3>1
  <2>2. CASE ~FusedGlue
    <3> HIDE DEF y
    <3> QED
      BY <2>2, CandleGood
  <2> QED
    BY <2>1, <2>2
<1>5. F32(a.out) /\ a.out.off = 0
  <2>1. \A dims, val : F32(Tensor("f32", dims, val)) /\ Tensor("f32", dims, val).off = 0
    BY DEF Tensor, F32
  <2>2. \E dims, val : fused.out = Tensor("f32", dims, val)
    BY Zenon DEF run_attn_gate, Call
  <2>3. Candle(y).out = y
    BY DEF Candle, Call
  <2>4. \E dims, val : Candle(y).out = Tensor("f32", dims, val)
    BY <2>3, Zenon
  <2> HIDE DEF fused, y
  <2>5. \E dims, val : a.out = Tensor("f32", dims, val)
    BY <2>2, <2>4
  <2> HIDE DEF a
  <2> QED
    BY <2>1, <2>5, Zenon
<1> HIDE DEF a
<1>6. FailsOnlyForCause'
  <2>1. \A n \in DOMAIN <<a>> : Good(<<a>>[n])
    BY <1>4, GoodAll, Zenon
  <2>2. "output" # "failed"
    OBVIOUS
  <2> HIDE DEF regs
  <2> QED
    BY <1>1, <1>2, <2>1, <2>2, DoGood, Zenon
<1>7. Fit'
  <2>1. CASE pc' = "failed"
    BY <2>1, FitFail
  <2>2. CASE pc' = "output" /\ r' = regs
    <3>1. r'.attn = a.out
      BY <1>2, <2>2 DEF BlockFields
    <3>2. seq' = seq /\ pos' = pos
      BY <1>1, SameTerms
    <3>3. pos' + seq' <= Config.max_ctx /\ F32(r'.attn) /\ r'.attn.off = 0
      BY <1>2, <1>5, <3>1, <3>2
    <3> QED
      BY <2>2, <3>3 DEF Fit
  <2> HIDE DEF regs
  <2> QED
    BY <1>1, <2>1, <2>2, DoLeads, Zenon
<1> QED
  BY <1>6, <1>7

(* A step to a place where nothing but room in the context is asked.       *)
LEMMA CauseOver ==
  ASSUME Ready, pc \notin {"begin", "failed"}, case' = case, NEW calls, NEW regs,
         NEW next \in {"ffn", "project", "head", "done", "shared", "reference", "experts"},
         Do(calls, regs, next), \A n \in DOMAIN calls : Good(calls[n])
  PROVE  FailsOnlyForCause' /\ Fit'
<1>1. libs \subseteq Needed /\ pos + seq <= Config.max_ctx /\ next # "failed"
  BY DEF Ready, Fit
<1>2. FailsOnlyForCause'
  BY <1>1, DoGood, Zenon
<1>3. Fit'
  <2>1. CASE pc' = "failed"
    BY <2>1, FitFail
  <2>2. CASE pc' = next
    <3>1. seq' = seq /\ pos' = pos
      BY SameNeeded
    <3>2. pos' + seq' <= Config.max_ctx
      BY <1>1, <3>1
    <3> QED
      BY <2>2, <3>2 DEF Fit
  <2> QED
    BY <2>1, <2>2, DoLeads, Zenon
<1> QED
  BY <1>2, <1>3

LEMMA CauseOutput ==
  ASSUME Ready, Output
  PROVE  FailsOnlyForCause' /\ Fit'
<1> DEFINE width == NHead(il) * HeadDim
           p == IF seq = 1 THEN Candle(r.attn)
                ELSE IF FusedGlue THEN run_permute_cast(r.attn, "f32")
                ELSE Candle(Contiguous(Transpose01(r.attn)))
           x == Reshape(p.out, <<seq, width>>)
           o == Proj(Weight("o", Config.hidden, width), x)
<1>1. /\ Do(<<p, o>>, [r EXCEPT !.x = Hidden], "ffn")
      /\ case' = case /\ il' = il /\ pc = "output"
  BY Zenon DEF Output
<1>2. /\ Types /\ Fits /\ Shape(r.attn, <<NHead(il), seq, HeadDim>>)
      /\ F32(r.attn) /\ r.attn.off = 0
  BY <1>1 DEF Ready, Blocks, Fit
<1>3. /\ seq \in Nat /\ HeadDim \in Nat /\ NHead(il) \in Nat
      /\ Elems(<<NHead(il), seq, HeadDim>>) <= MaxI32
  BY <1>2, CaseFacts, ChunkFits
<1>4. Config.hidden \in Nat /\ Config.hidden % 4 = 0 /\ width \in Nat /\ width % 32 = 0
  <2>1. Config.hidden \in Nat
    BY ConfigAssumption
  <2>2. Config.hidden % 32 = 0 /\ HeadDim = 128
    BY <1>2 DEF Fits, CheckpointFits, HeadDim
  <2>3. \A n \in Nat : n * 128 \in Nat /\ (n * 128) % 32 = 0 /\ (n % 32 = 0 => n % 4 = 0)
    OBVIOUS
  <2> QED
    BY <1>3, <2>1, <2>2, <2>3
<1>5. Good(p) /\ F32(p.out) /\ p.out.off = 0 /\ \E old : Shape(p.out, old)
  <2>1. CASE seq = 1
    <3>1. p = Candle(r.attn) /\ Candle(r.attn).out = r.attn
      BY <2>1 DEF Candle, Call
    <3> HIDE DEF p
    <3> QED
      BY <1>2, <3>1, CandleGood
  <2>2. CASE seq # 1 /\ FusedGlue
    <3>1. p = run_permute_cast(r.attn, "f32")
      BY <2>2
    <3>2. Good(run_permute_cast(r.attn, "f32"))
      <4>1. Len(<<NHead(il), seq, HeadDim>>) = 3
        OBVIOUS
      <4>2. r.attn.dt = "f32" /\ r.attn.cont
        BY <1>2 DEF F32
      <4> QED
        BY <1>2, <1>3, <2>2, <4>1, <4>2, PermuteGood
    <3>3. /\ F32(run_permute_cast(r.attn, "f32").out)
          /\ run_permute_cast(r.attn, "f32").out.off = 0
      BY DEF run_permute_cast, Call, Tensor, F32
    <3>4. Shape(run_permute_cast(r.attn, "f32").out, <<seq, NHead(il), HeadDim>>)
      BY <1>2, <1>3, PermuteFine, Zenon DEF Fine
    <3> HIDE DEF p
    <3> QED
      BY <3>1, <3>2, <3>3, <3>4
  <2>3. CASE seq # 1 /\ ~FusedGlue
    <3> DEFINE y == Contiguous(Transpose01(r.attn))
    <3>1. p = Candle(y) /\ Candle(y).out = y
      BY <2>3 DEF Candle, Call
    <3>2. y.dt = "f32" /\ y.cont /\ y.off = 0
      BY <1>2, TransposeKeeps DEF F32
    <3>3. Shape(y, <<seq, NHead(il), HeadDim>>)
      BY <1>2, <1>3, TransposeIs, Zenon
    <3> HIDE DEF p, y
    <3> QED
      BY <3>1, <3>2, <3>3, CandleGood DEF F32
  <2> QED
    BY <2>1, <2>2, <2>3
<1> HIDE DEF p
<1>6. F32(x) /\ x.dims = <<seq, width>> /\ x.off = 0
  BY <1>5 DEF Reshape, Shape, F32
<1>7. Good(o)
  <2> DEFINE w == Weight("o", Config.hidden, width)
  <2>1. w.n_out = Config.hidden /\ w.k = width /\ w.off = 0
    BY DEF Weight
  <2> HIDE DEF w, x, width
  <2> QED
    BY <1>2, <1>4, <1>6, <2>1, ProjGood DEF w
<1> HIDE DEF o
<1>8. \A n \in DOMAIN <<p, o>> : Good(<<p, o>>[n])
  BY <1>5, <1>7, GoodAll, Zenon
<1>9. /\ pc \notin {"begin", "failed"}
      /\ "ffn" \in {"ffn", "project", "head", "done", "shared", "reference", "experts"}
  BY <1>1
<1> QED
  BY <1>1, <1>8, <1>9, CauseOver, Zenon

(* The experts, whose map stays that of the routing.                       *)
LEMMA CauseExperts ==
  ASSUME Ready, Route \/ ReferenceExperts
  PROVE  FailsOnlyForCause' /\ Fit'
<1>1. \A n \in DOMAIN <<>> : Good(<<>>[n])
  OBVIOUS
<1>2. CASE Route
  <2> DEFINE next == IF case.runner = "reference" THEN "reference" ELSE "experts"
  <2>1. Do(<<>>, r, next) /\ case' = case /\ pc = "ffn"
    BY <1>2, Zenon DEF Route
  <2>2. /\ pc \notin {"begin", "failed"}
        /\ next \in {"ffn", "project", "head", "done", "shared", "reference", "experts"}
    BY <2>1
  <2> HIDE DEF next
  <2> QED
    BY <1>1, <2>1, <2>2, CauseOver, Zenon
<1>3. CASE ReferenceExperts
  <2>1. PICK regs : Do(<<>>, regs, "shared") /\ case' = case /\ pc = "reference"
    BY <1>3, Zenon DEF ReferenceExperts
  <2>2. /\ pc \notin {"begin", "failed"}
        /\ "shared" \in {"ffn", "project", "head", "done", "shared", "reference", "experts"}
    BY <2>1
  <2> QED
    BY <1>1, <2>1, <2>2, CauseOver, Zenon
<1> QED
  BY <1>2, <1>3

LEMMA CausePrepare ==
  ASSUME Ready, PrepareMap \/ NoMapNeeded
  PROVE  FailsOnlyForCause' /\ Fit'
<1>1. pc = "experts" /\ case' = case
  BY DEF PrepareMap, NoMapNeeded
<1>2. /\ Types /\ Fits /\ libs \subseteq Needed /\ pos + seq <= Config.max_ctx
      /\ case.runner = "fused"
  <2>1. case.runner \in {"fused", "reference"}
    BY CasesAssumption, Zenon DEF Ready, Types
  <2> QED
    BY <1>1, <2>1 DEF Ready, Fit, Staged, OfExperts
<1>3. /\ seq' = seq /\ pos' = pos /\ UseMm' = UseMm /\ TheMap' = TheMap
  BY <1>1, SameNeeded
<1>4. "gate_up" # "failed"
  OBVIOUS
<1>5. ASSUME NEW calls, Do(calls, r, "gate_up"), \A n \in DOMAIN calls : Good(calls[n]),
             pc' = "gate_up" /\ UseMm => map0' = TheMap
      PROVE  FailsOnlyForCause' /\ Fit'
  <2>1. FailsOnlyForCause'
    BY <1>1, <1>2, <1>4, <1>5, DoGood, Zenon
  <2>2. Fit'
    <3>1. CASE pc' = "failed"
      BY <3>1, FitFail
    <3>2. CASE pc' = "gate_up"
      <4>1. pos' + seq' <= Config.max_ctx /\ (UseMm' => map0' = TheMap')
        BY <1>2, <1>3, <1>5, <3>2
      <4> QED
        BY <3>2, <4>1 DEF Fit
    <3> QED
      BY <1>5, <3>1, <3>2, DoLeads, Zenon
  <2> QED
    BY <2>1, <2>2
<1>6. CASE PrepareMap
  <2> DEFINE m == prepare_map0(Config.n_expert, Ids, Routing)
  <2>1. Do(<<m>>, r, "gate_up") /\ UseMm /\ map0' = IF pc' = "gate_up" THEN m.out ELSE NoMap
    BY <1>6, Zenon DEF PrepareMap
  <2>2. Good(m)
    BY <1>2, <2>1, Map0Good, Zenon
  <2>3. m.out = TheMap
    BY DEF prepare_map0, Call, TheMap, Ids, Tensor
  <2> HIDE DEF m
  <2>4. \A n \in DOMAIN <<m>> : Good(<<m>>[n])
    BY <2>2, GoodAll, Zenon
  <2>5. pc' = "gate_up" /\ UseMm => map0' = TheMap
    BY <2>1, <2>3
  <2> QED
    BY <1>5, <2>1, <2>4, <2>5, Zenon
<1>7. CASE NoMapNeeded
  <2>1. Do(<<>>, r, "gate_up") /\ ~UseMm
    BY <1>7, Zenon DEF NoMapNeeded
  <2>2. \A n \in DOMAIN <<>> : Good(<<>>[n])
    OBVIOUS
  <2> QED
    BY <1>5, <2>1, <2>2, Zenon
<1> QED
  BY <1>6, <1>7

LEMMA CauseGateUp ==
  ASSUME Ready, GateUp
  PROVE  FailsOnlyForCause' /\ Fit'
<1> DEFINE x == Reshape(r.x, <<seq, 1, Config.hidden>>)
           g == Matmul(GateStack, x)
           u == Matmul(UpStack, x)
           regs == [r EXCEPT !.gate = g.out, !.up = u.out]
<1>1. /\ Do(<<g, u>>, regs, "activate") /\ case' = case /\ il' = il /\ pc = "gate_up"
      /\ map0' = map0
  BY Zenon DEF GateUp
<1>2. /\ Types /\ Fits /\ DOMAIN r = BlockFields /\ r.x = Hidden /\ libs \subseteq Needed
      /\ pos + seq <= Config.max_ctx /\ case.runner = "fused"
      /\ (UseMm => map0 = TheMap)
  <2>1. case.runner \in {"fused", "reference"}
    BY CasesAssumption, Zenon DEF Ready, Types
  <2> QED
    BY <1>1, <2>1 DEF Ready, Fit, Blocks, Staged, Routed, OfExperts
<1>3. F32(x) /\ x.dims = <<seq, 1, Config.hidden>>
  BY <1>2 DEF Reshape, Hidden, Tensor, F32
<1> HIDE DEF x
<1>4. /\ UseMm => mm_kernel_instantiated(case.ck.gate, MmVariant)
      /\ UseMm => mm_kernel_instantiated(case.ck.up, MmVariant)
  BY DEF UseMm, supported, GateStack, UpStack, Stack
<1>5. Config.expert_ff \in Nat /\ Config.hidden \in Nat /\ 1 \in {1, Config.n_expert_used}
  BY ConfigAssumption
<1>6. /\ Config.hidden % QK(case.ck.gate) = 0 /\ Config.hidden % QK(case.ck.up) = 0
      /\ case.ck.gate \in MvDtypes /\ case.ck.up \in MvDtypes
  <2>1. ForwardFits(case)
    BY <1>2 DEF Types, Fits
  <2> QED
    BY <2>1 DEF ForwardFits
<1>7. Good(g) /\ F32(g.out) /\ Good(u) /\ F32(u.out)
  <2>1. /\ GateStack = Stack("gate", case.ck.gate, Config.expert_ff, Config.hidden)
        /\ UpStack = Stack("up", case.ck.up, Config.expert_ff, Config.hidden)
    BY DEF GateStack, UpStack
  <2>2. Good(g) /\ F32(g.out)
    BY <1>2, <1>3, <1>4, <1>5, <1>6, <2>1, MatmulGood
  <2>3. Good(u) /\ F32(u.out)
    BY <1>2, <1>3, <1>4, <1>5, <1>6, <2>1, MatmulGood
  <2> QED
    BY <2>2, <2>3
<1> HIDE DEF g, u
<1>8. FailsOnlyForCause'
  <2>1. \A n \in DOMAIN <<g, u>> : Good(<<g, u>>[n])
    BY <1>7, GoodAll, Zenon
  <2>2. "activate" # "failed"
    OBVIOUS
  <2> HIDE DEF regs
  <2> QED
    BY <1>1, <1>2, <2>1, <2>2, DoGood, Zenon
<1>9. Fit'
  <2>1. CASE pc' = "failed"
    BY <2>1, FitFail
  <2>2. CASE pc' = "activate" /\ r' = regs
    <3>1. r'.gate = g.out /\ r'.up = u.out
      BY <1>2, <2>2 DEF BlockFields
    <3>2. seq' = seq /\ pos' = pos /\ UseMm' = UseMm /\ TheMap' = TheMap
      BY <1>1, SameNeeded
    <3>3. /\ pos' + seq' <= Config.max_ctx /\ F32(r'.gate) /\ F32(r'.up)
          /\ (UseMm' => map0' = TheMap')
      BY <1>1, <1>2, <1>7, <3>1, <3>2
    <3> QED
      BY <2>2, <3>3 DEF Fit
  <2> HIDE DEF regs
  <2> QED
    BY <1>1, <2>1, <2>2, DoLeads, Zenon
<1> QED
  BY <1>8, <1>9

LEMMA CauseActivate ==
  ASSUME Ready, Activate
  PROVE  FailsOnlyForCause' /\ Fit'
<1> DEFINE fused == run_silu_mul(r.gate, r.up)
           y == SiluMul(r.gate, r.up)
           a == IF sw.ACT_CLASSIC THEN Candle(y) ELSE fused
           regs == [r EXCEPT !.act = a.out]
<1>1. /\ Do(<<a>>, regs, "down") /\ case' = case /\ il' = il /\ pc = "activate"
      /\ map0' = map0
  BY Zenon DEF Activate
<1>2. /\ Types /\ Fits /\ DOMAIN r = BlockFields /\ libs \subseteq Needed
      /\ Shape(r.gate, <<seq, Config.n_expert_used, Config.expert_ff>>)
      /\ Shape(r.up, <<seq, Config.n_expert_used, Config.expert_ff>>)
      /\ F32(r.gate) /\ F32(r.up)
      /\ pos + seq <= Config.max_ctx /\ case.runner = "fused"
      /\ (UseMm => map0 = TheMap)
  <2>1. case.runner \in {"fused", "reference"}
    BY CasesAssumption, Zenon DEF Ready, Types
  <2> QED
    BY <1>1, <2>1 DEF Ready, Fit, Blocks, Staged, Routed, OfExperts
<1>3. Elems(<<seq, Config.n_expert_used, Config.expert_ff>>) <= MaxI32
  BY <1>2, ChunkFits, Zenon
<1>4. Good(a) /\ F32(a.out)
  <2>1. CASE sw.ACT_CLASSIC
    <3>1. F32(y) /\ Candle(y).out = y
      BY DEF SiluMul, Tensor, F32, Candle, Call
    <3> HIDE DEF y
    <3> QED
      BY <2>1, <3>1, CandleGood
  <2>2. CASE ~sw.ACT_CLASSIC
    <3>1. Good(fused)
      BY <1>2, <1>3, <2>2, SiluMulGood, Zenon DEF Shape
    <3>2. F32(fused.out)
      BY DEF run_silu_mul, Call, Tensor, F32
    <3> HIDE DEF fused
    <3> QED
      BY <2>2, <3>1, <3>2
  <2> QED
    BY <2>1, <2>2
<1> HIDE DEF a
<1>5. FailsOnlyForCause'
  <2>1. \A n \in DOMAIN <<a>> : Good(<<a>>[n])
    BY <1>4, GoodAll, Zenon
  <2>2. "down" # "failed"
    OBVIOUS
  <2> HIDE DEF regs
  <2> QED
    BY <1>1, <1>2, <2>1, <2>2, DoGood, Zenon
<1>6. Fit'
  <2>1. CASE pc' = "failed"
    BY <2>1, FitFail
  <2>2. CASE pc' = "down" /\ r' = regs
    <3>1. r'.act = a.out
      BY <1>2, <2>2 DEF BlockFields
    <3>2. seq' = seq /\ pos' = pos /\ UseMm' = UseMm /\ TheMap' = TheMap
      BY <1>1, SameNeeded
    <3>3. /\ pos' + seq' <= Config.max_ctx /\ F32(r'.act) /\ (UseMm' => map0' = TheMap')
      BY <1>1, <1>2, <1>4, <3>1, <3>2
    <3> QED
      BY <2>2, <3>3 DEF Fit
  <2> HIDE DEF regs
  <2> QED
    BY <1>1, <2>1, <2>2, DoLeads, Zenon
<1> QED
  BY <1>5, <1>6

LEMMA CauseDown ==
  ASSUME Ready, Down
  PROVE  FailsOnlyForCause' /\ Fit'
<1> DEFINE D == <<seq, Config.n_expert_used, Config.expert_ff>>
           t == Tensor("f32", <<seq, Config.n_expert_used, 1>>, <<"l2">>)
           l2 == IF NeedsRescale THEN <<t>> ELSE NoL2
           x == IF NeedsRescale THEN Op(r.act, "scale") ELSE r.act
           d == Matmul(DownStack, x)
           regs == [r EXCEPT !.down = d.out, !.l2 = l2]
<1>1. Do(<<d>>, regs, "combine") /\ case' = case /\ il' = il /\ pc = "down"
  BY Zenon DEF Down
<1>2. /\ Types /\ Fits /\ DOMAIN r = BlockFields /\ libs \subseteq Needed
      /\ Shape(r.act, D) /\ F32(r.act)
      /\ pos + seq <= Config.max_ctx /\ case.runner = "fused"
      /\ (UseMm => map0 = TheMap)
  <2>1. case.runner \in {"fused", "reference"}
    BY CasesAssumption, Zenon DEF Ready, Types
  <2> QED
    BY <1>1, <2>1 DEF Ready, Fit, Blocks, Staged, Routed, OfExperts
<1>3. F32(x) /\ x.dims = D
  <2>1. F32(Op(r.act, "scale")) /\ Op(r.act, "scale").dims = r.act.dims
    BY DEF Op, Tensor, F32
  <2>2. r.act.dims = D
    BY <1>2 DEF Shape
  <2> HIDE DEF D
  <2> QED
    BY <1>2, <2>1, <2>2
<1> HIDE DEF x
<1>4. UseMm => mm_kernel_instantiated(case.ck.down, MmVariant)
  BY DEF UseMm, supported, DownStack, Stack
<1>5. /\ Config.expert_ff \in Nat /\ Config.hidden \in Nat
      /\ Config.n_expert_used \in {1, Config.n_expert_used}
  BY ConfigAssumption
<1>6. Config.expert_ff % QK(case.ck.down) = 0 /\ case.ck.down \in MvDtypes
  <2>1. ForwardFits(case)
    BY <1>2 DEF Types, Fits
  <2> QED
    BY <2>1 DEF ForwardFits
<1>7. Good(d) /\ F32(d.out)
  <2>1. DownStack = Stack("down", case.ck.down, Config.hidden, Config.expert_ff)
    BY DEF DownStack
  <2> QED
    BY <1>2, <1>3, <1>4, <1>5, <1>6, <2>1, MatmulGood
<1>8. l2 # NoL2 => F32(l2[1]) /\ l2[1].dims = <<seq, Config.n_expert_used, 1>>
  <2>1. F32(t) /\ t.dims = <<seq, Config.n_expert_used, 1>>
    BY DEF Tensor, F32
  <2> HIDE DEF t
  <2> QED
    BY <2>1
<1> HIDE DEF d, l2
<1>9. FailsOnlyForCause'
  <2>1. \A n \in DOMAIN <<d>> : Good(<<d>>[n])
    BY <1>7, GoodAll, Zenon
  <2>2. "combine" # "failed"
    OBVIOUS
  <2> HIDE DEF regs
  <2> QED
    BY <1>1, <1>2, <2>1, <2>2, DoGood, Zenon
<1>10. Fit'
  <2>1. CASE pc' = "failed"
    BY <2>1, FitFail
  <2>2. CASE pc' = "combine" /\ r' = regs
    <3>1. r'.down = d.out /\ r'.l2 = l2
      BY <1>2, <2>2 DEF BlockFields
    <3>2. seq' = seq /\ pos' = pos
      BY <1>1, SameNeeded
    <3>3. /\ pos' + seq' <= Config.max_ctx /\ F32(r'.down)
          /\ r'.l2 # NoL2 => /\ F32(r'.l2[1])
                             /\ r'.l2[1].dims = <<seq', Config.n_expert_used, 1>>
      BY <1>2, <1>7, <1>8, <3>1, <3>2
    <3> QED
      BY <2>2, <3>3 DEF Fit
  <2> HIDE DEF regs
  <2> QED
    BY <1>1, <2>1, <2>2, DoLeads, Zenon
<1> QED
  BY <1>9, <1>10

LEMMA CauseCombine ==
  ASSUME Ready, Combine
  PROVE  FailsOnlyForCause' /\ Fit'
<1> DEFINE fused == run_combine(r.down, r.l2, RouteWeights)
           plain == CombineClassic(r.down, r.l2)
           c == IF sw.COMBINE_CLASSIC THEN plain ELSE fused
<1>1. Do(<<c>>, [r EXCEPT !.y = c.out], "shared") /\ case' = case /\ pc = "combine"
  BY Zenon DEF Combine
<1>2. /\ Types /\ Fits /\ Shape(r.down, <<seq, Config.n_expert_used, Config.hidden>>)
      /\ F32(r.down) /\ case.runner = "fused"
      /\ r.l2 # NoL2 => /\ F32(r.l2[1])
                        /\ r.l2[1].dims = <<seq, Config.n_expert_used, 1>>
  <2>1. case.runner \in {"fused", "reference"}
    BY CasesAssumption, Zenon DEF Ready, Types
  <2> QED
    BY <1>1, <2>1 DEF Ready, Fit, Blocks, Staged, Routed, OfExperts
<1>3. /\ seq \in Nat /\ Config.n_expert_used \in Nat /\ Config.hidden \in Nat
      /\ Config.n_expert_used <= 65 /\ (seq * Config.n_expert_used) * Config.hidden <= MaxI32
  <2>1. seq \in Nat /\ Config.n_expert_used \in Nat /\ Config.hidden \in Nat
    BY <1>2, CaseFacts, ConfigAssumption
  <2>2. Config.n_expert_used <= 65
    <3>1. CheckpointFits
      BY <1>2, Zenon DEF Fits
    <3> QED
      BY <3>1 DEF CheckpointFits
  <2>3. (seq * Config.n_expert_used) * Config.hidden <= MaxI32
    BY <1>2, ChunkFits, Zenon
  <2> QED
    BY <2>1, <2>2, <2>3, Zenon
<1>4. Good(c)
  <2>1. CASE sw.COMBINE_CLASSIC
    <3>1. Good(plain)
      BY CandleGood, Zenon DEF CombineClassic
    <3> QED
      BY <2>1, <3>1
  <2>2. CASE ~sw.COMBINE_CLASSIC
    <3>1. F32(RouteWeights) /\ RouteWeights.dims = <<seq, Config.n_expert_used>>
      BY DEF RouteWeights, Tensor, F32
    <3>2. r.down.dims = <<seq, Config.n_expert_used, Config.hidden>>
      BY <1>2 DEF Shape
    <3>3. Good(fused)
      BY <1>2, <1>3, <2>2, <3>1, <3>2, CombineGood
    <3> HIDE DEF fused
    <3> QED
      BY <2>2, <3>3
  <2> QED
    BY <2>1, <2>2
<1> HIDE DEF c
<1>5. \A n \in DOMAIN <<c>> : Good(<<c>>[n])
  BY <1>4, GoodAll, Zenon
<1>6. /\ pc \notin {"begin", "failed"}
      /\ "shared" \in {"ffn", "project", "head", "done", "shared", "reference", "experts"}
  BY <1>1
<1> QED
  BY <1>1, <1>5, <1>6, CauseOver, Zenon

LEMMA CauseEnd ==
  ASSUME Ready, Dense \/ Shared
  PROVE  FailsOnlyForCause' /\ Fit'
<1>1. ASSUME NEW name, NEW width, NEW x
      PROVE  \A n \in DOMAIN Swiglu(name, width, x) : Good(Swiglu(name, width, x)[n])
  <2> DEFINE g == QLinear(Weight(name \o ".gate", width, Config.hidden), x)
             u == QLinear(Weight(name \o ".up", width, Config.hidden), x)
             d == QLinear(Weight(name \o ".down", Config.hidden, width), SiluMul(g.out, u.out))
  <2>1. Good(g) /\ Good(u) /\ Good(d)
    BY QLinearGood, Zenon
  <2>2. Swiglu(name, width, x) = <<g, u, d>>
    BY DEF Swiglu
  <2> HIDE DEF g, u, d
  <2> QED
    BY <2>1, <2>2, GoodAll, Zenon
<1>2. pc \notin {"begin", "failed"}
  BY DEF Dense, Shared
<1>3. ASSUME NEW name, NEW width, NEW out, EndLayer(Swiglu(name, width, r.x), out)
      PROVE  FailsOnlyForCause' /\ Fit'
  <2>1. Do(Swiglu(name, width, r.x), [r EXCEPT !.x = Hidden], NextLayer) /\ case' = case
    BY <1>3 DEF EndLayer
  <2>2. NextLayer \in {"ffn", "project", "head", "done", "shared", "reference", "experts"}
    BY DEF NextLayer
  <2> QED
    BY <1>1, <1>2, <2>1, <2>2, CauseOver, Zenon
<1>4. \E name, width, out : EndLayer(Swiglu(name, width, r.x), out)
  BY Zenon DEF Dense, Shared
<1> QED
  BY <1>3, <1>4, Zenon

LEMMA CauseHead ==
  ASSUME Ready, LastLogits \/ AllLogits
  PROVE  FailsOnlyForCause' /\ Fit'
<1>1. ASSUME NEW c, Good(c), EmitLogits(c)
      PROVE  FailsOnlyForCause' /\ Fit'
  <2>1. Do(<<c>>, NoBlock, "done") /\ case' = case
    BY <1>1 DEF EmitLogits
  <2>2. \A n \in DOMAIN <<c>> : Good(<<c>>[n])
    BY <1>1, GoodAll, Zenon
  <2>3. /\ pc \notin {"begin", "failed"}
        /\ "done" \in {"ffn", "project", "head", "done", "shared", "reference", "experts"}
    BY DEF LastLogits, AllLogits
  <2> QED
    BY <2>1, <2>2, <2>3, CauseOver, Zenon
<1>2. CASE LastLogits
  <2> DEFINE own == case.metal /\ seq = 1 /\ ~sw.MV_CLASSIC /\ mv_vendored_supported(case.ck.head)
             fused == mul_mv(HeadWeight, LastRow(Normed))
             plain == QLinear(HeadWeight, LastRow(Normed))
  <2>1. EmitLogits(IF own THEN fused ELSE plain)
    BY <1>2, Zenon DEF LastLogits
  <2>2. own => Good(fused)
    <3> SUFFICES ASSUME own PROVE Good(fused)
      OBVIOUS
    <3>1. F32(LastRow(Normed)) /\ LastRow(Normed).dims = <<1, Config.hidden>>
      BY DEF LastRow, Normed, Op, Tensor, F32
    <3>2. HeadWeight.k = Config.hidden /\ HeadWeight.dt = case.ck.head
      BY DEF HeadWeight
    <3>3. Config.hidden % QK(case.ck.head) = 0
      BY Zenon DEF Ready, Types, Fits, ForwardFits
    <3>4. case.ck.head \in MmDtypes
      BY DEF mv_vendored_supported
    <3>5. LastRow(Normed).dims[2] = Config.hidden
      BY <3>1
    <3> QED
      BY <3>1, <3>2, <3>3, <3>4, <3>5, HeadGood
  <2>3. Good(plain)
    BY QLinearGood, Zenon
  <2> HIDE DEF own, fused, plain
  <2> QED
    BY <1>1, <2>1, <2>2, <2>3, Zenon
<1>3. CASE AllLogits
  BY <1>1, <1>3, QLinearGood, Zenon DEF AllLogits
<1> QED
  BY <1>2, <1>3

LEMMA CauseStep ==
  ASSUME Ready, Next
  PROVE  FailsOnlyForCause' /\ Fit'
<1>1. CASE Begin
  BY <1>1, CauseBegin
<1>2. CASE Attention
  BY <1>2, CauseProject, CausePermute, CauseRotate, CauseAppend, CauseFlash, CauseSoftmax,
    CauseGate, CauseOutput, Zenon DEF Attention
<1>3. CASE Ffn
  BY <1>3, CauseExperts, CausePrepare, CauseGateUp, CauseActivate, CauseDown, CauseCombine,
    CauseEnd, Zenon DEF Ffn
<1>4. CASE LastLogits \/ AllLogits
  BY <1>4, CauseHead
<1> QED
  BY <1>1, <1>2, <1>3, <1>4 DEF Next

-----------------------------------------------------------------------------
(* The inductive invariant of the failures.                                *)
CauseInv == Types /\ Blocks /\ Staged /\ Masked /\ Fit /\ FailsOnlyForCause

LEMMA CauseInit == Init => CauseInv
<1> SUFFICES ASSUME Init PROVE CauseInv
  OBVIOUS
<1>1. pc = "begin" /\ libs = {}
  BY DEF Init
<1>2. Types /\ Blocks
  BY TypesInit, BlocksInit
<1>3. Staged /\ Masked /\ Fit /\ FailsOnlyForCause
  BY <1>1 DEF Staged, Routed, Masked, Fit, FailsOnlyForCause
<1> QED
  BY <1>2, <1>3 DEF CauseInv

LEMMA CauseNext ==
  ASSUME Fits, CauseInv, [Next]_vars
  PROVE  CauseInv'
<1>1. CASE Next
  <2>1. Types' /\ Blocks' /\ Staged' /\ Masked'
    BY <1>1, TypesStep, BlocksStep, StagedStep, MaskedStep DEF CauseInv
  <2>2. Ready
    BY DEF CauseInv, Ready, FailsOnlyForCause
  <2>3. FailsOnlyForCause' /\ Fit'
    BY <1>1, <2>2, CauseStep
  <2> QED
    BY <2>1, <2>3 DEF CauseInv
<1>2. CASE UNCHANGED vars
  <2>1. case' = case /\ il' = il /\ pc' = pc /\ r' = r /\ masks' = masks /\ map0' = map0
        /\ libs' = libs
    BY <1>2 DEF vars
  <2>2. /\ seq' = seq /\ pos' = pos /\ sw' = sw /\ NHead(il)' = NHead(il) /\ Hidden' = Hidden
        /\ ViewPositions' = ViewPositions
    BY <2>1, SameTerms
  <2>3. Needed' = Needed /\ UseMm' = UseMm /\ QueryDt' = QueryDt /\ TheMap' = TheMap
    BY <2>1, SameNeeded
  <2>4. Types' /\ Blocks' /\ Staged' /\ Masked'
    <3>1. HoistedMasks' = HoistedMasks
      BY <2>1, <2>2 DEF HoistedMasks, PrefillMask, NHead, IsFullAttn, Kind, Window, Layers
    <3> QED
      BY <2>1, <2>2, <3>1 DEF CauseInv, Types, Blocks, Staged, Routed, OfExperts, Layers, Masked
  <2>5. Fit'
    BY <2>1, <2>2, <2>3 DEF CauseInv, Fit
  <2>6. FailsOnlyForCause'
    BY <2>1, <2>2, <2>3 DEF CauseInv, FailsOnlyForCause
  <2> QED
    BY <2>4, <2>5, <2>6 DEF CauseInv
<1> QED
  BY <1>1, <1>2

(* Of a checkpoint and a forward the kernels suit, every library that is   *)
(* compiled is one the switches ask for, and the forward fails only for a  *)
(* full context, for such a library that does not compile, for fast math   *)
(* switched off, or off Metal at the first kernel of laguna's own: on no   *)
(* path of the four of attention and the five of the experts does a call   *)
(* meet a shape, a dtype, a layout or a name its dispatch would refuse     *)
(* (the checks of dispatch.rs, and pipelines.rs:133).                      *)
THEOREM FailuresHaveCause ==
  ASSUME CheckpointFits, \A c \in Cases : ForwardFits(c)
  PROVE  Spec => []FailsOnlyForCause
<1>1. Fits
  BY DEF Fits
<1>2. Init => CauseInv
  BY CauseInit
<1>3. CauseInv /\ [Next]_vars => CauseInv'
  BY <1>1, CauseNext
<1>4. CauseInv => FailsOnlyForCause
  BY DEF CauseInv
<1> QED
  BY <1>2, <1>3, <1>4, PTL DEF Spec
=============================================================================
