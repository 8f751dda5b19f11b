----------------------------- MODULE FlashBlocks -----------------------------
(***************************************************************************)
(* The integer geometry of the flash attention kernel (src/ops/flash.metal)*)
(* and of its dispatch (run_flash_attn): a threadgroup takes BQ query rows *)
(* of one head and walks blocks of BK key columns.  Blocks before the      *)
(* window and after the last query are skipped, and only blocks at an edge *)
(* are masked element by element.                                          *)
(*                                                                         *)
(* A call c has the fields of FlashAttnArgs that bound the walk: `seq`     *)
(* query rows from absolute position `pos`, `kl` key columns from absolute *)
(* position `koff`, and the window, NoWindow for full attention.           *)
(***************************************************************************)
EXTENDS Integers

BQ == 32         (* FLASH_BQ, query rows of a threadgroup                  *)
BK == 16         (* FLASH_BK, key columns of a block                       *)

NoWindow == 0
MaxI32 == 2147483647
Windowed(c) == c.window # NoWindow

Ceil(n, d) == (n + d - 1) \div d

(* What run_flash_attn refuses among calls of the right shapes and dtypes. *)
FlashAccepts(c) ==
  /\ c.seq > 0 /\ c.kl > 0
  /\ c.koff <= c.pos
  /\ c.pos + c.seq <= c.koff + c.kl
  /\ c.koff + c.kl <= MaxI32

(* The threadgroups of one head, and the rows each holds.  The alignment   *)
(* flags pick one of four kernels; only the last group of an unaligned     *)
(* call is short.                                                          *)
QBlocks(c) == 0 .. Ceil(c.seq, BQ) - 1
QRows(c, x) == IF c.seq % BQ # 0 /\ x = c.seq \div BQ THEN c.seq % BQ ELSE BQ
QLo(c, x) == x * BQ + c.pos
QHi(c, x) == x * BQ + (QRows(c, x) - 1) + c.pos

(* The blocks a threadgroup walks.  Mutant of KbStart: it counts from the  *)
(* newest query of the group.                                              *)
KbLim(c, x) ==
  LET lim == (QHi(c, x) - c.koff) \div BK + 1
  IN  IF lim < Ceil(c.kl, BK) THEN lim ELSE Ceil(c.kl, BK)

KbStartLate(c, x) ==
  LET a == (QHi(c, x) - c.window + 1 - c.koff) - (BK - 1)
  IN  IF Windowed(c) /\ a > 0 THEN Ceil(a, BK) ELSE 0

KbStart(c, x) ==
  LET a == (QLo(c, x) - c.window + 1 - c.koff) - (BK - 1)
  IN  IF Windowed(c) /\ a > 0 THEN Ceil(a, BK) ELSE 0

(* A block that needs the element mask: the short last block, one reaching *)
(* past the oldest query, one that began to expire for the newest.         *)
AtEdge(c, x, kb) ==
  \/ c.kl % BK # 0 /\ kb = c.kl \div BK
  \/ kb * BK + (BK - 1) + c.koff > QLo(c, x)
  \/ Windowed(c) /\ QHi(c, x) - (kb * BK + c.koff) >= c.window

MaskedOut(c, row, col) ==
  \/ col >= c.kl
  \/ col + c.koff > row
  \/ Windowed(c) /\ row - (col + c.koff) >= c.window

(* Whether the threadgroup x accumulates key column col for the query at   *)
(* absolute position row.                                                  *)
Takes(c, x, row, col) ==
  LET kb == col \div BK IN
  /\ KbStart(c, x) <= kb /\ kb < KbLim(c, x)
  /\ AtEdge(c, x, kb) => ~MaskedOut(c, row, col)

(* The threadgroup that holds query row i of the call.                     *)
GroupOf(i) == i \div BQ

(* The key columns the output of query row i is made of.  A column past    *)
(* the view that is taken all the same reads what lies behind it.          *)
FlashCols(c, i) ==
  {col \in 0 .. Ceil(c.kl, BK) * BK - 1 : Takes(c, GroupOf(i), c.pos + i, col)}

(* What it should be made of: the causal window, within the view.          *)
WindowCols(c, i) ==
  {col \in 0 .. c.kl - 1 :
     /\ col + c.koff <= c.pos + i
     /\ Windowed(c) => (c.pos + i) - (col + c.koff) < c.window}

(* The rows stored by threadgroup x: the short group stores its own only.  *)
StoredRows(c, x) == {x * BQ + r : r \in 0 .. QRows(c, x) - 1}
=============================================================================
