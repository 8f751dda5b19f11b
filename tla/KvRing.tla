------------------------------- MODULE KvRing -------------------------------
(***************************************************************************)
(* The tensor helpers of src/kv_cache.rs as pure operators.                *)
(*                                                                         *)
(* A cache tensor [n_kv_head, slot, head_dim] is a function from slots     *)
(* (0, 1, ...) to cells: the head and feature dimensions are moved as one, *)
(* so a cell stands for the K (and, by identical writes, the V) of one     *)
(* token.  A block of new keys [n_kv_head, seq, head_dim] is a sequence.   *)
(***************************************************************************)
EXTENDS Integers, Sequences

Smaller(a, b) == IF a <= b THEN a ELSE b

(* Tensor::narrow(1, at, n): n consecutive slots of a buffer. *)
Narrow(buf, at, n) == [i \in 1..n |-> buf[at + i - 1]]

(* Tensor::slice_set(src, 1, at): overwrite consecutive slots of a buffer. *)
SliceSet(buf, src, at) ==
  [i \in DOMAIN buf |->
     IF i \in at..(at + Len(src) - 1) THEN src[i - at + 1] ELSE buf[i]]

(* Mutant of WriteWrapped: the part past the boundary is never written. *)
WriteWrappedUnsplit(ring, src, start, w) == SliceSet(ring, src, start)

(* slice_set that splits at the boundary of a ring of w slots. *)
WriteWrapped(ring, src, start, w) ==
  IF start + Len(src) <= w
  THEN SliceSet(ring, src, start)
  ELSE LET first == w - start
       IN  SliceSet(SliceSet(ring, SubSeq(src, 1, first), start),
                    SubSeq(src, first + 1, Len(src)), 0)

(* Keys of absolute positions len, len+1, ... into the ring: of a block    *)
(* that is longer than the ring only the last w keys survive.              *)
WriteRingMulti(ring, new, len, w) ==
  LET seq == Len(new)
  IN  IF seq >= w
      THEN WriteWrapped(ring, SubSeq(new, seq - w + 1, seq), (len + seq - w) % w, w)
      ELSE WriteWrapped(ring, new, len % w, w)

(* Mutant of OrderedExisting: the ring as it lies. *)
OrderedExistingUnrotated(ring, len, w) == Narrow(ring, 0, Smaller(len, w))

(* The surviving keys of a ring that has stored len keys, oldest first. *)
OrderedExisting(ring, len, w) ==
  IF len <= w
  THEN Narrow(ring, 0, len)
  ELSE LET s == len % w
       IN  Narrow(ring, s, w - s) \o Narrow(ring, 0, s)

(* Mutant of SnapshotRing: the two segments in the order of the slots. *)
SnapshotRingBySlot(ring, len0, span, w) ==
  LET start == len0 % w
      seg1  == Smaller(span, w - start)
  IN  Narrow(ring, 0, span - seg1) \o Narrow(ring, start, seg1)

(* The cells that positions len0 .. len0+span-1 are about to overwrite, in *)
(* the order of those positions.                                           *)
SnapshotRing(ring, len0, span, w) ==
  LET start == len0 % w
      seg1  == Smaller(span, w - start)
  IN  Narrow(ring, start, seg1) \o Narrow(ring, 0, span - seg1)

(* Both segments of the snapshot lie in the ring; otherwise narrow fails.  *)
SnapshotFits(len0, span, w) == span - Smaller(span, w - (len0 % w)) <= w

-----------------------------------------------------------------------------
(* The additive masks: does query qi of a forward of seq tokens at         *)
(* position pos attend to column c of the view `append` returned?          *)
FullUnmasked(pos, qi, c) == c <= pos + qi

(* Mutant of SwaUnmasked: a window that is one key too wide. *)
SwaUnmaskedWide(pos, qi, c, w) ==
  LET kAbs == pos - Smaller(pos, w) + c
  IN  kAbs <= pos + qi /\ (pos + qi) - kAbs <= w

SwaUnmasked(pos, qi, c, w) ==
  LET kAbs == pos - Smaller(pos, w) + c
      qAbs == pos + qi
  IN  kAbs <= qAbs /\ qAbs - kAbs < w
=============================================================================
