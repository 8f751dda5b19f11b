---------------------------- MODULE WeightsProofs ----------------------------
(***************************************************************************)
(* The weights' memory is safe for every number of files, every sequence   *)
(* of tensors and every layout: no view outlives its mapping on the CPU or *)
(* the GPU, the residency set holds exactly what it should, and each view  *)
(* covers its tensor inside the mapped pages.                              *)
(***************************************************************************)
EXTENDS Weights, Lemmas, TLAPS

Opened(s) == phase[s] \in {"loading", "loaded", "dropping", "unwinding"}

(* The file handle's clone of the Arc keeps a source live while its model  *)
(* is; a classic open has neither.  The pages go with the source's fields. *)
SourceLives ==
  \A s \in Sources :
    /\ ~Opened(s) => built[s] = {}
    /\ phase[s] = "unopened" => ~aliased[s]
    /\ Opened(s) /\ aliased[s] => source[s] = "live" /\ Handle \in arcs[s]
    /\ ~aliased[s] => source[s] = "none" /\ arcs[s] = {} /\ pending[s] = {}
    /\ mapped[s] <=> source[s] \in {"live", "draining", "quiet"}

(* What the GPU and the residency set hold belongs to sources not yet      *)
(* quiet.                                                                  *)
HeldAlive ==
  /\ \A v \in inflight : source[v[1]] \in {"live", "draining"}
  /\ \A v \in resident : source[v[1]] \in {"live", "draining"} /\ v[2] \in registered[v[1]]

(* The views of what was built passed both checks, and wait to be          *)
(* registered until the load is over.                                      *)
BuiltViews ==
  \A s \in Sources : \A t \in built[s] : ~Copied(s, t) =>
    /\ InFile(s, t) /\ Aligned(s, t)
    /\ phase[s] = "loading" => t \in pending[s]

LoadedResident ==
  \A s \in Sources : phase[s] = "loaded" =>
    \A t \in Tensors : ~Copied(s, t) => <<s, t>> \in resident

IInv == TypeOK /\ SourceLives /\ HeldAlive /\ BuiltViews /\ LoadedResident

-----------------------------------------------------------------------------
LEMMA HandleApart == Handle \notin Tensors
<1>1. Kinds \in Seq({"f16", "q8", "stack", "copied"})
  BY WeightsAssumption
<1>2. Tensors = 1 .. Len(Kinds) /\ Len(Kinds) \in Nat
  BY <1>1 DEF Tensors
<1> QED
  BY <1>2 DEF Handle

LEMMA InitInv == Init => IInv
<1> SUFFICES ASSUME Init PROVE IInv
  OBVIOUS
<1>1. TypeOK
  BY DEF Init, TypeOK, Phases
<1>2. SourceLives /\ HeldAlive /\ BuiltViews /\ LoadedResident
  BY DEF Init, SourceLives, HeldAlive, BuiltViews, LoadedResident, Opened
<1> QED
  BY <1>1, <1>2 DEF IInv

LEMMA OpenStep ==
  ASSUME IInv, NEW s \in Sources, NEW map \in BOOLEAN, Open(s, map)
  PROVE  IInv'
<1>1. TypeOK'
  BY DEF IInv, Open, TypeOK, Phases, Holders
<1>2. SourceLives'
  BY DEF IInv, Open, TypeOK, SourceLives, Opened
<1>3. HeldAlive'
  BY DEF IInv, Open, SourceLives, HeldAlive
<1>4. BuiltViews'
  BY DEF IInv, Open, SourceLives, BuiltViews, Opened, Copied, InFile, Aligned, View
<1>5. LoadedResident'
  BY DEF IInv, Open, LoadedResident, Copied
<1> QED
  BY <1>1, <1>2, <1>3, <1>4, <1>5 DEF IInv

LEMMA CopyStep ==
  ASSUME IInv, NEW s \in Sources, CopyTensor(s)
  PROVE  IInv'
<1>1. TypeOK'
  BY DEF IInv, CopyTensor, TypeOK
<1>2. SourceLives'
  BY DEF IInv, CopyTensor, SourceLives, Opened
<1>3. HeldAlive'
  BY DEF IInv, CopyTensor, HeldAlive
<1>4. BuiltViews'
  BY DEF IInv, CopyTensor, BuiltViews, Copied, InFile, Aligned, View
<1>5. LoadedResident'
  BY DEF IInv, CopyTensor, LoadedResident, Copied
<1> QED
  BY <1>1, <1>2, <1>3, <1>4, <1>5 DEF IInv

LEMMA AliasStep ==
  ASSUME IInv, NEW s \in Sources, NEW t \in Tensors, NEW clones \in SUBSET {t}, Alias(s, t, clones)
  PROVE  IInv'
<1>1. TypeOK'
  BY DEF IInv, Alias, TypeOK, Phases, Holders
<1>2. SourceLives'
  BY DEF IInv, Alias, TypeOK, SourceLives, Opened
<1>3. HeldAlive'
  BY DEF IInv, Alias, HeldAlive
<1>4. BuiltViews'
  BY DEF IInv, Alias, TypeOK, BuiltViews, Copied, InFile, Aligned, View
<1>5. LoadedResident'
  BY DEF IInv, Alias, TypeOK, LoadedResident, Copied
<1> QED
  BY <1>1, <1>2, <1>3, <1>4, <1>5 DEF IInv

LEMMA AbandonStep ==
  ASSUME IInv, NEW s \in Sources, AbandonLoad(s)
  PROVE  IInv'
<1>1. TypeOK'
  BY DEF IInv, AbandonLoad, TypeOK, Phases
<1>2. SourceLives'
  BY DEF IInv, AbandonLoad, SourceLives, Opened
<1>3. HeldAlive'
  BY DEF IInv, AbandonLoad, HeldAlive
<1>4. BuiltViews'
  BY DEF IInv, AbandonLoad, BuiltViews, Copied, InFile, Aligned, View
<1>5. LoadedResident'
  BY DEF IInv, AbandonLoad, LoadedResident, Copied
<1> QED
  BY <1>1, <1>2, <1>3, <1>4, <1>5 DEF IInv

LEMMA FinishStep ==
  ASSUME IInv, NEW s \in Sources, FinishLoad(s)
  PROVE  IInv'
<1>1. TypeOK'
  BY DEF IInv, FinishLoad, TypeOK, Phases, Views
<1>2. SourceLives'
  BY DEF IInv, FinishLoad, SourceLives, Opened
<1>3. HeldAlive'
  BY DEF IInv, FinishLoad, TypeOK, SourceLives, HeldAlive
<1>4. BuiltViews'
  BY DEF IInv, FinishLoad, TypeOK, BuiltViews, Copied, InFile, Aligned, View
<1>5. LoadedResident'
  BY DEF IInv, FinishLoad, BuiltViews, LoadedResident, Copied
<1> QED
  BY <1>1, <1>2, <1>3, <1>4, <1>5 DEF IInv

LEMMA DispatchStep ==
  ASSUME IInv, NEW s \in Sources, NEW t \in Tensors, Dispatch(s, t)
  PROVE  IInv'
<1>1. TypeOK'
  BY DEF IInv, Dispatch, TypeOK, Views
<1>2. SourceLives'
  BY DEF IInv, Dispatch, SourceLives, Opened
<1>3. HeldAlive'
  BY DEF IInv, Dispatch, SourceLives, HeldAlive, Copied
<1>4. BuiltViews'
  BY DEF IInv, Dispatch, BuiltViews, Copied, InFile, Aligned, View
<1>5. LoadedResident'
  BY DEF IInv, Dispatch, LoadedResident, Copied
<1> QED
  BY <1>1, <1>2, <1>3, <1>4, <1>5 DEF IInv

LEMMA CompleteStep ==
  ASSUME IInv, NEW v \in Views, GpuCompletes(v)
  PROVE  IInv'
<1>1. TypeOK'
  BY DEF IInv, GpuCompletes, TypeOK
<1>2. SourceLives'
  BY DEF IInv, GpuCompletes, SourceLives, Opened
<1>3. HeldAlive'
  BY DEF IInv, GpuCompletes, HeldAlive
<1>4. BuiltViews'
  BY DEF IInv, GpuCompletes, BuiltViews, Copied, InFile, Aligned, View
<1>5. LoadedResident'
  BY DEF IInv, GpuCompletes, LoadedResident, Copied
<1> QED
  BY <1>1, <1>2, <1>3, <1>4, <1>5 DEF IInv

LEMMA DropModelStep ==
  ASSUME IInv, NEW s \in Sources, DropModel(s)
  PROVE  IInv'
<1>1. TypeOK'
  BY DEF IInv, DropModel, TypeOK, Phases
<1>2. SourceLives'
  BY DEF IInv, DropModel, SourceLives, Opened
<1>3. HeldAlive'
  BY DEF IInv, DropModel, HeldAlive
<1>4. BuiltViews'
  BY DEF IInv, DropModel, BuiltViews, Copied, InFile, Aligned, View
<1>5. LoadedResident'
  BY DEF IInv, DropModel, LoadedResident, Copied
<1> QED
  BY <1>1, <1>2, <1>3, <1>4, <1>5 DEF IInv

LEMMA DropTensorStep ==
  ASSUME IInv, NEW s \in Sources, DropTensor(s)
  PROVE  IInv'
<1>1. TypeOK'
  BY DEF IInv, DropTensor, ReleaseArc, TypeOK
<1>2. SourceLives'
  BY HandleApart DEF IInv, DropTensor, ReleaseArc, TypeOK, SourceLives, Opened
<1>3. HeldAlive'
  BY DEF IInv, DropTensor, ReleaseArc, HeldAlive
<1>4. BuiltViews'
  BY DEF IInv, DropTensor, BuiltViews, Copied, InFile, Aligned, View
<1>5. LoadedResident'
  BY DEF IInv, DropTensor, LoadedResident, Copied
<1> QED
  BY <1>1, <1>2, <1>3, <1>4, <1>5 DEF IInv

LEMMA DropHandleStep ==
  ASSUME IInv, NEW s \in Sources, DropHandle(s)
  PROVE  IInv'
<1>1. TypeOK'
  BY DEF IInv, DropHandle, ReleaseArc, TypeOK, Phases
<1>2. SourceLives'
  BY DEF IInv, DropHandle, ReleaseArc, TypeOK, SourceLives, Opened
<1>3. HeldAlive'
  BY DEF IInv, DropHandle, ReleaseArc, HeldAlive
<1>4. BuiltViews'
  BY DEF IInv, DropHandle, BuiltViews, Copied, InFile, Aligned, View
<1>5. LoadedResident'
  BY DEF IInv, DropHandle, LoadedResident, Copied
<1> QED
  BY <1>1, <1>2, <1>3, <1>4, <1>5 DEF IInv

LEMMA QuiesceStep ==
  ASSUME IInv, NEW s \in Sources, Quiesce(s)
  PROVE  IInv'
<1>1. TypeOK'
  BY DEF IInv, Quiesce, TypeOK
<1>2. SourceLives'
  BY DEF IInv, Quiesce, SourceLives, Opened
<1>3. HeldAlive'
  BY DEF IInv, Quiesce, TypeOK, HeldAlive, Views
<1>4. BuiltViews'
  BY DEF IInv, Quiesce, BuiltViews, Copied, InFile, Aligned, View
<1>5. LoadedResident'
  BY DEF IInv, Quiesce, SourceLives, LoadedResident, Opened, Copied
<1> QED
  BY <1>1, <1>2, <1>3, <1>4, <1>5 DEF IInv

LEMMA UnmapStep ==
  ASSUME IInv, NEW s \in Sources, Unmap(s)
  PROVE  IInv'
<1>1. TypeOK'
  BY DEF IInv, Unmap, TypeOK
<1>2. SourceLives'
  BY DEF IInv, Unmap, TypeOK, SourceLives, Opened
<1>3. HeldAlive'
  BY DEF IInv, Unmap, HeldAlive
<1>4. BuiltViews'
  BY DEF IInv, Unmap, SourceLives, BuiltViews, Copied, InFile, Aligned, View
<1>5. LoadedResident'
  BY DEF IInv, Unmap, LoadedResident, Copied
<1> QED
  BY <1>1, <1>2, <1>3, <1>4, <1>5 DEF IInv

LEMMA StepInv == IInv /\ [Next]_vars => IInv'
<1> SUFFICES ASSUME IInv, [Next]_vars PROVE IInv'
  OBVIOUS
<1>1. CASE UNCHANGED vars
  BY <1>1 DEF vars, IInv, TypeOK, SourceLives, HeldAlive, BuiltViews, LoadedResident,
              Opened, Copied, InFile, Aligned, View
<1>2. ASSUME NEW v \in Views, GpuCompletes(v) PROVE IInv'
  BY <1>2, CompleteStep
<1>3. ASSUME NEW s \in Sources, AliasF16(s) \/ AliasQ8(s) \/ AliasStack(s) PROVE IInv'
  <2>1. PICK t \in Tensors : Alias(s, t, {}) \/ Alias(s, t, {t})
    BY <1>3 DEF AliasF16, AliasQ8, AliasStack
  <2> QED
    BY <2>1, AliasStep
<1>4. ASSUME NEW s \in Sources, Dropping(s) PROVE IInv'
  BY <1>4, DropTensorStep, DropHandleStep, QuiesceStep, UnmapStep DEF Dropping
<1>5. ASSUME NEW s \in Sources, NEW map \in BOOLEAN, Open(s, map) PROVE IInv'
  BY <1>5, OpenStep
<1>6. ASSUME NEW s \in Sources, NEW t \in Tensors, Dispatch(s, t) PROVE IInv'
  BY <1>6, DispatchStep
<1>7. ASSUME NEW s \in Sources,
             CopyTensor(s) \/ AbandonLoad(s) \/ FinishLoad(s) \/ DropModel(s)
      PROVE  IInv'
  BY <1>7, CopyStep, AbandonStep, FinishStep, DropModelStep
<1> QED
  BY <1>1, <1>2, <1>3, <1>4, <1>5, <1>6, <1>7 DEF Next

LEMMA Inductive == Spec => []IInv
  BY InitInv, StepInv, PTL DEF Spec

-----------------------------------------------------------------------------
(* The pages of a file stay mapped as long as a tensor of the model        *)
(* aliases them and as long as the GPU may read them (MmapSource's Arc     *)
(* clones, and the wait in its drop).                                      *)
THEOREM MappedWhileViewed == Spec => []ViewsMapped
<1>1. IInv => ViewsMapped
  <2> SUFFICES ASSUME IInv PROVE ViewsMapped
    OBVIOUS
  <2>1. ASSUME NEW s \in Sources, NEW t \in built[s], ~Copied(s, t) PROVE mapped[s]
    BY <2>1 DEF IInv, SourceLives, Copied
  <2>2. ASSUME NEW v \in inflight PROVE mapped[v[1]]
    BY <2>2 DEF IInv, TypeOK, Views, SourceLives, HeldAlive
  <2> QED
    BY <2>1, <2>2 DEF ViewsMapped
<1> QED
  BY <1>1, Inductive, PTL

(* A running model's views are all in the residency set, which retains     *)
(* nothing whose pages are gone (register_views, and the unregistering in  *)
(* MmapSource's drop).                                                     *)
THEOREM ResidencyHolds == Spec => []ResidencyExact
<1>1. IInv => ResidencyExact
  BY DEF IInv, TypeOK, Views, SourceLives, HeldAlive, LoadedResident, ResidencyExact
<1> QED
  BY <1>1, Inductive, PTL

(* The arithmetic of MmapSource::view. *)
LEMMA ViewOfBounds ==
  ASSUME NEW off \in Nat, NEW len \in Nat, NEW n \in Nat, off + len <= n
  PROVE  /\ \E q \in Nat : ViewOf(off, len).start = q * Page
         /\ \E q \in Nat : ViewOf(off, len).length = q * Page
         /\ ViewOf(off, len).base \in 0 .. Page - 1
         /\ ViewOf(off, len).start + ViewOf(off, len).base = off
         /\ ViewOf(off, len).base + len <= ViewOf(off, len).length
         /\ ViewOf(off, len).start + ViewOf(off, len).length <= CeilDiv(n, Page) * Page
<1> DEFINE p == off \div Page
           base == off - p * Page
           q == (base + len + Page - 1) \div Page
           c == (n + Page - 1) \div Page
<1>1. Page \in Nat \ {0}
  BY WeightsAssumption
<1>2. p \in Nat /\ p * Page <= off /\ off < (p * Page) + Page
  BY <1>1, DivBounds, Zenon
<1>3. p * Page \in Nat
  BY <1>1, <1>2
<1>4. base \in 0 .. Page - 1 /\ p * Page + base = off
  BY <1>1, <1>2, <1>3
<1> HIDE DEF p, base
<1>5. base + len \in Nat
  BY <1>4
<1>6. q \in Nat /\ base + len <= q * Page /\ q * Page < base + len + Page
  BY <1>1, <1>5, RoundUp, Zenon
<1>7. c \in Nat /\ n <= c * Page
  BY <1>1, RoundUp, Zenon
<1>8. /\ ViewOf(off, len).start = p * Page
      /\ ViewOf(off, len).base = base
      /\ ViewOf(off, len).length = q * Page
      /\ CeilDiv(n, Page) = c
  BY DEF ViewOf, CeilDiv, p, base
<1> HIDE DEF q, c
<1>9. q * Page \in Nat /\ c * Page \in Nat
  BY <1>1, <1>6, <1>7
<1>10. p * Page + q * Page <= c * Page
  <2>1. (p + q) * Page = (p * Page) + (q * Page)
    BY <1>1, <1>2, <1>6
  <2>2. (p + q) * Page < (c * Page) + Page
    BY <1>1, <1>3, <1>4, <1>6, <1>7, <1>9, <2>1
  <2>3. p + q \in Int /\ c \in Int
    BY <1>2, <1>6, <1>7
  <2>4. p + q <= c
    BY <1>1, <2>2, <2>3, BlockOrder, Zenon
  <2>5. (c - (p + q)) * Page >= 0
    BY <1>1, <2>3, <2>4
  <2>6. (c - (p + q)) * Page = (c * Page) - ((p + q) * Page)
    BY <1>1, <2>3
  <2> QED
    BY <1>3, <1>9, <2>1, <2>5, <2>6
<1> QED
  BY <1>2, <1>4, <1>6, <1>8, <1>10

(* Every view a model holds covers its tensor, lies in the mapped pages,   *)
(* and its tensor starts inside the first page at the alignment its        *)
(* kernels need, wherever the file lays its tensors.                       *)
THEOREM ViewsAreExact == Spec => []ViewsCover
<1>1. IInv => ViewsCover
  <2> SUFFICES ASSUME IInv, NEW s \in Sources, NEW t \in built[s], ~Copied(s, t)
               PROVE  LET v == View(s, t) IN
                      /\ v.start % Page = 0 /\ v.length % Page = 0
                      /\ v.base < Page /\ v.base % Align[Kinds[t]] = 0
                      /\ v.start + v.base = layout[s][t].off
                      /\ v.base + layout[s][t].len <= v.length
                      /\ v.start + v.length <= CeilDiv(FileLen, Page) * Page
    BY DEF ViewsCover
  <2> DEFINE off == layout[s][t].off
             len == layout[s][t].len
             v == View(s, t)
  <2>1. off \in Nat /\ len \in Nat
    <3>1. t \in Tensors /\ layout[s] \in Layouts
      BY DEF IInv, TypeOK
    <3>2. layout[s] \in [Tensors -> [off : Nat, len : Nat \ {0}]]
      BY <3>1, WeightsAssumption
    <3> QED
      BY <3>1, <3>2
  <2>2. off + len <= FileLen /\ v.base % Align[Kinds[t]] = 0
    BY DEF IInv, BuiltViews, InFile, Aligned
  <2>3. FileLen \in Nat /\ Page \in Nat \ {0}
    BY WeightsAssumption
  <2>4. v = ViewOf(off, len)
    BY DEF View
  <2> HIDE DEF off, len, v
  <2>5. /\ \E q \in Nat : v.start = q * Page
        /\ \E q \in Nat : v.length = q * Page
        /\ v.base \in 0 .. Page - 1
        /\ v.start + v.base = off
        /\ v.base + len <= v.length
        /\ v.start + v.length <= CeilDiv(FileLen, Page) * Page
    <3>1. off + len <= FileLen
      BY <2>2
    <3>2. /\ \E q \in Nat : ViewOf(off, len).start = q * Page
          /\ \E q \in Nat : ViewOf(off, len).length = q * Page
          /\ ViewOf(off, len).base \in 0 .. Page - 1
          /\ ViewOf(off, len).start + ViewOf(off, len).base = off
          /\ ViewOf(off, len).base + len <= ViewOf(off, len).length
          /\ ViewOf(off, len).start + ViewOf(off, len).length <= CeilDiv(FileLen, Page) * Page
      BY <2>1, <2>3, <3>1, ViewOfBounds, Zenon
    <3> QED
      BY <2>4, <3>2, Zenon
  <2>6. \A q \in Nat : (q * Page) % Page = 0
    BY <2>3
  <2>7. v.start % Page = 0 /\ v.length % Page = 0
    BY <2>5, <2>6
  <2>8. v.base < Page
    BY <2>3, <2>5
  <2> QED
    BY <2>2, <2>5, <2>7, <2>8 DEF off, len, v
<1> QED
  BY <1>1, Inductive, PTL
=============================================================================
