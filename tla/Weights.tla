------------------------------- MODULE Weights -------------------------------
(***************************************************************************)
(* The lifetime of the model's weights (src/gguf.rs, LagunaModel::load):   *)
(* a GGUF file mapped once per open, no-copy Metal views over it, what     *)
(* holds them, the device's residency set, and the GPU that reads them     *)
(* after the CPU has moved on.                                             *)
(*                                                                         *)
(* A source is one opened file.  The views of a source are named by their  *)
(* tensor; tensors are loaded, and dropped again, in the order of the      *)
(* model's layers.  One thread loads, runs and drops models; the GPU       *)
(* completes what was dispatched at its own pace.                          *)
(***************************************************************************)
EXTENDS Integers, Sequences, FiniteSets

CONSTANTS
  Sources,       (* the files a process opens, one after the other        *)
  Kinds,         (* per tensor: "f16", "q8", "stack" or "copied"          *)
  Layouts,       (* the files' layouts: per tensor its offset and length  *)
  FileLen,       (* bytes in the file                                     *)
  Page,          (* vm_page_size                                          *)
  Align          (* per kind: the alignment its kernels need              *)

Tensors == DOMAIN Kinds

ASSUME WeightsAssumption ==
  /\ Kinds \in Seq({"f16", "q8", "stack", "copied"})
  /\ Layouts \subseteq [Tensors -> [off : Nat, len : Nat \ {0}]]
  /\ FileLen \in Nat
  /\ Page \in Nat \ {0}
  /\ Align \in [{"f16", "q8", "stack"} -> Nat \ {0}]

VARIABLES
  layout,        (* per source: where its tensors lie                     *)
  aliased,       (* per source: opened with a mapping, not to be copied   *)
  phase,         (* per source: how far its model's life is               *)
  source,        (* per source: the state of its MmapSource               *)
  built,         (* per source: the tensors the model holds so far        *)
  arcs,          (* per source: who holds a clone of the Arc<MmapSource>  *)
  pending,       (* per source: views created, not yet registered         *)
  registered,    (* per source: views this source has registered          *)
  mapped,        (* per source: whether the file's pages are mapped       *)
  resident,      (* the views the device's residency set retains          *)
  inflight       (* the views bound by command buffers not yet completed  *)

vars == <<layout, aliased, phase, source, built, arcs, pending, registered,
          mapped, resident, inflight>>

Phases == {"unopened", "loading", "loaded", "dropping", "unwinding", "closed"}
(* The clone of the opened file, which the loaded model's takes over.      *)
Handle == 0
Holders == Tensors \cup {Handle}
Views == Sources \X Tensors

-----------------------------------------------------------------------------
(* MmapSource::view *)

CeilDiv(a, b) == (a + b - 1) \div b

(* Mutant of ViewOf: the length ignores the place inside the first page.   *)
ViewOfShort(off, len) ==
  LET start == (off \div Page) * Page
  IN  [start |-> start, base |-> off - start, length |-> CeilDiv(len, Page) * Page]

(* The page-floored start, the tensor's place behind it and the           *)
(* page-ceiled length of the view over [off, off + len).                   *)
ViewOf(off, len) ==
  LET start == (off \div Page) * Page
      base  == off - start
  IN  [start |-> start, base |-> base, length |-> CeilDiv(base + len, Page) * Page]

View(s, t) == ViewOf(layout[s][t].off, layout[s][t].len)

InFile(s, t) == layout[s][t].off + layout[s][t].len <= FileLen
Aligned(s, t) == View(s, t).base % Align[Kinds[t]] = 0

-----------------------------------------------------------------------------
Init ==
  /\ layout \in [Sources -> Layouts]
  /\ aliased = [s \in Sources |-> FALSE]
  /\ phase = [s \in Sources |-> "unopened"]
  /\ source = [s \in Sources |-> "none"]
  /\ built = [s \in Sources |-> {}]
  /\ arcs = [s \in Sources |-> {}]
  /\ pending = [s \in Sources |-> {}]
  /\ registered = [s \in Sources |-> {}]
  /\ mapped = [s \in Sources |-> FALSE]
  /\ resident = {}
  /\ inflight = {}

(* The thread is not inside the drop of some source. *)
ThreadFree == \A s \in Sources : source[s] \notin {"draining", "quiet"}

(* gguf::open.  On Metal the file is mapped, unless LAGUNA_LOAD_CLASSIC.   *)
Open(s, map) ==
  /\ ThreadFree
  /\ phase[s] = "unopened"
  /\ phase' = [phase EXCEPT ![s] = "loading"]
  /\ aliased' = [aliased EXCEPT ![s] = map]
  /\ mapped' = [mapped EXCEPT ![s] = map]
  /\ source' = [source EXCEPT ![s] = IF map THEN "live" ELSE "none"]
  /\ arcs' = [arcs EXCEPT ![s] = IF map THEN {Handle} ELSE {}]
  /\ UNCHANGED <<layout, built, pending, registered, resident, inflight>>

NextTensor(s) == Cardinality(built[s]) + 1

(* Tensors uploaded whatever the open: on an aliased one the lm_head, that *)
(* qlinear_with_buffer reads into a private buffer.                        *)
Copied(s, t) == ~aliased[s] \/ Kinds[t] = "copied"

(* A classic open reads the tensor and uploads a private copy.             *)
CopyTensor(s) ==
  /\ ThreadFree
  /\ phase[s] = "loading"
  /\ NextTensor(s) \in Tensors /\ Copied(s, NextTensor(s))
  /\ built' = [built EXCEPT ![s] = @ \cup {NextTensor(s)}]
  /\ UNCHANGED <<layout, aliased, phase, source, arcs, pending, registered, mapped,
                 resident, inflight>>

(* A tensor aliased by a view, with the clones of the Arc it keeps.  The   *)
(* alignment is looked at after the view is made and queued.               *)
Alias(s, t, clones) ==
  /\ ThreadFree
  /\ phase[s] = "loading" /\ aliased[s]
  /\ pending' = IF InFile(s, t) THEN [pending EXCEPT ![s] = @ \cup {t}] ELSE pending
  /\ IF InFile(s, t) /\ Aligned(s, t)
     THEN /\ built' = [built EXCEPT ![s] = @ \cup {t}]
          /\ arcs' = [arcs EXCEPT ![s] = @ \cup clones]
          /\ phase' = phase
     ELSE phase' = [phase EXCEPT ![s] = "unwinding"] /\ UNCHANGED <<built, arcs>>
  /\ UNCHANGED <<layout, aliased, source, registered, mapped, resident, inflight>>

(* An f16 plane is a Tensor, which cannot carry the Arc. *)
AliasF16(s) ==
  \E t \in Tensors : t = NextTensor(s) /\ Kinds[t] = "f16" /\ Alias(s, t, {})

(* The q8 weights of a decode projection, and an expert stack, do.         *)
AliasQ8(s) ==
  \E t \in Tensors : t = NextTensor(s) /\ Kinds[t] = "q8" /\ Alias(s, t, {t})

AliasStack(s) ==
  \E t \in Tensors : t = NextTensor(s) /\ Kinds[t] = "stack" /\ Alias(s, t, {t})

(* A load that fails elsewhere, or an opened file no model is made of: the *)
(* drafter reads its file itself and ignores the mapping.                  *)
AbandonLoad(s) ==
  /\ ThreadFree
  /\ phase[s] = "loading"
  /\ phase' = [phase EXCEPT ![s] = "unwinding"]
  /\ UNCHANGED <<layout, aliased, source, built, arcs, pending, registered, mapped,
                 resident, inflight>>

(* Mutant of FinishLoad: the views stay in the list of those to register.  *)
FinishLoadUnregistered(s) ==
  /\ ThreadFree
  /\ phase[s] = "loading" /\ built[s] = Tensors
  /\ phase' = [phase EXCEPT ![s] = "loaded"]
  /\ UNCHANGED <<layout, aliased, source, built, arcs, pending, registered, mapped, resident,
                 inflight>>

(* The end of LagunaModel::load: register_views, then the model keeps a    *)
(* clone of the Arc and the file handle goes.                              *)
FinishLoad(s) ==
  /\ ThreadFree
  /\ phase[s] = "loading" /\ built[s] = Tensors
  /\ resident' = resident \cup {<<s, t>> : t \in pending[s]}
  /\ registered' = [registered EXCEPT ![s] = @ \cup pending[s]]
  /\ pending' = [pending EXCEPT ![s] = {}]
  /\ phase' = [phase EXCEPT ![s] = "loaded"]
  /\ UNCHANGED <<layout, aliased, source, built, arcs, mapped, inflight>>

(* A forward encodes kernels that bind a view and returns before they ran. *)
Dispatch(s, t) ==
  /\ ThreadFree
  /\ phase[s] = "loaded"
  /\ t \in built[s] /\ ~Copied(s, t)
  /\ inflight' = inflight \cup {<<s, t>>}
  /\ UNCHANGED <<layout, aliased, phase, source, built, arcs, pending, registered, mapped,
                 resident>>

GpuCompletes(v) ==
  /\ v \in inflight
  /\ inflight' = inflight \ {v}
  /\ UNCHANGED <<layout, aliased, phase, source, built, arcs, pending, registered, mapped,
                 resident>>

DropModel(s) ==
  /\ ThreadFree
  /\ phase[s] = "loaded"
  /\ phase' = [phase EXCEPT ![s] = "dropping"]
  /\ UNCHANGED <<layout, aliased, source, built, arcs, pending, registered, mapped,
                 resident, inflight>>

(* A clone of the Arc goes; with the last one the source's drop begins.    *)
ReleaseArc(s, h) ==
  /\ arcs' = [arcs EXCEPT ![s] = @ \ {h}]
  /\ source' = IF arcs[s] = {h} THEN [source EXCEPT ![s] = "draining"] ELSE source

(* Mutant of DropTensor: a tensor's clone of the Arc is leaked.            *)
DropTensorLeaky(s) ==
  /\ ThreadFree
  /\ phase[s] \in {"dropping", "unwinding"}
  /\ \E t \in built[s] :
       /\ \A u \in built[s] : t <= u
       /\ built' = [built EXCEPT ![s] = @ \ {t}]
  /\ UNCHANGED <<layout, aliased, phase, arcs, source, pending, registered, mapped,
                 resident, inflight>>

(* The layers are dropped front to back. *)
DropTensor(s) ==
  /\ ThreadFree
  /\ phase[s] \in {"dropping", "unwinding"}
  /\ \E t \in built[s] :
       /\ \A u \in built[s] : t <= u
       /\ built' = [built EXCEPT ![s] = @ \ {t}]
       /\ ReleaseArc(s, t)
  /\ UNCHANGED <<layout, aliased, phase, pending, registered, mapped, resident, inflight>>

(* _weights_mmap is the model's last field, and `gguf` outlives the locals *)
(* of a load that fails.                                                   *)
DropHandle(s) ==
  /\ ThreadFree
  /\ phase[s] \in {"dropping", "unwinding"} /\ built[s] = {}
  /\ ReleaseArc(s, Handle)
  /\ phase' = [phase EXCEPT ![s] = "closed"]
  /\ UNCHANGED <<layout, aliased, built, pending, registered, mapped, resident, inflight>>

(* Mutant of Quiesce: the drop does not wait for the GPU.                  *)
QuiesceAtOnce(s) ==
  /\ source[s] = "draining"
  /\ resident' = resident \ {<<s, t>> : t \in registered[s]}
  /\ source' = [source EXCEPT ![s] = "quiet"]
  /\ UNCHANGED <<layout, aliased, phase, built, arcs, pending, registered, mapped, inflight>>

(* The body of MmapSource::drop: wait_until_completed on the device, then  *)
(* unregister_external_buffers.                                            *)
Quiesce(s) ==
  /\ source[s] = "draining"
  /\ inflight = {}
  /\ resident' = resident \ {<<s, t>> : t \in registered[s]}
  /\ source' = [source EXCEPT ![s] = "quiet"]
  /\ UNCHANGED <<layout, aliased, phase, built, arcs, pending, registered, mapped, inflight>>

(* Then its fields: the map, which unmaps, and the two lists.              *)
Unmap(s) ==
  /\ source[s] = "quiet"
  /\ mapped' = [mapped EXCEPT ![s] = FALSE]
  /\ pending' = [pending EXCEPT ![s] = {}]
  /\ registered' = [registered EXCEPT ![s] = {}]
  /\ source' = [source EXCEPT ![s] = "gone"]
  /\ UNCHANGED <<layout, aliased, phase, built, arcs, resident, inflight>>

Dropping(s) == DropTensor(s) \/ DropHandle(s) \/ Quiesce(s) \/ Unmap(s)

Next ==
  \/ \E s \in Sources :
       \/ \E map \in BOOLEAN : Open(s, map)
       \/ CopyTensor(s) \/ AliasF16(s) \/ AliasQ8(s) \/ AliasStack(s) \/ AbandonLoad(s) \/ FinishLoad(s)
       \/ \E t \in Tensors : Dispatch(s, t)
       \/ DropModel(s)
       \/ Dropping(s)
  \/ \E v \in Views : GpuCompletes(v)

(* A drop that has begun goes on, and the GPU completes what it was given. *)
Fairness ==
  /\ \A s \in Sources : WF_vars(Dropping(s))
  /\ \A v \in Views : WF_vars(GpuCompletes(v))

Spec == Init /\ [][Next]_vars /\ Fairness

-----------------------------------------------------------------------------
(* Properties *)

TypeOK ==
  /\ layout \in [Sources -> Layouts]
  /\ aliased \in [Sources -> BOOLEAN]
  /\ phase \in [Sources -> Phases]
  /\ source \in [Sources -> {"none", "live", "draining", "quiet", "gone"}]
  /\ built \in [Sources -> SUBSET Tensors]
  /\ arcs \in [Sources -> SUBSET Holders]
  /\ pending \in [Sources -> SUBSET Tensors]
  /\ registered \in [Sources -> SUBSET Tensors]
  /\ mapped \in [Sources -> BOOLEAN]
  /\ resident \subseteq Views
  /\ inflight \subseteq Views

(* The lifetime invariant of MmapSource: the pages stay mapped as long as  *)
(* a tensor aliases them and as long as the GPU may still read them, on    *)
(* every way out of a load and whatever is dispatched when a model goes.   *)
ViewsMapped ==
  /\ \A s \in Sources : (\E t \in built[s] : ~Copied(s, t)) => mapped[s]
  /\ \A v \in inflight : mapped[v[1]]

(* A view covers its tensor, lies in the mapped pages, and its tensor      *)
(* starts inside the first page at the alignment its kernels need.         *)
ViewsCover ==
  \A s \in Sources : \A t \in built[s] : ~Copied(s, t) =>
    LET v == View(s, t) IN
    /\ v.start % Page = 0 /\ v.length % Page = 0
    /\ v.base < Page /\ v.base % Align[Kinds[t]] = 0
    /\ v.start + v.base = layout[s][t].off
    /\ v.base + layout[s][t].len <= v.length
    /\ v.start + v.length <= CeilDiv(FileLen, Page) * Page

(* A running model's views are all resident, and the residency set, which  *)
(* retains what it holds, keeps nothing of a source that is gone.          *)
ResidencyExact ==
  /\ \A s \in Sources : phase[s] = "loaded" =>
       \A t \in Tensors : ~Copied(s, t) => <<s, t>> \in resident
  /\ \A v \in resident : mapped[v[1]] /\ v[2] \in registered[v[1]]

(* Load and drop cycles are leak-free: a dropped model, and what a failed  *)
(* load left, ends with its file unmapped and none of its views retained.  *)
DropsComplete ==
  \A s \in Sources :
    phase[s] \in {"dropping", "unwinding"} ~>
      phase[s] = "closed" /\ ~mapped[s] /\ \A v \in resident : v[1] # s
=============================================================================
