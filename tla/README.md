# Verification of laguna

TLA+ models of the laguna inference engine (`src/`), the TLC runs that check
them on small instances, and TLAPS proofs of what matters most for instances of
every size.

laguna runs one mixture-of-experts language model on one GPU for one user.
There is no server and no batch; the arithmetic is done by kernels that are
tested bit by bit against a reference engine. What tests reach badly is the
bookkeeping around the arithmetic: which key lies in which ring slot after a
partly accepted speculative block, whether the sampler's random stream stays in
step with plain decode, whether a key press reaches the reply it was meant for.
The models are about that.

## 1. Inventory

| Component | State | Operations | What is hard |
|---|---|---|---|
| KV cache, `kv_cache.rs` | per layer: K and V tensors, `len`; a ring of `sliding_window` slots or `max_ctx` slots | `append`, `attn_mask_for`, `checkpoint`, `rollback`, `reset` | ring arithmetic at every phase and block length; restoring evicted keys; a mask computed apart from the view it applies to |
| Model, `model.rs` | caches of all layers, spec taps | `forward`, `forward_all_logits`, `kv_checkpoint`, `kv_rollback`, `reset_cache`, `take_spec_taps` | a failure between two layers; the length read off the first layer; masks built once per kind of layer; taps nobody took |
| Plain decode, `generate.rs` | position, decoded count, logits, text stream | `generate` | cancellation and failure anywhere; the budget check made once, up front |
| Speculative decode, `generate.rs` | the same, `id_last`, drafts, committed tokens | `generate_spec`, `accept_drafts` | three caches and a random stream that must agree after every rejection |
| Drafter, `dflash.rs` | its cache and `committed` | `encode`, `inject`, `draft_forward`, `truncate`, `reset` | scratch rows written over the place of later rows |
| Auto-pause, `generate.rs` | moving averages, sample counts, state, backoff, probe event | `next_kind`, `record` | counters that move in different branches; being stuck in a pause |
| Sampler, `sampler.rs` | the seeded stream | `sample`, `sample_masked` | one draw per committed token, in order |
| Chat, `bin/laguna/repl.rs` | flags `generating` and `cancel`, the input channel, `last_cancel`, the conversation | input thread, main loop, `stream_reply` | two threads, flags read and written apart |
| Weights, `gguf.rs` | file mapping, views, pending and registered lists | `open`, `view`, `register_views`, drop | lifetime of views against the mapping and the GPU |
| Attention, MoE, `attention.rs`, `moe.rs` | weights only | routing, projections, choice of kernel | thirteen switches, each with a fused and a classic chain that must agree; grouping of tokens by expert |
| Kernels, `ops/` | pipeline cache | dispatch and Metal kernels | tile, block and index geometry; kernel names built by hand; what a dispatch refuses |
| Text, `tokenizer.rs`, `chat.rs` | id window and prefix of `DecodeStream` | `step`, `build_prompt` | text withheld inside a character |
| Command line, configuration, parity tools | none that lasts | | sequential, or numerics |

**Interactions.** The chat's main thread calls `Generator::generate`, which
drives the model with ever growing positions; each layer's attention appends to
its own cache. A speculative round calls the drafter, takes a checkpoint of the
caches, verifies the block in one forward, rolls the caches back to the kept
prefix and injects that prefix's taps into the drafter. The pause controller is
asked before each round and told its cost after it. `generate` calls back into
the chat with text and polls a closure that loads `cancel`; the input thread
sets that flag. An error of any step unwinds to the caller of `generate`; no
state is repaired on the way, the next `generate` starts with `reset_cache` and
`DflashDrafter::reset`.

**What makes each component correct**, in one line each: the cache behaves as an
unbounded log of keys of which a query sees the last `window` (or all); both
decode loops stream one and the same token sequence and leave the caches in the
same exit state; the controller never stops trying, never acts on a stale cost,
and spends no plain round on refreshing a fresh one; a cancel key ends the reply it was pressed in and no other;
a view never outlives its mapping; the kernels' block and grouping geometry
visits what the per-token definition visits; the text stream emits each
character once.

## 2. Modules

| Module | Models | Uses |
|---|---|---|
| `KvRing` | the tensor helpers of `kv_cache.rs` and the two masks, as operators | |
| `KvCache` | all layers' caches and the calls of `model.rs` on them | `KvRing`; refines `KvLog` |
| `KvLog` | abstract: one unbounded log per layer | |
| `DecodeStream` | the stream decoder of `tokenizer.rs`, as operators | |
| `Generation` | what the two decode loops share: the call and its checks, the target as the log of tokens fed to it, the sampler, the emission of a token | `DecodeStream`; refines `TokenStream` |
| `PlainDecode` | `generate` without a drafter | `Generation` |
| `SpecDecode` | `generate_spec`, with the drafter's cache | `Generation` |
| `TokenStream` | abstract: what the caller of `generate` is promised | |
| `Drafter` | loading of a drafter, spec taps, `encode`, `inject` and `draft_forward` layer by layer, driven by the rounds of `generate_spec` | |
| `PauseController` | `PauseController` | |
| `ChatPrompt` | `build_prompt` and `split_thinking`, as operators | |
| `Repl` | the two threads of the chat | `ChatPrompt` |
| `Weights` | opening, aliasing, registering, running and dropping of GGUF files | |
| `FlashBlocks` | the block geometry of the flash kernel, as operators | |
| `ExpertMap` | the two passes of the grouped expert matmul, as operators | |
| `Kernels` | per kernel of `dispatch.rs`: its refusals, its result, its launch | `FlashBlocks`, `ExpertMap` |
| `ForwardState` | the state of one forward pass; `compiled_pipeline` | `Kernels` |
| `AttnBlock`, `MoeBlock` | `AttnBlock::forward`; the feed-forward half of a layer | `ForwardState`, `KvRing` |
| `Forward` | `forward` and `forward_all_logits`, and the record of `logits-dump` | `AttnBlock`, `MoeBlock` |
| `KvCacheProofs`, `PlainDecodeProofs`, `SpecDecodeProofs`, `ReplProofs`, `WeightsProofs` | theorems about the module they are named after | `Lemmas` |
| `DrafterProofs` | theorems about `Drafter` and `PauseController` | `Lemmas` |
| `ForwardProofs` | theorems about `FlashBlocks`, `ExpertMap` and the forward composed of them | `Lemmas` |
| `Lemmas` | division and blocks, least and greatest elements, prefixes and joins of sequences, recursive functions | |

The `MC` modules give the constants their values for TLC. `PauseController`
names its specification `PauseSpec`, since its theorems stand in one module with
those of `Drafter`. A definition whose
comment begins with "Mutant of" is a wrong variant of the one it names; no
specification uses it.

### KvCache

`buf[l]` is a layer's tensor as a function from slots to cells. A cell stands
for the K and V of one token over all heads (the code writes them by identical
calls) and is `<<position, token>>`: a key depends on its token and, through
rope, on its absolute position. `len[l]` is the layer's own `len`; `pos` is what
the caller passes to the next forward. The layer loops of `run_stack` and
`kv_rollback` are one action per iteration (`LayerAppend`, `LayerRollback`), so
that `Fail`, which stands for an error of any call, leaves some layers ahead
of others, as in the code. `phase` follows the caller: forwards from `idle`, or
checkpoint, verify of exactly that span, rollback. `log` records what was last
fed at each position, and `seen` what each query of the latest forward attended
to: the columns of the view `append` returned that `attn_mask_for` leaves open.

### Generation, PlainDecode, SpecDecode

Below the decode loops the target's caches are used as the log `KvLog` specifies
and `KvCache` implements; a verify, its walk and the rollback are three states.
The sampler is seeded, so a draw is a function of the number of draws before it,
of the context and of the mask. `script` is that function along the path plain
decode takes, and is arbitrary: draw `k` over the prompt followed by the first
`k-1` script tokens, masked if and only if `k` is within the reasoning floor,
gives `script[k]`; any other draw gives any token its mask allows. A loop that
draws once too often, over a wrong context, or without the mask, therefore
leaves the script in some behaviour, and `ImplementsStream` sees it.
What the drafter proposes and whether a round drafts are unconstrained, so the
properties of `SpecDecode` hold for every drafter and every pause policy.

Every emitted token goes through `StreamStep`, which is `DecodeStream::step` of
the tokenizers crate as `tokenizer.rs` uses it. A token is a string of bytes, a
byte standing for a character or for half of one; the id window, its prefix and
the prefix index are those of the crate, and `Decode` is a lossy conversion of
the window, so a wrong slide, a stale prefix or a character said twice shows as a
wrong text. `TextIsReply` compares with a decode of the whole reply.

### Drafter

`SpecDecode` takes a draft, an injection and the taps as one step each; `Drafter`
takes them apart. A residual is the layer it leaves and the tokens it was
computed over; a cache row is the fused taps and the position of its rope, or a
noise row with what it was made from. `Captured` is keyed by layer, as
`run_stack` captures; `Ordered` is `order_spec_taps`. `InjectLayer` and
`DraftLayer` are one turn of the layer loops, and `Leave` may drop the call
between any two steps, with rows, taps and the committed length as they stand.
A file is a record of what the checks of `DflashDrafter::load`, `build` and
`attach_drafter` look at. `ModelEmbd` is the width of the target's residuals and
embeddings, which no step before `encode` compares with the drafter's.

### PauseController

Each comparison of two measured costs is a free choice. Averages are present
exactly when a sample was folded in, so sample counts stand for them. The run
uses the constants of the code unscaled; counters that the code only compares
against a limit stop at that limit.

### Repl

Each load, store and swap of an atomic flag is an action, and the two threads
interleave freely; the channel is bounded by `MaxQueue` (the code's is
unbounded). Time is one distinction, less or more than a second ago, and
`Second` passes at any moment. A reply ends when its poll sees the flag, by
itself, or with an error. Keys other than Enter, Ctrl-C and Esc change only the
line being edited and are left out; Enter submits a message, `/clear`, `/quit` or
nothing. Chat attaches no drafter (`main.rs`), so its polls are those of
`PlainDecode`. A reply is a sequence of pieces (reasoning, `</think>`,
whitespace, answer); `Record` splits it as `split_thinking` does and the next
prompt is rendered by `BuildPrompt`.

### Weights

One opened file is a *source*. `arcs` are the holders of its `Arc<MmapSource>`,
`built` the tensors of the model made from it, `pending` and `registered` the two
lists of `MmapSource`, `resident` the device's residency set, `inflight` the
views bound by command buffers that have not completed. A view is created before
its alignment is checked, a load may fail at every tensor, and the drop of the
last `Arc` is three steps: wait for the GPU, unregister, unmap. An f16 plane
keeps no `Arc` of its own, as in the code: that its pages stay mapped is what
`ViewsMapped` has to show. `wait_until_completed` is taken to return once nothing
is in flight, which is what `gguf.rs` relies on.

### FlashBlocks, ExpertMap, Kernels, Forward

`FlashBlocks` and `ExpertMap` translate the integer side of two Metal kernels and
of their dispatch. `Kernels` has one operator per entry point of `dispatch.rs`:
the conjunction of its checks, the tensor it returns and the kernels it
launches, each with its grid as extent and stride. A tensor is dtype,
dimensions, contiguity, byte offset and *value*, and a value is the sequence of
operations that made it, with a mark at each rounding to f16. Two chains that
round at the same points have the same value; one that casts early, casts twice
or reads the wrong rows does not.

`Forward` runs one forward pass step by step under one *case*: the set of
switches, the checkpoint's dtypes, position and length of the chunk, the routing,
the device, the runner, a library that does not compile. Each step goes through
`Do`, which is `compiled_pipeline`: a library is compiled on first use and kept,
a failed compile is not, and the first call that fails abandons the forward. The
set `launched` holds what the latest step launched. The
keys of earlier positions are not kept: what a column of the view holds is
`KvRing`'s arithmetic, and `seen` says which positions each query of the step
attended to, along the route that was taken.

## 3. Runs

| Run | Bounds | Question | Result |
|---|---|---|---|
| `kv_cache` | one full layer, one ring; window 3, context 6, blocks up to 4, spans up to 3, two tokens | does every layer keep and show what its attention needs, and refine `KvLog`? | holds, 957 811 states |
| `kv_wide_span` | window 2, spans up to 3 | the promise of `kv_checkpoint`/`kv_rollback` for any span that fits the context | violated |
| `plain_decode` | seven tokens: a plain one, `</think>`, an EOG, the halves of a character, one that closes a character and opens the next, one without text; prompts of 0, 1 and 3 tokens, budgets 0 to 4, context 5, chunk 2, floors 0 and 2 | stream, text, exit state, polls, overflow, termination | holds, 555 788 states |
| `spec_decode` | three tokens, context 6, drafts up to 2 after clamping, `draft_min` 2 | the same for speculation, caches and draws at every boundary | holds, 791 589 states |
| `spec_poll` | a budget of 4 | one poll per decoded token, with a drafter | violated |
| `drafter` | three target layers, two drafter layers, context 5, chunk 2, two drafts, two calls; ten files | taps, injected rows and what a draft attends to; refused files, a width the target does not have | holds, 1 356 417 states |
| `pause_controller` | the code's own constants | freshness, warm-up, probes, backoff, no lasting pause | holds, 53 227 states |
| `weights` | two sources in three layouts of four tensors (f16, q8, expert stack, lm_head), 19 bytes, pages of 8 | mapping, views, residency, leak-free load and drop | holds, 35 667 states |
| `forward` | three layers (full, ring, full; one dense, two MoE), window 20, head counts 4, 8, 4; 1 744 cases | windows, grids, grouping, numerics of the switches, causes of failure, the record of a dump | holds, 64 107 states |
| `repl` | three replies, one queued key | cancel requests, conversation, next prompt, key ends reply | holds, 677 600 states |
| `repl_race` | two queued keys | a key never cancels a later reply | violated |
| `repl_force` | two queued keys | force-quit only for a request a second old | violated |

The bounds contain the cases that matter. Window 3 and context 6 put the ring
through its first fill, wrap and second wrap; blocks of 4 exceed the window and
blocks of 2 and 3 straddle its end at every phase; spans of 1 to 3 wrap with
every number of kept positions. Prompts of three tokens take two prefill chunks;
a budget of 4 leaves room for a first token, a partly accepted block and a last
block cut by the cap; context 6 makes both the budget check and the clamp on
`n_draft` bind. Four tokens with halves of characters slide the stream's window
with text held back before, at and after the slide. In `drafter` the target
layers are out of order in one file and repeated in another, two calls let taps
and scratch rows of one meet the next, one file loads but has another width than
the target, and each further file fails one check. The
layouts of `weights` have a tensor that straddles two pages, one off its
alignment and one past the end of the file; two sources let one be dropped while
the other runs.

`forward` enumerates, for attention, all 64 settings of its six switches, two
checkpoints, and six places of the chunk: decode before and after the ring has
wrapped, two rows, the eight rows up to which the decode kernels serve, nine at
the start and 33 (more than a query block of the flash kernel and past the
window) at position 17. For the experts it enumerates their switches, each
variant of the grouped matmul, three checkpoints (one with a dtype no grouped
kernel exists for), lengths at both sides of the threshold, and a routing where
every token picks the same experts. Then each library in turn does not compile,
with and without fast math; then the reference runner, the CPU, all positions'
logits, and a full context.

`kv_cache` is symmetric in the tokens, the only symmetry used, in a run without
liveness. Deadlock is checked except where the system may stop: the chat quits
(`repl*`), a drafter may be refused and the calls end (`drafter`), every source
may be closed (`weights`), a forward returns (`forward`).

### Fairness

`PlainDecode` and `SpecDecode` assume `WF(Step)`: the loop is a single thread
that runs on. Nothing is assumed of the caller, of stop requests or of failures.
`PauseController` assumes rounds keep coming. `Repl` assumes that both threads
are scheduled and that a reply whose flag is up ends, which is `Terminates` and
`PolledPerToken` of `PlainDecode`; no key is ever owed. `Weights` assumes that a
drop once begun goes on, being straight-line code of one thread, and that the GPU
completes what it was given, which `wait_until_completed` assumes too; that a
loaded model is ever dropped is not assumed.

### Disagreements found

* A verify span wider than the sliding window is accepted by `kv_checkpoint` but
  cannot be rolled back: rejected positions overwrite committed ones of the same
  span (`kv_wide_span`). Latent with the shipped sizes (block 16, window 512);
  the theorems below carry the missing condition as the assumption `NarrowSpan`.
* `generate` documents one poll per decoded token; with a drafter it polls once
  per round (`spec_poll`). `StopsWithinRound` is the bound that holds.
* The comment in `run` says a Ctrl-C that raced the end of a turn does not cancel
  the next one. It does, if the next message was typed ahead: the input thread
  loads `generating` before, and swaps `cancel` after, the turn changed
  (`repl_race`).
* The comment in `spawn_input_thread` says the force-quit is for a request
  pending for a second. `last_cancel` survives its turn and Esc does not set
  it, so Esc followed at once by Ctrl-C can quit (`repl_force`). The help text,
  "Ctrl+C twice force-quits", leaves out the second altogether.

Met while modelling, each visible in a model but without a run of its own:

* A reply that reaches its cap before `</think>` is filed as content and rendered
  into the next prompt as `<think></think>` followed by the reasoning
  (`repl.rs:117-132` with `chat.rs`). `NextPromptReplays` makes an exception of it.
* `attention.rs:69-72` and `dispatch.rs:1060-1064` say the f32 activation of a
  projection is never cast. The default prefill gemm, `f16_t.metal:9-13,140`,
  stages it as f16: `ExpectedAttn` has the rounding under `TensorGemm`.
* `logits-dump.rs:222-224` says the activity of the grouped matmul follows from
  the record; `use_mm` also asks `mm_id::supported` of all three stacks, so
  `RecordTrue` has only the one direction for it.
* The record's `sdpa` is read from its switch alone (`logits-dump.rs:300-303`), so a
  flash prefill, which runs no sdpa, is recorded with one. `RecordTrue` reads it
  together with `flash`: the two and `attn_mm` fix where attention rounded to f16.
* The grouped matmul keeps a token's index in a `short` (`mm_id.metal:331,438`), and
  nothing bounds the chunk it is handed. Prefills send 512 tokens, `logits-dump` its
  whole prompt in one forward (`logits-dump.rs:506`): past 32768 tokens the rows would
  be read and written at the wrong place. The theorems carry the bound as `ShortChunks`.
* At the end of a reply the text held back inside a character is never flushed;
  `TextIsReply` promises the text up to the last whole character.
* `generate.rs:417-420` says a pair of empty probe rounds leaves
  `tokens_since_probe` untouched; line 378 has already added what they committed.
* Neither `build` nor `attach_drafter` (`generate.rs:490-496`) compares the
  drafter's width with the target's. A drafter of another width attaches, and
  every call then fails in `encode` (`dflash.rs:389`) after its first prefill
  chunk. `FusedFromItsForward` shows that nothing reaches the caches by then.

## 4. Proofs

TLAPS checks, for every value of the constants that meets the named assumptions:

| Module | Theorem | States |
|---|---|---|
| `KvCacheProofs` | `Types`, `RingKeepsWindow`, `SnapshotComplete`, `LayersInLockstep` | `TypeOK`, `KeysInPlace`, `SnapshotHoldsEvicted`, `Lockstep` |
| `KvCacheProofs` | `AttendsExactly`, `CachesAreLogs` | `AttendsWindow`, `ImplementsLog` |
| `PlainDecodeProofs` | `StreamsTheReply`, `NeverOverruns`, `LeavesTheReply`, `PollsPerToken` | `ImplementsStream`, `BudgetSuffices`, `ExitState`, `PolledPerToken` |
| `PlainDecodeProofs` | `SpeaksTheReply` | `TextIsReply` |
| `SpecDecodeProofs` | `StreamsTheReply`, `NeverOverruns`, `LeavesTheReply`, `PollsPerRound` | `ImplementsStream`, `BudgetSuffices`, `ExitState`, `StopsWithinRound` |
| `SpecDecodeProofs` | `RejectedDraftsLeaveNoTrace`, `DrawsOncePerToken` | `CachesAtBoundary`, `OneDrawPerToken` |
| `DrafterProofs` | `FusesTheKeptPositions`, `ScratchRowsUnseen` | `FusedFromItsForward`, `DraftsSeeTheirContext` |
| `DrafterProofs` | `StaysFresh`, `WarmsUp`, `ForcesOnlyStale`, `ProbesPunctual`, `KeepsDiscipline` | the controller's `PlainStaysFresh`, `WarmsUpEarly`, `ForcedOnlyWhenStale`, `ProbesOnTime`, `BackoffDiscipline` |
| `ReplProofs` | `TurnsAlternate`, `NextPromptContinues`, `RequestsStand` | `Alternates`, `NextPromptReplays`, `NoRequestLost` |
| `WeightsProofs` | `MappedWhileViewed`, `ResidencyHolds`, `ViewsAreExact` | `ViewsMapped`, `ResidencyExact`, `ViewsCover` |
| `ForwardProofs` | `FlashIsExact`, `RowStoredOnce`, `SlotsGrouped` | the columns and rows of the flash kernel, for every call it accepts; `GroupsEverySlot`, for every routing to distinct experts |
| `ForwardProofs` | `QueriesSeeTheirWindow`, `OutputsAreWhole`, `DumpsAreTrue` | `SeesItsWindow`, `WritesOnce`, `RecordTrue` |
| `ForwardProofs` | `SwitchesAreInvisible` | `SwitchesInvisible` |
| `ForwardProofs` | `FailuresHaveCause` | `FailsOnlyForCause` |

**KvCache.** All rest on `NarrowSpan == MaxSpan <= Window`, which
`kv_wide_span` shows to be necessary. The module begins with lemmas about the
ring: where a write of consecutive positions modulo `w` lands, which slots it
leaves alone, what a snapshot reads and that a restore is its inverse.
`KeysInPlace` is not inductive. In the middle of a verify the ring of a layer
already holds the keys of the span, in that of another layer it does not yet;
a rollback restores layers one after the other; and that it restores the right
keys depends on what the snapshot was taken from. `IInv` therefore says, layer
by layer and by the phase and the loop index, how many positions the layer has
stored, that the log agrees with what is being fed, and that until a layer is
rolled back the snapshot holds exactly the keys its span evicted. The step that
needs most care is a rollback after a partial accept: a position kept by it
lies either below the span, where its slot was restored from the snapshot or was
never overwritten, or in the committed prefix, where it survives because a span
no wider than the ring has at most one position per slot.

`AttendsWindow` adds a history to that (`HistoryInv`): the token of every stored
position is on record, and a query's columns, read through the view `append`
returns and the mask made from the caller's position, are those positions. There
are three kinds of view: a full layer's prefix (`FullShows`), the ring as it lies
under one query (`SingleShows`), and the reordered ring with the block behind it
(`MultiShows`). `CachesAreLogs`
maps a layer's stored positions to a sequence of keys; an append step extends
one layer's log, a rollback step cuts one to the kept prefix, and a forward that
fails between layers has extended some of them, which the log allows too.

**PlainDecode.** The inductive invariant says how much of what was fed: in the
prefill a prefix of the prompt, between turns the prompt and everything drawn,
between a draw and its forward everything but the last token (`Prefilling`,
`Decoding`), and that an accepted call has room for its prompt and its cap
(`Accepted`). From it every draw is over the context and under the mask the
script was drawn with, so it is the script's next token (`DrawIs`), and an
emission, the end at an EOG or at the cap, and every exit map to one step of
`TokenStream`. Nothing is assumed there of the stream decoder: whether it takes a
token or rejects it, the argument is the same.

`SpeaksTheReply` is about the stream decoder alone, for any vocabulary of byte
strings (`BytesAssumption`). Whether two bytes make one character is decided by
those two, so bytes that do not end with an opening half decode on their own and
what follows them decodes on its own (`TextJoin`, `DecodeJoin`), and text that
does not end with a replacement character comes from such bytes (`HalvedOpens`).
`Streamed` is the invariant: the window's ids are the last of those fed, from a
place no character lies across; those before `prefix_index` decode to the prefix;
every longer part of the window is open or decodes to no more than the prefix;
and what was said is the text up to there. It follows that the decode always
extends the prefix, so the error of `tokenizer.rs:117` is unreachable in the model,
and that the decode at the head of `step` never finds text: what was whole has
been said, and only `prefix_index` moves there. `ByteLen` compares texts as the
code compares byte lengths; a text is longer than one it extends, since each
character has at least one byte (`LongerJoin`).

**SpecDecode.** The two loops implement the same `TokenStream` and reach the same
`ExitState`, so they are proved to agree and not only each to be well behaved. At
a boundary the invariant is that of plain decode (`Said`, `Retained`): the reply
is the script so far, the caches hold all of it but the last token. Within a
round it follows the block: after the verify the caches hold the last token and
every draft, and `queue` is what the walk committed, of which all but the last
agree with the drafts (`Retained`), all but the last are no EOG (`EogLast`), and
which with the tokens out is the script up to `drawn` (`Said`). The walk itself is
one step of the model; that it draws the script's tokens is
shown for its first row that would not, there being a least one: before that
row the drafts agreed with the script, so the row's context and mask are the
script's own. `Fused` ties the drafter's rows to the cells of the target,
`Polled` counts tokens since a stop, and `Accepted` bounds `n_draft` by the
room that the one check left.

**Drafter.** `FusedFromItsForward` speaks of taps, of rows and of positions, which
move at different steps. `Phases` says at each step how far the target is ahead
of the drafter and that the taps at hand, taken or not, are those of exactly
that stretch; `Rows` that all committed rows, and during an injection the rows
of the layers served so far, are fused from their own positions. An abandoned
call leaves taps and scratch rows behind; the invariant holds because nothing is
said of rows from `committed` on, and because each forward replaces the taps.
`Noise` says what a draft has seen, layer by layer. `Stopped` is a second, smaller
invariant for a drafter of another width: it never gets past the first `encode`.

**PauseController.** `Fresh` bounds the age of the plain average by the counter
the code does keep, separately while drafting, in a pause and inside a probe
pair; `WarmingUp` charges each plain sample of the warm-up one turn of the tight
cadence; `Probing` ties the plain rounds of a pause to `tokens_since_probe`;
`Warmed` says that a pause has samples of both kinds behind it, which the others
rest on; `Counted` that `rounds_since_plain` never exceeds the age of the plain
average, so no round is forced early.
`KeepsDiscipline` assumes `ShortPair == ProbePair <= 2`, which the code's
`PROBE_PAIR = 2` meets: with a longer pair a drafted round could lie before the
last two and the pair still be judged. `PairRemembered` is what it adds.

**Repl.** `Turns` has the conversation alternate and be odd within a turn; `Repeats`
says, of every state before the program quits and not only of those in which a
prompt is built, that the text of the last recorded turn opens what the turns
that are over would render to. It takes lemmas about the recursive functions of
`ChatPrompt`: that squeezing distributes over concatenation, that `SplitThinking`
loses nothing but whitespace, and that a longer conversation renders to an
extension. `RequestsStand` is about the flags alone.

**Weights.** Each source's state is tied to its model's: while a model is open
and aliased the file handle's clone keeps the source live (`SourceLives`), what
the GPU and the residency set hold belongs to sources not yet quiet
(`HeldAlive`), and what was built passed its checks and waits for registration
until the load is over (`BuiltViews`, `LoadedResident`). That views cover their
tensors is page arithmetic, from the block lemmas of `Lemmas`.

**Kernels and Forward.** `FlashIsExact`: a key column lies in one block; the blocks
before `KbStart` hold only columns the window has passed for every query of the
threadgroup, those from `KbLim` on only later ones, and a block that is not at an
edge needs no mask. `SlotsGrouped`: the counter of an expert's thread is the
number of earlier tokens that chose it, so the last write at an index below the
count is the token that was selected there, and a slot has one place in one tile;
the 16 bits the second pass keeps the token in are enough up to 32768 tokens, which
`OutputsAreWhole` asks of every case (`ShortChunks`).

`QueriesSeeTheirWindow` and `OutputsAreWhole` put the two into the forward, for
every configuration that meets `ConfigAssumption` (counts are numbers, there is a
layer, a window and an expert) and every case that meets `CasesAssumption` (a
chunk is not empty, a routing is of distinct experts). Neither property is
inductive: which keys a route attends to depends on what the view holds, which
mask was hoisted and that the dimensions handed over are those of this layer, and
whether a grid covers depends on the dimensions of what came before. `ForwardInv`
says, at each step, the dimensions of the block's tensors (`Blocks`), that the
hoisted masks are those of this forward (`Masked`), and that a map, once made, is
that of the routing (`Mapped`). A flash call that passed the dispatch's checks
is one `FlashIsExact` speaks of; the decode kernels read the view as it lies, and
on the masked route the columns a query may see are positions by the ring's
arithmetic. That a grid covers its output is shown kernel by kernel from the
checks of its dispatch and the dimensions `Blocks` gives.

`DumpsAreTrue`: the record a dump carries names what the switches and the shapes
select before anything runs, and the property compares it with what did run once
the forward is over. `RecordInv` follows it through the forward: everything that
has run is a kernel the switches allow there (`RanAllowed`), and of each kernel
the record names, that it has run once the step it belongs to lies behind, in
this layer or an earlier one (`ProjRan`, `FlashRan`, `GateRan`, `SiluRan`,
`CombineRan`). It assumes `HasExperts`, at least one layer with experts: the
record names the kernels of the mixture whatever the file is, and
`LagunaConfig` (`config.rs:122`) does not refuse a file whose layers are all dense.
Where attention rounded to f16 is `SwitchesAreInvisible`; what is left is that the
record's fields, read together, give the two facts its values depend on.

`SwitchesAreInvisible` compares the finished blocks with the operations and
roundings the precision design names. `Vals` says what each tensor of the block
in progress has been through so far, as a function of three things only: whether
a projection stages its input as f16 (`In`), whether the sdpa works in f16
(`Sdpa`) and whether the expert tiles do (`HalfTiles`). Between the steps the
same value may be held wide or already rounded (`Wide`, `Narrow`), depending on
which kernel came before; the cache, the sdpa or the gate evens that out, and
the proof is that they always do: rounding a rounded tensor again leaves no
second mark, and none is rounded early that is read wide later. That the tiles
take f16 exactly where the activation was rescaled is `HalfIs`. Values are
sequences of operations of any kind (`IsVal`), and the equations between them
come from associativity alone. Two hypotheses on the constants are in
`ForwardState`: a case has one of the two runners, and the number of dense
layers is a number.

`FailuresHaveCause` says that a forward meets every check on its way. That is true
only of a model the kernels were written for, so it has two hypotheses beside
the assumptions on the constants, each a line of the code: `CheckpointFits`, of
the configuration (the head dimension and the numbers of heads the kernels refuse
to do without, an expert map that fits its threadgroup, a sum over the chosen
experts of at most 32 lanes), and `ForwardFits`, of a case (experts of a dtype candle
has a kernel for, rows of whole quantization blocks, and a context and a chunk that
32 bit indices reach). `MCForward` has TLC evaluate both for the cases of the run
(`InstanceFits`). `FailsOnlyForCause` is not inductive: that a dispatch accepts its operands depends on the dtype and the layout each tensor
has at that point and on the dimensions handed over. `CauseInv` adds to the
dimensions and masks of `ForwardInv` the dtype and contiguity every step expects of
what the one before left, and that positions stay within the context (`Fit`).
`CauseStep` goes through the steps of a layer and every kernel each of them may
choose, check by check; `Good` is what it shows of a call, that nothing is refused
and that every kernel asked for is defined in a library the switches compile.

**Recursion.** The provers cannot instantiate an induction theorem, and a function
defined by recursion has no property before it is known to exist.
`LeastOf` takes a least counterexample instead, and `RecursionExists` and
`RecursionUnique` make of it what is needed: a recursion by a given step has a
solution on a finite interval, and any two agree.

## 5. Only model-checked

* Liveness (`Terminates`, `KeepsTrying`, `KeyEndsReply`, `DropsComplete`): the
  provers handle neither `ENABLED` nor reasoning under fairness.

## 6. Not modelled

* Floating-point arithmetic and quantisation: `Forward` says which operations
  and roundings a value went through, not what they compute. The models take the
  logits of a batched verify to be those of single-token decode; the code's
  documentation names near-ties as the exception.
* The bodies of the kernels other than the two whose index arithmetic is
  modelled; the argument structs handed to them; entry points only tests use
  (grouped matmul with scratch of its own, gemm with mixed operands).
* What the candle and tokenizers crates do beyond the calls named in the models;
  the parsing of GGUF headers and of the configuration, which checks fields one
  at a time; the YaRN frequencies of `rope.rs`.
* The benchmark warm-up (`LAGUNA_BENCH`), a throwaway prefill followed by the
  same reset, and timing statistics.
* The line editor, its history and paste detection, rendering, the pipe fallback
  and the command line: they keep no state that outlives a key or a call.
* The comparison of dumps with a reference engine: numerics and file formats.
* Two threads in `compiled_pipeline`: one mutex is held from the lookup to the
  insert, so callers do not interleave inside it.

## 7. Plan

1. `SpecDecode` composed with `PauseController`, and `Drafter` with `KvCache`, so
   that one behaviour has both caches layer by layer.
2. The line editor's cursor and history, if it gains state that outlives a key.
