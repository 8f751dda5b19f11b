----------------------------- MODULE Generation ------------------------------
(***************************************************************************)
(* What the two decode loops of src/generate.rs share: the call and its    *)
(* up-front checks, the target model as the log of the tokens it was fed   *)
(* (KvLog, which KvCache implements), and the sampler.                     *)
(*                                                                         *)
(* The sampler is seeded, so what it draws is a function of how many draws *)
(* came before, of the context its logits were computed over and of the    *)
(* mask.  `script` is that function along the one path plain decode takes: *)
(* draw k over the prompt and the first k-1 tokens of the script, masked   *)
(* below the reasoning floor, gives script[k].  A draw that leaves the     *)
(* path gives any token its mask allows.                                   *)
(***************************************************************************)
EXTENDS DecodeStream

CONSTANTS
  Tokens,        (* token ids                                             *)
  Eog,           (* the end-of-generation ids                             *)
  ThinkClose,    (* the id of </think>                                    *)
  Prompts,       (* the encoded prompts                                   *)
  Budgets,       (* the values of max_tokens the callers pass             *)
  MaxNew,        (* bound on max_tokens                                   *)
  MaxCtx,        (* max_ctx                                               *)
  PrefillChunk,  (* PREFILL_CHUNK                                         *)
  Floors         (* the values of min_think that are set                  *)

ASSUME GenerationAssumption ==
  /\ Eog \subseteq Tokens
  /\ ThinkClose \in Tokens
  /\ \A p \in Prompts : p \in Seq(Tokens)
  /\ MaxNew \in Nat /\ Budgets \subseteq 0..MaxNew
  /\ MaxCtx \in Nat
  /\ PrefillChunk \in Nat \ {0}
  /\ Floors \subseteq Nat
  /\ DOMAIN Bytes = Tokens

VARIABLES
  script,        (* what plain decode draws for this prompt, in order     *)
  cap,           (* max_tokens of the call                                *)
  minThink,      (* min_think, set before the call                        *)
  prompt,        (* the encoded prompt                                    *)
  out,           (* the tokens given to the stream; Len(out) is `decoded` *)
  stream,        (* the stream decoder                                    *)
  text,          (* the text given to on_text so far                      *)
  status,        (* where the call stands                                 *)
  pc,            (* where the loop stands while it runs                   *)
  stop,          (* what should_stop would return                         *)
  late,          (* history: tokens emitted since should_stop would stop  *)
  kv,            (* the target's caches: <<position, token>> in order     *)
  pos,           (* pos / n_past: the position of the next forward        *)
  drawn          (* history: the sampler's draws in this call             *)

reply == <<out, stream, text>>
gvars == <<script, cap, minThink, prompt, reply, status, pc, stop, late, kv, pos, drawn>>

Statuses == {"idle", "running", "complete", "cancelled", "failed", "refused"}

Smaller(a, b) == IF a <= b THEN a ELSE b
LastOf(s) == s[Len(s)]

(* think_exit_ban: what may not be drawn below the reasoning floor. *)
Banned == {ThinkClose} \cup Eog

(* The scripts a sampler can produce: the floor masks the first draws. *)
Scripts(floor) == {s \in [1..MaxNew -> Tokens] :
                     \A k \in 1..MaxNew : k <= floor => s[k] \notin Banned}

(* The cells that feeding these tokens from position 0 on leaves. *)
Cells(toks) == [i \in DOMAIN toks |-> <<i - 1, toks[i]>>]

(* Sampler::sample / sample_masked, as draw k of the call. *)
Draws(k, context, masked) ==
  IF /\ k \in 1..MaxNew
     /\ context = Cells(prompt \o SubSeq(script, 1, k - 1))
     /\ masked = (k <= minThink)
  THEN {script[k]}
  ELSE IF masked THEN Tokens \ Banned ELSE Tokens

(* LagunaModel::forward / forward_all_logits: the log after the call, and  *)
(* the guard it fails on.                                                  *)
Fits(n) == pos + n <= MaxCtx
Forwarded(toks) == kv \o [i \in DOMAIN toks |-> <<pos + i - 1, toks[i]>>]

(* The next chunk of tokens.chunks(PREFILL_CHUNK). *)
Chunk == SubSeq(prompt, pos + 1, Smaller(pos + PrefillChunk, Len(prompt)))

-----------------------------------------------------------------------------
GenInit ==
  /\ script = <<>>
  /\ cap = 0
  /\ minThink = 0
  /\ prompt = <<>>
  /\ out = <<>>
  /\ stream = Fresh
  /\ text = <<>>
  /\ status = "idle"
  /\ pc = "return"
  /\ stop = FALSE
  /\ late = 0
  /\ kv = <<>>
  /\ pos = 0
  /\ drawn = 0

(* A call of generate first resets the caches, whatever the last one left. *)
Reset ==
  /\ status # "running" /\ pc = "return"
  /\ status' = "idle" /\ pc' = "check"
  /\ script' = <<>> /\ cap' = 0 /\ minThink' = 0 /\ prompt' = <<>>
  /\ out' = <<>> /\ stream' = Fresh /\ text' = <<>>
  /\ stop' = FALSE /\ late' = 0
  /\ kv' = <<>> /\ pos' = 0 /\ drawn' = 0

(* Mutant of Check: the budget is not held against max_ctx. *)
CheckUnbudgeted(p, max, floor) ==
  /\ pc = "check"
  /\ prompt' = p
  /\ cap' = max
  /\ minThink' = floor
  /\ script' \in Scripts(floor)
  /\ IF p # <<>> /\ (floor = 0 \/ floor < max)
     THEN status' = "running" /\ pc' = "prefill"
     ELSE status' = "refused" /\ pc' = "return"
  /\ UNCHANGED <<reply, stop, late, kv, pos, drawn>>

(* Then the request, an encoded prompt, a cap and the floor in force, is   *)
(* accepted or refused.                                                    *)
Check(p, max, floor) ==
  /\ pc = "check"
  /\ prompt' = p
  /\ cap' = max
  /\ minThink' = floor
  /\ script' \in Scripts(floor)
  /\ IF /\ p # <<>>
        /\ Len(p) + max <= MaxCtx
        /\ floor = 0 \/ floor < max
     THEN status' = "running" /\ pc' = "prefill"
     ELSE status' = "refused" /\ pc' = "return"
  /\ UNCHANGED <<reply, stop, late, kv, pos, drawn>>

(* The caller's cancel flag comes up, at any moment of the call. *)
RequestStop ==
  /\ status = "running"
  /\ ~stop
  /\ stop' = TRUE
  /\ UNCHANGED <<script, cap, minThink, prompt, reply, status, pc, late, kv, pos, drawn>>

(* An error of any step unwinds out of the call. *)
Fail ==
  /\ status = "running"
  /\ status' = "failed"
  /\ pc' = "return"
  /\ UNCHANGED <<script, cap, minThink, prompt, reply, stop, late, kv, pos, drawn>>

(* The call returns Ok. *)
Return(how) == status' = how /\ pc' = "return"

(* stream.step and on_text of one token, and the cap that ends the reply;  *)
(* a stream that rejects the token ends the call with its error.           *)
EmitToken(t, next) ==
  LET step == StreamStep(stream, t)
  IN  IF step.ok
      THEN /\ out' = Append(out, t)
           /\ stream' = step.stream /\ text' = text \o step.text
           /\ late' = IF stop THEN late + 1 ELSE late
           /\ IF Len(out) + 1 >= cap THEN Return("complete")
              ELSE status' = status /\ pc' = next
      ELSE Return("failed") /\ UNCHANGED <<reply, late>>

-----------------------------------------------------------------------------
(* The promise to the caller. *)
Stream == INSTANCE TokenStream
ImplementsStream == Stream!StreamSpec
=============================================================================
