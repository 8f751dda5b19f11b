--------------------------- MODULE SpecDecodeProofs ---------------------------
(***************************************************************************)
(* Speculative decode keeps the promise plain decode keeps, whatever the   *)
(* drafter proposes and whichever rounds draft: for every prompt, cap,     *)
(* context, block size and reasoning floor it implements TokenStream, no   *)
(* forward or draft block overruns the context, a rejected draft leaves no *)
(* trace in the caches, and the sampler is drawn from once per token.      *)
(***************************************************************************)
EXTENDS SpecDecode, Lemmas, TLAPS

Round == {"poll", "step", "verify", "commit", "emit"}
Turning == {"prefill", "first"} \cup Round

(* The caches, after the whole prompt and n tokens of the reply.           *)
Reply(n) == prompt \o SubSeq(script, 1, n)
Fed(n) == kv = Cells(Reply(n)) /\ pos = Len(prompt) + n

Types ==
  /\ script \in Scripts(minThink) \cup {<<>>}
  /\ cap \in 0..MaxNew
  /\ minThink \in Nat
  /\ prompt \in Seq(Tokens) /\ out \in Seq(Tokens)
  /\ drafts \in Seq(Tokens) /\ queue \in Seq(Tokens)
  /\ idLast \in Tokens
  /\ status \in Statuses
  /\ pc \in Turning \cup {"check", "return"}
  /\ stop \in BOOLEAN
  /\ late \in Nat /\ drawn \in Nat /\ pos \in Nat /\ committed \in Nat
  /\ rows = [p \in 0..(MaxCtx - 1) |-> rows[p]]

(* A call that runs was accepted.                                          *)
Accepted ==
  /\ status = "running" <=> pc \in Turning
  /\ pc = "check" =>
       /\ status = "idle" /\ out = <<>> /\ late = 0
       /\ kv = <<>> /\ pos = 0 /\ committed = 0
       /\ drawn = 0 /\ queue = <<>> /\ drafts = <<>>
  /\ pc \in Turning =>
       /\ Len(prompt) + cap <= MaxCtx
       /\ script \in [1..MaxNew -> Tokens]

(* Before the first draw.                                                  *)
Prefilling ==
  /\ pc \in {"prefill", "first"} => drawn = 0 /\ out = <<>> /\ queue = <<>> /\ committed = pos
  /\ pc = "prefill" => pos < Len(prompt) /\ kv = Cells(SubSeq(prompt, 1, pos))
  /\ pc = "first" => cap > 0 /\ Fed(0)

(* The reply is the script, and so are the drawn tokens behind it.         *)
Said ==
  pc \in Round =>
    /\ Len(out) > 0 /\ Len(out) < cap
    /\ drawn = Len(out) + Len(queue) /\ drawn <= cap
    /\ \A i \in 1..Len(out) : out[i] = script[i]
    /\ \A i \in 1..Len(queue) : queue[i] = script[Len(out) + i]
    /\ IF pc \in {"commit", "emit"} THEN queue # <<>> ELSE queue = <<>>

(* The caches hold all but the last drawn token: at once at a boundary,    *)
(* after the rollback when a block is in flight.                           *)
Retained ==
  /\ pc \in Round => committed = pos
  /\ pc \in {"poll", "step", "verify", "emit"} => Fed(drawn - 1) /\ idLast = script[drawn]
  /\ pc = "verify" => Len(drafts) > 0 /\ Len(drafts) <= NDraft
  /\ pc = "commit" =>
       /\ kv = Cells(Reply(Len(out) - 1) \o Block) /\ pos = Len(prompt) + (Len(out) - 1)
       /\ idLast = script[Len(out)]
       /\ Len(queue) <= Len(drafts) + 1 /\ Len(drafts) <= NDraft
       /\ \A i \in 1..(Len(queue) - 1) : drafts[i] = queue[i]

(* The drafter's rows were fused from the cells now at their positions.    *)
Fused ==
  pc \in Turning =>
    /\ committed <= Len(kv)
    /\ \A p \in 0..(committed - 1) : rows[p] = kv[p + 1]

(* A walk ends at an EOG.                                                  *)
EogLast == pc \in {"commit", "emit"} => \A i \in 1..(Len(queue) - 1) : queue[i] \notin Eog

(* After a stop at most the round in flight is emitted.                    *)
Polled ==
  /\ late <= DraftWidth + 1
  /\ (~stop \/ pc \in Turning \ {"poll", "emit"}) => late = 0
  /\ pc = "emit" => late + Len(queue) <= DraftWidth + 1

IInv ==
  /\ Types /\ Accepted /\ Prefilling /\ Said /\ Retained /\ Fused /\ EogLast
  /\ Polled /\ ExitState

-----------------------------------------------------------------------------
(* The cells of the caches. *)

LEMMA Associates ==
  ASSUME NEW a \in Seq(Tokens), NEW b \in Seq(Tokens), NEW c \in Seq(Tokens)
  PROVE  (a \o b) \o c = a \o (b \o c)
  BY ConcatAssociative

LEMMA CellsOf ==
  ASSUME NEW q \in Seq(Tokens)
  PROVE  /\ Cells(q) = CellsAt(0, q)
         /\ Cells(q) \in Seq(Nat \X Tokens)
         /\ Len(Cells(q)) = Len(q)
<1>1. Cells(q) = CellsAt(0, q)
  <2>1. \A i \in DOMAIN q : i - 1 = 0 + i - 1
    BY LenProperties
  <2> QED
    BY <2>1 DEF Cells, CellsAt
<1>2. 0 \in Nat
  OBVIOUS
<1>3. CellsAt(0, q) \in Seq(Nat \X Tokens) /\ Len(CellsAt(0, q)) = Len(q)
  BY <1>2, CellsAtOf, Zenon
<1> QED
  BY <1>1, <1>3, Zenon

(* The caches after a forward are the cells of what was fed before and of  *)
(* what it feeds.                                                          *)
LEMMA Feeds ==
  ASSUME NEW q \in Seq(Tokens), NEW x \in Seq(Tokens), kv = Cells(q), pos = Len(q)
  PROVE  Forwarded(x) = Cells(q \o x)
<1>1. q \o x \in Seq(Tokens) /\ Len(q) \in Nat
  BY ConcatProperties, LenProperties
<1>2. Forwarded(x) = CellsAt(0, q) \o CellsAt(Len(q), x)
  BY CellsOf DEF Forwarded, CellsAt
<1>3. IsJoin(CellsAt(0, q \o x), CellsAt(0, q), CellsAt(0 + Len(q), x))
  BY CellsJoin
<1>4. 0 + Len(q) = Len(q)
  BY <1>1
<1>5. Cells(q \o x) = CellsAt(0, q \o x)
  BY <1>1, CellsOf
<1> QED
  BY <1>2, <1>3, <1>4, <1>5, Zenon DEF IsJoin

LEMMA Assumed ==
  /\ MaxNew \in Nat /\ MaxCtx \in Nat
  /\ PrefillChunk \in Nat /\ PrefillChunk > 0
  /\ \A p \in Prompts : p \in Seq(Tokens)
  /\ \A max \in Budgets : max \in 0..MaxNew
  BY GenerationAssumption

LEMMA Nothing ==
  /\ <<>> \in Seq(Tokens) /\ <<>> \in Seq(Nat \X Tokens) /\ Len(<<>>) = 0
  BY EmptySeq

LEMMA ScriptOf ==
  ASSUME script \in [1..MaxNew -> Tokens]
  PROVE  script \in Seq(Tokens) /\ Len(script) = MaxNew
  BY Assumed, IsSequence

LEMMA Widths == DraftWidth \in Nat
<1>1. DraftMax \in Nat /\ (IF BlockSize = 0 THEN 0 ELSE BlockSize - 1) \in Nat
  BY DraftAssumption
<1> QED
  BY <1>1 DEF DraftWidth, Smaller

LEMMA NextChunk ==
  ASSUME prompt \in Seq(Tokens), pos \in Nat, pos < Len(prompt)
  PROVE  /\ Chunk \in Seq(Tokens)
         /\ Len(Chunk) \in 1..(Len(prompt) - pos)
         /\ SubSeq(prompt, 1, pos) \o Chunk = SubSeq(prompt, 1, pos + Len(Chunk))
<1> DEFINE n == Smaller(pos + PrefillChunk, Len(prompt))
<1>1. Len(prompt) \in Nat
  BY LenProperties
<1>2. n \in Nat /\ pos < n /\ pos <= n /\ n <= Len(prompt)
  BY <1>1, Assumed DEF Smaller
<1>3. Chunk = SubSeq(prompt, pos + 1, n)
  BY DEF Chunk
<1> HIDE DEF n
<1>4. /\ Chunk \in Seq(Tokens) /\ Len(Chunk) = n - pos
      /\ SubSeq(prompt, 1, pos) \o Chunk = SubSeq(prompt, 1, n)
  <2>1. /\ SubSeq(prompt, pos + 1, n) \in Seq(Tokens)
        /\ Len(SubSeq(prompt, pos + 1, n)) = n - pos
        /\ SubSeq(prompt, 1, pos) \o SubSeq(prompt, pos + 1, n) = SubSeq(prompt, 1, n)
    BY <1>2, PrefixChunk, Zenon
  <2> QED
    BY <1>3, <2>1
<1>5. pos + Len(Chunk) = n
  BY <1>2, <1>4
<1> QED
  BY <1>1, <1>2, <1>4, <1>5

(* What was fed stays in place under what is fed next.                     *)
LEMMA FeedKeeps ==
  ASSUME NEW q \in Seq(Tokens), NEW x \in Seq(Tokens), kv = Cells(q), pos = Len(q)
  PROVE  /\ Forwarded(x) \in Seq(Nat \X Tokens)
         /\ Len(Forwarded(x)) = pos + Len(x)
         /\ \A i \in 1..pos : Forwarded(x)[i] = kv[i]
<1> DEFINE new == CellsAt(pos, x)
           C == Nat \X Tokens
<1>1. pos \in Nat /\ Len(x) \in Nat
  BY LenProperties
<1>2. kv \in Seq(C) /\ Len(kv) = pos
  BY CellsOf
<1>3. new \in Seq(C) /\ Len(new) = Len(x)
  BY <1>1, CellsAtOf, Zenon
<1>4. Forwarded(x) = kv \o new
  BY DEF Forwarded, CellsAt
<1> HIDE DEF new, C
<1>5. /\ kv \o new \in Seq(C) /\ Len(kv \o new) = pos + Len(x)
      /\ \A i \in 1..(pos + Len(x)) : (kv \o new)[i] = IF i <= pos THEN kv[i] ELSE new[i - pos]
  BY <1>2, <1>3, ConcatProperties
<1>6. \A i \in 1..pos : i \in 1..(pos + Len(x)) /\ i <= pos
  BY <1>1
<1> QED
  BY <1>4, <1>5, <1>6 DEF C

(* A prefix of the cells is the cells of the prefix.                       *)
LEMMA CellsPrefix ==
  ASSUME NEW q \in Seq(Tokens), NEW n \in 0..Len(q)
  PROVE  SubSeq(Cells(q), 1, n) = Cells(SubSeq(q, 1, n))
<1> DEFINE C == Nat \X Tokens
           a == SubSeq(Cells(q), 1, n)
           s == SubSeq(q, 1, n)
           b == Cells(s)
<1>1. Len(q) \in Nat /\ n \in Nat
  BY LenProperties
<1>2. /\ Cells(q) \in Seq(C) /\ Len(Cells(q)) = Len(q)
      /\ \A i \in 1..Len(q) : Cells(q)[i] = <<i - 1, q[i]>>
  BY <1>1, CellsOf, LenProperties DEF Cells
<1>3. s \in Seq(Tokens) /\ Len(s) = n /\ \A i \in 1..n : s[i] = q[i]
  BY PrefixOf
<1>4. a \in Seq(C) /\ Len(a) = n /\ \A i \in 1..n : a[i] = Cells(q)[i]
  <2> HIDE DEF C
  <2>1. n \in 0..Len(Cells(q))
    BY <1>2
  <2> QED
    BY <1>2, <2>1, PrefixOf
<1> HIDE DEF s
<1>5. b \in Seq(C) /\ Len(b) = n /\ \A i \in 1..n : b[i] = <<i - 1, s[i]>>
  BY <1>3, CellsOf, LenProperties DEF Cells
<1> HIDE DEF a, b, C
<1>6. ASSUME NEW i \in 1..n PROVE a[i] = b[i]
  <2>1. i \in 1..Len(q)
    BY <1>1
  <2> QED
    BY <1>2, <1>3, <1>4, <1>5, <2>1
<1>7. a = b
  BY <1>1, <1>4, <1>5, <1>6, SeqEqual
<1> QED
  BY <1>7 DEF a, b, s

-----------------------------------------------------------------------------
(* The prompt and the script behind it. *)

LEMMA ReplyOf ==
  ASSUME prompt \in Seq(Tokens), script \in [1..MaxNew -> Tokens], NEW n \in 0..MaxNew
  PROVE  /\ Reply(n) \in Seq(Tokens) /\ Len(Reply(n)) = Len(prompt) + n
         /\ \A i \in 1..Len(prompt) : Reply(n)[i] = prompt[i]
         /\ \A i \in 1..n : Reply(n)[Len(prompt) + i] = script[i]
<1> DEFINE s == SubSeq(script, 1, n)
           a == prompt \o s
<1>1. Len(prompt) \in Nat /\ n \in Nat /\ script \in Seq(Tokens) /\ Len(script) = MaxNew
  BY Assumed, ScriptOf, LenProperties
<1>2. s \in Seq(Tokens) /\ Len(s) = n /\ \A i \in 1..n : s[i] = script[i]
  BY <1>1, PrefixOf
<1> HIDE DEF s
<1>3. /\ a \in Seq(Tokens) /\ Len(a) = Len(prompt) + n
      /\ \A i \in 1..(Len(prompt) + n) :
           a[i] = IF i <= Len(prompt) THEN prompt[i] ELSE s[i - Len(prompt)]
  BY <1>2, ConcatProperties
<1> HIDE DEF a
<1>4. ASSUME NEW i \in 1..n PROVE a[Len(prompt) + i] = script[i]
  <2>1. /\ Len(prompt) + i \in 1..(Len(prompt) + n) /\ ~(Len(prompt) + i <= Len(prompt))
        /\ (Len(prompt) + i) - Len(prompt) = i
    BY <1>1
  <2> QED
    BY <1>2, <1>3, <2>1
<1>5. \A i \in 1..Len(prompt) : a[i] = prompt[i]
  BY <1>1, <1>3
<1> QED
  BY <1>3, <1>4, <1>5 DEF a, s, Reply

(* What agrees with the prompt and the script is such a reply.             *)
LEMMA ReplyIs ==
  ASSUME prompt \in Seq(Tokens), script \in [1..MaxNew -> Tokens], NEW n \in 0..MaxNew,
         NEW t \in Seq(Tokens), Len(t) = Len(prompt) + n,
         \A i \in 1..Len(prompt) : t[i] = prompt[i],
         \A i \in 1..n : t[Len(prompt) + i] = script[i]
  PROVE  t = Reply(n)
<1>1. Len(prompt) \in Nat /\ n \in Nat
  BY Assumed, LenProperties
<1> DEFINE a == Reply(n)
<1>2. /\ a \in Seq(Tokens) /\ Len(a) = Len(prompt) + n
      /\ \A i \in 1..Len(prompt) : a[i] = prompt[i]
      /\ \A i \in 1..n : a[Len(prompt) + i] = script[i]
  BY ReplyOf
<1> HIDE DEF a
<1>3. ASSUME NEW i \in 1..Len(t) PROVE t[i] = a[i]
  <2>1. CASE i <= Len(prompt)
    BY <1>1, <1>2, <2>1
  <2>2. CASE ~(i <= Len(prompt))
    <3>1. i - Len(prompt) \in 1..n /\ Len(prompt) + (i - Len(prompt)) = i
      BY <1>1, <2>2
    <3> QED
      BY <1>2, <3>1
  <2> QED
    BY <2>1, <2>2
<1> QED
  BY <1>2, <1>3, SeqEqual DEF a

(* Feeding the block while the caches hold n tokens of the reply: the      *)
(* first i cells of it are those of the reply, as long as the drafts       *)
(* before are the reply's next tokens.                                     *)
LEMMA BlockPrefix ==
  ASSUME prompt \in Seq(Tokens), script \in [1..MaxNew -> Tokens],
         idLast \in Tokens, drafts \in Seq(Tokens),
         NEW r \in 1..MaxNew, NEW i \in 1..(Len(drafts) + 1),
         (r + i) - 1 <= MaxNew, idLast = script[r],
         \A j \in 1..(i - 1) : drafts[j] = script[r + j]
  PROVE  SubSeq(Cells(Reply(r - 1) \o Block), 1, (Len(prompt) + (r - 1)) + i)
           = Cells(Reply((r + i) - 1))
<1> DEFINE L    == Len(prompt)
           base == Reply(r - 1)
           blk  == <<idLast>> \o drafts
           all  == base \o blk
           n    == (L + (r - 1)) + i
           t    == SubSeq(all, 1, n)
<1>1. L \in Nat /\ Len(drafts) \in Nat /\ MaxNew \in Nat /\ r - 1 \in 0..MaxNew /\ (r + i) - 1 \in 0..MaxNew
  BY Assumed, LenProperties
<1>2. /\ base \in Seq(Tokens) /\ Len(base) = L + (r - 1)
      /\ \A k \in 1..L : base[k] = prompt[k]
      /\ \A k \in 1..(r - 1) : base[L + k] = script[k]
  BY <1>1, ReplyOf
<1>3. /\ blk \in Seq(Tokens) /\ Len(blk) = Len(drafts) + 1
      /\ blk[1] = idLast
      /\ \A j \in 1..Len(drafts) : blk[j + 1] = drafts[j]
  <2>1. <<idLast>> \in Seq(Tokens) /\ Len(<<idLast>>) = 1 /\ <<idLast>>[1] = idLast
    OBVIOUS
  <2> DEFINE one == <<idLast>>
  <2> HIDE DEF one
  <2>2. /\ one \o drafts \in Seq(Tokens) /\ Len(one \o drafts) = Len(one) + Len(drafts)
        /\ \A k \in 1..(Len(one) + Len(drafts)) :
             (one \o drafts)[k] = IF k <= Len(one) THEN one[k] ELSE drafts[k - Len(one)]
    BY <2>1, ConcatProperties DEF one
  <2>3. Len(one) = 1 /\ one[1] = idLast
    BY <2>1 DEF one
  <2>4. ASSUME NEW j \in 1..Len(drafts) PROVE (one \o drafts)[j + 1] = drafts[j]
    <3>1. j + 1 \in 1..(1 + Len(drafts)) /\ ~(j + 1 <= 1) /\ (j + 1) - 1 = j
      BY <1>1
    <3> QED
      BY <2>2, <2>3, <3>1
  <2>5. 1 \in 1..(1 + Len(drafts)) /\ 1 + Len(drafts) = Len(drafts) + 1
    BY <1>1
  <2>6. (one \o drafts)[1] = idLast
    BY <2>2, <2>3, <2>5
  <2> QED
    BY <2>2, <2>3, <2>4, <2>5, <2>6 DEF one
<1> HIDE DEF base, blk, L
<1>4. /\ all \in Seq(Tokens) /\ Len(all) = Len(base) + Len(blk)
      /\ \A k \in 1..(Len(base) + Len(blk)) :
           all[k] = IF k <= Len(base) THEN base[k] ELSE blk[k - Len(base)]
  BY <1>2, <1>3, ConcatProperties
<1> HIDE DEF all
<1>5. n \in 0..Len(all) /\ n = L + ((r + i) - 1)
  BY <1>1, <1>2, <1>3, <1>4
<1>6. t \in Seq(Tokens) /\ Len(t) = n /\ \A k \in 1..n : t[k] = all[k]
  BY <1>4, <1>5, PrefixOf
<1> HIDE DEF n, t
<1>7. ASSUME NEW k \in 1..L PROVE t[k] = prompt[k]
  <2>1. k \in 1..n /\ k \in 1..(Len(base) + Len(blk)) /\ k <= Len(base)
    BY <1>1, <1>2, <1>3, <1>5
  <2> QED
    BY <1>2, <1>4, <1>6, <2>1
<1>8. ASSUME NEW k \in 1..((r + i) - 1) PROVE t[L + k] = script[k]
  <2>1. L + k \in 1..n /\ L + k \in 1..(Len(base) + Len(blk))
    BY <1>1, <1>2, <1>3, <1>5
  <2>2. t[L + k] = IF L + k <= Len(base) THEN base[L + k] ELSE blk[(L + k) - Len(base)]
    BY <1>4, <1>6, <2>1
  <2>3. CASE k < r
    <3>1. L + k <= Len(base) /\ k \in 1..(r - 1)
      BY <1>1, <1>2, <2>3
    <3> QED
      BY <1>2, <2>2, <3>1
  <2>4. CASE k = r
    <3>1. ~(L + k <= Len(base)) /\ (L + k) - Len(base) = 1
      BY <1>1, <1>2, <2>4
    <3> QED
      BY <1>3, <2>2, <2>4, <3>1
  <2>5. CASE k > r
    <3>1. PICK j \in 1..(i - 1) : j = k - r
      BY <1>1, <2>5
    <3>2. /\ ~(L + k <= Len(base)) /\ (L + k) - Len(base) = j + 1
          /\ j \in 1..Len(drafts) /\ r + j = k
      BY <1>1, <1>2, <2>5, <3>1
    <3> QED
      BY <1>3, <2>2, <3>1, <3>2
  <2>6. k \in Int /\ r \in Int
    OBVIOUS
  <2>7. k < r \/ k = r \/ k > r
    BY ONLY <2>6
  <2> QED
    BY <2>3, <2>4, <2>5, <2>7, Zenon
<1>9. t = Reply((r + i) - 1)
  BY <1>1, <1>5, <1>6, <1>7, <1>8, ReplyIs DEF L
<1>10. SubSeq(Cells(all), 1, n) = Cells(t)
  BY <1>4, <1>5, CellsPrefix DEF t
<1> QED
  BY <1>9, <1>10 DEF n, L, all, base, blk, Block

(* A plain step feeds the next token of the reply.                         *)
LEMMA FeedsNext ==
  ASSUME prompt \in Seq(Tokens), script \in [1..MaxNew -> Tokens],
         NEW n \in Nat, n < MaxNew, Fed(n)
  PROVE  Forwarded(<<script[n + 1]>>) = Cells(Reply(n + 1))
<1> DEFINE p == SubSeq(script, 1, n)
           x == <<script[n + 1]>>
<1>1. script \in Seq(Tokens) /\ Len(script) = MaxNew /\ n \in 0..Len(script) /\ n < Len(script)
  BY Assumed, ScriptOf
<1>2. p \in Seq(Tokens)
  BY <1>1, PrefixOf
<1>3. script[n + 1] \in Tokens
  BY <1>1, ElementOfSeq
<1>4. x \in Seq(Tokens)
  BY <1>3
<1>5. p \o x = SubSeq(script, 1, n + 1)
  BY <1>1, PrefixGrows
<1> HIDE DEF x
<1>6. kv = Cells(prompt \o p) /\ pos = Len(prompt \o p) /\ prompt \o p \in Seq(Tokens)
  <2>1. n \in 0..MaxNew
    BY <1>1
  <2>2. Reply(n) \in Seq(Tokens) /\ Len(Reply(n)) = Len(prompt) + n
    BY <2>1, ReplyOf
  <2> QED
    BY <2>2 DEF Fed, Reply
<1> HIDE DEF p
<1>7. Forwarded(x) = Cells((prompt \o p) \o x)
  BY <1>4, <1>6, Feeds
<1>8. (prompt \o p) \o x = prompt \o (p \o x)
  BY <1>2, <1>4, Associates
<1> QED
  BY <1>5, <1>7, <1>8 DEF x, Reply

(* A draw over the reply so far, under the mask of its place, is the next  *)
(* token of the script.                                                    *)
LEMMA DrawIs ==
  ASSUME Types, NEW k \in 1..cap, NEW context, NEW masked,
         context = Cells(Reply(k - 1)), masked = (k <= minThink)
  PROVE  Draws(k, context, masked) = {script[k]}
<1>1. k \in 1..MaxNew
  BY Assumed DEF Types
<1> QED
  BY <1>1, Zenon DEF Draws, Reply

(* The walk over the verify rows commits the next tokens of the script: by *)
(* the least row that would not, whose context the rows before it make the *)
(* reply's.                                                                *)
LEMMA WalkIs ==
  ASSUME Types, prompt \in Seq(Tokens), script \in [1..MaxNew -> Tokens],
         NEW r \in 1..MaxNew, r = Len(out), r = drawn,
         pos = Len(prompt) + (r - 1), idLast = script[r],
         NEW cells, cells = Cells(Reply(r - 1) \o Block),
         NEW c \in Walks(drafts, cells, cap - Len(out))
  PROVE  /\ c \in Seq(Tokens) /\ Len(c) >= 1 /\ Len(c) <= Len(drafts) + 1
         /\ Len(c) <= cap - r
         /\ \A i \in 1..(Len(c) - 1) : drafts[i] = c[i] /\ c[i] \notin Eog
         /\ \A i \in 1..Len(c) : c[i] = script[r + i]
<1>1. /\ Len(drafts) \in Nat /\ cap \in Nat /\ cap <= MaxNew /\ MaxNew \in Nat /\ minThink \in Nat
      /\ r \in Nat
  BY Assumed, LenProperties DEF Types
<1>2. /\ c \in UNION {[1..n -> Tokens] : n \in 1..(Len(drafts) + 1)}
      /\ Accepts(drafts, cap - Len(out), c)
      /\ \A i \in DOMAIN c :
           c[i] \in Draws(drawn + i, SubSeq(cells, 1, pos + i), Len(out) + i <= minThink)
  BY DEF Walks
<1>3. PICK n \in 1..(Len(drafts) + 1) : c \in [1..n -> Tokens]
  BY <1>2
<1>4. c \in Seq(Tokens) /\ Len(c) = n /\ DOMAIN c = 1..n
  <2>1. n \in Nat
    BY <1>1
  <2> QED
    BY <1>3, <2>1, IsSequence
<1>5. /\ Len(c) \in 1..Smaller(Len(drafts) + 1, cap - Len(out))
      /\ \A i \in 1..(Len(c) - 1) : c[i] = drafts[i] /\ c[i] \notin Eog
  BY <1>2 DEF Accepts
<1>6. Len(c) >= 1 /\ Len(c) <= Len(drafts) + 1 /\ Len(c) <= cap - r
  BY <1>1, <1>4, <1>5 DEF Smaller
<1>7. ASSUME NEW i \in 1..Len(c), \A j \in 1..(i - 1) : c[j] = script[r + j]
      PROVE  c[i] = script[r + i]
  <2>1. /\ i \in 1..(Len(drafts) + 1) /\ (r + i) - 1 <= MaxNew /\ r + i \in 1..cap
        /\ \A j \in 1..(i - 1) : j \in 1..(Len(c) - 1)
    BY <1>1, <1>4, <1>6
  <2>2. \A j \in 1..(i - 1) : drafts[j] = script[r + j]
    BY <1>5, <1>7, <2>1
  <2>3. SubSeq(cells, 1, (Len(prompt) + (r - 1)) + i) = Cells(Reply((r + i) - 1))
    <3>1. idLast \in Tokens /\ drafts \in Seq(Tokens)
      BY DEF Types
    <3> QED
      BY <2>1, <2>2, <3>1, BlockPrefix
  <2>4. Draws(r + i, SubSeq(cells, 1, pos + i), r + i <= minThink) = {script[r + i]}
    BY <2>1, <2>3, DrawIs
  <2>5. c[i] \in Draws(r + i, SubSeq(cells, 1, pos + i), r + i <= minThink)
    BY <1>2, <1>4
  <2> QED
    BY <2>4, <2>5
<1>8. ASSUME NEW b \in 1..Len(c), c[b] # script[r + b]
      PROVE  FALSE
  <2> DEFINE Broken == {i \in Nat : i \in 1..Len(c) /\ c[i] # script[r + i]}
  <2>1. b \in Nat
    BY <1>4
  <2>2. Broken \in SUBSET Nat /\ b \in Broken
    BY <1>8, <2>1
  <2> HIDE DEF Broken
  <2>3. PICK i \in Broken : \A j \in Broken : ~(j < i)
    BY <2>2, LeastOf
  <2>4. i \in 1..Len(c) /\ c[i] # script[r + i]
    BY DEF Broken
  <2>5. ASSUME NEW j \in 1..(i - 1) PROVE c[j] = script[r + j]
    <3>1. j \in Nat /\ j \in 1..Len(c) /\ j < i
      BY <1>4, <2>4
    <3>2. j \notin Broken
      BY <2>3, <3>1
    <3> QED
      BY <3>1, <3>2 DEF Broken
  <2> QED
    BY <1>7, <2>4, <2>5
<1> QED
  BY <1>4, <1>5, <1>6, <1>8

(* An injection of the taps of a forward's new cells keeps the rows on the *)
(* cells they were fused from.                                             *)
LEMMA InjectFuses ==
  ASSUME Types, NEW cells \in Seq(Nat \X Tokens), NEW new \in Seq(Nat \X Tokens),
         pos + Len(new) <= Len(cells), pos + Len(new) <= MaxCtx,
         \A p \in 0..(pos - 1) : rows[p] = cells[p + 1],
         \A i \in 1..Len(new) : new[i] = cells[pos + i]
  PROVE  /\ Injected(new, pos) = [p \in 0..(MaxCtx - 1) |-> Injected(new, pos)[p]]
         /\ \A p \in 0..((pos + Len(new)) - 1) : Injected(new, pos)[p] = cells[p + 1]
<1>1. pos \in Nat /\ Len(new) \in Nat /\ MaxCtx \in Nat /\ DOMAIN rows = 0..(MaxCtx - 1)
  BY Assumed, LenProperties DEF Types
<1> DEFINE after == Injected(new, pos)
<1>2. after = [p \in 0..(MaxCtx - 1) |->
                 IF p \in pos..(pos + Len(new) - 1) THEN new[p - pos + 1] ELSE rows[p]]
  BY <1>1 DEF Injected
<1> HIDE DEF after
<1>3. ASSUME NEW p \in 0..((pos + Len(new)) - 1) PROVE after[p] = cells[p + 1]
  <2>1. p \in 0..(MaxCtx - 1)
    BY <1>1
  <2>2. CASE p < pos
    <3>1. p \in 0..(pos - 1) /\ ~(p \in pos..(pos + Len(new) - 1))
      BY <1>1, <2>2
    <3> QED
      BY <1>2, <2>1, <3>1
  <2>3. CASE p >= pos
    <3>1. /\ p \in pos..(pos + Len(new) - 1) /\ p - pos + 1 \in 1..Len(new)
          /\ pos + (p - pos + 1) = p + 1
      BY <1>1, <2>3
    <3> QED
      BY <1>2, <2>1, <3>1
  <2> QED
    BY <1>1, <2>2, <2>3
<1>4. after = [p \in 0..(MaxCtx - 1) |-> after[p]]
  BY <1>2
<1> QED
  BY <1>3, <1>4 DEF after

(* The same for a stretch of the log itself.                               *)
LEMMA StretchFuses ==
  ASSUME Types, NEW cells \in Seq(Nat \X Tokens), NEW n \in Nat,
         pos + n <= Len(cells), pos + n <= MaxCtx,
         \A p \in 0..(pos - 1) : rows[p] = cells[p + 1]
  PROVE  LET new == SubSeq(cells, pos + 1, pos + n)
         IN  /\ Injected(new, pos) = [p \in 0..(MaxCtx - 1) |-> Injected(new, pos)[p]]
             /\ \A p \in 0..((pos + n) - 1) : Injected(new, pos)[p] = cells[p + 1]
<1> DEFINE C   == Nat \X Tokens
           new == SubSeq(cells, pos + 1, pos + n)
<1>1. pos \in Nat /\ pos + n \in Nat /\ pos <= pos + n /\ (pos + n) - pos = n
  BY DEF Types
<1> HIDE DEF C
<1>2. cells \in Seq(C)
  BY DEF C
<1>3. /\ new \in Seq(C) /\ Len(new) = (pos + n) - pos
      /\ \A i \in 1..((pos + n) - pos) : new[i] = cells[pos + i]
  BY <1>1, <1>2, PrefixChunk
<1> HIDE DEF new
<1>4. new \in Seq(Nat \X Tokens) /\ Len(new) = n /\ \A i \in 1..Len(new) : new[i] = cells[pos + i]
  BY <1>1, <1>3 DEF C
<1>5. /\ Injected(new, pos) = [p \in 0..(MaxCtx - 1) |-> Injected(new, pos)[p]]
      /\ \A p \in 0..((pos + Len(new)) - 1) : Injected(new, pos)[p] = cells[p + 1]
  BY <1>4, InjectFuses
<1> QED
  BY <1>4, <1>5 DEF new

-----------------------------------------------------------------------------
(* The steps of a call. *)

LEMMA InitInv == Init => IInv
<1> SUFFICES ASSUME Init PROVE IInv
  OBVIOUS
<1>1. Types
  <2>1. /\ out \in Seq(Tokens) /\ prompt \in Seq(Tokens)
        /\ drafts \in Seq(Tokens) /\ queue \in Seq(Tokens)
    BY Nothing, Zenon DEF Init, GenInit
  <2>2. script = <<>> /\ 0 \in 0..MaxNew /\ ThinkClose \in Tokens
    BY Assumed, GenerationAssumption DEF Init, GenInit
  <2>3. /\ cap = 0 /\ minThink = 0 /\ status = "idle" /\ pc = "return"
        /\ stop = FALSE /\ late = 0 /\ pos = 0 /\ drawn = 0 /\ committed = 0
        /\ idLast = ThinkClose
    BY DEF Init, GenInit, AnyToken
  <2>4. rows = [p \in 0..(MaxCtx - 1) |-> rows[p]]
    BY DEF Init
  <2> QED
    BY ONLY <2>1, <2>2, <2>3, <2>4 DEF Types, Statuses
<1>2. Accepted /\ Prefilling /\ Said /\ Retained /\ Fused /\ EogLast /\ ExitState
  BY DEF Init, GenInit, Accepted, Prefilling, Said, Retained, Fused, EogLast, ExitState,
         Turning, Round
<1>3. Polled
  BY Widths DEF Init, GenInit, Polled
<1> QED
  BY <1>1, <1>2, <1>3 DEF IInv

LEMMA ResetStep ==
  ASSUME IInv, SpecReset
  PROVE  IInv'
<1>1. Types'
  <2>1. /\ out' \in Seq(Tokens) /\ prompt' \in Seq(Tokens)
        /\ drafts' \in Seq(Tokens) /\ queue' \in Seq(Tokens)
    BY Nothing, Zenon DEF SpecReset, Reset
  <2>2. script' = <<>> /\ 0 \in 0..MaxNew /\ ThinkClose \in Tokens
    BY Assumed, GenerationAssumption DEF SpecReset, Reset
  <2>3. /\ cap' = 0 /\ minThink' = 0 /\ status' = "idle" /\ pc' = "check"
        /\ stop' = FALSE /\ late' = 0 /\ pos' = 0 /\ drawn' = 0 /\ committed' = 0
        /\ idLast' = ThinkClose
    BY DEF SpecReset, Reset, AnyToken
  <2>4. rows' = [p \in 0..(MaxCtx - 1) |-> rows'[p]]
    BY DEF SpecReset, IInv, Types
  <2> QED
    BY ONLY <2>1, <2>2, <2>3, <2>4 DEF Types, Statuses
<1>2. (Accepted /\ Prefilling /\ Said /\ Retained /\ Fused /\ EogLast /\ ExitState)'
  BY DEF SpecReset, Reset, Accepted, Prefilling, Said, Retained, Fused, EogLast, ExitState,
         Turning, Round
<1>3. Polled'
  <2>1. late' = 0 /\ pc' = "check"
    BY DEF SpecReset, Reset
  <2> QED
    BY <2>1, Widths DEF Polled
<1> QED
  BY <1>1, <1>2, <1>3 DEF IInv

LEMMA CheckStep ==
  ASSUME IInv, NEW p \in Prompts, NEW max \in Budgets, NEW floor \in Floors,
         Check(p, max, floor), UNCHANGED dvars
  PROVE  IInv'
<1>1. /\ p \in Seq(Tokens) /\ Len(p) \in Nat /\ max \in 0..MaxNew /\ floor \in Nat
      /\ p # <<>> => Len(p) > 0
  BY Assumed, GenerationAssumption, EmptySeq, LenProperties
<1>2. /\ pc = "check" /\ prompt' = p /\ cap' = max /\ minThink' = floor
      /\ script' \in Scripts(floor)
      /\ UNCHANGED <<out, late, stop, kv, pos, drawn>>
      /\ UNCHANGED <<rows, committed, idLast, drafts, queue>>
      /\ \/ /\ p # <<>> /\ Len(p) + max <= MaxCtx
            /\ status' = "running" /\ pc' = "prefill"
         \/ status' = "refused" /\ pc' = "return"
  BY DEF Check, reply, dvars
<1>3. /\ out = <<>> /\ late = 0 /\ kv = <<>> /\ pos = 0 /\ committed = 0
      /\ drawn = 0 /\ queue = <<>> /\ drafts = <<>>
  BY <1>2 DEF IInv, Accepted
<1>4. Types'
  BY <1>1, <1>2 DEF IInv, Types, Statuses, Turning
<1>5. Accepted'
  BY <1>1, <1>2 DEF Accepted, Turning, Round, Scripts
<1>6. Prefilling'
  <2>1. SubSeq(p, 1, 0) = <<>> /\ Cells(<<>>) = <<>>
    BY <1>1, SubSeqEmpty DEF Cells
  <2> QED
    BY <1>1, <1>2, <1>3, <2>1 DEF Prefilling
<1>7. (Said /\ Retained /\ EogLast /\ ExitState)'
  BY <1>2, <1>3 DEF Said, Retained, EogLast, ExitState, Round
<1>8. Fused'
  <2>1. committed' = 0 /\ kv' = <<>> /\ Len(<<>>) = 0
    BY <1>2, <1>3, Nothing
  <2> QED
    BY <2>1 DEF Fused
<1>9. Polled'
  BY <1>2, <1>3, Widths DEF Polled
<1> QED
  BY <1>4, <1>5, <1>6, <1>7, <1>8, <1>9 DEF IInv

LEMMA StopStep ==
  ASSUME IInv, RequestStop, UNCHANGED dvars
  PROVE  IInv'
<1>1. /\ UNCHANGED <<script, cap, minThink, prompt, out, status, pc, late, kv, pos, drawn>>
      /\ UNCHANGED <<rows, committed, idLast, drafts, queue>>
      /\ ~stop /\ stop' = TRUE
  BY DEF RequestStop, reply, dvars
<1>2. Types' /\ Accepted' /\ Prefilling' /\ Said' /\ EogLast' /\ ExitState'
  BY <1>1 DEF IInv, Types, Accepted, Prefilling, Said, EogLast, ExitState, Fed, Reply
<1>3. Retained' /\ Fused'
  BY <1>1 DEF IInv, Retained, Fused, Fed, Reply, NDraft, Block
<1>4. Polled'
  <2>1. late = 0 /\ late' = 0 /\ (pc = "emit" => late + Len(queue) <= DraftWidth + 1)
    BY <1>1 DEF IInv, Polled
  <2>2. queue' = queue /\ pc' = pc
    BY <1>1
  <2> QED
    BY <2>1, <2>2, Widths DEF Polled
<1> QED
  BY <1>2, <1>3, <1>4 DEF IInv

(* A call that returns early keeps what it has said.                       *)
LEMMA LeaveStep ==
  ASSUME IInv, Types', pc' = "return", status' \in {"cancelled", "failed"},
         UNCHANGED <<stop, late>>
  PROVE  IInv'
<1>1. (Accepted /\ Prefilling /\ Said /\ Retained /\ Fused /\ EogLast /\ ExitState)'
  BY DEF Accepted, Prefilling, Said, Retained, Fused, EogLast, ExitState, Turning, Round
<1>2. Polled'
  BY DEF IInv, Polled, Turning, Round
<1> QED
  BY <1>1, <1>2 DEF IInv

LEMMA FailStep ==
  ASSUME IInv, Fail, UNCHANGED dvars
  PROVE  IInv'
<1>1. Types'
  BY DEF Fail, reply, dvars, IInv, Types, Statuses
<1> QED
  BY <1>1, LeaveStep DEF Fail, reply

(* What a turn of the prefill leaves, unless it stops.                     *)
LEMMA ChunkFed ==
  ASSUME IInv, Prefill, ~stop
  PROVE  /\ prompt \in Seq(Tokens) /\ Len(prompt) + cap <= MaxCtx
         /\ pos' \in 0..Len(prompt) /\ committed' = pos'
         /\ kv' = Cells(SubSeq(prompt, 1, pos')) /\ Len(kv') = pos'
         /\ drawn = 0 /\ out = <<>> /\ queue = <<>> /\ late = 0
         /\ script \in [1..MaxNew -> Tokens]
         /\ UNCHANGED <<script, cap, minThink, prompt, out, stop, late, drawn>>
         /\ UNCHANGED <<idLast, drafts, queue>>
         /\ rows' = [p \in 0..(MaxCtx - 1) |-> rows'[p]]
         /\ \A p \in 0..(pos' - 1) : rows'[p] = kv'[p + 1]
         /\ \/ pos' < Len(prompt) /\ UNCHANGED <<status, pc>>
            \/ pos' = Len(prompt) /\ cap = 0 /\ status' = "complete" /\ pc' = "return"
            \/ pos' = Len(prompt) /\ cap > 0 /\ status' = status /\ pc' = "first"
<1>1. /\ pc = "prefill" /\ prompt \in Seq(Tokens) /\ cap \in Nat /\ pos \in Nat
      /\ MaxCtx \in Nat /\ Types
  BY Assumed DEF Prefill, IInv, Types
<1>2. /\ drawn = 0 /\ out = <<>> /\ queue = <<>> /\ late = 0 /\ pos < Len(prompt)
      /\ kv = Cells(SubSeq(prompt, 1, pos)) /\ committed = pos
      /\ script \in [1..MaxNew -> Tokens] /\ Len(prompt) + cap <= MaxCtx
      /\ \A p \in 0..(pos - 1) : rows[p] = kv[p + 1]
  BY <1>1 DEF IInv, Accepted, Prefilling, Polled, Fused, Turning, Round
<1>3. /\ Chunk \in Seq(Tokens)
      /\ Len(Chunk) \in 1..(Len(prompt) - pos)
      /\ SubSeq(prompt, 1, pos) \o Chunk = SubSeq(prompt, 1, pos + Len(Chunk))
  BY <1>1, <1>2, NextChunk
<1>4. Len(prompt) \in Nat
  BY <1>1, LenProperties
<1> DEFINE n == Len(Chunk)
           q == SubSeq(prompt, 1, pos)
<1>5. q \in Seq(Tokens) /\ Len(q) = pos
  BY <1>1, <1>2, <1>4, PrefixOf
<1>6. Forwarded(Chunk) = Cells(SubSeq(prompt, 1, pos + n))
  BY <1>2, <1>3, <1>5, Feeds
<1>7. /\ Forwarded(Chunk) \in Seq(Nat \X Tokens) /\ Len(Forwarded(Chunk)) = pos + n
      /\ \A i \in 1..pos : Forwarded(Chunk)[i] = kv[i]
  BY <1>2, <1>3, <1>5, FeedKeeps
<1>8. /\ pos' = pos + n /\ kv' = Forwarded(Chunk) /\ committed' = committed + n
      /\ rows' = Injected(SubSeq(kv', pos + 1, pos + n), pos)
  BY <1>1 DEF Prefill
<1>9. n \in Nat /\ pos' \in 0..Len(prompt) /\ committed' = pos' /\ pos + n <= MaxCtx
  BY <1>1, <1>2, <1>3, <1>4, <1>8
<1>10. /\ rows' = [p \in 0..(MaxCtx - 1) |-> rows'[p]]
       /\ \A p \in 0..(pos' - 1) : rows'[p] = kv'[p + 1]
  <2> DEFINE cells == kv'
  <2>1. cells \in Seq(Nat \X Tokens) /\ Len(cells) = pos + n /\ \A i \in 1..pos : cells[i] = kv[i]
    BY <1>7, <1>8
  <2> HIDE DEF cells, n
  <2>2. ASSUME NEW p \in 0..(pos - 1) PROVE rows[p] = cells[p + 1]
    <3>1. p + 1 \in 1..pos
      BY <1>1
    <3> QED
      BY <1>2, <2>1, <3>1
  <2>3. LET new == SubSeq(cells, pos + 1, pos + n)
        IN  /\ Injected(new, pos) = [p \in 0..(MaxCtx - 1) |-> Injected(new, pos)[p]]
            /\ \A p \in 0..((pos + n) - 1) : Injected(new, pos)[p] = cells[p + 1]
    <3>1. pos + n <= Len(cells)
      BY <1>1, <1>9, <2>1
    <3> QED
      BY <1>1, <1>9, <2>1, <2>2, <3>1, StretchFuses
  <2> QED
    BY <1>8, <2>3 DEF cells
<1>11. \/ pos' < Len(prompt) /\ UNCHANGED <<status, pc>>
       \/ ~(pos' < Len(prompt)) /\ cap = 0 /\ status' = "complete" /\ pc' = "return"
       \/ ~(pos' < Len(prompt)) /\ cap # 0 /\ status' = status /\ pc' = "first"
  BY DEF Prefill, Return
<1>12. /\ UNCHANGED <<script, cap, minThink, prompt, out, stop, late, drawn>>
       /\ UNCHANGED <<idLast, drafts, queue>>
  BY DEF Prefill, reply
<1>13. kv' = Cells(SubSeq(prompt, 1, pos')) /\ Len(kv') = pos'
  BY <1>6, <1>7, <1>8
<1>14. \/ pos' < Len(prompt) /\ UNCHANGED <<status, pc>>
       \/ pos' = Len(prompt) /\ cap = 0 /\ status' = "complete" /\ pc' = "return"
       \/ pos' = Len(prompt) /\ cap > 0 /\ status' = status /\ pc' = "first"
  BY <1>1, <1>4, <1>9, <1>11
<1> QED
  BY <1>1, <1>2, <1>9, <1>10, <1>12, <1>13, <1>14

(* The whole prompt fed is a reply of no tokens fed.                       *)
LEMMA PromptFed ==
  ASSUME prompt \in Seq(Tokens), script \in [1..MaxNew -> Tokens]
  PROVE  Reply(0) = SubSeq(prompt, 1, Len(prompt))
<1>1. SubSeq(script, 1, 0) = <<>>
  BY SubSeqEmpty
<1>2. prompt \o <<>> = prompt
  BY ConcatEmptySeq
<1>3. SubSeq(prompt, 1, Len(prompt)) = prompt
  <2>1. Len(prompt) \in 0..Len(prompt)
    BY LenProperties
  <2> QED
    BY <2>1, PrefixOf, SeqEqual
<1> QED
  BY <1>1, <1>2, <1>3 DEF Reply

LEMMA PrefillStep ==
  ASSUME IInv, Prefill
  PROVE  IInv'
<1>1. CASE stop
  <2>1. Types'
    BY <1>1 DEF Prefill, Return, reply, IInv, Types, Statuses
  <2> QED
    BY <1>1, <2>1, LeaveStep DEF Prefill, Return
<1>2. CASE ~stop
  <2>1. /\ prompt \in Seq(Tokens) /\ Len(prompt) + cap <= MaxCtx
        /\ pos' \in 0..Len(prompt) /\ committed' = pos'
        /\ kv' = Cells(SubSeq(prompt, 1, pos')) /\ Len(kv') = pos'
        /\ drawn = 0 /\ out = <<>> /\ queue = <<>> /\ late = 0
        /\ script \in [1..MaxNew -> Tokens]
        /\ UNCHANGED <<script, cap, minThink, prompt, out, stop, late, drawn>>
        /\ UNCHANGED <<idLast, drafts, queue>>
        /\ rows' = [p \in 0..(MaxCtx - 1) |-> rows'[p]]
        /\ \A p \in 0..(pos' - 1) : rows'[p] = kv'[p + 1]
        /\ \/ pos' < Len(prompt) /\ UNCHANGED <<status, pc>>
           \/ pos' = Len(prompt) /\ cap = 0 /\ status' = "complete" /\ pc' = "return"
           \/ pos' = Len(prompt) /\ cap > 0 /\ status' = status /\ pc' = "first"
    BY <1>2, ChunkFed
  <2>2. Len(prompt) \in Nat /\ cap \in 0..MaxNew /\ pc = "prefill" /\ status = "running"
    BY <2>1, LenProperties DEF IInv, Types, Accepted, Turning, Prefill
  <2>3. Types'
    <3>1. pos' \in Nat /\ committed' \in Nat
      BY <2>1, <2>2
    <3> QED
      BY <2>1, <2>2, <3>1 DEF IInv, Types, Statuses, Turning
  <2>4. Accepted' /\ Said' /\ EogLast' /\ ExitState'
    BY <2>1, <2>2 DEF IInv, Accepted, Said, EogLast, ExitState, Turning, Round
  <2>5. Prefilling'
    <3>1. CASE pos' = Len(prompt) /\ cap > 0 /\ pc' = "first"
      <4>1. Reply(0)' = SubSeq(prompt', 1, Len(prompt'))
        <5>1. Reply(0)' = Reply(0)
          BY <2>1 DEF Reply
        <5> QED
          BY <2>1, <5>1, PromptFed
      <4>2. Fed(0)'
        <5>1. kv' = Cells(SubSeq(prompt', 1, Len(prompt')))
          BY <2>1, <3>1, Zenon
        <5>2. pos' = Len(prompt') + 0
          BY <2>1, <2>2, <3>1
        <5> QED
          BY <4>1, <5>1, <5>2, Zenon DEF Fed
      <4> QED
        BY <2>1, <3>1, <4>2 DEF Prefilling
    <3>2. CASE pos' < Len(prompt) /\ UNCHANGED <<status, pc>>
      BY <2>1, <2>2, <3>2 DEF Prefilling
    <3>3. CASE pc' = "return"
      BY <3>3 DEF Prefilling
    <3> QED
      BY <2>1, <3>1, <3>2, <3>3
  <2>6. Retained' /\ Fused'
    BY <2>1, <2>2 DEF Retained, Fused, Round
  <2>7. Polled'
    BY <2>1, <2>2, Widths DEF Polled
  <2> QED
    BY <2>3, <2>4, <2>5, <2>6, <2>7 DEF IInv
<1> QED
  BY <1>1, <1>2

(* What one turn of an emission loop does: it says the token, and ends the *)
(* reply at the cap, or fails when the stream rejects the token.           *)
LEMMA EmitOutcome ==
  ASSUME NEW t, NEW next, EmitToken(t, next)
  PROVE  \/ /\ out' = Append(out, t)
            /\ late' = IF stop THEN late + 1 ELSE late
            /\ IF Len(out) + 1 >= cap THEN status' = "complete" /\ pc' = "return"
                                      ELSE status' = status /\ pc' = next
         \/ status' = "failed" /\ pc' = "return" /\ UNCHANGED <<out, late>>
<1>1. \/ /\ out' = Append(out, t)
         /\ late' = IF stop THEN late + 1 ELSE late
         /\ IF Len(out) + 1 >= cap THEN Return("complete")
            ELSE status' = status /\ pc' = next
      \/ Return("failed") /\ UNCHANGED <<reply, late>>
  BY Zenon DEF EmitToken
<1> QED
  BY <1>1 DEF Return, reply

(* The reply grows along the script.                                       *)
LEMMA SaysNext ==
  ASSUME out \in Seq(Tokens), NEW t \in Tokens, t = script[Len(out) + 1],
         \A i \in 1..Len(out) : out[i] = script[i],
         NEW more, more = Append(out, t)
  PROVE  /\ more \in Seq(Tokens) /\ Len(more) = Len(out) + 1
         /\ \A i \in 1..Len(more) : more[i] = script[i]
<1>1. /\ more \in Seq(Tokens) /\ Len(more) = Len(out) + 1 /\ Len(out) \in Nat
      /\ \A i \in 1..Len(out) : more[i] = out[i]
      /\ more[Len(out) + 1] = t
  BY AppendProperties, LenProperties
<1>2. ASSUME NEW i \in 1..Len(more) PROVE more[i] = script[i]
  <2>1. i \in 1..Len(out) \/ i = Len(out) + 1
    BY <1>1
  <2>2. CASE i \in 1..Len(out)
    BY <1>1, <2>2
  <2>3. CASE i = Len(out) + 1
    BY <1>1, <2>3
  <2> QED
    BY <2>1, <2>2, <2>3
<1> QED
  BY <1>1, <1>2

(* What the first draw finds and leaves.                                   *)
LEMMA FirstDrawn ==
  ASSUME IInv, FirstToken
  PROVE  LET t == script[1]
         IN  /\ pc = "first" /\ status = "running" /\ out = <<>> /\ queue = <<>>
             /\ drawn = 0 /\ late = 0 /\ cap > 0 /\ Fed(0) /\ t \in Tokens
             /\ drawn' = 1 /\ idLast' = t
             /\ UNCHANGED <<script, cap, minThink, prompt, stop, kv, pos>>
             /\ UNCHANGED <<rows, committed, drafts, queue>>
             /\ IF t \in Eog
                THEN status' = "complete" /\ pc' = "return" /\ UNCHANGED <<out, late>>
                ELSE EmitToken(t, "poll")
<1>1. /\ pc = "first" /\ drawn' = drawn + 1
      /\ UNCHANGED <<script, cap, minThink, prompt, stop, kv, pos>>
      /\ UNCHANGED <<rows, committed, drafts, queue>>
  BY DEF FirstToken
<1>2. /\ drawn = 0 /\ out = <<>> /\ queue = <<>> /\ cap > 0 /\ Fed(0)
      /\ status = "running" /\ late = 0 /\ Types /\ script \in [1..MaxNew -> Tokens]
  BY <1>1 DEF IInv, Accepted, Prefilling, Polled, Turning, Round
<1>3. cap \in 0..MaxNew /\ MaxNew \in Nat /\ minThink \in Nat
  BY <1>2, Assumed DEF Types
<1>4. 1 \in 1..cap /\ 1 \in 1..MaxNew
  BY <1>2, <1>3
<1>5. Draws(1, kv, minThink > 0) = {script[1]}
  <2>1. 1 - 1 = 0 /\ (minThink > 0) = (1 <= minThink)
    BY <1>3
  <2>2. kv = Cells(Reply(1 - 1))
    BY <1>2, <2>1 DEF Fed
  <2> QED
    BY <1>2, <1>4, <2>1, <2>2, DrawIs
<1>6. drawn + 1 = 1 /\ script[1] \in Tokens
  BY <1>2, <1>4
<1>7. \E t \in Draws(1, kv, minThink > 0) :
        /\ idLast' = t
        /\ IF t \in Eog THEN Return("complete") /\ UNCHANGED <<reply, late>>
                        ELSE EmitToken(t, "poll")
  BY <1>6, Zenon DEF FirstToken
<1>8. /\ idLast' = script[1]
      /\ IF script[1] \in Eog THEN Return("complete") /\ UNCHANGED <<reply, late>>
                              ELSE EmitToken(script[1], "poll")
  BY <1>5, <1>7, Zenon
<1> QED
  BY <1>1, <1>2, <1>6, <1>8 DEF Return, reply

LEMMA FirstTokenStep ==
  ASSUME IInv, FirstToken
  PROVE  IInv'
<1> DEFINE t == script[1]
<1>1. /\ pc = "first" /\ status = "running" /\ out = <<>> /\ queue = <<>>
      /\ drawn = 0 /\ late = 0 /\ cap > 0 /\ Fed(0) /\ t \in Tokens
      /\ drawn' = 1 /\ idLast' = t
      /\ UNCHANGED <<script, cap, minThink, prompt, stop, kv, pos>>
      /\ UNCHANGED <<rows, committed, drafts, queue>>
      /\ IF t \in Eog
         THEN status' = "complete" /\ pc' = "return" /\ UNCHANGED <<out, late>>
         ELSE EmitToken(t, "poll")
  BY FirstDrawn
<1>2. /\ Types /\ cap \in Nat /\ Len(out) = 0 /\ Len(queue) = 0 /\ out \in Seq(Tokens)
      /\ committed = pos /\ Len(prompt) + cap <= MaxCtx /\ script \in [1..MaxNew -> Tokens]
      /\ committed <= Len(kv) /\ \A p \in 0..(committed - 1) : rows[p] = kv[p + 1]
  <2>1. pc \in Turning /\ Types /\ Accepted /\ Prefilling /\ Fused
    BY <1>1 DEF IInv, Turning
  <2>2. Len(out) = 0 /\ Len(queue) = 0
    BY <1>1, Nothing
  <2>3. cap \in Nat /\ out \in Seq(Tokens)
    BY <2>1, Assumed DEF Types
  <2>4. committed = pos
    BY <1>1, <2>1 DEF Prefilling
  <2> QED
    BY <2>1, <2>2, <2>3, <2>4 DEF Accepted, Fused
<1>3. Fed(drawn - 1)' /\ kv' = Cells(prompt' \o SubSeq(script', 1, drawn' - 1))
  <2>1. drawn' - 1 = 0
    BY <1>1
  <2>2. Fed(0)'
    BY <1>1 DEF Fed, Reply
  <2>3. Fed(drawn - 1)'
    BY <2>1, <2>2
  <2> QED
    BY <2>3 DEF Fed, Reply
<1> HIDE DEF t
<1>4. CASE status' = "complete" /\ pc' = "return" /\ UNCHANGED <<out, late>>
  <2>1. Types'
    BY <1>1, <1>2, <1>4 DEF Types, Statuses
  <2>2. Accepted' /\ Prefilling' /\ Said' /\ Retained' /\ Fused' /\ EogLast'
    BY <1>4 DEF Accepted, Prefilling, Said, Retained, Fused, EogLast, Turning, Round
  <2>3. Polled'
    BY <1>1, <1>4, Widths DEF Polled
  <2>4. ExitState'
    <3>1. drawn' = IF Len(out') = cap' THEN cap' ELSE Len(out') + 1
      BY <1>1, <1>2, <1>4
    <3> QED
      BY <1>3, <3>1 DEF ExitState
  <2> QED
    BY <2>1, <2>2, <2>3, <2>4 DEF IInv
<1>5. CASE /\ out' = Append(out, t)
           /\ late' = IF stop THEN late + 1 ELSE late
           /\ IF Len(out) + 1 >= cap THEN status' = "complete" /\ pc' = "return"
                                     ELSE status' = status /\ pc' = "poll"
  <2>1. out' \in Seq(Tokens) /\ Len(out') = 1 /\ \A i \in 1..Len(out') : out'[i] = script[i]
    <3>1. t = script[Len(out) + 1] /\ \A i \in 1..Len(out) : out[i] = script[i]
      BY <1>2 DEF t
    <3>2. /\ out' \in Seq(Tokens) /\ Len(out') = Len(out) + 1
          /\ \A i \in 1..Len(out') : out'[i] = script[i]
      <4>1. t \in Tokens /\ out \in Seq(Tokens) /\ out' = Append(out, t)
        BY <1>1, <1>2, <1>5
      <4> QED
        BY ONLY <3>1, <4>1, SaysNext
    <3> QED
      BY <1>2, <3>2
  <2>2. late' \in 0..1 /\ (~stop => late' = 0)
    BY <1>1, <1>5
  <2>3. \/ cap = 1 /\ status' = "complete" /\ pc' = "return"
        \/ cap > 1 /\ status' = "running" /\ pc' = "poll"
    BY <1>1, <1>2, <1>5
  <2>4. Types'
    <3>1. late' \in Nat /\ drawn' \in Nat
      BY <1>1, <2>2
    <3> QED
      BY <1>1, <1>2, <2>1, <2>3, <3>1 DEF Types, Statuses, Turning, Round
  <2>5. Accepted' /\ Prefilling' /\ EogLast'
    BY <1>1, <1>2, <2>3 DEF Accepted, Prefilling, EogLast, Turning, Round
  <2>6. Said'
    <3>1. CASE pc' = "return"
      BY <3>1 DEF Said, Round
    <3>2. CASE cap > 1 /\ pc' = "poll"
      <4>1. /\ Len(out') > 0 /\ Len(out') < cap' /\ drawn' = Len(out') + Len(queue')
            /\ drawn' <= cap' /\ 1..Len(queue') = {}
        BY <1>1, <1>2, <2>1, <3>2
      <4> QED
        BY <1>1, <2>1, <3>2, <4>1 DEF Said
    <3> QED
      BY <2>3, <3>1, <3>2
  <2>7. Retained'
    <3>1. idLast' = script'[drawn'] /\ committed' = pos'
      BY <1>1, <1>2 DEF t
    <3> QED
      BY <1>3, <2>3, <3>1 DEF Retained, Round
  <2>8. Fused'
    BY <1>1, <1>2 DEF Fused
  <2>9. Polled'
    <3>1. late' <= DraftWidth + 1
      BY <2>2, Widths
    <3>2. pc' \notin Turning \ {"poll", "emit"} /\ pc' # "emit"
      BY <2>3 DEF Turning, Round
    <3>3. ~stop' => late' = 0
      BY <1>1, <2>2
    <3> QED
      BY <3>1, <3>2, <3>3 DEF Polled
  <2>10. ExitState'
    <3>1. status' = "complete" => drawn' = IF Len(out') = cap' THEN cap' ELSE Len(out') + 1
      BY <1>1, <2>1, <2>3
    <3> QED
      BY <1>3, <3>1 DEF ExitState
  <2> QED
    BY <2>4, <2>5, <2>6, <2>7, <2>8, <2>9, <2>10 DEF IInv
<1>6. CASE status' = "failed" /\ pc' = "return" /\ UNCHANGED <<out, late>>
  <2>1. Types'
    BY <1>1, <1>2, <1>6 DEF Types, Statuses
  <2> QED
    BY <1>1, <1>6, <2>1, LeaveStep
<1>7. t \in Eog \/ EmitToken(t, "poll")
  BY <1>1
<1> QED
  BY <1>1, <1>4, <1>5, <1>6, <1>7, EmitOutcome

(* What a turn of the emission loop finds at the head of the queue.        *)
LEMMA Emitting ==
  ASSUME IInv, Emit
  PROVE  LET t == script[Len(out) + 1]
         IN  /\ pc = "emit" /\ status = "running" /\ t \in Tokens
             /\ out \in Seq(Tokens) /\ Len(out) \in Nat /\ Len(out) > 0 /\ Len(out) < cap
             /\ queue \in Seq(Tokens) /\ queue # <<>> /\ Len(queue) \in Nat /\ Len(queue) > 0
             /\ queue[1] = t /\ queue' = Tail(queue)
             /\ UNCHANGED <<script, cap, minThink, prompt, stop, kv, pos, drawn>>
             /\ UNCHANGED <<rows, committed, idLast, drafts>>
             /\ IF t \in Eog
                THEN status' = "complete" /\ pc' = "return" /\ UNCHANGED <<out, late>>
                ELSE EmitToken(t, IF queue' = <<>> THEN "poll" ELSE "emit")
<1>1. /\ pc = "emit" /\ queue' = Tail(queue)
      /\ UNCHANGED <<script, cap, minThink, prompt, stop, kv, pos, drawn>>
      /\ UNCHANGED <<rows, committed, idLast, drafts>>
  BY DEF Emit
<1>2. Types /\ Accepted /\ Said /\ pc \in Round /\ pc \in Turning
  BY <1>1 DEF IInv, Round, Turning
<1>3. /\ status = "running" /\ out \in Seq(Tokens) /\ Len(out) > 0 /\ Len(out) < cap
      /\ queue \in Seq(Tokens) /\ queue # <<>>
      /\ \A i \in 1..Len(queue) : queue[i] = script[Len(out) + i]
  BY <1>1, <1>2 DEF Types, Accepted, Said
<1>4. Len(out) \in Nat /\ Len(queue) \in Nat /\ Len(queue) > 0
  BY <1>3, EmptySeq, LenProperties
<1>5. queue[1] = script[Len(out) + 1] /\ queue[1] \in Tokens /\ Head(queue) = queue[1]
  <2>1. 1 \in 1..Len(queue)
    BY <1>4
  <2> QED
    BY <1>3, <2>1, ElementOfSeq
<1>6. IF Head(queue) \in Eog
      THEN Return("complete") /\ UNCHANGED <<reply, late>>
      ELSE EmitToken(Head(queue), IF queue' = <<>> THEN "poll" ELSE "emit")
  BY DEF Emit
<1>7. IF script[Len(out) + 1] \in Eog
      THEN Return("complete") /\ UNCHANGED <<reply, late>>
      ELSE EmitToken(script[Len(out) + 1], IF queue' = <<>> THEN "poll" ELSE "emit")
  BY <1>5, <1>6, Zenon
<1> QED
  BY <1>1, <1>3, <1>4, <1>5, <1>7 DEF Return, reply

LEMMA EmitStep ==
  ASSUME IInv, Emit
  PROVE  IInv'
<1> DEFINE t == script[Len(out) + 1]
           next == IF queue' = <<>> THEN "poll" ELSE "emit"
<1>1. /\ pc = "emit" /\ status = "running" /\ t \in Tokens
      /\ out \in Seq(Tokens) /\ Len(out) \in Nat /\ Len(out) > 0 /\ Len(out) < cap
      /\ queue \in Seq(Tokens) /\ queue # <<>> /\ Len(queue) \in Nat /\ Len(queue) > 0
      /\ queue[1] = t /\ queue' = Tail(queue)
      /\ UNCHANGED <<script, cap, minThink, prompt, stop, kv, pos, drawn>>
      /\ UNCHANGED <<rows, committed, idLast, drafts>>
      /\ IF t \in Eog
         THEN status' = "complete" /\ pc' = "return" /\ UNCHANGED <<out, late>>
         ELSE EmitToken(t, next)
  BY Emitting
<1>2. pc \in Turning /\ pc \in Round /\ Types /\ Accepted /\ Said /\ Retained /\ Fused
  BY <1>1 DEF IInv, Turning, Round
<1>3. /\ drawn = Len(out) + Len(queue) /\ drawn <= cap /\ drawn \in Nat /\ cap \in Nat
      /\ \A i \in 1..Len(out) : out[i] = script[i]
      /\ \A i \in 1..Len(queue) : queue[i] = script[Len(out) + i]
      /\ Fed(drawn - 1) /\ idLast = script[drawn] /\ committed = pos
  BY <1>1, <1>2, Assumed DEF Types, Said, Retained
<1>4. /\ \A i \in 1..(Len(queue) - 1) : queue[i] \notin Eog
      /\ late \in Nat /\ late + Len(queue) <= DraftWidth + 1 /\ (~stop => late = 0)
  BY <1>1, <1>2 DEF IInv, EogLast, Polled, Types
<1>5. /\ queue' \in Seq(Tokens) /\ Len(queue') = Len(queue) - 1
      /\ \A i \in 1..Len(queue') : queue'[i] = queue[i + 1]
  BY <1>1, HeadTailProperties
<1>6. Fed(drawn - 1)' /\ kv' = Cells(prompt' \o SubSeq(script', 1, drawn' - 1))
  <2>1. Fed(drawn - 1)'
    BY <1>1, <1>3 DEF Fed, Reply
  <2> QED
    BY <2>1 DEF Fed, Reply
<1> HIDE DEF t, next
<1>7. CASE t \in Eog /\ status' = "complete" /\ pc' = "return" /\ UNCHANGED <<out, late>>
  <2>1. Types'
    BY <1>1, <1>2, <1>5, <1>7 DEF Types, Statuses
  <2>2. Accepted' /\ Prefilling' /\ Said' /\ Retained' /\ Fused' /\ EogLast'
    BY <1>7 DEF Accepted, Prefilling, Said, Retained, Fused, EogLast, Turning, Round
  <2>3. Polled'
    <3>1. late <= DraftWidth + 1
      BY <1>1, <1>4, Widths
    <3> QED
      BY <1>1, <1>4, <1>7, <3>1 DEF Polled, Turning, Round
  <2>4. ExitState'
    <3>1. Len(queue) = 1
      <4>1. SUFFICES ASSUME Len(queue) # 1 PROVE FALSE
        OBVIOUS
      <4>2. Len(queue) \in Nat /\ Len(queue) > 0
        BY <1>1
      <4>3. PICK last \in Nat : last = Len(queue) - 1
        BY ONLY <4>2
      <4>4. 1 \in 1..last
        BY ONLY <4>1, <4>2, <4>3
      <4> QED
        BY <1>1, <1>4, <1>7, <4>3, <4>4
    <3>2. drawn' = Len(out') + 1 /\ Len(out') # cap'
      BY <1>1, <1>3, <1>7, <3>1
    <3> QED
      BY <1>6, <3>2 DEF ExitState
  <2> QED
    BY <2>1, <2>2, <2>3, <2>4 DEF IInv
<1>8. CASE /\ out' = Append(out, t)
           /\ late' = IF stop THEN late + 1 ELSE late
           /\ IF Len(out) + 1 >= cap THEN status' = "complete" /\ pc' = "return"
                                     ELSE status' = status /\ pc' = next
  <2>1. /\ out' \in Seq(Tokens) /\ Len(out') = Len(out) + 1
        /\ \A i \in 1..Len(out') : out'[i] = script[i]
    <3>1. t = script[Len(out) + 1]
      BY DEF t
    <3>2. t \in Tokens /\ out \in Seq(Tokens) /\ out' = Append(out, t)
      BY <1>1, <1>8
    <3> QED
      BY ONLY <1>3, <3>1, <3>2, SaysNext
  <2>2. late' \in Nat /\ late' + Len(queue') <= DraftWidth + 1 /\ (~stop' => late' = 0)
    BY <1>1, <1>4, <1>5, <1>8, Widths
  <2>3. late' <= DraftWidth + 1
    BY <1>1, <1>5, <2>2, Widths
  <2>4. \/ Len(out') = cap /\ drawn = cap /\ status' = "complete" /\ pc' = "return"
        \/ Len(out') < cap /\ status' = "running" /\ queue' = <<>> /\ pc' = "poll"
        \/ Len(out') < cap /\ status' = "running" /\ queue' # <<>> /\ pc' = "emit"
    BY <1>1, <1>3, <1>8, <2>1 DEF next
  <2>5. Types'
    <3>1. status' \in Statuses /\ pc' \in Turning \cup {"check", "return"}
      BY <2>4 DEF Statuses, Turning, Round
    <3> QED
      BY <1>1, <1>2, <1>5, <2>1, <2>2, <3>1 DEF Types
  <2>6. Accepted'
    BY <1>1, <1>2, <2>4 DEF Accepted, Turning, Round
  <2>7. Prefilling'
    BY <2>4 DEF Prefilling
  <2>8. Said'
    <3>1. CASE pc' = "return"
      BY <3>1 DEF Said, Round
    <3>2. CASE Len(out') < cap /\ pc' \in {"poll", "emit"}
      <4>1. Len(out') > 0 /\ drawn' = Len(out') + Len(queue') /\ drawn' <= cap'
        BY <1>1, <1>3, <1>5, <2>1
      <4>2. ASSUME NEW i \in 1..Len(queue') PROVE queue'[i] = script'[Len(out') + i]
        <5>1. i + 1 \in 1..Len(queue) /\ Len(out) + (i + 1) = Len(out') + i
          BY <1>1, <1>5, <2>1
        <5> QED
          BY <1>1, <1>3, <1>5, <5>1
      <4>3. IF pc' \in {"commit", "emit"} THEN queue' # <<>> ELSE queue' = <<>>
        BY <2>4, <3>2
      <4> QED
        BY <1>1, <2>1, <3>2, <4>1, <4>2, <4>3 DEF Said
    <3> QED
      BY <2>4, <3>1, <3>2
  <2>9. Retained'
    <3>1. idLast' = script'[drawn'] /\ committed' = pos'
      BY <1>1, <1>3
    <3> QED
      BY <1>6, <2>4, <3>1 DEF Retained, Round
  <2>10. Fused'
    BY <1>1, <1>2 DEF Fused
  <2>11. EogLast'
    <3>1. ASSUME NEW i \in 1..(Len(queue') - 1) PROVE queue'[i] \notin Eog
      <4>1. i \in 1..Len(queue') /\ i + 1 \in 1..(Len(queue) - 1)
        BY <1>1, <1>5
      <4> QED
        BY <1>4, <1>5, <4>1
    <3> QED
      BY <3>1 DEF EogLast
  <2>12. Polled'
    BY <2>2, <2>3, <2>4 DEF Polled, Turning, Round
  <2>13. ExitState'
    <3>1. status' = "complete" => drawn' = IF Len(out') = cap' THEN cap' ELSE Len(out') + 1
      BY <1>1, <2>4
    <3> QED
      BY <1>6, <3>1 DEF ExitState
  <2> QED
    BY <2>5, <2>6, <2>7, <2>8, <2>9, <2>10, <2>11, <2>12, <2>13 DEF IInv
<1>9. CASE status' = "failed" /\ pc' = "return" /\ UNCHANGED <<out, late>>
  <2>1. Types'
    BY <1>1, <1>2, <1>5, <1>9 DEF Types, Statuses
  <2> QED
    BY <1>1, <1>9, <2>1, LeaveStep
<1>10. \/ t \in Eog /\ status' = "complete" /\ pc' = "return" /\ UNCHANGED <<out, late>>
       \/ EmitToken(t, next)
  BY <1>1
<1> QED
  BY <1>7, <1>8, <1>9, <1>10, EmitOutcome

(* What holds all through a round.                                         *)
LEMMA InRound ==
  ASSUME IInv, pc \in Round
  PROVE  /\ Types /\ pc \in Turning /\ status = "running"
         /\ prompt \in Seq(Tokens) /\ out \in Seq(Tokens)
         /\ queue \in Seq(Tokens) /\ drafts \in Seq(Tokens) /\ idLast \in Tokens
         /\ Len(prompt) \in Nat /\ Len(out) \in Nat /\ Len(queue) \in Nat /\ Len(drafts) \in Nat
         /\ script \in [1..MaxNew -> Tokens]
         /\ cap \in Nat /\ cap <= MaxNew /\ MaxNew \in Nat /\ MaxCtx \in Nat
         /\ drawn \in Nat /\ pos \in Nat /\ late \in Nat /\ minThink \in Nat
         /\ Len(out) > 0 /\ Len(out) < cap
         /\ drawn = Len(out) + Len(queue) /\ drawn <= cap
         /\ Len(prompt) + cap <= MaxCtx
         /\ committed = pos /\ pos <= Len(kv)
         /\ \A p \in 0..(pos - 1) : rows[p] = kv[p + 1]
<1>1. /\ Types /\ Accepted /\ Said /\ Retained /\ Fused /\ pc \in Turning
  BY DEF IInv, Turning
<1>2. /\ status = "running" /\ Len(prompt) + cap <= MaxCtx /\ script \in [1..MaxNew -> Tokens]
  BY <1>1 DEF Accepted
<1>3. /\ Len(out) > 0 /\ Len(out) < cap /\ drawn = Len(out) + Len(queue) /\ drawn <= cap
  BY <1>1 DEF Said
<1>4. /\ committed = pos /\ pos <= Len(kv) /\ \A p \in 0..(pos - 1) : rows[p] = kv[p + 1]
  BY <1>1 DEF Retained, Fused
<1>5. /\ prompt \in Seq(Tokens) /\ out \in Seq(Tokens)
      /\ queue \in Seq(Tokens) /\ drafts \in Seq(Tokens) /\ idLast \in Tokens
      /\ cap \in 0..MaxNew /\ drawn \in Nat /\ pos \in Nat /\ late \in Nat /\ minThink \in Nat
  BY <1>1 DEF Types
<1>6. /\ Len(prompt) \in Nat /\ Len(out) \in Nat /\ Len(queue) \in Nat /\ Len(drafts) \in Nat
      /\ cap \in Nat /\ cap <= MaxNew /\ MaxNew \in Nat /\ MaxCtx \in Nat
  BY <1>5, Assumed, LenProperties
<1> QED
  BY <1>1, <1>2, <1>3, <1>4, <1>5, <1>6

(* What a block can be.                                                    *)
LEMMA Outcomes ==
  ASSUME NEW n \in Nat, NEW ds \in DraftOutcomes(n)
  PROVE  ds \in Seq(Tokens) /\ Len(ds) \in Nat /\ Len(ds) <= n
<1>1. CASE ds = <<>>
  BY <1>1, Nothing
<1>2. CASE \E k \in 1..n : ds \in [1..k -> Tokens]
  <2>1. PICK k \in 1..n : ds \in [1..k -> Tokens]
    BY <1>2
  <2>2. k \in Nat
    BY <2>1
  <2>3. ds \in Seq(Tokens) /\ Len(ds) = k
    BY <2>1, <2>2, IsSequence
  <2> QED
    BY <2>2, <2>3
<1> QED
  BY <1>1, <1>2 DEF DraftOutcomes

LEMMA DraftStep ==
  ASSUME IInv, Draft
  PROVE  IInv'
<1>1. /\ pc = "poll" /\ pc \in Round
      /\ UNCHANGED <<script, cap, minThink, prompt, out, stop, late, kv, pos, drawn>>
      /\ UNCHANGED <<committed, idLast, queue>>
  BY DEF Draft, reply, Round
<1>2. CASE stop
  <2>1. /\ status' = "cancelled" /\ pc' = "return" /\ UNCHANGED <<rows, drafts>>
    BY <1>2 DEF Draft, Return
  <2>2. Types'
    BY <1>1, <2>1 DEF IInv, Types, Statuses
  <2> QED
    BY <1>1, <2>1, <2>2, LeaveStep
<1>3. CASE ~stop
  <2>1. status' = status /\ DraftBlock
    BY <1>3 DEF Draft
  <2>2. /\ Types /\ pc \in Turning /\ status = "running" /\ drafts \in Seq(Tokens)
        /\ pos \in Nat /\ MaxCtx \in Nat /\ committed = pos
        /\ \A p \in 0..(pos - 1) : rows[p] = kv[p + 1]
    BY <1>1, InRound
  <2>3. NDraft \in Int
    BY <2>2, Widths DEF NDraft, Smaller
  <2>4. /\ drafts' \in Seq(Tokens) /\ Len(drafts') \in Nat
        /\ pc' = "verify" => Len(drafts') > 0 /\ Len(drafts') <= NDraft
        /\ pc' \in {"step", "verify"}
    <3>1. CASE drafts' = <<>> /\ pc' = "step"
      BY <3>1, Nothing
    <3>2. CASE /\ NDraft > 0 /\ drafts' \in DraftOutcomes(NDraft)
               /\ pc' = IF drafts' = <<>> THEN "step" ELSE "verify"
      <4>1. NDraft \in Nat
        BY <2>3, <3>2
      <4>2. drafts' \in Seq(Tokens) /\ Len(drafts') \in Nat /\ Len(drafts') <= NDraft
        BY <3>2, <4>1, Outcomes
      <4>3. drafts' # <<>> => Len(drafts') > 0
        BY <4>2, EmptySeq
      <4> QED
        BY <3>2, <4>2, <4>3
    <3> QED
      BY <2>1, <3>1, <3>2 DEF DraftBlock
  <2>5. /\ rows' = [p \in 0..(MaxCtx - 1) |-> rows'[p]]
        /\ \A p \in 0..(pos - 1) : rows'[p] = kv[p + 1]
    <3>1. CASE UNCHANGED rows
      BY <2>2, <3>1 DEF Types
    <3>2. CASE rows' = Dirtied(NDraft + 1) /\ Fits(NDraft + 1) /\ NDraft > 0
      <4>1. DOMAIN rows = 0..(MaxCtx - 1)
        BY <2>2 DEF Types
      <4>2. rows' = [p \in 0..(MaxCtx - 1) |->
                       IF p \in pos..(pos + (NDraft + 1) - 1) THEN Noise ELSE rows[p]]
        BY <2>2, <3>2, <4>1 DEF Dirtied
      <4>3. ASSUME NEW p \in 0..(pos - 1) PROVE rows'[p] = kv[p + 1]
        <5>1. p \in 0..(MaxCtx - 1) /\ p \notin pos..(pos + (NDraft + 1) - 1)
          BY <2>2, <2>3, <3>2 DEF Fits
        <5> QED
          BY <2>2, <4>2, <5>1
      <4> QED
        BY <4>2, <4>3
    <3> QED
      BY <2>1, <3>1, <3>2 DEF DraftBlock
  <2>6. late = 0
    BY <1>3 DEF IInv, Polled
  <2>7. Types'
    <3>1. pc' \in Turning
      BY <2>4 DEF Turning, Round
    <3> QED
      BY <1>1, <2>1, <2>2, <2>4, <2>5, <3>1 DEF Types
  <2>8. Accepted' /\ Prefilling' /\ EogLast'
    BY <1>1, <2>1, <2>2, <2>4 DEF IInv, Accepted, Prefilling, EogLast, Turning, Round
  <2>9. Said'
    BY <1>1, <2>4 DEF IInv, Said
  <2>10. Retained'
    <3>1. Fed(drawn - 1)' /\ idLast' = script'[drawn']
      <4>1. Fed(drawn - 1) /\ idLast = script[drawn]
        BY <1>1 DEF IInv, Retained
      <4> QED
        BY <1>1, <4>1 DEF Fed, Reply
    <3>2. NDraft' = NDraft /\ committed' = pos'
      BY <1>1, <2>2 DEF NDraft
    <3> QED
      BY <2>4, <3>1, <3>2 DEF Retained
  <2>11. Fused'
    BY <1>1, <2>2, <2>5 DEF IInv, Fused
  <2>12. Polled'
    BY <1>1, <2>4, <2>6, Widths DEF Polled
  <2>13. ExitState'
    BY <2>1, <2>2 DEF ExitState
  <2> QED
    BY <2>7, <2>8, <2>9, <2>10, <2>11, <2>12, <2>13 DEF IInv
<1> QED
  BY <1>2, <1>3

(* The caches after a round that ends with n tokens of the reply fed.      *)
LEMMA FedNext ==
  ASSUME NEW n, drawn' - 1 = n, UNCHANGED <<script, prompt>>,
         kv' = Cells(Reply(n)), pos' = Len(prompt) + n
  PROVE  Fed(drawn - 1)'
<1>1. Cells(Reply(n)) = Cells(prompt' \o SubSeq(script', 1, drawn' - 1))
  BY DEF Reply
<1> QED
  BY <1>1 DEF Fed, Reply

LEMMA PlainStepStep ==
  ASSUME IInv, PlainStep
  PROVE  IInv'
<1> DEFINE t == script[drawn + 1]
<1>1. /\ pc = "step" /\ pc' = "emit" /\ pc \in Round
      /\ kv' = Forwarded(<<idLast>>) /\ rows' = Injected(<<LastOf(kv')>>, pos)
      /\ committed' = committed + 1 /\ pos' = pos + 1 /\ drawn' = drawn + 1
      /\ \E x \in Draws(drawn + 1, kv', Len(out) < minThink) : queue' = <<x>> /\ idLast' = x
      /\ UNCHANGED <<script, cap, minThink, prompt, out, status, stop, late, drafts>>
  BY DEF PlainStep, reply, Round
<1>2. /\ Types /\ pc \in Turning /\ status = "running"
      /\ prompt \in Seq(Tokens) /\ Len(prompt) \in Nat /\ Len(out) \in Nat
      /\ script \in [1..MaxNew -> Tokens]
      /\ cap \in Nat /\ cap <= MaxNew /\ MaxNew \in Nat /\ MaxCtx \in Nat
      /\ drawn \in Nat /\ pos \in Nat /\ minThink \in Nat
      /\ Len(out) > 0 /\ Len(out) < cap /\ Len(prompt) + cap <= MaxCtx
      /\ committed = pos /\ pos <= Len(kv)
      /\ \A p \in 0..(pos - 1) : rows[p] = kv[p + 1]
  BY <1>1, InRound
<1>3. drawn = Len(out) /\ late = 0 /\ \A i \in 1..Len(out) : out[i] = script[i]
  <2>1. queue = <<>> /\ drawn = Len(out) + Len(queue)
    BY <1>1, <1>2 DEF IInv, Said
  <2>2. late = 0
    BY <1>1, <1>2 DEF IInv, Polled
  <2>3. drawn = Len(out)
    BY <1>2, <2>1, Nothing
  <2> QED
    BY <1>1, <2>2, <2>3 DEF IInv, Said
<1> DEFINE n == drawn - 1
<1>4. n \in Nat /\ n < MaxNew /\ n + 1 = drawn /\ drawn \in 0..MaxNew
  BY <1>2, <1>3
<1>5. Fed(n) /\ idLast = script[n + 1]
  BY <1>1, <1>4 DEF IInv, Retained
<1>6. kv' = Cells(Reply(drawn)) /\ pos' = Len(prompt) + drawn
  <2>1. kv' = Cells(Reply(n + 1))
    BY <1>1, <1>2, <1>4, <1>5, FeedsNext
  <2> QED
    BY <1>1, <1>2, <1>4, <1>5, <2>1 DEF Fed
<1>7. queue' = <<t>> /\ idLast' = t /\ t \in Tokens
  <2>1. drawn + 1 \in 1..cap /\ drawn + 1 \in 1..MaxNew
        /\ (drawn + 1) - 1 = drawn /\ (Len(out) < minThink) = (drawn + 1 <= minThink)
    BY <1>2, <1>3
  <2>2. Draws(drawn + 1, kv', Len(out) < minThink) = {t}
    BY <1>2, <1>6, <2>1, DrawIs
  <2>3. t \in Tokens
    BY <1>2, <2>1
  <2> QED
    BY <1>1, <2>2, <2>3
<1> HIDE DEF t, n
<1>8. /\ queue' \in Seq(Tokens) /\ Len(queue') = 1 /\ queue'[1] = t /\ queue' # <<>>
  BY ONLY <1>7
<1>9. Types'
  <2>1. /\ rows' = [p \in 0..(MaxCtx - 1) |-> rows'[p]]
    BY <1>1, <1>2 DEF Injected, Types
  <2> QED
    BY <1>1, <1>2, <1>7, <1>8, <2>1 DEF Types, Turning, Round
<1>10. Accepted' /\ Prefilling' /\ ExitState'
  BY <1>1, <1>2 DEF Accepted, Prefilling, ExitState, Turning, Round
<1>11. Said'
  <2>1. /\ Len(out') > 0 /\ Len(out') < cap' /\ drawn' = Len(out') + Len(queue') /\ drawn' <= cap'
    BY <1>1, <1>2, <1>3, <1>8
  <2>2. \A i \in 1..Len(queue') : queue'[i] = script'[Len(out') + i]
    <3>1. ASSUME NEW i \in 1..Len(queue') PROVE i = 1
      BY <1>8
    <3>2. queue'[1] = script'[Len(out') + 1]
      BY <1>1, <1>3, <1>8 DEF t
    <3> QED
      BY <3>1, <3>2
  <2> QED
    BY <1>1, <1>3, <1>8, <2>1, <2>2 DEF Said
<1>12. Retained'
  <2>1. Fed(drawn - 1)'
    <3>1. drawn' - 1 = drawn /\ UNCHANGED <<script, prompt>>
      BY <1>1, <1>2
    <3> QED
      BY ONLY <1>6, <3>1, FedNext
  <2>2. idLast' = script'[drawn'] /\ committed' = pos'
    BY <1>1, <1>2, <1>7 DEF t
  <2> QED
    BY <1>1, <2>1, <2>2 DEF Retained
<1>13. Fused'
  <2>1. /\ kv' \in Seq(Nat \X Tokens) /\ Len(kv') = pos + 1
        /\ \A i \in 1..pos : kv'[i] = kv[i]
    <3>1. n \in 0..MaxNew /\ <<idLast>> \in Seq(Tokens) /\ Len(<<idLast>>) = 1
      BY <1>2, <1>4 DEF Types
    <3>2. Reply(n) \in Seq(Tokens) /\ Len(Reply(n)) = Len(prompt) + n
      BY <1>2, <3>1, ReplyOf
    <3>3. kv = Cells(Reply(n)) /\ pos = Len(Reply(n))
      BY <1>5, <3>2 DEF Fed
    <3> DEFINE x == <<idLast>>
    <3> HIDE DEF x
    <3>4. x \in Seq(Tokens) /\ Len(x) = 1 /\ kv' = Forwarded(x)
      BY <1>1, <3>1 DEF x
    <3>5. /\ Forwarded(x) \in Seq(Nat \X Tokens) /\ Len(Forwarded(x)) = pos + Len(x)
          /\ \A i \in 1..pos : Forwarded(x)[i] = kv[i]
      BY <3>2, <3>3, <3>4, FeedKeeps
    <3> QED
      BY <3>4, <3>5
  <2> DEFINE cells == kv'
             new   == <<LastOf(cells)>>
  <2> HIDE DEF cells
  <2>2. cells \in Seq(Nat \X Tokens) /\ Len(cells) = pos + 1 /\ \A i \in 1..pos : cells[i] = kv[i]
    BY <2>1 DEF cells
  <2>3. LastOf(cells) = cells[pos + 1] /\ cells[pos + 1] \in Nat \X Tokens
    <3>1. pos + 1 \in 1..Len(cells)
      BY <1>2, <2>2
    <3> QED
      BY <2>2, <3>1, ElementOfSeq DEF LastOf
  <2>4. new \in Seq(Nat \X Tokens) /\ Len(new) = 1 /\ new[1] = cells[pos + 1]
    BY <2>3
  <2> HIDE DEF new
  <2>5. \A i \in 1..Len(new) : new[i] = cells[pos + i]
    BY <2>4
  <2>6. \A p \in 0..(pos - 1) : rows[p] = cells[p + 1]
    <3>1. ASSUME NEW p \in 0..(pos - 1) PROVE rows[p] = cells[p + 1]
      <4>1. p + 1 \in 1..pos
        BY <1>2
      <4> QED
        BY <1>2, <2>2, <4>1
    <3> QED
      BY <3>1
  <2>7. pos + Len(new) <= Len(cells) /\ pos + Len(new) <= MaxCtx
    <3>1. pos = Len(prompt) + n
      BY <1>5 DEF Fed
    <3> QED
      BY <1>2, <1>3, <1>4, <2>2, <2>4, <3>1
  <2>8. \A p \in 0..((pos + Len(new)) - 1) : Injected(new, pos)[p] = cells[p + 1]
    BY <1>2, <2>2, <2>4, <2>5, <2>6, <2>7, InjectFuses
  <2>9. /\ rows' = Injected(new, pos) /\ committed' = pos + Len(new)
        /\ committed' <= Len(kv')
    BY <1>1, <1>2, <2>1, <2>4 DEF new, cells
  <2> QED
    BY <2>8, <2>9 DEF Fused, cells
<1>14. EogLast' /\ Polled'
  <2>1. \A i \in 1..(Len(queue') - 1) : FALSE
    BY <1>8
  <2>2. late' = 0 /\ late' + Len(queue') <= DraftWidth + 1 /\ late' <= DraftWidth + 1
    BY <1>1, <1>3, <1>8, Widths
  <2> QED
    BY <2>1, <2>2 DEF EogLast, Polled
<1> QED
  BY <1>9, <1>10, <1>11, <1>12, <1>13, <1>14 DEF IInv

LEMMA VerifyStep ==
  ASSUME IInv, Verify
  PROVE  IInv'
<1>1. /\ pc = "verify" /\ pc' = "commit" /\ pc \in Round
      /\ kv' = Forwarded(Block)
      /\ queue' \in Walks(drafts, kv', cap - Len(out))
      /\ drawn' = drawn + Len(queue')
      /\ UNCHANGED <<script, cap, minThink, prompt, out, status, stop, late, pos>>
      /\ UNCHANGED <<rows, committed, idLast, drafts>>
  BY DEF Verify, reply, Round
<1>2. /\ Types /\ pc \in Turning /\ status = "running"
      /\ prompt \in Seq(Tokens) /\ drafts \in Seq(Tokens) /\ idLast \in Tokens
      /\ Len(prompt) \in Nat /\ Len(out) \in Nat /\ Len(drafts) \in Nat
      /\ script \in [1..MaxNew -> Tokens]
      /\ cap \in Nat /\ cap <= MaxNew /\ MaxNew \in Nat /\ MaxCtx \in Nat
      /\ drawn \in Nat /\ pos \in Nat
      /\ Len(out) > 0 /\ Len(out) < cap /\ Len(prompt) + cap <= MaxCtx
      /\ committed = pos /\ pos <= Len(kv)
      /\ \A p \in 0..(pos - 1) : rows[p] = kv[p + 1]
  BY <1>1, InRound
<1>3. drawn = Len(out) /\ late = 0 /\ \A i \in 1..Len(out) : out[i] = script[i]
  <2>1. queue = <<>> /\ drawn = Len(out) + Len(queue)
    BY <1>1, <1>2 DEF IInv, Said
  <2>2. late = 0
    BY <1>1, <1>2 DEF IInv, Polled
  <2>3. drawn = Len(out)
    BY <1>2, <2>1, Nothing
  <2> QED
    BY <1>1, <2>2, <2>3 DEF IInv, Said
<1> DEFINE r == Len(out)
<1>4. /\ r \in 1..MaxNew /\ r = drawn /\ r - 1 \in 0..MaxNew
      /\ Fed(r - 1) /\ idLast = script[r] /\ Len(drafts) <= NDraft
  <2>1. Fed(drawn - 1) /\ idLast = script[drawn] /\ Len(drafts) <= NDraft
    BY <1>1 DEF IInv, Retained
  <2> QED
    BY <1>2, <1>3, <2>1
<1> DEFINE base == Reply(r - 1)
<1>5. base \in Seq(Tokens) /\ Len(base) = Len(prompt) + (r - 1)
  BY <1>2, <1>4, ReplyOf
<1>6. kv = Cells(base) /\ pos = Len(base)
  BY <1>4, <1>5 DEF Fed
<1>7. Block \in Seq(Tokens)
  <2>1. <<idLast>> \in Seq(Tokens)
    BY <1>2
  <2> QED
    BY <1>2, <2>1, ConcatProperties DEF Block
<1>8. kv' = Cells(base \o Block)
  BY <1>1, <1>5, <1>6, <1>7, Feeds
<1>9. Len(kv') = pos + Len(Block) /\ \A i \in 1..pos : kv'[i] = kv[i]
  BY <1>1, <1>5, <1>6, <1>7, FeedKeeps
<1>10. /\ queue' \in Seq(Tokens) /\ Len(queue') >= 1 /\ Len(queue') <= Len(drafts) + 1
       /\ Len(queue') <= cap - r
       /\ \A i \in 1..(Len(queue') - 1) : drafts[i] = queue'[i] /\ queue'[i] \notin Eog
       /\ \A i \in 1..Len(queue') : queue'[i] = script[r + i]
  <2> DEFINE cells == kv'
             c == queue'
  <2>1. cells = Cells(Reply(r - 1) \o Block) /\ c \in Walks(drafts, cells, cap - Len(out))
    BY <1>1, <1>8
  <2>2. pos = Len(prompt) + (r - 1)
    BY <1>5, <1>6
  <2> HIDE DEF cells, c, r
  <2>3. r = Len(out) /\ r \in 1..MaxNew /\ r = drawn /\ idLast = script[r]
    BY <1>4 DEF r
  <2>4. /\ c \in Seq(Tokens) /\ Len(c) >= 1 /\ Len(c) <= Len(drafts) + 1
        /\ Len(c) <= cap - r
        /\ \A i \in 1..(Len(c) - 1) : drafts[i] = c[i] /\ c[i] \notin Eog
        /\ \A i \in 1..Len(c) : c[i] = script[r + i]
    <3>1. Types /\ prompt \in Seq(Tokens) /\ script \in [1..MaxNew -> Tokens]
      BY <1>2
    <3> QED
      BY ONLY <2>1, <2>2, <2>3, <3>1, WalkIs
  <2> QED
    BY <2>4 DEF c
<1>11. Len(queue') \in Nat /\ queue' # <<>>
  BY <1>10, Nothing, LenProperties
<1>12. Types'
  <2>1. queue' \in Seq(Tokens) /\ drawn' \in Nat /\ pc' \in Turning
    BY <1>1, <1>2, <1>10, <1>11 DEF Turning, Round
  <2> QED
    BY <1>1, <1>2, <2>1 DEF Types
<1>13. Accepted' /\ Prefilling' /\ ExitState'
  BY <1>1, <1>2 DEF IInv, Accepted, Prefilling, ExitState, Turning, Round
<1>14. Said'
  <2>1. /\ Len(out') > 0 /\ Len(out') < cap' /\ drawn' = Len(out') + Len(queue') /\ drawn' <= cap'
    BY <1>1, <1>2, <1>3, <1>10, <1>11
  <2>2. \A i \in 1..Len(queue') : queue'[i] = script'[Len(out') + i]
    BY <1>1, <1>10
  <2> QED
    BY <1>1, <1>3, <1>11, <2>1, <2>2 DEF Said
<1>15. Retained'
  <2>1. kv' = Cells(prompt' \o SubSeq(script', 1, Len(out') - 1) \o (<<idLast'>> \o drafts'))
    BY <1>1, <1>8 DEF Block, Reply
  <2>2. /\ pos' = Len(prompt') + (Len(out') - 1) /\ idLast' = script'[Len(out')]
        /\ NDraft' = NDraft /\ committed' = pos'
    BY <1>1, <1>2, <1>4, <1>5, <1>6 DEF NDraft
  <2>3. /\ Len(queue') <= Len(drafts') + 1 /\ Len(drafts') <= NDraft'
        /\ \A i \in 1..(Len(queue') - 1) : drafts'[i] = queue'[i]
    BY <1>1, <1>4, <1>10, <2>2
  <2> QED
    BY <1>1, <2>1, <2>2, <2>3 DEF Retained, Reply, Block
<1>16. Fused'
  <2>1. committed' <= Len(kv')
    BY <1>1, <1>2, <1>7, <1>9, LenProperties
  <2>2. ASSUME NEW p \in 0..(pos - 1) PROVE rows[p] = kv'[p + 1]
    <3>1. p + 1 \in 1..pos
      BY <1>2
    <3> QED
      BY <1>2, <1>9, <3>1
  <2> QED
    BY <1>1, <1>2, <2>1, <2>2 DEF Fused
<1>17. EogLast' /\ Polled'
  BY <1>1, <1>3, <1>10, Widths DEF EogLast, Polled
<1> QED
  BY <1>12, <1>13, <1>14, <1>15, <1>16, <1>17 DEF IInv

LEMMA CommitStep ==
  ASSUME IInv, Commit
  PROVE  IInv'
<1> DEFINE keep == Len(queue)
           r    == Len(out)
           n    == drawn - 1
<1>1. /\ pc = "commit" /\ pc' = "emit" /\ pc \in Round
      /\ kv' = SubSeq(kv, 1, pos + keep)
      /\ rows' = Injected(SubSeq(kv, pos + 1, pos + keep), pos)
      /\ committed' = committed + keep /\ pos' = pos + keep
      /\ idLast' = LastOf(queue) /\ drafts' = <<>>
      /\ UNCHANGED <<script, cap, minThink, prompt, out, status, stop, late, drawn, queue>>
  BY DEF Commit, reply, Round
<1>2. /\ Types /\ pc \in Turning /\ status = "running"
      /\ prompt \in Seq(Tokens) /\ queue \in Seq(Tokens) /\ drafts \in Seq(Tokens)
      /\ idLast \in Tokens
      /\ Len(prompt) \in Nat /\ r \in Nat /\ keep \in Nat /\ Len(drafts) \in Nat
      /\ script \in [1..MaxNew -> Tokens]
      /\ cap \in Nat /\ cap <= MaxNew /\ MaxNew \in Nat /\ MaxCtx \in Nat
      /\ drawn \in Nat /\ pos \in Nat
      /\ r > 0 /\ r < cap /\ drawn = r + keep /\ drawn <= cap /\ Len(prompt) + cap <= MaxCtx
      /\ committed = pos /\ pos <= Len(kv)
      /\ \A p \in 0..(pos - 1) : rows[p] = kv[p + 1]
  BY <1>1, InRound
<1>3. /\ kv = Cells(Reply(r - 1) \o Block) /\ pos = Len(prompt) + (r - 1)
      /\ idLast = script[r]
      /\ keep <= Len(drafts) + 1 /\ Len(drafts) <= NDraft
      /\ \A i \in 1..(keep - 1) : drafts[i] = queue[i]
  BY <1>1 DEF IInv, Retained
<1>4. /\ queue # <<>> /\ late = 0
      /\ \A i \in 1..keep : queue[i] = script[r + i]
  BY <1>1, <1>2 DEF IInv, Said, Polled
<1>5. keep > 0
  BY <1>2, <1>4, EmptySeq
<1> HIDE DEF keep, r, n
<1>6. kv' = Cells(Reply(n)) /\ pos' = Len(prompt) + n
  <2>1. /\ r \in 1..MaxNew /\ keep \in 1..(Len(drafts) + 1) /\ (r + keep) - 1 <= MaxNew
        /\ (r + keep) - 1 = n /\ (Len(prompt) + (r - 1)) + keep = pos + keep
        /\ pos + keep = Len(prompt) + n
    BY <1>2, <1>3, <1>5 DEF n
  <2>2. ASSUME NEW j \in 1..(keep - 1) PROVE drafts[j] = script[r + j]
    <3>1. j \in 1..keep
      BY <1>2
    <3> QED
      BY <1>3, <1>4, <3>1
  <2>3. SubSeq(Cells(Reply(r - 1) \o Block), 1, (Len(prompt) + (r - 1)) + keep)
          = Cells(Reply((r + keep) - 1))
    BY <1>2, <1>3, <2>1, <2>2, BlockPrefix
  <2> QED
    BY <1>1, <1>3, <2>1, <2>3
<1>7. kv \in Seq(Nat \X Tokens) /\ pos + keep <= Len(kv) /\ pos + keep <= MaxCtx
  <2>1. r - 1 \in 0..MaxNew
    BY <1>2
  <2>2. Reply(r - 1) \in Seq(Tokens) /\ Len(Reply(r - 1)) = Len(prompt) + (r - 1)
    BY <1>2, <2>1, ReplyOf
  <2>3. Block \in Seq(Tokens) /\ Len(Block) = Len(drafts) + 1
    <3>1. <<idLast>> \in Seq(Tokens) /\ Len(<<idLast>>) = 1
      BY <1>2
    <3>2. Block \in Seq(Tokens) /\ Len(Block) = Len(<<idLast>>) + Len(drafts)
      BY <1>2, <3>1, ConcatProperties DEF Block
    <3> QED
      BY <1>2, <3>1, <3>2
  <2>4. /\ Reply(r - 1) \o Block \in Seq(Tokens)
        /\ Len(Reply(r - 1) \o Block) = Len(Reply(r - 1)) + Len(Block)
    BY <2>2, <2>3, ConcatProperties
  <2>5. kv \in Seq(Nat \X Tokens) /\ Len(kv) = Len(Reply(r - 1)) + Len(Block)
    BY <1>3, <2>4, CellsOf
  <2>6. Len(kv) = pos + (Len(drafts) + 1)
    BY <1>3, <2>2, <2>3, <2>5
  <2>7. pos + keep <= Len(kv) /\ pos + keep <= MaxCtx
    BY <1>2, <1>3, <2>6
  <2> QED
    BY <2>5, <2>7
<1>8. idLast' = script[drawn] /\ idLast' \in Tokens
  <2>1. keep \in 1..Len(queue)
    BY <1>2, <1>5 DEF keep
  <2>2. queue[keep] \in Tokens
    BY <1>2, <2>1, ElementOfSeq
  <2>3. queue[keep] = script[drawn]
    BY <1>2, <1>4, <1>5
  <2> QED
    BY <1>1, <2>2, <2>3 DEF LastOf, keep
<1> DEFINE C   == Nat \X Tokens
           cut == SubSeq(kv, 1, pos + keep)
<1> HIDE DEF C
<1>9. cut \in Seq(C) /\ Len(cut) = pos + keep /\ \A i \in 1..(pos + keep) : cut[i] = kv[i]
  <2>1. kv \in Seq(C)
    BY <1>7 DEF C
  <2>2. pos + keep \in 0..Len(kv)
    BY <1>2, <1>7, <2>1, LenProperties
  <2> QED
    BY <2>1, <2>2, PrefixOf
<1>10. /\ rows' = [p \in 0..(MaxCtx - 1) |-> rows'[p]]
       /\ \A p \in 0..((pos + keep) - 1) : rows'[p] = kv[p + 1]
  <2>1. LET new == SubSeq(kv, pos + 1, pos + keep)
        IN  /\ Injected(new, pos) = [p \in 0..(MaxCtx - 1) |-> Injected(new, pos)[p]]
            /\ \A p \in 0..((pos + keep) - 1) : Injected(new, pos)[p] = kv[p + 1]
    BY <1>2, <1>7, StretchFuses
  <2> QED
    BY <1>1, <2>1
<1>11. Types'
  <2>1. drafts' \in Seq(Tokens) /\ pos' \in Nat /\ committed' \in Nat
    BY <1>1, <1>2, Nothing
  <2> QED
    BY <1>1, <1>2, <1>8, <1>10, <2>1 DEF Types, Turning, Round
<1>12. Accepted' /\ Prefilling' /\ ExitState'
  BY <1>1, <1>2 DEF IInv, Accepted, Prefilling, ExitState, Turning, Round
<1>13. Said' /\ EogLast'
  BY <1>1 DEF IInv, Said, EogLast
<1>14. Retained'
  <2>1. Fed(drawn - 1)'
    <3>1. drawn' - 1 = n /\ UNCHANGED <<script, prompt>>
      BY <1>1 DEF n
    <3> QED
      BY ONLY <1>6, <3>1, FedNext
  <2>2. idLast' = script'[drawn'] /\ committed' = pos'
    BY <1>1, <1>2, <1>8
  <2> QED
    BY <1>1, <2>1, <2>2 DEF Retained
<1>15. Fused'
  <2>1. ASSUME NEW p \in 0..((pos + keep) - 1) PROVE rows'[p] = kv'[p + 1]
    <3>1. p + 1 \in 1..(pos + keep)
      BY <1>2
    <3> QED
      BY <1>1, <1>9, <1>10, <3>1
  <2>2. committed' = pos + keep /\ committed' <= Len(kv')
    BY <1>1, <1>2, <1>9
  <2> QED
    BY <2>1, <2>2 DEF Fused
<1>16. Polled'
  <2>1. keep <= DraftWidth + 1
    <3>1. NDraft \in Int /\ NDraft <= DraftWidth
      BY <1>2, Widths DEF NDraft, Smaller
    <3>2. keep <= Len(drafts) + 1 /\ Len(drafts) <= NDraft
      BY <1>3
    <3> QED
      BY <1>2, <3>1, <3>2, Widths
  <2>2. late' = 0 /\ late' + Len(queue') <= DraftWidth + 1 /\ late' <= DraftWidth + 1
    BY <1>1, <1>2, <1>4, <2>1, Widths DEF keep
  <2> QED
    BY <2>2 DEF Polled
<1> QED
  BY <1>11, <1>12, <1>13, <1>14, <1>15, <1>16 DEF IInv

LEMMA StepInv == IInv /\ [Next]_vars => IInv'
<1> SUFFICES ASSUME IInv, [Next]_vars PROVE IInv'
  OBVIOUS
<1>1. ASSUME NEW p \in Prompts, NEW max \in Budgets, NEW floor \in Floors,
             Check(p, max, floor) /\ UNCHANGED dvars
      PROVE  IInv'
  BY <1>1, CheckStep
<1>2. CASE Step
  BY <1>2, PrefillStep, FirstTokenStep, DraftStep, PlainStepStep, VerifyStep, CommitStep,
     EmitStep DEF Step
<1>3. CASE UNCHANGED vars
  <2>1. /\ UNCHANGED <<script, cap, minThink, prompt, out, status, pc, stop, late, kv, pos, drawn>>
        /\ UNCHANGED <<rows, committed, idLast, drafts, queue>>
    BY <1>3 DEF vars, gvars, dvars, reply
  <2>2. Types' /\ Accepted' /\ Prefilling' /\ Said' /\ EogLast' /\ Polled' /\ ExitState'
    BY <2>1 DEF IInv, Types, Accepted, Prefilling, Said, EogLast, Polled, ExitState, Fed, Reply
  <2>3. Retained' /\ Fused'
    BY <2>1 DEF IInv, Retained, Fused, Fed, Reply, NDraft, Block
  <2> QED
    BY <2>2, <2>3 DEF IInv
<1> QED
  BY <1>1, <1>2, <1>3, ResetStep, StopStep, FailStep DEF Next

LEMMA Inductive == Spec => []IInv
  BY InitInv, StepInv, PTL DEF Spec

-----------------------------------------------------------------------------
(* The properties the runs check. *)

(* At a round boundary nothing waits to be emitted.                        *)
LEMMA AtBoundary ==
  ASSUME IInv, pc \in {"poll", "step", "verify"}
  PROVE  /\ drawn = Len(out) /\ Fed(Len(out) - 1) /\ idLast = script[Len(out)]
         /\ Len(out) - 1 \in 0..MaxNew
         /\ \A i \in 1..Len(out) : out[i] = script[i]
<1>1. pc \in Round
  BY DEF Round
<1>2. /\ drawn = Len(out) + Len(queue) /\ Len(out) \in Nat /\ Len(out) > 0
      /\ Len(out) < cap /\ cap <= MaxNew /\ cap \in Nat /\ MaxNew \in Nat
  BY <1>1, InRound
<1>3. queue = <<>> /\ \A i \in 1..Len(out) : out[i] = script[i]
  BY <1>1 DEF IInv, Said
<1>4. drawn = Len(out)
  BY <1>2, <1>3, Nothing
<1>5. Fed(drawn - 1) /\ idLast = script[drawn]
  BY DEF IInv, Retained
<1> QED
  BY <1>2, <1>3, <1>4, <1>5

(* One check of the prompt and the cap against max_ctx covers every later  *)
(* forward, draft block and injection, rejected drafts included.           *)
THEOREM NeverOverruns == Spec => []BudgetSuffices
<1>1. IInv => BudgetSuffices
  <2> SUFFICES ASSUME IInv PROVE BudgetSuffices
    OBVIOUS
  <2>1. CASE pc = "prefill"
    <3>1. /\ prompt \in Seq(Tokens) /\ pos \in Nat /\ cap \in Nat /\ MaxCtx \in Nat
          /\ Len(prompt) \in Nat
      BY Assumed, LenProperties DEF IInv, Types
    <3>2. pos < Len(prompt) /\ committed = pos /\ Len(prompt) + cap <= MaxCtx
      BY <2>1 DEF IInv, Accepted, Prefilling, Turning
    <3>3. Len(Chunk) \in 1..(Len(prompt) - pos)
      BY <3>1, <3>2, NextChunk
    <3>4. Fits(Len(Chunk)) /\ pos = committed
      BY <3>1, <3>2, <3>3 DEF Fits
    <3> QED
      BY <2>1, <3>4 DEF BudgetSuffices
  <2>2. CASE pc \in {"poll", "step", "verify"}
    <3>1. pc \in Round
      BY <2>2 DEF Round
    <3>2. /\ Len(prompt) \in Nat /\ Len(out) \in Nat /\ cap \in Nat /\ MaxCtx \in Nat
          /\ pos \in Nat /\ Len(out) < cap /\ Len(prompt) + cap <= MaxCtx /\ committed = pos
          /\ drafts \in Seq(Tokens) /\ Len(drafts) \in Nat /\ idLast \in Tokens
      BY <3>1, InRound
    <3>3. pos = Len(prompt) + (Len(out) - 1)
      BY <2>2, AtBoundary DEF Fed
    <3>4. Fits(1) /\ NDraft \in Int /\ NDraft <= (MaxCtx - pos) - 1
      BY <3>2, <3>3, Widths DEF Fits, NDraft, Smaller
    <3>5. Fits(NDraft + 1)
      BY <3>2, <3>4 DEF Fits
    <3>6. pc = "verify" => Fits(Len(Block))
      <4>1. Len(Block) = Len(drafts) + 1
        <5>1. <<idLast>> \in Seq(Tokens) /\ Len(<<idLast>>) = 1
          BY <3>2
        <5>2. Len(Block) = Len(<<idLast>>) + Len(drafts)
          BY <3>2, <5>1, ConcatProperties DEF Block
        <5> QED
          BY <3>2, <5>1, <5>2
      <4>2. pc = "verify" => Len(drafts) <= NDraft
        BY DEF IInv, Retained
      <4> QED
        BY <3>2, <3>4, <4>1, <4>2 DEF Fits
    <3> QED
      BY <2>2, <3>2, <3>4, <3>5, <3>6 DEF BudgetSuffices
  <2>3. CASE pc = "commit"
    BY <2>3 DEF IInv, Retained, Round, BudgetSuffices
  <2>4. CASE pc \notin {"prefill", "poll", "step", "verify", "commit"}
    BY <2>4 DEF BudgetSuffices
  <2> QED
    BY <2>1, <2>2, <2>3, <2>4
<1> QED
  BY <1>1, Inductive, PTL

(* Whatever was drafted and rejected, the target's caches hold the prompt  *)
(* and the emitted tokens but the last at every round boundary, and the    *)
(* drafter's committed rows were fused from those very cells.              *)
THEOREM RejectedDraftsLeaveNoTrace == Spec => []CachesAtBoundary
<1>1. IInv => CachesAtBoundary
  <2> SUFFICES ASSUME IInv, pc \in {"poll", "step", "verify"}
               PROVE  /\ kv = Cells(prompt \o SubSeq(out, 1, Len(out) - 1))
                      /\ idLast = LastOf(out)
                      /\ pos = Len(kv) /\ committed = pos
                      /\ \A p \in 0..(committed - 1) : rows[p] = kv[p + 1]
    BY DEF CachesAtBoundary
  <2> DEFINE r == Len(out)
  <2>1. pc \in Round
    BY DEF Round
  <2>2. /\ prompt \in Seq(Tokens) /\ out \in Seq(Tokens) /\ script \in [1..MaxNew -> Tokens]
        /\ r \in Nat /\ r > 0 /\ r < cap /\ cap <= MaxNew /\ cap \in Nat /\ MaxNew \in Nat
        /\ committed = pos /\ \A p \in 0..(pos - 1) : rows[p] = kv[p + 1]
    BY <2>1, InRound
  <2>3. /\ Fed(r - 1) /\ idLast = script[r] /\ r - 1 \in 0..MaxNew
        /\ \A i \in 1..r : out[i] = script[i]
    BY AtBoundary
  <2>4. SubSeq(out, 1, r - 1) = SubSeq(script, 1, r - 1)
    <3> DEFINE a == SubSeq(out, 1, r - 1)
               b == SubSeq(script, 1, r - 1)
    <3>1. script \in Seq(Tokens) /\ r - 1 \in 0..Len(script) /\ r - 1 \in 0..Len(out)
      BY <2>2, ScriptOf
    <3>2. a \in Seq(Tokens) /\ Len(a) = r - 1 /\ \A i \in 1..(r - 1) : a[i] = out[i]
      BY <2>2, <3>1, PrefixOf
    <3>3. b \in Seq(Tokens) /\ Len(b) = r - 1 /\ \A i \in 1..(r - 1) : b[i] = script[i]
      BY <3>1, PrefixOf
    <3> HIDE DEF a, b
    <3>4. \A i \in 1..(r - 1) : a[i] = b[i]
      BY <2>2, <2>3, <3>2, <3>3
    <3>5. a = b
      BY <3>2, <3>3, <3>4, SeqEqual
    <3> QED
      BY <3>5 DEF a, b
  <2>5. kv = Cells(prompt \o SubSeq(out, 1, r - 1))
    BY <2>3, <2>4 DEF Fed, Reply
  <2>6. idLast = LastOf(out)
    <3>1. r \in 1..r
      BY <2>2
    <3> QED
      BY <2>3, <3>1 DEF LastOf
  <2>7. pos = Len(kv)
    <3>1. Reply(r - 1) \in Seq(Tokens) /\ Len(Reply(r - 1)) = Len(prompt) + (r - 1)
      BY <2>2, <2>3, ReplyOf
    <3> QED
      BY <2>3, <3>1, CellsOf DEF Fed
  <2> QED
    BY <2>2, <2>5, <2>6, <2>7
<1> QED
  BY <1>1, Inductive, PTL

(* The sampler is drawn from once per committed token, in the order plain  *)
(* decode would: the drawn tokens are a prefix of the script.              *)
THEOREM DrawsOncePerToken == Spec => []OneDrawPerToken
<1>1. IInv => OneDrawPerToken
  <2> SUFFICES ASSUME IInv, status = "running"
               PROVE  /\ drawn = Len(out) + Len(queue)
                      /\ out \o queue = SubSeq(script, 1, drawn)
    BY DEF OneDrawPerToken
  <2>1. pc \in {"prefill", "first"} \/ pc \in Round
    BY DEF IInv, Accepted, Turning
  <2>2. CASE pc \in {"prefill", "first"}
    <3>1. drawn = 0 /\ out = <<>> /\ queue = <<>>
      BY <2>2 DEF IInv, Prefilling
    <3>2. Len(out) = 0 /\ Len(queue) = 0 /\ SubSeq(script, 1, 0) = <<>>
      BY <3>1, Nothing, SubSeqEmpty
    <3>3. <<>> \o <<>> = <<>>
      BY Nothing, ConcatEmptySeq
    <3> QED
      BY <3>1, <3>2, <3>3
  <2>3. CASE pc \in Round
    <3> DEFINE s == SubSeq(script, 1, drawn)
    <3>1. /\ out \in Seq(Tokens) /\ queue \in Seq(Tokens) /\ script \in [1..MaxNew -> Tokens]
          /\ Len(out) \in Nat /\ Len(queue) \in Nat
          /\ drawn = Len(out) + Len(queue) /\ drawn <= cap /\ cap <= MaxNew
          /\ cap \in Nat /\ MaxNew \in Nat /\ drawn \in Nat
      BY <2>3, InRound
    <3>2. /\ \A i \in 1..Len(out) : out[i] = script[i]
          /\ \A i \in 1..Len(queue) : queue[i] = script[Len(out) + i]
      BY <2>3 DEF IInv, Said
    <3>3. script \in Seq(Tokens) /\ drawn \in 0..Len(script)
      BY <3>1, ScriptOf
    <3>4. s \in Seq(Tokens) /\ Len(s) = drawn /\ \A i \in 1..drawn : s[i] = script[i]
      BY <3>3, PrefixOf
    <3> HIDE DEF s
    <3>5. \A i \in 1..Len(out) : i \in 1..drawn
      BY <3>1
    <3>6. \A i \in 1..Len(queue) : Len(out) + i \in 1..drawn
      BY <3>1
    <3>7. /\ \A i \in 1..Len(out) : s[i] = out[i]
          /\ \A i \in 1..Len(queue) : s[Len(out) + i] = queue[i]
      BY <3>2, <3>4, <3>5, <3>6
    <3>8. out \o queue = s
      <4>1. Len(s) = Len(out) + Len(queue)
        BY <3>1, <3>4
      <4> QED
        BY ONLY <3>1, <3>4, <3>7, <4>1, JoinEqual
    <3> QED
      BY <3>1, <3>8 DEF s
  <2> QED
    BY <2>1, <2>2, <2>3
<1> QED
  BY <1>1, Inductive, PTL

(* A call that ends by itself leaves the caches plain decode leaves.       *)
THEOREM LeavesTheReply == Spec => []ExitState
<1>1. IInv => ExitState
  BY DEF IInv
<1> QED
  BY <1>1, Inductive, PTL

(* After the caller asks to stop, at most one block comes out.             *)
THEOREM PollsPerRound == Spec => []StopsWithinRound
<1>1. IInv => StopsWithinRound
  BY DEF IInv, Polled, StopsWithinRound
<1> QED
  BY <1>1, Inductive, PTL

-----------------------------------------------------------------------------
(* The refinement: emissions are emissions, a poll may end the reply, and  *)
(* drafting, verifying and committing stutter.                             *)

LEMMA SaysImplements ==
  ASSUME NEW t \in Tokens, t = script[Len(out) + 1], NEW next,
         status = "running", out \in Seq(Tokens), Len(out) < cap, cap \in Nat,
         UNCHANGED <<script, cap, stop>>,
         IF t \in Eog
         THEN status' = "complete" /\ pc' = "return" /\ UNCHANGED <<out, late>>
         ELSE EmitToken(t, next)
  PROVE  Stream!Next
<1>1. Len(out) \in Nat /\ Len(out) # cap
  BY LenProperties
<1>2. CASE t \in Eog
  BY <1>1, <1>2 DEF Stream!Next, Stream!Finish, Stream!Over
<1>3. CASE /\ t \notin Eog
           /\ out' = Append(out, t)
           /\ IF Len(out) + 1 >= cap THEN status' = "complete" /\ pc' = "return"
                                     ELSE status' = status /\ pc' = next
  <2>1. Len(out') = Len(out) + 1
    BY <1>3, AppendProperties
  <2>2. status' = IF Len(out') = cap THEN "complete" ELSE status
    BY <1>1, <1>3, <2>1
  <2>3. ~Stream!Over
    BY <1>1, <1>3 DEF Stream!Over
  <2> QED
    BY <1>3, <2>2, <2>3 DEF Stream!Next, Stream!Emit
<1>4. CASE status' = "failed" /\ UNCHANGED out
  BY <1>4 DEF Stream!Next, Stream!Finish
<1> QED
  BY <1>2, <1>3, <1>4, EmitOutcome

LEMMA StepImplements ==
  ASSUME IInv, [Next]_vars
  PROVE  [Stream!Next]_Stream!svars
<1>1. CASE SpecReset
  BY <1>1 DEF SpecReset, Reset, Stream!Next, Stream!Reset
<1>2. ASSUME NEW p \in Prompts, NEW max \in Budgets, NEW floor \in Floors,
             Check(p, max, floor)
      PROVE  [Stream!Next]_Stream!svars
  <2>1. /\ status = "idle" /\ status' \in {"running", "refused"}
        /\ UNCHANGED <<out, stop>>
    BY <1>2 DEF Check, reply, IInv, Accepted
  <2>2. script' \in [1..MaxNew -> Tokens] /\ cap' \in 0..MaxNew
    BY <1>2, Assumed DEF Check, Scripts
  <2> QED
    BY <2>1, <2>2 DEF Stream!Next, Stream!Begin
<1>3. CASE Prefill
  <2>1. pc = "prefill" /\ UNCHANGED <<script, cap, out, stop>>
    BY <1>3 DEF Prefill, reply
  <2>2. status = "running" /\ Len(out) = 0
    BY <2>1, Nothing DEF IInv, Accepted, Prefilling, Turning
  <2>3. \/ stop /\ status' = "cancelled"
        \/ UNCHANGED status
        \/ cap = 0 /\ status' = "complete"
    BY <1>3 DEF Prefill, Return
  <2> QED
    BY <2>1, <2>2, <2>3 DEF Stream!Next, Stream!Finish, Stream!Over, Stream!svars
<1>4. CASE FirstToken
  <2>1. LET t == script[1]
        IN  /\ status = "running" /\ out = <<>> /\ cap > 0 /\ t \in Tokens
            /\ UNCHANGED <<script, cap, stop>>
            /\ IF t \in Eog
               THEN status' = "complete" /\ pc' = "return" /\ UNCHANGED <<out, late>>
               ELSE EmitToken(t, "poll")
    BY <1>4, FirstDrawn
  <2>2. out \in Seq(Tokens) /\ Len(out) = 0 /\ Len(out) + 1 = 1 /\ cap \in Nat
    BY <2>1, Nothing, Assumed DEF IInv, Types
  <2>3. Len(out) < cap
    BY <2>1, <2>2
  <2> QED
    BY <2>1, <2>2, <2>3, SaysImplements
<1>5. CASE Draft
  <2>1. pc = "poll" /\ status = "running" /\ UNCHANGED <<script, cap, out, stop>>
    BY <1>5 DEF Draft, reply, IInv, Accepted, Turning, Round
  <2>2. IF stop THEN status' = "cancelled" ELSE status' = status
    BY <1>5 DEF Draft, Return
  <2> QED
    BY <2>1, <2>2 DEF Stream!Next, Stream!Finish, Stream!svars
<1>6. CASE PlainStep \/ Verify \/ Commit
  BY <1>6 DEF PlainStep, Verify, Commit, reply, Stream!svars
<1>7. CASE Emit
  <2> DEFINE t == script[Len(out) + 1]
  <2>1. /\ status = "running" /\ t \in Tokens /\ out \in Seq(Tokens) /\ Len(out) < cap
        /\ UNCHANGED <<script, cap, stop>>
        /\ IF t \in Eog
           THEN status' = "complete" /\ pc' = "return" /\ UNCHANGED <<out, late>>
           ELSE EmitToken(t, IF queue' = <<>> THEN "poll" ELSE "emit")
    BY <1>7, Emitting
  <2>2. cap \in Nat
    BY Assumed DEF IInv, Types
  <2> QED
    BY <2>1, <2>2, SaysImplements
<1>8. CASE RequestStop
  BY <1>8 DEF RequestStop, reply, Stream!Next, Stream!RequestStop
<1>9. CASE Fail
  BY <1>9 DEF Fail, reply, Stream!Next, Stream!Finish
<1>10. CASE UNCHANGED vars
  BY <1>10 DEF vars, gvars, reply, Stream!svars
<1> QED
  BY <1>1, <1>2, <1>3, <1>4, <1>5, <1>6, <1>7, <1>8, <1>9, <1>10 DEF Next, Step

(* Speculative decode implements the promise plain decode implements: the  *)
(* caller sees the sampled sequence, token by token, whatever was drafted. *)
THEOREM StreamsTheReply == Spec => ImplementsStream
<1>1. Init => Stream!Init
  BY DEF Init, GenInit, Stream!Init
<1>2. IInv /\ [Next]_vars => [Stream!Next]_Stream!svars
  BY StepImplements
<1> QED
  BY <1>1, <1>2, Inductive, PTL DEF Spec, ImplementsStream, Stream!StreamSpec
=============================================================================
