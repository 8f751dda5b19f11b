-------------------------------- MODULE Repl ---------------------------------
(***************************************************************************)
(* The interactive chat of src/bin/laguna/repl.rs: the main thread edits,  *)
(* submits and generates; an input thread reads the keyboard and either    *)
(* turns a key into a cancel request, while a reply is generated, or hands *)
(* it to the editor's queue.  They share the flags `generating` and        *)
(* `cancel`; every load, store and swap of a flag is a step of its own.    *)
(*                                                                         *)
(* What generate does with the cancel flag is PlainDecode's subject (chat  *)
(* attaches no drafter): here a reply ends when its poll sees the flag,    *)
(* or at any time by itself.                                               *)
(***************************************************************************)
EXTENDS ChatPrompt

CONSTANTS
  Replies,     (* what the model may stream                               *)
  MaxTurns,    (* bound on the replies of a session                       *)
  MaxQueue     (* bound on the keys waiting for the editor                *)

ASSUME ReplAssumption ==
  /\ \A reply \in Replies : reply \in Seq(STRING)
  /\ MaxTurns \in Nat /\ MaxQueue \in Nat \ {0}

VARIABLES
  generating,  (* the flag: a reply is being generated                    *)
  cancel,      (* the flag: generate is asked to stop                     *)
  queue,       (* the channel from the input thread to the editor         *)
  ipc,         (* the input thread: reading, loading the flag, acting     *)
  key,         (* the key the input thread holds                          *)
  lastCancel,  (* last_cancel: never, less or more than a second ago      *)
  mpc,         (* the main thread                                         *)
  outcome,     (* how the last generate call ended                        *)
  full,        (* the reply it streamed                                   *)
  messages,    (* the conversation                                        *)
  context,     (* history: what the model read and said in the last turn  *)
               (* recorded, unless the cap cut it off in its reasoning    *)
  turn,        (* history: replies started                                *)
  pressed,     (* history: a cancel key was read during this reply        *)
  acted,       (* history: a cancel request was made during this reply    *)
  pending,     (* history: how long the request in `cancel` has stood     *)
  keyTurn,     (* history: the reply during which `key` was read, or 0    *)
  cause        (* history: keyTurn of the key that raised `cancel`        *)

vars == <<generating, cancel, queue, ipc, key, lastCancel, mpc, outcome, full,
          messages, context, turn, pressed, acted, pending, keyTurn, cause>>

talk == <<messages, context>>
mainvars == <<mpc, outcome, full, talk, turn, generating>>
inputvars == <<ipc, key, lastCancel, keyTurn, cause>>

CancelKeys == {"ctrl-c", "esc"}
Keys == CancelKeys \cup {"enter"}

Init ==
  /\ generating = FALSE /\ cancel = FALSE
  /\ queue = <<>>
  /\ ipc = "read" /\ key = "enter" /\ lastCancel = "never"
  /\ mpc = "edit" /\ outcome = "none" /\ full = <<>>
  /\ messages = <<>> /\ context = <<>>
  /\ turn = 0 /\ pressed = FALSE /\ acted = FALSE /\ pending = "never"
  /\ keyTurn = 0 /\ cause = 0

Alive == mpc # "quit"

-----------------------------------------------------------------------------
(* The input thread *)

Send(k) == Len(queue) < MaxQueue /\ queue' = Append(queue, k)

(* event::read returns a key; anything but a cancel key goes to the editor.*)
ReadKey(k) ==
  /\ Alive /\ ipc = "read"
  /\ IF k \in CancelKeys
     THEN /\ ipc' = "load" /\ key' = k
          /\ keyTurn' = IF generating THEN turn ELSE 0
          /\ UNCHANGED queue
     ELSE Send(k) /\ UNCHANGED <<ipc, key, keyTurn>>
  /\ pressed' = (pressed \/ (generating /\ k \in CancelKeys))
  /\ UNCHANGED <<lastCancel, cause, cancel, acted, pending, mainvars>>

(* Mutant of LoadGenerating: every key goes to the editor. *)
LoadGeneratingUnread ==
  /\ Alive /\ ipc = "load"
  /\ ipc' = "read" /\ Send(key)
  /\ UNCHANGED <<key, keyTurn, cause, lastCancel, cancel, pressed, acted, pending, mainvars>>

(* generating.load decides what the key means. *)
LoadGenerating ==
  /\ Alive /\ ipc = "load"
  /\ IF generating
     THEN ipc' = "act" /\ UNCHANGED queue
     ELSE ipc' = "read" /\ Send(key)
  /\ UNCHANGED <<key, keyTurn, cause, lastCancel, cancel, pressed, acted, pending, mainvars>>

(* A request: the flag goes up, and stands from the first time on. *)
Request ==
  /\ cancel' = TRUE
  /\ pending' = IF cancel THEN pending ELSE "recent"
  /\ cause' = IF cancel THEN cause ELSE keyTurn
  /\ acted' = (acted \/ generating)

(* cancel.swap of Ctrl-C, and the force-quit when a request still stands   *)
(* and the last Ctrl-C lies a second back.                                 *)
ActCtrlC ==
  /\ Alive /\ ipc = "act" /\ key = "ctrl-c"
  /\ ipc' = "read"
  /\ Request
  /\ IF cancel /\ lastCancel = "old"
     THEN mpc' = "quit" /\ outcome' = "forced" /\ UNCHANGED lastCancel
     ELSE lastCancel' = "recent" /\ UNCHANGED <<mpc, outcome>>
  /\ UNCHANGED <<key, keyTurn, queue, pressed, full, talk, turn, generating>>

(* cancel.store of Esc. *)
ActEsc ==
  /\ Alive /\ ipc = "act" /\ key = "esc"
  /\ ipc' = "read"
  /\ Request
  /\ UNCHANGED <<key, keyTurn, lastCancel, queue, pressed, mainvars>>

(* A second passes. *)
Older(age) == IF age = "recent" THEN "old" ELSE age
Second ==
  /\ Alive
  /\ lastCancel' = Older(lastCancel) /\ pending' = Older(pending)
  /\ UNCHANGED <<ipc, key, keyTurn, cause, queue, cancel, pressed, acted, mainvars>>

-----------------------------------------------------------------------------
(* The main thread *)

(* read_turn takes the next key.  Enter submits what was typed, a message  *)
(* or one of the commands, or nothing if the line is blank.  Ctrl-C quits  *)
(* on an empty line and clears any other; the editor ignores Esc.          *)
TakeKey ==
  /\ mpc = "edit" /\ queue # <<>>
  /\ queue' = Tail(queue)
  /\ \/ /\ Head(queue) = "enter" /\ turn < MaxTurns
        /\ messages' = Append(messages, User(<<"typed">>))
        /\ mpc' = "clear" /\ UNCHANGED context
     \/ Head(queue) = "enter" /\ messages' = <<>> /\ context' = <<>> /\ UNCHANGED mpc  \* /clear
     \/ Head(queue) \in {"enter", "ctrl-c"} /\ mpc' = "quit" /\ UNCHANGED talk
     \/ UNCHANGED <<mpc, talk>>
  /\ UNCHANGED <<inputvars, cancel, outcome, full, turn, generating, pressed, acted, pending>>

(* Mutant of ClearCancel: the flag is cleared only once generate runs. *)
ClearCancelLate ==
  /\ \/ mpc = "clear" /\ mpc' = "raise" /\ UNCHANGED <<cancel, pending>>
     \/ mpc = "generate" /\ mpc' = mpc /\ cancel' = FALSE /\ pending' = "never"
  /\ UNCHANGED <<inputvars, queue, outcome, full, talk, turn, generating, pressed, acted>>

(* cancel.store(false) *)
ClearCancel ==
  /\ mpc = "clear"
  /\ mpc' = "raise"
  /\ cancel' = FALSE
  /\ pending' = "never"
  /\ UNCHANGED <<inputvars, queue, outcome, full, talk, turn, generating, pressed, acted>>

(* generating.store(true), and generate starts. *)
RaiseGenerating ==
  /\ mpc = "raise"
  /\ mpc' = "generate"
  /\ generating' = TRUE
  /\ turn' = turn + 1
  /\ outcome' = "none"
  /\ pressed' = FALSE
  /\ acted' = FALSE
  /\ UNCHANGED <<inputvars, queue, cancel, full, talk, pending>>

(* generate returns: its poll saw the flag; or it came to its end, by an   *)
(* EOG or the cap; or it failed.                                           *)
GenerateEnds ==
  /\ mpc = "generate"
  /\ mpc' = "lower"
  /\ \/ cancel /\ outcome' = "cut" /\ full' \in Replies
     \/ outcome' = "reply" /\ full' \in Replies
     \/ outcome' = "error" /\ UNCHANGED full
  /\ UNCHANGED <<inputvars, queue, cancel, talk, turn, generating, pressed, acted, pending>>

(* generating.store(false) *)
LowerGenerating ==
  /\ mpc = "lower"
  /\ mpc' = "record"
  /\ generating' = FALSE
  /\ UNCHANGED <<inputvars, queue, cancel, outcome, full, talk, turn, pressed, acted, pending>>

(* What the conversation makes of a reply. *)
Recorded ==
  /\ messages' = Append(messages, Assistant(SplitThinking(full)))
  /\ context' = IF outcome = "reply" /\ ~ClosesThinking(full) THEN <<>>
                ELSE BuildPrompt(messages, TRUE) \o full \o <<"</assistant>">>

Forgotten == messages' = SubSeq(messages, 1, Len(messages) - 1) /\ UNCHANGED context

(* Mutant of Unusable: a cut reply counts if there is any text. *)
UnusableIfEmpty ==
  \/ outcome = "error"
  \/ outcome = "cut" /\ SplitThinking(full).content = <<>>

(* A failed turn, or a cancelled one without an answer. *)
Unusable ==
  \/ outcome = "error"
  \/ outcome = "cut" /\ (SplitThinking(full).content = <<>> \/ ~ClosesThinking(full))

(* Mutant of Record: a turn without a reply keeps its user message. *)
RecordKeepsUser ==
  /\ mpc = "record"
  /\ mpc' = "edit"
  /\ IF Unusable THEN UNCHANGED talk ELSE Recorded
  /\ full' = <<>>
  /\ UNCHANGED <<inputvars, queue, cancel, outcome, turn, generating, pressed, acted, pending>>

(* The reply joins the conversation, or its user turn is dropped from it.  *)
Record ==
  /\ mpc = "record"
  /\ mpc' = "edit"
  /\ IF Unusable THEN Forgotten ELSE Recorded
  /\ full' = <<>>
  /\ UNCHANGED <<inputvars, queue, cancel, outcome, turn, generating, pressed, acted, pending>>

-----------------------------------------------------------------------------
MainStep ==
  TakeKey \/ ClearCancel \/ RaiseGenerating \/ GenerateEnds \/ LowerGenerating \/ Record

InputStep == LoadGenerating \/ ActCtrlC \/ ActEsc

Next == MainStep \/ InputStep \/ Second \/ \E k \in Keys : ReadKey(k)

(* Both threads are scheduled; generate polls, so it ends once the flag is *)
(* up (PlainDecode).  Nobody owes a key press.                             *)
Spec ==
  /\ Init /\ [][Next]_vars
  /\ WF_vars(ClearCancel) /\ WF_vars(RaiseGenerating) /\ WF_vars(LowerGenerating)
  /\ WF_vars(Record) /\ WF_vars(InputStep)
  /\ WF_vars(cancel /\ GenerateEnds)

-----------------------------------------------------------------------------
(* Properties *)

(* No request is lost: once the input thread has asked for a cancel while  *)
(* a reply is generated, the flag stays up until that reply is over.       *)
NoRequestLost == mpc = "generate" /\ acted => cancel

(* The conversation always alternates, and between turns it ends with a    *)
(* reply: a failed or abandoned turn leaves no user message behind.        *)
Alternates ==
  /\ \A i \in 1..Len(messages) : messages[i].role = IF i % 2 = 1 THEN "user" ELSE "assistant"
  /\ mpc = "edit" => Len(messages) % 2 = 0

(* A text without its whitespace. *)
Squeezed(t) ==
  LET kept[n \in 0..Len(t)] ==
        IF n = 0 THEN <<>>
        ELSE IF t[n] = "ws" THEN kept[n - 1] ELSE Append(kept[n - 1], t[n])
  IN  kept[Len(t)]

(* The next prompt goes on where the model left off: it opens with what    *)
(* the last recorded turn read and said, up to whitespace, with reasoning  *)
(* and answer in their places, whatever turns failed, were cut or were     *)
(* forgotten in between.  (Not so after a reply that reached the cap in its*)
(* reasoning: it is filed as an answer.)                                   *)
NextPromptReplays ==
  mpc = "clear" =>
    LET so_far == Squeezed(context)
    IN  so_far = SubSeq(Squeezed(BuildPrompt(messages, TRUE)), 1, Len(so_far))

(* A cancel key read while a reply is generated ends that reply (or the    *)
(* program), even if the main thread is deep in a forward when it comes.   *)
KeyEndsReply == mpc = "generate" /\ pressed ~> mpc # "generate"

(* The comment in run: "a Ctrl-C that raced the end of the previous turn   *)
(* must not instantly cancel this one" - a reply is never cut short by a   *)
(* key that was read while an earlier reply was generated.                 *)
CutByOwnKey ==
  outcome = "cut" => cause \notin 1..(turn - 1)

(* The comment in spawn_input_thread: the force-quit is for when "a        *)
(* previous request is still pending >= 1s later".                         *)
ForcedOnlyIfWedged == outcome = "forced" => pending = "old"
=============================================================================
