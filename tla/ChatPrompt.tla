------------------------------ MODULE ChatPrompt -----------------------------
(***************************************************************************)
(* build_prompt of src/chat.rs and the way the chat takes a reply apart    *)
(* again (split_thinking).  A text is a sequence of pieces: the template's *)
(* tags, runs of whitespace "ws", and whatever stands between them.        *)
(***************************************************************************)
EXTENDS Integers, Sequences

S == INSTANCE SequencesExt

(* str::trim and trim_end *)
Words(t) == {i \in DOMAIN t : t[i] # "ws"}
TrimEnd(t) == SubSeq(t, 1, IF Words(t) = {} THEN 0 ELSE CHOOSE i \in Words(t) : \A k \in Words(t) : k <= i)
Trim(t) ==
  IF Words(t) = {} THEN <<>>
  ELSE SubSeq(TrimEnd(t), CHOOSE i \in Words(t) : \A k \in Words(t) : i <= k, Len(TrimEnd(t)))

ClosesThinking(t) == \E i \in DOMAIN t : t[i] = "</think>"

(* split_thinking: at the first </think>; without one all is content.      *)
SplitThinking(full) ==
  IF ClosesThinking(full)
  THEN LET at == CHOOSE i \in DOMAIN full :
                   full[i] = "</think>" /\ \A k \in 1..(i - 1) : full[k] # "</think>"
       IN  [reasoning |-> Trim(SubSeq(full, 1, at - 1)),
            content |-> Trim(SubSeq(full, at + 1, Len(full)))]
  ELSE [reasoning |-> <<>>, content |-> Trim(full)]

User(text) == [role |-> "user", reasoning |-> <<>>, content |-> text]
Assistant(parts) == [role |-> "assistant", reasoning |-> parts.reasoning, content |-> parts.content]

(* One message as the main loop renders it. *)
Rendered(m, thinking) ==
  CASE m.role = "user"   -> <<"<user>">> \o m.content \o <<"</user>">>
    [] m.role = "assistant" ->
         <<"<assistant>">> \o (IF thinking THEN <<"<think>">> \o m.reasoning ELSE <<>>)
         \o <<"</think>">> \o m.content \o <<"</assistant>">>
    [] m.role = "tool"   -> <<"<tool_response>">> \o m.content \o <<"</tool_response>">>
    [] m.role = "system" -> <<"<system>">> \o m.content \o <<"</system>">>

(* The system block: the conversation's own leading message or the default.*)
Header(messages, thinking) ==
  LET own     == messages # <<>> /\ messages[1].role = "system"
      system  == IF own THEN messages[1].content ELSE <<"default system">>
      has_sys == Trim(system) # <<>>
  IN  IF has_sys \/ thinking
      THEN <<"<system>">> \o (IF has_sys THEN TrimEnd(system) ELSE <<>>) \o <<"</system>">>
      ELSE <<>>

(* build_prompt: the conversation, and the assistant's turn left open.     *)
BuildPrompt(messages, thinking) ==
  LET body == IF messages # <<>> /\ messages[1].role = "system" THEN Tail(messages) ELSE messages
  IN  <<"BOS">> \o Header(messages, thinking)
      \o S!FlattenSeq([i \in DOMAIN body |-> Rendered(body[i], thinking)])
      \o <<"<assistant>", IF thinking THEN "<think>" ELSE "</think>">>
=============================================================================
