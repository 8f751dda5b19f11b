---------------------------- MODULE DecodeStream -----------------------------
(***************************************************************************)
(* DecodeStream of src/tokenizer.rs, which turns a reply's tokens into     *)
(* text as they come: a token that ends inside a character is held back    *)
(* until a later one completes it.  Tokens are strings of bytes (byte-level*)
(* BPE), a byte standing for a whole character or for half of one, and a   *)
(* text is the sequence of its characters.                                 *)
(***************************************************************************)
EXTENDS Integers, Sequences

CONSTANTS
  Bytes      (* the bytes each token stands for; none for an unknown id   *)

S == INSTANCE SequencesExt

Byte == {"plain", "lead", "tail"}

ASSUME BytesAssumption == \A id \in DOMAIN Bytes : Bytes[id] \in Seq(Byte)

(* The length of each character in bytes; "fffd" is the replacement        *)
(* character a lossy conversion puts where the bytes form none.            *)
Width == [plain |-> 1, wide |-> 2, fffd |-> 3]

(* String::len *)
ByteLen[t \in Seq(DOMAIN Width)] ==
  LET len[n \in 0..Len(t)] == IF n = 0 THEN 0 ELSE len[n - 1] + Width[t[n]]
  IN  len[Len(t)]

(* A character begins at this byte and ends at the next.                   *)
Paired(b, i) == {i, i + 1} \subseteq DOMAIN b /\ b[i] = "lead" /\ b[i + 1] = "tail"

(* What the lossy conversion makes of this byte: a half on its own is      *)
(* replaced.                                                               *)
Reads(b, i) ==
  IF b[i] = "plain" THEN <<"plain">>
  ELSE IF Paired(b, i) THEN <<"wide">>
  ELSE IF Paired(b, i - 1) THEN <<>>
  ELSE <<"fffd">>

(* The lossy conversion of bytes to text. *)
Text[b \in Seq(Byte)] == S!FlattenSeq([i \in DOMAIN b |-> Reads(b, i)])

(* LagunaTokenizer::decode *)
Decode[ids \in Seq(DOMAIN Bytes)] ==
  Text[S!FlattenSeq([k \in DOMAIN ids |-> Bytes[ids[k]]])]

(* String::ends_with of the replacement character *)
EndsOpen(t) == t # <<>> /\ t[Len(t)] = "fffd"

(* LagunaTokenizer::decode_stream *)
Fresh == [ids |-> <<>>, prefix |-> <<>>, prefix_index |-> 0]

(* The head of step: ids whose text was held back, or is empty, become the *)
(* prefix if their text has become whole.                                  *)
Anchored(st) ==
  IF st.prefix = <<>> /\ st.ids # <<>> /\ ~EndsOpen(Decode[st.ids])
  THEN [st EXCEPT !.prefix = Decode[st.ids], !.prefix_index = Len(st.ids)]
  ELSE st

(* Mutant of Emitted: the window slides and the prefix does not follow. *)
EmittedPrefixStale(st, ids, string) ==
  LET kept == SubSeq(ids, st.prefix_index + 1, Len(ids))
  IN  [ok |-> TRUE,
       text |-> SubSeq(string, Len(st.prefix) + 1, Len(string)),
       stream |-> [ids |-> kept, prefix |-> string,
                   prefix_index |-> Len(ids) - st.prefix_index]]

(* New text: it is what the decode adds to the prefix, and the window      *)
(* slides on to the ids behind the previous prefix.                        *)
Emitted(st, ids, string) ==
  LET kept == SubSeq(ids, st.prefix_index + 1, Len(ids))
  IN  [ok |-> TRUE,
       text |-> SubSeq(string, Len(st.prefix) + 1, Len(string)),
       stream |-> [ids |-> kept, prefix |-> Decode[kept],
                   prefix_index |-> Len(ids) - st.prefix_index]]

(* DecodeStream::step: the text finalised by one more token, the stream    *)
(* after it, and whether the decode still extends the prefix.              *)
StreamStep(old, id) ==
  LET st     == Anchored(old)
      ids    == Append(st.ids, id)
      string == Decode[ids]
      held   == [ok |-> TRUE, text |-> <<>>, stream |-> [st EXCEPT !.ids = ids]]
  IN  IF ByteLen[string] <= ByteLen[st.prefix] \/ EndsOpen(string) THEN held
      ELSE IF S!IsPrefix(st.prefix, string) THEN Emitted(st, ids, string)
      ELSE [held EXCEPT !.ok = FALSE]

-----------------------------------------------------------------------------
(* What the stream owes for these tokens: the text of the most of them     *)
(* that do not end inside a character.                                     *)
Settled(toks) ==
  LET whole == {n \in 0..Len(toks) : ~EndsOpen(Decode[SubSeq(toks, 1, n)])}
      last  == CHOOSE n \in whole : \A k \in whole : k <= n
  IN  Decode[SubSeq(toks, 1, last)]
=============================================================================
