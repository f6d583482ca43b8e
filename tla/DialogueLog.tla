------------------------------ MODULE DialogueLog ------------------------------
(***************************************************************************)
(* CompactMessages of internal/memory: the log that the memory worker      *)
(* keeps of an execution, made of its messages.  Messages are those of     *)
(* Compaction; what the code looks for in the content of a result is one   *)
(* of four kinds, a function of the call.                                  *)
(***************************************************************************)
EXTENDS Integers, SequencesExt, FiniteSetsExt

(* The members of a sequence that belong to a set, in their order.         *)
Kept(s, keep) ==
  LET kept[i \in 0 .. Len(s)] ==
        IF i = 0 THEN <<>>
        ELSE IF s[i] \in keep THEN Append(kept[i - 1], s[i]) ELSE kept[i - 1]
  IN  kept[Len(s)]

Kinds ==
  {"short",   \* empty, short or a listing of a directory
   "doc",     \* the documentation of a skill
   "record",  \* tells of a record that was made
   "plain"}

(* A paragraph of the log: a prompt, the text and calls of a reply, or a   *)
(* result, which may stand for several.                                    *)
Prompts     == [by |-> "user", text |-> TRUE, calls |-> {}, content |-> "none", merged |-> 1]
Replies(m)  == [Prompts EXCEPT !.by = "assistant", !.text = m.text, !.calls = m.calls]
ResultOf(c, content, n) ==
  [by |-> "result", text |-> FALSE, calls |-> {c}, content |-> content, merged |-> n]

(* What microcompaction leaves of a content is neither short nor a record. *)
ContentOf(kind, m, c) == IF c \in m.cleared THEN "plain" ELSE kind[c]

(* compactToolResult; compactMessage keeps everything else but thoughts.   *)
KeptResults(kind, m) == {c \in m.results : ContentOf(kind, m, c) # "short"}

(* A message with results and text is a prompt that was merged into the    *)
(* results: its text is all that is told of it (hasToolResultOnly).        *)
(* Messages of role system are not told.                                   *)
formatMessageToMDL(kind, m) ==
  CASE m.role = "user" /\ m.text      -> <<Prompts>>
    [] m.role = "user" /\ ~m.text     ->
         LET cs == Kept([c \in 1 .. Max(m.results) |-> c], KeptResults(kind, m))
         IN  [i \in DOMAIN cs |->
                ResultOf(cs[i], IF ContentOf(kind, m, cs[i]) = "doc" THEN "omitted" ELSE "whole", 1)]
    [] m.role = "assistant"           -> <<Replies(m)>>
    [] m.role = "system"              -> <<>>

isRepeatedToolResultStart(kind, m) ==
  /\ m.role = "user" /\ Cardinality(KeptResults(kind, m)) = 1
  /\ \A c \in KeptResults(kind, m) : ContentOf(kind, m, c) = "record"

(* mergeRepeatedToolResults goes on while messages have one result each,   *)
(* whatever it is and whatever else they hold.                             *)
consumed(s, i) ==
  LET Single(j) == s[j].role = "user" /\ Cardinality(s[j].results) = 1
      ends      == {j \in i .. Len(s) : ~Single(j)}
  IN  Min(ends \cup {Len(s) + 1}) - i

CompactMessages(kind, s) ==
  LET log[i \in 1 .. Len(s) + 1] ==
        IF i > Len(s) THEN <<>>
        ELSE IF isRepeatedToolResultStart(kind, s[i]) /\ consumed(s, i) > 1
             THEN <<ResultOf(CHOOSE c \in s[i].results : TRUE, "whole", consumed(s, i))>>
                    \o log[i + consumed(s, i)]
             ELSE formatMessageToMDL(kind, s[i]) \o log[i + 1]
  IN  log[1]

=================================================================================
