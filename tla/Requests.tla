------------------------------ MODULE Requests ------------------------------
(***************************************************************************)
(* What a provider is asked: buildMessages of the chat screen, the         *)
(* messages the loops add (internal/llm/toolloop.go, client.go), and the   *)
(* conversion of the list by each adapter.                                 *)
(*                                                                         *)
(* A message is its role, what it says and whether an image is attached.   *)
(* The user's and the model's are numbered; the texts of the system are    *)
(* the prompt, the reminder of a long conversation, and the change of mode.*)
(***************************************************************************)
EXTENDS Integers, Sequences, SequencesExt

CONSTANTS
  Adapters,   \* of which "anthropic" and "bedrock" convert the list
  LongTalk,   \* how many messages make a conversation long (10 in the code)
  MaxTalk, MaxAdded  \* bounds

VARIABLES
  spoken,        \* m.messages
  adapter,       \* of the request under way, or "none"
  begun,         \* ghost: how many messages of spoken the request began with
  loopMessages   \* the messages of the loop that makes the request

requestVars == <<spoken, adapter, begun, loopMessages>>

Message(role, text) == [role |-> role, text |-> text, image |-> FALSE]
OfSystem(m) == m.role = "system"
TextsOf(ms) == [k \in DOMAIN ms |-> ms[k].text]

\* The messages that are not of the system, in their order.
Talk(ms) ==
  LET upTo[k \in 0..Len(ms)] ==
        IF k = 0 THEN <<>> ELSE IF OfSystem(ms[k]) THEN upTo[k - 1] ELSE Append(upTo[k - 1], ms[k])
  IN  upTo[Len(ms)]

RequestsInit == spoken = <<>> /\ adapter = "none" /\ begun = 0 /\ loopMessages = <<>>

BuildMessages_SkipsOne(ms) ==
  LET last == SelectLastInSeq(ms, LAMBDA m : m.role = "user")
  IN  <<Message("system", "prompt")>>
      \o (IF Len(ms) > LongTalk /\ last > 1
          THEN SubSeq(ms, 1, last - 1) \o <<Message("system", "reminder")>> \o SubSeq(ms, last + 1, Len(ms))
          ELSE ms)

\* The reminder goes in front of the last message of the user.
BuildMessages(ms) ==
  LET last == SelectLastInSeq(ms, LAMBDA m : m.role = "user")
  IN  <<Message("system", "prompt")>>
      \o (IF Len(ms) > LongTalk /\ last > 1
          THEN SubSeq(ms, 1, last - 1) \o <<Message("system", "reminder")>> \o SubSeq(ms, last, Len(ms))
          ELSE ms)

\* What the user says, and the files attached to it, which precede it.
Ask ==
  /\ adapter = "none"
  /\ \E files \in 0..1, image \in BOOLEAN, a \in Adapters :
       /\ Len(spoken) + files < MaxTalk
       /\ spoken' = spoken \o [k \in 1..(files + 1) |->
                                [Message("user", Len(spoken) + k) EXCEPT !.image = image /\ k > files]]
       /\ adapter' = a
       /\ begun' = Len(spoken')
       /\ loopMessages' = BuildMessages(spoken')

\* The results of a round, or "Continue" after a truncated answer.
AddRound ==
  /\ adapter # "none" /\ Len(loopMessages) < Len(BuildMessages(spoken)) + MaxAdded
  /\ loopMessages' = loopMessages \o <<Message("assistant", "round"), Message("user", "results")>>
  /\ UNCHANGED <<spoken, adapter, begun>>

\* The turn ends, with or without an answer.
EndTurn ==
  /\ adapter # "none"
  /\ \E answer \in {<<>>, <<Message("assistant", Len(spoken) + 1)>>} :
       spoken' = IF Len(spoken) < MaxTalk THEN spoken \o answer ELSE spoken
  /\ adapter' = "none" /\ begun' = 0 /\ loopMessages' = <<>>

\* A page or the result of a task, at any time; a change of mode, between turns.
AddMessage ==
  /\ Len(spoken) < MaxTalk
  /\ \/ spoken' = Append(spoken, Message("user", Len(spoken) + 1))
     \/ adapter = "none" /\ spoken' = Append(spoken, Message("system", "mode"))
  /\ UNCHANGED <<adapter, begun, loopMessages>>

RequestsNext == Ask \/ AddRound \/ EndTurn \/ AddMessage

-----------------------------------------------------------------------------
(* The conversions                                                           *)

\* One system text is kept, the last, and of a message its text.
Convert(ms) ==
  [system |-> IF \E k \in DOMAIN ms : OfSystem(ms[k]) THEN ms[SelectLastInSeq(ms, OfSystem)].text ELSE "",
   messages |-> [k \in DOMAIN Talk(ms) |-> [Talk(ms)[k] EXCEPT !.image = FALSE]]]

Converts == adapter \in {"anthropic", "bedrock"}

Request == IF Converts THEN Convert(loopMessages) ELSE [system |-> "", messages |-> loopMessages]

\* A request says all that was said, once and in order, and then what the loop
\* added, with the images unless the list is converted; the prompt is in it
\* unless a later message of the system takes its place ("extracts the system
\* prompt (if any)", anthropic.go:118).
RequestsAreWhole ==
  LET before == SubSeq(spoken, 1, begun)
      added == SubSeq(loopMessages, Len(BuildMessages(before)) + 1, Len(loopMessages))
      told == {k \in DOMAIN Request.messages : OfSystem(Request.messages[k])}
      orders == {Request.system} \cup {Request.messages[k].text : k \in told}
  IN  adapter # "none" =>
        /\ TextsOf(Talk(Request.messages)) = TextsOf(Talk(before \o added))
        /\ Converts \/ Talk(Request.messages) = Talk(before \o added)
        /\ "prompt" \in orders \/ (Converts /\ \E k \in 2..Len(loopMessages) : OfSystem(loopMessages[k]))
=============================================================================
