---------------------------- MODULE ChatTurnProofs ----------------------------
(***************************************************************************)
(* The safety of the conversation, for any number of commands, gaps and    *)
(* messages.  The argument has two halves.  SingleInv: as long as no       *)
(* result begins a stream over another one, the prompt is held by at most  *)
(* one thing, a stream with one listener or one command that will begin a  *)
(* stream.  FlagsInv: until a turn ends that leaves its flag behind, the   *)
(* flag that is set is the one of that thing, so that what is done with    *)
(* its answer is what was asked for.                                       *)
(***************************************************************************)
EXTENDS ChatTurn, FiniteSetTheorems, SequenceTheorems, TLAPS

\* The listeners of a stream, and the messages they returned.
Waiting == [s \in Streams |-> listeners[s] + inbox[s]["event"]
                               + inbox[s]["done"] + inbox[s]["error"]]

\* The commands that hold the prompt before there is a stream.
Preparing == jobs["rewrite"] + jobs["research"] + jobs["gaps"]

\* Counts that type correctness needs.
CommitsOK == commits + (IF "commit" \in pending THEN 1 ELSE 0) <= commands

\* What belongs to a stream belongs to the one the UI reads.
OneStreamOK ==
  /\ live \subseteq {eventCh} /\ text \subseteq {eventCh}
  /\ \A s \in Streams : Waiting[s] > 0 => s = eventCh /\ Waiting[s] = 1
  /\ eventCh # NoStream => cancelFunc = eventCh

\* The prompt is held by a stream or by one command that will begin one.
PromptOK ==
  /\ eventCh # NoStream => isStream /\ Preparing = 0
  /\ eventCh = NoStream => Preparing = IF isStream THEN 1 ELSE 0

CompactingOK == "compact" \in pending =>
  /\ eventCh # NoStream /\ origin[eventCh] = "compact"
  /\ compactKeep <= Len(messages)

\* The flag that is set is the one of the stream under way.
FlagsOK ==
  /\ eventCh = NoStream => pending \subseteq {"research"}
                           /\ ("research" \in pending => jobs["research"] = 1)
  /\ eventCh # NoStream => pending = {origin[eventCh]} \ {"turn"}

\* What the answer to a search will cut or remove was put in by the program.
TrimsOK == eventCh # NoStream /\ origin[eventCh] \in Trims =>
  LET i == compactAt[origin[eventCh]] + 2
  IN  /\ i \in 2..Len(messages)
      /\ messages[i - 1] = "note" /\ messages[i] = "note"
      /\ messages[Len(messages)] = "note"

SingleInv == ~overlapped => OneStreamOK /\ PromptOK /\ CompactingOK
FlagsInv == ~overlapped /\ ~orphaned => FlagsOK /\ TrimsOK

\* TypeOK in parts.
ConvOK == messages \in Seq(Kinds) /\ archived \in Nat /\ checkpoint \in Seq(Seq(Kinds))
StreamOK ==
  /\ isStream \in BOOLEAN /\ eventCh \in Streams \cup {NoStream}
  /\ cancelFunc \in Streams \cup {NoStream, Pipeline}
  /\ text \subseteq Streams /\ live \subseteq Streams /\ ended \subseteq Streams
  /\ origin \in [Streams -> Purposes \cup {"turn"}] /\ listeners \in [Streams -> Nat]
QueueOK ==
  /\ inbox \in [Streams -> [EventTypes -> Nat]] /\ jobs \in [Jobs -> Nat]
  /\ overlapped \in BOOLEAN /\ orphaned \in BOOLEAN
FlagOK ==
  /\ pending \subseteq Purposes
  /\ compactAt \in [Trims -> Nat] /\ compactKeep \in Nat
  /\ fallbackUsed \in BOOLEAN /\ phase \in {"idle", "gathering", "done"}
  /\ gaps \in BOOLEAN /\ gapRounds \in 0..MaxGaps
  /\ baryoMd \in BOOLEAN /\ commits \in 0..MaxCommands /\ commands \in 0..MaxCommands

TypeInv == TypeOK /\ CommitsOK

\* The parts are all of TypeOK.
LEMMA TypeParts == TypeOK <=> ConvOK /\ StreamOK /\ QueueOK /\ FlagOK
BY Zenon DEF TypeOK, ConvOK, StreamOK, QueueOK, FlagOK

-----------------------------------------------------------------------------
(* Sequences of messages *)

\* Cutting a piece out of a conversation gives a conversation.
LEMMA PieceType ==
  ASSUME NEW ms \in Seq(Kinds), NEW m \in Nat \ {0}, NEW n \in Nat, n <= Len(ms)
  PROVE  SubSeq(ms, m, n) \in Seq(Kinds)
<1>1. \A i \in m .. n : ms[i] \in Kinds
  <2> SUFFICES ASSUME NEW i \in m .. n PROVE ms[i] \in Kinds
    OBVIOUS
  <2>1. Len(ms) \in Nat
    BY LenProperties
  <2>2. i \in 1..Len(ms)
    BY <2>1
  <2> QED BY <2>2, ElementOfSeq
<1> QED BY <1>1, SubSeqProperties

\* A conversation without one of its messages is a conversation.
LEMMA WithoutType ==
  ASSUME NEW ms \in Seq(Kinds), NEW i \in 1..Len(ms)
  PROVE  Without(ms, i) \in Seq(Kinds)
<1>1. Len(ms) \in Nat
  BY LenProperties
<1>2. SubSeq(ms, 1, i - 1) \in Seq(Kinds) /\ SubSeq(ms, i + 1, Len(ms)) \in Seq(Kinds)
  BY <1>1, PieceType
<1> QED BY <1>2, ConcatProperties DEF Without

\* The messages of a conversation that hold what was asked or answered can be
\* counted.
LEMMA HeldType ==
  ASSUME NEW ms \in Seq(Kinds)
  PROVE  /\ IsFiniteSet({i \in 1..Len(ms) : ms[i] \in {"text", "reply"}})
         /\ Held(ms) \in Nat
<1>1. Len(ms) \in Nat
  BY LenProperties
<1>2. IsFiniteSet(1..Len(ms))
  BY <1>1, FS_Interval
<1>3. IsFiniteSet({i \in 1..Len(ms) : ms[i] \in {"text", "reply"}})
  BY <1>2, FS_Subset
<1> QED BY <1>3, FS_CardinalityType DEF Held

\* What the program puts in at once is a piece of conversation.
LEMMA PieceTypes ==
  /\ <<>> \in Seq(Kinds) /\ <<"note">> \in Seq(Kinds) /\ <<"text">> \in Seq(Kinds)
  /\ <<"note", "ack">> \in Seq(Kinds) /\ <<"note", "note">> \in Seq(Kinds)
BY DEF Kinds, UserKinds

\* A trim leaves a conversation, and a count of what was archived.
LEMMA TrimType ==
  ASSUME TypeOK, NEW c \in [ms : Seq(Kinds), kept : Nat], NEW job \in Trims,
         NEW long \in BOOLEAN
  PROVE  Trim(c, job, long) \in [ms : Seq(Kinds), kept : Nat]
<1> DEFINE i == compactAt[job] + 1
           cut == job \in pending /\ long /\ IsUser(c.ms, i)
           ms == IF cut THEN [c.ms EXCEPT ![i] = "note"] ELSE c.ms
           cuts == job \in pending /\ IsUser(ms, i + 1)
           ms2 == IF cuts THEN Without(ms, i + 1) ELSE ms
           kept == c.kept + IF cut THEN Held(<<c.ms[i]>>) ELSE 0
<1>1. c.ms \in Seq(Kinds) /\ c.kept \in Nat
  OBVIOUS
<1>2. ms \in Seq(Kinds)
  <2>1. CASE cut
    <3>1. i \in 1..Len(c.ms)
      BY <2>1 DEF IsUser
    <3>2. "note" \in Kinds
      BY DEF Kinds, UserKinds
    <3>3. [c.ms EXCEPT ![i] = "note"] \in Seq(Kinds)
      BY <1>1, <3>1, <3>2, ExceptSeq
    <3> QED BY <2>1, <3>3
  <2>2. CASE ~cut
    BY <1>1, <2>2
  <2> QED BY <2>1, <2>2
<1>3. ms2 \in Seq(Kinds)
  <2>1. CASE cuts
    <3>1. i + 1 \in 1..Len(ms)
      BY <2>1 DEF IsUser
    <3>2. Without(ms, i + 1) \in Seq(Kinds)
      <4> HIDE DEF ms, i
      <4> QED BY <1>2, <3>1, WithoutType
    <3> QED BY <2>1, <3>2
  <2>2. CASE ~cuts
    BY <1>2, <2>2
  <2> QED BY <2>1, <2>2
<1>4. kept \in Nat
  <2>1. CASE cut
    <3>1. i \in 1..Len(c.ms)
      BY <2>1 DEF IsUser
    <3>2. c.ms[i] \in Kinds
      BY <1>1, <3>1, ElementOfSeq
    <3>3. <<c.ms[i]>> \in Seq(Kinds)
      BY <3>2
    <3>4. Held(<<c.ms[i]>>) \in Nat
      BY <3>3, HeldType
    <3> QED BY <1>1, <2>1, <3>4
  <2>2. CASE ~cut
    BY <1>1, <2>2
  <2> QED BY <2>1, <2>2
<1>5. Trim(c, job, long) = [ms |-> ms2, kept |-> kept]
  BY DEF Trim
<1> HIDE DEF ms2, kept
<1> QED BY <1>3, <1>4, <1>5

\* An answer leaves a conversation, and a count of what was archived.
LEMMA AnsweredType ==
  ASSUME TypeOK, NEW full \in BOOLEAN, NEW long \in BOOLEAN
  PROVE  Answered(full, long) \in [ms : Seq(Kinds), kept : Nat]
<1> DEFINE c == [ms |-> IF full THEN Append(messages, "reply") ELSE messages,
                 kept |-> archived]
<1>1. c \in [ms : Seq(Kinds), kept : Nat]
  <2>1. messages \in Seq(Kinds) /\ archived \in Nat /\ "reply" \in Kinds
    BY DEF TypeOK, Kinds
  <2>2. Append(messages, "reply") \in Seq(Kinds)
    BY <2>1
  <2> QED BY <2>1, <2>2
<1>2. {"search", "research", "strategy"} \subseteq Trims
  BY DEF Trims
<1> HIDE DEF c
<1>3. Trim(c, "search", long) \in [ms : Seq(Kinds), kept : Nat]
  BY <1>1, <1>2, TrimType
<1>4. Trim(Trim(c, "search", long), "research", long) \in [ms : Seq(Kinds), kept : Nat]
  BY <1>2, <1>3, TrimType
<1>5. Trim(Trim(Trim(c, "search", long), "research", long), "strategy", long)
        \in [ms : Seq(Kinds), kept : Nat]
  BY <1>2, <1>4, TrimType
<1> QED BY <1>5 DEF Answered, c

-----------------------------------------------------------------------------
(* Type correctness *)

\* The initial states are well typed.
LEMMA TypeInit == Init => TypeInv
<1> SUFFICES ASSUME Init PROVE TypeInv
  OBVIOUS
<1> USE BoundAssumption, StreamAssumption, ResumedAssumption
<1>1. ConvOK
  <2>1. checkpoint \in Seq(Seq(Kinds))
    BY DEF Init
  <2> QED BY <2>1 DEF Init, ConvOK
<1>2. StreamOK
  BY DEF Init, StreamOK
<1>5. QueueOK
  BY DEF Init, QueueOK
<1>3. FlagOK
  <2>1. compactAt \in [Trims -> Nat] /\ 0 \in 0..MaxCommands /\ 0 \in 0..MaxGaps
    BY DEF Init
  <2> QED BY <2>1 DEF Init, FlagOK
<1>4. CommitsOK
  BY DEF Init, CommitsOK
<1> QED BY <1>1, <1>2, <1>3, <1>4, <1>5, TypeParts DEF TypeInv

\* Every step leaves a conversation, an archive and a checkpoint.
LEMMA ConvStep == TypeOK /\ [Next]_vars => ConvOK'
<1> SUFFICES ASSUME TypeOK, [Next]_vars PROVE ConvOK'
  OBVIOUS
<1>a. messages \in Seq(Kinds) /\ archived \in Nat /\ checkpoint \in Seq(Seq(Kinds))
  BY DEF TypeOK
<1>b. {"text", "reply", "note", "ack"} \subseteq Kinds
  BY DEF Kinds, UserKinds
<1>c. Len(messages) \in Nat
  BY <1>a, LenProperties
<1>d. compactKeep \in Nat
  BY DEF TypeOK
<1>e. \A k \in Kinds : Append(messages, k) \in Seq(Kinds)
  BY <1>a
<1>f. \A x \in Seq(Kinds) : messages \o x \in Seq(Kinds)
  BY <1>a, ConcatProperties
<1> HIDE DEF ConvOK
<1>1. CASE UNCHANGED <<messages, archived, checkpoint>>
  BY <1>a, <1>1 DEF ConvOK
<1>2. ASSUME UNCHANGED <<archived, checkpoint>>, NEW k \in Kinds,
             messages' = Append(messages, k)
      PROVE  ConvOK'
  BY <1>a, <1>e, <1>2 DEF ConvOK
<1>3. ASSUME UNCHANGED <<archived, checkpoint>>, NEW x \in Seq(Kinds),
             messages' = messages \o x
      PROVE  ConvOK'
  BY <1>a, <1>f, <1>3 DEF ConvOK
<1>4. ASSUME NEW s \in Streams, HandleError(s) PROVE ConvOK'
  <2>1. UNCHANGED <<archived, checkpoint>> /\ messages' \in {messages, Front(messages)}
        /\ (messages' # messages => Len(messages) \in 1..Len(messages))
    BY <1>4 DEF HandleError, sideVars, IsUser
  <2>2. Len(messages) # 0 => Front(messages) \in Seq(Kinds)
    BY <1>a, <1>c, PieceType DEF Front
  <2> QED BY <1>a, <1>c, <2>1, <2>2 DEF ConvOK
<1>5. ASSUME NEW s \in Streams, DoneCompacting(s) PROVE ConvOK'
  <2>1. PICK b \in BOOLEAN : Summarize(b)
    BY <1>5 DEF DoneCompacting
  <2>2. compactKeep <= Len(messages) /\ UNCHANGED checkpoint
    BY <1>5 DEF DoneCompacting, sideVars
  <2>3. SubSeq(messages, compactKeep + 1, Len(messages)) \in Seq(Kinds)
    BY <1>a, <1>c, <1>d, PieceType
  <2>4. <<"note", "ack">> \o SubSeq(messages, compactKeep + 1, Len(messages)) \in Seq(Kinds)
    BY <2>3, PieceTypes, ConcatProperties
  <2>5. SubSeq(messages, 1, compactKeep) \in Seq(Kinds)
    BY <1>a, <1>d, <2>2, PieceType
  <2>6. Held(SubSeq(messages, 1, compactKeep)) \in Nat
    BY <2>5, HeldType
  <2> QED BY <1>a, <2>1, <2>2, <2>4, <2>6 DEF ConvOK, Summarize
<1>6. ASSUME NEW s \in Streams, NEW full \in BOOLEAN, NEW left, Answer(s, full, left)
      PROVE  ConvOK'
  <2>1. PICK long \in BOOLEAN : messages' = Answered(full, long).ms
                                /\ archived' = Answered(full, long).kept
    BY <1>6 DEF Answer
  <2>2. UNCHANGED checkpoint
    BY <1>6 DEF Answer
  <2> QED BY <1>a, <2>1, <2>2, AnsweredType DEF ConvOK
<1>7. ASSUME NEW s \in Streams, HandleDone(s) PROVE ConvOK'
  BY <1>5, <1>6, <1>7 DEF HandleDone, DoneSearches, DoneResearches, DoneTurn
<1>8. CASE Enter
  <2>1. PICK before \in {<<>>, <<"note">>, <<"note", "ack">>} :
          messages' = messages \o before \o <<"text">>
    BY <1>8 DEF Enter
  <2>2. messages \o before \in Seq(Kinds)
    BY <1>f, PieceTypes
  <2>3. messages \o before \o <<"text">> \in Seq(Kinds)
    BY <2>2, PieceTypes, ConcatProperties
  <2> QED BY <1>8, <1>a, <2>1, <2>3 DEF ConvOK, Enter, sideVars
<1>9. CASE Gather
  <2>1. PICK n \in 0..Len(messages) :
          /\ n > 0 => Len(messages) - 2 * (n - 1) > 2
          /\ messages' = Append(SubSeq(messages, 2 * n + 1, Len(messages)), "note")
    BY <1>9 DEF Gather
  <2>2. SubSeq(messages, 2 * n + 1, Len(messages)) \in Seq(Kinds)
    BY <1>a, <1>c, PieceType
  <2>3. messages' \in Seq(Kinds)
    BY <1>b, <2>1, <2>2
  <2> QED BY <1>9, <1>a, <2>3 DEF ConvOK, Gather, sideVars
<1>10. CASE Clear
  <2>1. Held(messages) \in Nat /\ <<>> \in Seq(Kinds)
    BY <1>a, HeldType, PieceTypes
  <2> QED BY <1>10, <1>a, <2>1 DEF Clear, ConvOK, sideVars
<1>11. CASE Checkpoint
  <2>1. <<messages>> \in Seq(Seq(Kinds))
    BY <1>a
  <2> QED BY <1>11, <1>a, <2>1 DEF Checkpoint, ConvOK, convVars
<1>12. CASE Rewind
  <2>1. checkpoint # <<>> /\ messages' = checkpoint[1] /\ UNCHANGED <<archived, checkpoint>>
    BY <1>12 DEF Rewind, sideVars
  <2>2. Len(checkpoint) \in Nat \ {0}
    BY <1>a, <2>1, EmptySeq
  <2>3. checkpoint[1] \in Seq(Kinds)
    BY <1>a, <2>2, ElementOfSeq
  <2> QED BY <1>a, <2>1, <2>3 DEF ConvOK
<1>13. CASE RewriteDone
  <2>1. UNCHANGED <<archived, checkpoint>>
    BY <1>13 DEF RewriteDone, Report, sideVars
  <2>2. CASE messages' = messages
    BY <1>1, <2>1, <2>2
  <2>3. CASE messages' # messages
    <3>1. messages' = [messages EXCEPT ![LastUser] = "text"]
      BY <1>13, <2>3 DEF RewriteDone
    <3>2. CASE LastUser \in 1..Len(messages)
      BY <1>a, <1>b, <2>1, <3>1, <3>2, ExceptSeq DEF ConvOK
    <3>3. CASE LastUser \notin 1..Len(messages)
      <4>1. messages' = messages
        <5>1. messages = [i \in 1..Len(messages) |-> messages[i]]
          BY <1>a
        <5> HIDE DEF LastUser
        <5> QED BY <3>1, <3>3, <5>1, <1>a, LenProperties
      <4> QED BY <1>1, <2>1, <4>1
    <3> QED BY <3>2, <3>3
  <2> QED BY <2>2, <2>3
<1>14. ASSUME NEW p \in Purposes, Discuss(p), UNCHANGED sideVars PROVE ConvOK'
  BY <1>3, <1>14, PieceTypes DEF Discuss, sideVars
<1>15. CASE User
  <2>1. CASE Ask \/ Commit \/ InitCommand \/ Mode
    BY <1>2, <1>b, <2>1 DEF Ask, Commit, InitCommand, Mode, sideVars
  <2>2. CASE Skill
    BY <1>3, <2>2, PieceTypes DEF Skill, sideVars
  <2>3. CASE Research \/ GatherDone \/ Compact \/ \E c \in Commands : Launch(c)
    BY <1>1, <2>3 DEF Research, GatherDone, Compact, Launch, convVars, sideVars
  <2> QED BY <1>8, <1>9, <1>10, <1>11, <1>12, <1>15, <2>1, <2>2, <2>3 DEF User
<1>16. CASE Reports
  <2>1. CASE SearchDone \/ ResearchDone \/ StrategyLoaded \/ GapsDone
    BY <1>14, <2>1 DEF SearchDone, ResearchDone, StrategyLoaded, GapsDone, Report, Purposes
  <2>2. CASE FetchDone \/ TaskDone
    BY <1>2, <1>b, <2>2 DEF FetchDone, TaskDone, Note, Report, sideVars
  <2>3. CASE SearchFailed \/ TaskFailed \/ ResearchFailed \/ GapsFailed
    BY <1>1, <2>3
       DEF SearchFailed, TaskFailed, ResearchFailed, GapsFailed, Report, convVars, sideVars
  <2> QED BY <1>13, <1>16, <2>1, <2>2, <2>3 DEF Reports
<1>17. ASSUME NEW s \in Streams, Receive(s, "event") \/ ReceiveEnd(s) \/ Handle(s)
       PROVE  ConvOK'
  BY <1>1, <1>4, <1>7, <1>17
     DEF Receive, ReceiveEnd, Handle, HandleEvent, convVars, sideVars
<1>18. CASE UNCHANGED vars
  BY <1>1, <1>18 DEF vars, convVars, sideVars
<1> QED BY <1>15, <1>16, <1>17, <1>18 DEF Next

\* A stream that is begun is one of the streams, and was free.
LEMMA BeginType ==
  ASSUME TypeOK, NEW p \in Purposes \cup {"turn"}, NEW kept \in SUBSET Streams,
         Begin(p, kept)
  PROVE  /\ StreamOK'
         /\ Fresh \in Streams /\ Free(Fresh)
<1>1. Fresh \in Streams /\ Free(Fresh)
  BY DEF Begin, Fresh
<1> HIDE DEF Fresh
<1>2. StreamOK
  BY TypeParts
<1> QED BY <1>1, <1>2 DEF Begin, StreamOK

\* What a step leaves to read for the UI is well typed.
LEMMA StreamStep == TypeOK /\ [Next]_vars => StreamOK'
<1> SUFFICES ASSUME TypeOK, [Next]_vars PROVE StreamOK'
  OBVIOUS
<1>a. StreamOK /\ QueueOK
  BY TypeParts
<1>b. live \subseteq Streams /\ Cancelled \subseteq Streams
  BY <1>a DEF StreamOK, Cancelled
<1>1. CASE UNCHANGED streamVars
  BY <1>a, <1>1 DEF StreamOK, streamVars
<1>2. ASSUME NEW s \in Streams, NEW t \in EventTypes, Receive(s, t) PROVE StreamOK'
  BY <1>a, <1>2 DEF Receive, StreamOK
<1>3. ASSUME NEW s \in Streams, HandleEvent(s) PROVE StreamOK'
  BY <1>a, <1>3 DEF HandleEvent, Listen, StreamOK
<1>4. CASE Reset
  BY <1>a, <1>b, <1>4 DEF Reset, StreamOK
<1>5. ASSUME NEW p \in Purposes \cup {"turn"}, NEW kept \in {live, Cancelled}, Begin(p, kept)
      PROVE  StreamOK'
  BY <1>b, <1>5, BeginType
<1>6. ASSUME isStream' = TRUE, text' = {}, eventCh' = NoStream,
             cancelFunc' \in {Pipeline, NoStream}, live' = Cancelled,
             UNCHANGED <<origin, ended, listeners>>
      PROVE  StreamOK'
  BY <1>a, <1>b, <1>6 DEF StreamOK
<1>7. ASSUME isStream' \in BOOLEAN, cancelFunc' \in {Pipeline, cancelFunc},
             UNCHANGED <<eventCh, text, origin, live, ended, listeners>>
      PROVE  StreamOK'
  BY <1>a, <1>7 DEF StreamOK
<1>8. CASE User
  <2>1. CASE Enter
    BY <1>5, <1>7, <2>1 DEF Enter
  <2>2. CASE Ask \/ Commit \/ InitCommand \/ Gather \/ Compact
    BY <1>5, <2>2 DEF Ask, Commit, InitCommand, Gather, Compact, Purposes
  <2>3. CASE Research
    BY <1>7, <2>3 DEF Research
  <2>4. CASE GatherDone \/ Clear \/ Checkpoint \/ Rewind \/ Mode \/ Skill
             \/ \E c \in Commands : Launch(c)
    BY <1>1, <2>4 DEF GatherDone, Clear, Checkpoint, Rewind, Mode, Skill, Launch
  <2> QED BY <1>8, <2>1, <2>2, <2>3, <2>4 DEF User
<1>9. CASE Reports
  <2>1. ASSUME NEW p \in Purposes, Discuss(p) PROVE StreamOK'
    BY <1>5, <2>1 DEF Discuss
  <2>2. CASE SearchDone \/ ResearchDone \/ StrategyLoaded \/ GapsDone
    BY <2>1, <2>2 DEF SearchDone, ResearchDone, StrategyLoaded, GapsDone, Purposes
  <2>3. CASE RewriteDone
    BY <1>5, <2>3 DEF RewriteDone
  <2>4. CASE FetchDone \/ TaskDone \/ SearchFailed \/ TaskFailed
    BY <1>1, <2>4 DEF FetchDone, TaskDone, Note, SearchFailed, TaskFailed
  <2>5. CASE ResearchFailed \/ GapsFailed
    BY <1>7, <2>5 DEF ResearchFailed, GapsFailed
  <2> QED BY <1>9, <2>2, <2>3, <2>4, <2>5 DEF Reports
<1>10. ASSUME NEW s \in Streams, Handle(s) PROVE StreamOK'
  <2>1. CASE HandleError(s) \/ DoneCompacting(s) \/ DoneSearches(s)
    BY <1>4, <2>1 DEF HandleError, DoneCompacting, DoneSearches
  <2>2. CASE DoneResearches(s)
    BY <1>6, <2>2 DEF DoneResearches
  <2>3. CASE DoneTurn(s)
    BY <1>4, <1>5, <1>6, <2>3 DEF DoneTurn, Purposes
  <2> QED BY <1>3, <1>10, <2>1, <2>2, <2>3 DEF Handle, HandleDone
<1>11. CASE UNCHANGED vars
  BY <1>1, <1>11 DEF vars
<1> QED BY <1>2, <1>8, <1>9, <1>10, <1>11 DEF Next, ReceiveEnd, EventTypes

\* So are the messages and commands under way.
LEMMA QueueStep == TypeOK /\ [Next]_vars => QueueOK'
<1> SUFFICES ASSUME TypeOK, [Next]_vars PROVE QueueOK'
  OBVIOUS
<1>a. QueueOK
  BY TypeParts
<1>b. isStream \in BOOLEAN
  BY DEF TypeOK
<1>1. ASSUME UNCHANGED <<inbox, jobs>>, overlapped' \in BOOLEAN, orphaned' \in BOOLEAN
      PROVE  QueueOK'
  BY <1>a, <1>1 DEF QueueOK
<1>2. ASSUME NEW j \in Jobs, jobs' = [jobs EXCEPT ![j] = @ + 1],
             UNCHANGED <<inbox, overlapped, orphaned>>
      PROVE  QueueOK'
  BY <1>a, <1>2 DEF QueueOK
<1>3. ASSUME NEW j \in Jobs, Report(j), overlapped' \in {overlapped, overlapped \/ isStream}
      PROVE  QueueOK'
  BY <1>a, <1>b, <1>3 DEF QueueOK, Report
<1>4. ASSUME NEW s \in Streams, NEW t \in EventTypes, Take(s, t),
             UNCHANGED <<jobs, overlapped>>, orphaned' \in BOOLEAN
      PROVE  QueueOK'
  BY <1>a, <1>4 DEF QueueOK, Take
<1>5. ASSUME NEW s \in Streams, NEW j \in Jobs, Take(s, "done"),
             jobs' = [jobs EXCEPT ![j] = @ + 1], orphaned' \in BOOLEAN, UNCHANGED overlapped
      PROVE  QueueOK'
  BY <1>a, <1>5 DEF QueueOK, Take, EventTypes
<1>6. CASE User
  <2>1. ASSUME NEW c, Command(c) PROVE UNCHANGED <<inbox, overlapped, orphaned>>
    BY <2>1 DEF Command
  <2>2. overlapped \in BOOLEAN /\ orphaned \in BOOLEAN
    BY <1>a DEF QueueOK
  <2>3. CASE Ask \/ Commit \/ InitCommand \/ Gather \/ GatherDone \/ Compact \/ Clear
             \/ Checkpoint \/ Rewind \/ Mode \/ Skill
    BY <1>1, <2>1, <2>2, <2>3
       DEF Ask, Commit, InitCommand, Gather, GatherDone, Compact, Clear, Checkpoint, Rewind,
           Mode, Skill
  <2>4. CASE Enter
    BY <1>1, <1>2, <2>1, <2>2, <2>4 DEF Enter, Jobs
  <2>5. CASE Research \/ \E c \in Commands : Launch(c)
    BY <1>2, <2>1, <2>5 DEF Research, Launch, Jobs
  <2> QED BY <1>6, <2>3, <2>4, <2>5 DEF User
<1>7. CASE Reports
  BY <1>3, <1>7
     DEF Reports, RewriteDone, SearchDone, SearchFailed, FetchDone, TaskDone, TaskFailed, Note,
         ResearchDone, ResearchFailed, StrategyLoaded, GapsDone, GapsFailed, Jobs
<1>8. ASSUME NEW s \in Streams, NEW t \in EventTypes, Receive(s, t) PROVE QueueOK'
  BY <1>a, <1>8 DEF Receive, QueueOK
<1>9. ASSUME NEW s \in Streams, NEW full, NEW left, Answer(s, full, left)
      PROVE  Take(s, "done") /\ orphaned' \in BOOLEAN
  BY <1>9 DEF Answer
<1>10. ASSUME NEW s \in Streams, Handle(s) PROVE QueueOK'
  <2>1. CASE HandleEvent(s)
    BY <1>a, <1>4, <2>1 DEF HandleEvent, EventTypes, QueueOK
  <2>2. CASE HandleError(s)
    BY <1>4, <2>2 DEF HandleError, EventTypes
  <2>3. CASE DoneCompacting(s)
    BY <1>a, <1>4, <2>3 DEF DoneCompacting, EventTypes, QueueOK
  <2>4. CASE DoneSearches(s) \/ DoneResearches(s)
    BY <1>5, <1>9, <2>4 DEF DoneSearches, DoneResearches, Jobs
  <2>5. CASE DoneTurn(s)
    BY <1>4, <1>5, <1>9, <2>5 DEF DoneTurn, EventTypes, Jobs
  <2> QED BY <1>10, <2>1, <2>2, <2>3, <2>4, <2>5 DEF Handle, HandleDone
<1>11. CASE UNCHANGED vars
  BY <1>a, <1>1, <1>11 DEF vars, QueueOK
<1> QED BY <1>6, <1>7, <1>8, <1>10, <1>11 DEF Next, ReceiveEnd, EventTypes

\* So are the flags; a commit that is made or asked for is one of the commands.
LEMMA FlagStep == TypeInv /\ [Next]_vars => FlagOK' /\ CommitsOK'
<1> SUFFICES ASSUME TypeInv, [Next]_vars PROVE FlagOK' /\ CommitsOK'
  OBVIOUS
<1> USE BoundAssumption
<1>a. FlagOK /\ CommitsOK
  BY TypeParts DEF TypeInv
<1>b. Len(messages) \in Nat /\ Len(messages') \in Nat
  <2>1. messages \in Seq(Kinds) /\ messages' \in Seq(Kinds)
    BY ConvStep DEF TypeInv, TypeOK, ConvOK
  <2> QED BY <2>1, LenProperties
<1>1. ASSUME UNCHANGED <<flagVars, sideVars, commands>> PROVE FlagOK' /\ CommitsOK'
  BY <1>a, <1>1 DEF FlagOK, CommitsOK, flagVars, sideVars
<1>2. ASSUME NEW c, Command(c), pending' \subseteq Purposes, compactKeep' \in Nat,
             phase' \in {"idle", "gathering", "done"}, gaps' \in BOOLEAN,
             UNCHANGED <<compactAt, fallbackUsed, gapRounds, baryoMd, commits>>
      PROVE  FlagOK' /\ CommitsOK'
  BY <1>a, <1>2 DEF FlagOK, CommitsOK, Command
<1>3. ASSUME NEW p \in Trims, Discuss(p), UNCHANGED <<sideVars, commands>>,
             phase' \in {phase, "done"}, gaps' = gaps
      PROVE  FlagOK' /\ CommitsOK'
  <2>1. p \in Purposes /\ p # "commit"
    BY DEF Trims, Purposes
  <2>2. compactAt' \in [Trims -> Nat]
    BY <1>a, <1>b, <1>3 DEF Discuss, FlagOK
  <2> QED BY <1>a, <1>3, <2>1, <2>2 DEF Discuss, FlagOK, CommitsOK, sideVars
<1>4. ASSUME NEW s \in Streams, NEW full \in BOOLEAN, NEW left, Answer(s, full, left),
             pending' \subseteq Purposes, "commit" \in pending' => "commit" \in pending /\ ~full,
             compactKeep' \in Nat, fallbackUsed' \in BOOLEAN, gapRounds' \in 0..MaxGaps
      PROVE  FlagOK' /\ CommitsOK'
  <2>1. baryoMd' \in BOOLEAN /\ compactAt' = compactAt /\ commands' = commands
        /\ commits' = commits + (IF full /\ "commit" \in pending THEN 1 ELSE 0)
    BY <1>4 DEF Answer
  <2>2. phase' \in {"idle", "gathering", "done"} /\ gaps' \in BOOLEAN
    BY <1>a, <1>4 DEF Answer, Analysed, FlagOK
  <2>3. commits' \in Nat /\ CommitsOK'
    BY <1>a, <1>4, <2>1 DEF CommitsOK, FlagOK
  <2>4. commits' \in 0..MaxCommands
    BY <1>a, <2>1, <2>3 DEF CommitsOK, FlagOK
  <2> QED BY <1>a, <1>4, <2>1, <2>2, <2>3, <2>4 DEF FlagOK
<1>5. CASE User
  <2>1. CASE Enter \/ Ask \/ Checkpoint \/ Rewind \/ Mode \/ Skill \/ \E c \in Commands : Launch(c)
    <3>1. PICK c : Command(c)
      BY <2>1 DEF Enter, Ask, Checkpoint, Rewind, Mode, Skill, Launch
    <3>2. UNCHANGED <<flagVars, baryoMd, commits>>
      BY <2>1 DEF Enter, Ask, Checkpoint, Rewind, Mode, Skill, Launch, sideVars
    <3> QED BY <1>a, <1>2, <3>1, <3>2 DEF FlagOK, flagVars
  <2>2. CASE Commit \/ InitCommand \/ Research
    <3>1. PICK c : Command(c) /\ pending' = pending \cup {c} /\ c \in Purposes
      BY <2>2 DEF Commit, InitCommand, Research, Purposes
    <3>2. UNCHANGED <<compactAt, compactKeep, fallbackUsed, phase, gaps, gapRounds, baryoMd, commits>>
      BY <2>2 DEF Commit, InitCommand, Research, sideVars
    <3> QED BY <1>a, <1>2, <3>1, <3>2 DEF FlagOK
  <2>3. CASE Gather \/ GatherDone \/ Clear
    <3>1. PICK c : Command(c)
      BY <2>3 DEF Gather, GatherDone, Clear
    <3>2. UNCHANGED <<pending, compactAt, compactKeep, fallbackUsed, gapRounds, baryoMd, commits>>
          /\ phase' \in {"idle", "gathering"} /\ gaps' \in {gaps, FALSE}
      BY <2>3 DEF Gather, GatherDone, Clear, sideVars
    <3> QED BY <1>a, <1>2, <3>1, <3>2 DEF FlagOK
  <2>4. CASE Compact
    <3>1. Len(messages) - KeepTail \in Nat
      BY <1>b, <2>4 DEF Compact
    <3> QED BY <1>a, <1>2, <2>4, <3>1 DEF Compact, FlagOK, Purposes, sideVars
  <2> QED BY <1>5, <2>1, <2>2, <2>3, <2>4 DEF User
<1>6. CASE Reports
  <2>1. CASE SearchDone \/ ResearchDone \/ StrategyLoaded \/ GapsDone
    BY <1>3, <2>1
       DEF SearchDone, ResearchDone, StrategyLoaded, GapsDone, Report, Trims
  <2>2. CASE RewriteDone \/ SearchFailed \/ FetchDone \/ TaskDone \/ TaskFailed \/ GapsFailed
    BY <1>1, <2>2
       DEF RewriteDone, SearchFailed, FetchDone, TaskDone, Note, TaskFailed, GapsFailed, Report
  <2>3. CASE ResearchFailed
    BY <1>a, <2>3 DEF ResearchFailed, Report, FlagOK, CommitsOK, sideVars
  <2> QED BY <1>6, <2>1, <2>2, <2>3 DEF Reports
<1>7. ASSUME NEW s \in Streams, Handle(s) PROVE FlagOK' /\ CommitsOK'
  <2>1. CASE HandleEvent(s)
    BY <1>1, <2>1 DEF HandleEvent
  <2>2. CASE HandleError(s) \/ DoneCompacting(s)
    BY <1>a, <2>2 DEF HandleError, DoneCompacting, FlagOK, CommitsOK, sideVars
  <2>3. CASE DoneSearches(s) \/ DoneResearches(s)
    <3>1. /\ Answer(s, TRUE, {}) /\ fallbackUsed' = TRUE /\ gapRounds' = gapRounds
          /\ pending' \in {{}, {"research"}} /\ compactKeep' = 0
      BY <2>3 DEF DoneSearches, DoneResearches
    <3>2. pending' \subseteq Purposes /\ "commit" \notin pending' /\ gapRounds' \in 0..MaxGaps
      BY <1>a, <3>1 DEF FlagOK, Purposes
    <3> QED BY <1>4, <3>1, <3>2
  <2>4. CASE DoneTurn(s)
    <3>1. PICK full \in BOOLEAN :
        /\ Answer(s, full, IF full THEN {} ELSE Settled(full)) /\ fallbackUsed' = FALSE
        /\ gapRounds' \in {gapRounds, gapRounds + 1}
        /\ gapRounds' # gapRounds => gapRounds < MaxGaps
        /\ \/ pending' = Settled(full) /\ compactKeep' = 0
           \/ /\ pending' = Settled(full) \cup {"compact"}
              /\ Len(messages') > KeepTail /\ compactKeep' = Len(messages') - KeepTail
      BY <2>4 DEF DoneTurn
    <3>2. /\ Settled(full) \subseteq Purposes
          /\ "commit" \in Settled(full) => "commit" \in pending /\ ~full
      BY DEF Settled, Purposes
    <3>3. compactKeep' \in Nat /\ pending' \subseteq Purposes
          /\ ("commit" \in pending' => "commit" \in Settled(full))
      BY <1>b, <3>1, <3>2 DEF Purposes
    <3>4. gapRounds' \in 0..MaxGaps
      BY <1>a, <3>1 DEF FlagOK
    <3> QED BY <1>4, <3>1, <3>2, <3>3, <3>4
  <2> QED BY <1>7, <2>1, <2>2, <2>3, <2>4 DEF Handle, HandleDone
<1>8. ASSUME NEW s \in Streams, Receive(s, "event") \/ ReceiveEnd(s) PROVE FlagOK' /\ CommitsOK'
  BY <1>1, <1>8 DEF Receive, ReceiveEnd
<1>9. CASE UNCHANGED vars
  BY <1>1, <1>9 DEF vars
<1> QED BY <1>5, <1>6, <1>7, <1>8, <1>9 DEF Next

\* Every step keeps the types.
LEMMA TypeStep == TypeInv /\ [Next]_vars => TypeInv'
<1>1. ConvOK' /\ StreamOK' /\ QueueOK' /\ FlagOK' => TypeOK'
  BY Zenon DEF TypeOK, ConvOK, StreamOK, QueueOK, FlagOK
<1> QED BY <1>1, ConvStep, StreamStep, QueueStep, FlagStep DEF TypeInv

\* A conversation consists of messages, whatever is cut out of it, put into it
\* or taken back, and there are no more commits than commands.
THEOREM TypeCorrect == Spec => []TypeInv
BY TypeInit, TypeStep, PTL DEF Spec

-----------------------------------------------------------------------------
(* What a step does to whoever holds the prompt, as long as none overlaps *)

\* It goes on holding it, and the conversation grows by a note at most.
Kept ==
  /\ UNCHANGED <<isStream, eventCh, cancelFunc, origin, live, pending, compactAt, compactKeep>>
  /\ text' \subseteq text \cup {eventCh}
  /\ Preparing' = Preparing /\ jobs'["research"] = jobs["research"]
  /\ Waiting' = Waiting
  /\ eventCh # NoStream => messages' \in {messages, Append(messages, "note")}

\* A stream is begun, and it is the only one.
Alone(p) ==
  /\ eventCh' \in Streams /\ cancelFunc' = eventCh' /\ live' = {eventCh'} /\ text' = {}
  /\ isStream' = TRUE /\ origin'[eventCh'] = p
  /\ \A q \in Streams : Waiting'[q] = IF q = eventCh' THEN 1 ELSE 0

Started(p) ==
  /\ Alone(p) /\ Preparing' = 0
  /\ "compact" \in pending' => p = "compact" /\ compactKeep' <= Len(messages')
  /\ ~orphaned' /\ FlagsOK => pending' = {p} \ {"turn"}
  /\ p \in Trims => messages' = messages \o <<"note", "note">> /\ compactAt'[p] = Len(messages)

\* There is no stream: the prompt is free, or a command holds it.
Stopped ==
  /\ eventCh' = NoStream /\ live' = {} /\ text' = {}
  /\ \A q \in Streams : Waiting'[q] = 0
  /\ Preparing' = IF isStream' THEN 1 ELSE 0
  /\ "compact" \notin pending'
  /\ ~orphaned' /\ FlagsOK =>
       pending' \subseteq {"research"} /\ ("research" \in pending' => jobs'["research"] = 1)

Shape == Kept \/ Stopped \/ \E p \in Purposes \cup {"turn"} : Started(p)

Quiet(q) == /\ listeners[q] = 0
            /\ inbox'[q]["event"] = 0 /\ inbox'[q]["done"] = 0 /\ inbox'[q]["error"] = 0

\* Without a stream there is nothing to listen to or to cancel.
LEMMA WhenIdle ==
  ASSUME TypeOK, OneStreamOK, eventCh = NoStream
  PROVE  /\ live = {} /\ text = {}
         /\ \A q \in Streams : Waiting[q] = 0
         /\ UNCHANGED inbox => \A q \in Streams : Quiet(q)
<1>1. live \subseteq Streams /\ text \subseteq Streams /\ listeners \in [Streams -> Nat]
      /\ inbox \in [Streams -> [EventTypes -> Nat]]
  BY DEF TypeOK
<1>2. live = {} /\ text = {}
  BY <1>1, StreamAssumption DEF OneStreamOK
<1>3. \A q \in Streams : /\ listeners[q] \in Nat /\ inbox[q]["event"] \in Nat
                         /\ inbox[q]["done"] \in Nat /\ inbox[q]["error"] \in Nat
  BY <1>1 DEF EventTypes
<1>4. \A q \in Streams : ~(Waiting[q] > 0)
  BY StreamAssumption DEF OneStreamOK
<1> QED BY <1>2, <1>3, <1>4 DEF Waiting, Quiet

\* Whoever hands in a message of a stream is the listener of the stream under way,
\* and no other is left.
LEMMA WhenTaken ==
  ASSUME TypeOK, OneStreamOK, PromptOK, NEW s \in Streams, NEW t \in EventTypes, Take(s, t)
  PROVE  /\ s = eventCh /\ eventCh # NoStream /\ isStream = TRUE /\ Preparing = 0
         /\ Cancelled = {}
         /\ \A q \in Streams : Quiet(q)
<1>1. listeners \in [Streams -> Nat] /\ inbox \in [Streams -> [EventTypes -> Nat]]
  BY DEF TypeOK
<1>2. \A q \in Streams : /\ listeners[q] \in Nat /\ inbox[q]["event"] \in Nat
                         /\ inbox[q]["done"] \in Nat /\ inbox[q]["error"] \in Nat
  BY <1>1 DEF EventTypes
<1>3. t \in {"event", "done", "error"} /\ inbox[s][t] > 0
      /\ inbox' = [inbox EXCEPT ![s][t] = @ - 1]
  BY DEF Take, EventTypes
<1>4. Waiting[s] > 0
  BY <1>2, <1>3 DEF Waiting
<1>5. s = eventCh /\ Waiting[s] = 1 /\ eventCh # NoStream
  BY <1>4, StreamAssumption DEF OneStreamOK
<1>6. isStream = TRUE /\ Preparing = 0 /\ cancelFunc = eventCh /\ live \subseteq {eventCh}
  BY <1>5 DEF PromptOK, OneStreamOK, TypeOK
<1>7. \A q \in Streams : Waiting[q] = listeners[q] + inbox[q]["event"] + inbox[q]["done"]
                                         + inbox[q]["error"]
  BY DEF Waiting
<1>8. \A q \in Streams : Quiet(q)
  <2> SUFFICES ASSUME NEW q \in Streams PROVE Quiet(q)
    OBVIOUS
  <2>1. CASE q = s
    <3>1. inbox'[s] = [inbox[s] EXCEPT ![t] = @ - 1] /\ inbox[s] \in [EventTypes -> Nat]
      BY <1>1, <1>3
    <3>2. \A u \in EventTypes : inbox'[s][u] = IF u = t THEN inbox[s][u] - 1 ELSE inbox[s][u]
      BY <3>1
    <3>3. /\ inbox'[s]["event"] = IF t = "event" THEN inbox[s]["event"] - 1 ELSE inbox[s]["event"]
          /\ inbox'[s]["done"] = IF t = "done" THEN inbox[s]["done"] - 1 ELSE inbox[s]["done"]
          /\ inbox'[s]["error"] = IF t = "error" THEN inbox[s]["error"] - 1
                                                 ELSE inbox[s]["error"]
      BY <3>2 DEF EventTypes
    <3>4. listeners[s] + inbox[s]["event"] + inbox[s]["done"] + inbox[s]["error"] = 1
      BY <1>5, <1>7
    <3>5. /\ listeners[s] \in Nat /\ inbox[s]["event"] \in Nat
          /\ inbox[s]["done"] \in Nat /\ inbox[s]["error"] \in Nat
      BY <1>2
    <3>a. \A a, b, c \in Nat : a + b + c = 0 => a = 0 /\ b = 0 /\ c = 0
      OBVIOUS
    <3>6. \/ t = "event" /\ inbox[s]["event"] > 0
          \/ t = "done" /\ inbox[s]["done"] > 0
          \/ t = "error" /\ inbox[s]["error"] > 0
      BY <1>3
    <3>7. Quiet(s)
      <4>1. CASE t = "event"
        <5>1. /\ inbox'[s]["event"] = inbox[s]["event"] - 1
              /\ inbox'[s]["done"] = inbox[s]["done"]
              /\ inbox'[s]["error"] = inbox[s]["error"]
          BY <3>3, <4>1
        <5>2. inbox[s]["event"] > 0
          BY <3>6, <4>1
        <5>3. listeners[s] = 0 /\ inbox[s]["event"] - 1 = 0 /\ inbox[s]["done"] = 0
              /\ inbox[s]["error"] = 0
          <6>1. listeners[s] + inbox[s]["done"] + inbox[s]["error"] = 0 /\ inbox[s]["event"] = 1
            BY <3>4, <3>5, <5>2
          <6> QED BY <3>a, <3>5, <6>1
        <5> QED BY <5>1, <5>3 DEF Quiet
      <4>2. CASE t = "done"
        <5>1. /\ inbox'[s]["event"] = inbox[s]["event"]
              /\ inbox'[s]["done"] = inbox[s]["done"] - 1
              /\ inbox'[s]["error"] = inbox[s]["error"]
          BY <3>3, <4>2
        <5>2. inbox[s]["done"] > 0
          BY <3>6, <4>2
        <5>3. listeners[s] = 0 /\ inbox[s]["event"] = 0 /\ inbox[s]["done"] - 1 = 0
              /\ inbox[s]["error"] = 0
          <6>1. listeners[s] + inbox[s]["event"] + inbox[s]["error"] = 0 /\ inbox[s]["done"] = 1
            BY <3>4, <3>5, <5>2
          <6> QED BY <3>a, <3>5, <6>1
        <5> QED BY <5>1, <5>3 DEF Quiet
      <4>3. CASE t = "error"
        <5>1. /\ inbox'[s]["event"] = inbox[s]["event"]
              /\ inbox'[s]["done"] = inbox[s]["done"]
              /\ inbox'[s]["error"] = inbox[s]["error"] - 1
          BY <3>3, <4>3
        <5>2. inbox[s]["error"] > 0
          BY <3>6, <4>3
        <5>3. listeners[s] = 0 /\ inbox[s]["event"] = 0 /\ inbox[s]["done"] = 0
              /\ inbox[s]["error"] - 1 = 0
          <6>1. listeners[s] + inbox[s]["event"] + inbox[s]["done"] = 0 /\ inbox[s]["error"] = 1
            BY <3>4, <3>5, <5>2
          <6> QED BY <3>a, <3>5, <6>1
        <5> QED BY <5>1, <5>3 DEF Quiet
      <4> QED BY <3>6, <4>1, <4>2, <4>3
    <3> QED BY <2>1, <3>7
  <2>2. CASE q # s
    <3>1. ~(Waiting[q] > 0) /\ inbox'[q] = inbox[q]
      BY <1>1, <1>3, <1>5, <2>2 DEF OneStreamOK
    <3>2. /\ listeners[q] \in Nat /\ inbox[q]["event"] \in Nat
          /\ inbox[q]["done"] \in Nat /\ inbox[q]["error"] \in Nat
      BY <1>2
    <3>3. ~(listeners[q] + inbox[q]["event"] + inbox[q]["done"] + inbox[q]["error"] > 0)
      BY <1>7, <3>1
    <3> QED BY <3>1, <3>2, <3>3 DEF Quiet
  <2> QED BY <2>1, <2>2
<1> QED BY <1>5, <1>6, <1>8 DEF Cancelled

\* A stream begun then is the only one.
LEMMA BeginsAlone ==
  ASSUME TypeOK, NEW p \in Purposes \cup {"turn"}, NEW kept \in SUBSET Streams, kept = {},
         Begin(p, kept), \A q \in Streams : Quiet(q)
  PROVE  Alone(p)
<1>1. Fresh \in Streams
  BY BeginType
<1> HIDE DEF Fresh
<1>2. listeners \in [Streams -> Nat] /\ origin \in [Streams -> Purposes \cup {"turn"}]
  BY DEF TypeOK
<1> QED BY <1>1, <1>2 DEF Begin, Alone, Quiet, Waiting

\* A stream that is left to itself has no listener any more.
LEMMA StopsAll ==
  ASSUME TypeOK, UNCHANGED listeners, \A q \in Streams : Quiet(q)
  PROVE  \A q \in Streams : Waiting'[q] = 0
BY DEF Quiet, Waiting

\* A free prompt: no stream, no command that holds it, and none of their flags.
LEMMA WhenFree ==
  ASSUME TypeOK, OneStreamOK, PromptOK, CompactingOK, ~isStream
  PROVE  /\ eventCh = NoStream /\ Preparing = 0
         /\ jobs["rewrite"] = 0 /\ jobs["research"] = 0 /\ jobs["gaps"] = 0
         /\ "compact" \notin pending
         /\ FlagsOK => pending = {}
<1>1. jobs["rewrite"] \in Nat /\ jobs["research"] \in Nat /\ jobs["gaps"] \in Nat
  BY DEF TypeOK, Jobs
<1> QED BY <1>1 DEF PromptOK, CompactingOK, FlagsOK, Preparing

\* What the user does starts from a free prompt.
LEMMA UserShape ==
  ASSUME TypeOK, SingleInv, ~overlapped, User
  PROVE  Shape
<1>a. OneStreamOK /\ PromptOK /\ CompactingOK
  BY DEF SingleInv
<1>b. ~isStream /\ UNCHANGED inbox
  BY DEF User, Enter, Ask, Commit, InitCommand, Research, Gather, GatherDone, Compact, Clear,
         Checkpoint, Rewind, Mode, Skill, Launch, Command
<1>c. /\ eventCh = NoStream /\ Preparing = 0
      /\ jobs["rewrite"] = 0 /\ jobs["research"] = 0 /\ jobs["gaps"] = 0
      /\ "compact" \notin pending /\ (FlagsOK => pending = {})
  BY <1>a, <1>b, WhenFree
<1>d. /\ live = {} /\ text = {}
      /\ \A q \in Streams : Waiting[q] = 0 /\ Quiet(q)
  BY <1>a, <1>b, <1>c, WhenIdle
<1>e. jobs \in [Jobs -> Nat] /\ listeners \in [Streams -> Nat]
  BY DEF TypeOK
<1>f. UNCHANGED listeners => Waiting' = Waiting
  BY <1>b DEF Waiting
<1>1. ASSUME NEW p \in Purposes \cup {"turn"}, Begin(p, live), UNCHANGED jobs,
             pending' = pending \cup ({p} \ {"turn"}), p \notin Trims,
             p = "compact" => compactKeep' <= Len(messages')
      PROVE  Shape
  <2>1. Alone(p)
    BY <1>1, <1>d, BeginsAlone
  <2>2. Preparing' = 0
    BY <1>1, <1>c DEF Preparing
  <2>3. Started(p)
    BY <1>1, <1>c, <2>1, <2>2 DEF Started
  <2> QED BY <2>3 DEF Shape
<1>2. ASSUME NEW j \in {"rewrite", "research"}, jobs' = [jobs EXCEPT ![j] = @ + 1],
             isStream' = TRUE, UNCHANGED <<eventCh, text, live, listeners>>,
             pending' = pending \cup (IF j = "research" THEN {"research"} ELSE {})
      PROVE  Shape
  <2>1. Preparing' = 1 /\ (j = "research" => jobs'["research"] = 1)
    BY <1>2, <1>c, <1>e DEF Preparing, Jobs
  <2>2. "compact" \notin pending' /\ (FlagsOK => pending' \subseteq {"research"}
                                   /\ ("research" \in pending' => j = "research"))
    BY <1>2, <1>c
  <2>3. Stopped
    BY <1>2, <1>c, <1>d, <1>f, <2>1, <2>2 DEF Stopped
  <2> QED BY <2>3 DEF Shape
<1>3. ASSUME UNCHANGED <<streamVars, pending, compactAt, compactKeep>>,
             \/ UNCHANGED jobs
             \/ \E c \in {"search", "fetch", "task", "strategy"} :
                  jobs' = [jobs EXCEPT ![c] = @ + 1]
      PROVE  Shape
  <2>1. Preparing' = Preparing /\ jobs'["research"] = jobs["research"]
    BY <1>3, <1>e DEF Preparing, Jobs
  <2>2. Kept
    BY <1>3, <1>c, <1>f, <2>1 DEF Kept, streamVars
  <2> QED BY <2>2 DEF Shape
<1>4. "turn" \notin Trims /\ \A p \in {"init", "commit", "compact"} : p \in Purposes \ Trims
  BY DEF Trims, Purposes
<1>5. CASE Enter
  <2>1. CASE Begin("turn", live) /\ UNCHANGED jobs
    BY <1>1, <1>4, <1>5, <2>1 DEF Enter, flagVars
  <2>2. CASE ~(Begin("turn", live) /\ UNCHANGED jobs)
    BY <1>2, <1>5, <2>2 DEF Enter, flagVars
  <2> QED BY <2>1, <2>2
<1>6. CASE Ask \/ Gather
  BY <1>1, <1>4, <1>6 DEF Ask, Gather, flagVars
<1>7. CASE Commit
  BY <1>1, <1>4, <1>7 DEF Commit
<1>8. CASE InitCommand
  BY <1>1, <1>4, <1>8 DEF InitCommand
<1>9. CASE Compact
  <2>1. compactKeep' <= Len(messages')
    <3>1. Len(messages) \in Nat /\ KeepTail \in Nat
      BY LenProperties, BoundAssumption DEF TypeOK
    <3> QED BY <1>9, <3>1 DEF Compact, convVars
  <2> QED BY <1>1, <1>4, <1>9, <2>1 DEF Compact
<1>10. CASE Research
  BY <1>2, <1>10 DEF Research
<1>11. CASE GatherDone \/ Clear \/ Checkpoint \/ Rewind \/ Mode \/ Skill
  BY <1>3, <1>11 DEF GatherDone, Clear, Checkpoint, Rewind, Mode, Skill, flagVars
<1>12. ASSUME NEW c \in Commands, Launch(c) PROVE Shape
  BY <1>3, <1>12 DEF Launch, flagVars
<1> QED BY <1>5, <1>6, <1>7, <1>8, <1>9, <1>10, <1>11, <1>12 DEF User

\* What a command reports finds a free prompt, or is what held it.
LEMMA ReportShape ==
  ASSUME TypeOK, SingleInv, ~overlapped', ~overlapped, Reports
  PROVE  Shape
<1>a. OneStreamOK /\ PromptOK /\ CompactingOK
  BY DEF SingleInv
<1>b. UNCHANGED inbox /\ jobs \in [Jobs -> Nat] /\ listeners \in [Streams -> Nat]
  BY DEF TypeOK, Reports, RewriteDone, SearchDone, SearchFailed, FetchDone, TaskDone, TaskFailed,
         Note, ResearchDone, ResearchFailed, StrategyLoaded, GapsDone, GapsFailed, Report
<1>c. /\ jobs["rewrite"] \in Nat /\ jobs["research"] \in Nat /\ jobs["gaps"] \in Nat
      /\ isStream \in BOOLEAN
  BY <1>b DEF Jobs, TypeOK
<1>d. UNCHANGED listeners => Waiting' = Waiting
  BY <1>b DEF Waiting
<1>e. ASSUME NEW j \in {"rewrite", "research", "gaps"}, Report(j)
      PROVE  /\ eventCh = NoStream /\ isStream = TRUE /\ jobs[j] = 1
             /\ Preparing' = 0 /\ jobs'["research"] = 0
  <2>1. jobs[j] > 0 /\ jobs' = [jobs EXCEPT ![j] = @ - 1]
    BY <1>e DEF Report
  <2>2. Preparing >= 1
    BY <1>c, <2>1 DEF Preparing
  <2>3. eventCh = NoStream /\ isStream = TRUE /\ Preparing = 1
    BY <1>a, <1>c, <2>2 DEF PromptOK
  <2> QED BY <1>b, <1>c, <2>1, <2>3 DEF Preparing, Jobs
<1>f. ASSUME NEW j \in {"search", "fetch", "task", "strategy"}, Report(j)
      PROVE  Preparing' = Preparing /\ jobs'["research"] = jobs["research"]
  BY <1>b, <1>f DEF Report, Preparing, Jobs
<1>1. ASSUME UNCHANGED <<streamVars, pending, compactAt, compactKeep>>,
             messages' \in {messages, Append(messages, "note")},
             \E j \in {"search", "fetch", "task", "strategy"} : Report(j)
      PROVE  Shape
  <2>1. Kept
    BY <1>1, <1>d, <1>f DEF Kept, streamVars
  <2> QED BY <2>1 DEF Shape
<1>2. ASSUME NEW p \in Purposes \cup {"turn"}, Begin(p, live), eventCh = NoStream,
             "compact" \notin pending', Preparing' = 0,
             FlagsOK => pending' = {p} \ {"turn"},
             p \in Trims => /\ messages' = messages \o <<"note", "note">>
                            /\ compactAt' = [compactAt EXCEPT ![p] = Len(messages)]
      PROVE  Shape
  <2>1. live = {} /\ \A q \in Streams : Quiet(q)
    BY <1>2, <1>a, <1>b, WhenIdle
  <2>2. Alone(p)
    BY <1>2, <2>1, BeginsAlone
  <2>3. p \in Trims => compactAt'[p] = Len(messages)
    BY <1>2 DEF TypeOK
  <2>4. Started(p)
    BY <1>2, <2>2, <2>3 DEF Started
  <2> QED BY <2>4 DEF Shape
<1>3. ASSUME NEW p \in Trims, Discuss(p), eventCh = NoStream, Preparing' = 0,
             FlagsOK => pending \subseteq {p}
      PROVE  Shape
  <2>1. p \in Purposes /\ p # "compact" /\ p # "turn"
    BY DEF Trims, Purposes
  <2>2. "compact" \notin pending /\ pending' = pending \cup {p}
    BY <1>3, <1>a DEF CompactingOK, Discuss
  <2> QED BY <1>2, <1>3, <2>1, <2>2 DEF Discuss
<1>4. CASE SearchDone \/ StrategyLoaded
  <2>1. ~isStream
    BY <1>4 DEF SearchDone, StrategyLoaded
  <2>2. eventCh = NoStream /\ Preparing = 0 /\ (FlagsOK => pending = {})
    BY <1>a, <2>1, WhenFree
  <2>3. PICK p \in {"search", "strategy"} : Discuss(p) /\ Report(p)
    BY <1>4 DEF SearchDone, StrategyLoaded
  <2> QED BY <1>3, <1>f, <2>2, <2>3 DEF Trims
<1>5. CASE ResearchDone
  <2>1. eventCh = NoStream /\ Preparing' = 0
    BY <1>5, <1>e DEF ResearchDone
  <2>2. FlagsOK => pending \subseteq {"research"}
    BY <2>1 DEF FlagsOK
  <2> QED BY <1>3, <1>5, <2>1, <2>2 DEF ResearchDone, Trims
<1>6. CASE GapsDone
  <2>1. eventCh = NoStream /\ Preparing' = 0 /\ jobs["gaps"] = 1 /\ jobs'["research"] = 0
    BY <1>6, <1>e DEF GapsDone
  <2>2. jobs["research"] = 0
    BY <1>6, <1>b, <2>1 DEF GapsDone, Report, Jobs
  <2>3. FlagsOK => pending \subseteq {"strategy"}
    BY <2>1, <2>2 DEF FlagsOK
  <2> QED BY <1>3, <1>6, <2>1, <2>3 DEF GapsDone, Trims
<1>7. CASE RewriteDone
  <2>1. eventCh = NoStream /\ Preparing' = 0 /\ jobs'["research"] = 0 /\ UNCHANGED pending
    BY <1>7, <1>e DEF RewriteDone, flagVars
  <2>2. jobs["research"] = 0
    BY <1>7, <1>b, <2>1 DEF RewriteDone, Report, Jobs
  <2>3. "compact" \notin pending /\ (FlagsOK => pending = {})
    BY <1>a, <2>1, <2>2 DEF CompactingOK, FlagsOK
  <2>4. "turn" \notin Trims
    BY DEF Trims
  <2> QED BY <1>2, <1>7, <2>1, <2>3, <2>4 DEF RewriteDone
<1>8. CASE ResearchFailed \/ GapsFailed
  <2>1. PICK j \in {"research", "gaps"} :
          /\ Report(j) /\ isStream' = FALSE /\ pending' \subseteq pending
          /\ j = "research" => "research" \notin pending'
          /\ UNCHANGED <<eventCh, text, live, listeners>>
    BY <1>8 DEF ResearchFailed, GapsFailed, flagVars
  <2>2. eventCh = NoStream /\ Preparing' = 0 /\ jobs[j] = 1 /\ jobs'["research"] = 0
    BY <2>1, <1>e
  <2>3. live = {} /\ text = {} /\ \A q \in Streams : Waiting[q] = 0
    BY <2>2, <1>a, WhenIdle
  <2>4. j = "gaps" => jobs["research"] = 0
    BY <2>1, <2>2, <1>b DEF Report, Jobs
  <2>5. "compact" \notin pending' /\ (FlagsOK => pending' = {})
    BY <1>a, <2>1, <2>2, <2>4 DEF CompactingOK, FlagsOK
  <2>6. Stopped
    BY <1>d, <2>1, <2>2, <2>3, <2>5 DEF Stopped
  <2> QED BY <2>6 DEF Shape
<1>9. CASE SearchFailed \/ FetchDone \/ TaskDone \/ TaskFailed
  BY <1>1, <1>9 DEF SearchFailed, FetchDone, TaskDone, Note, TaskFailed, convVars, flagVars
<1> QED BY <1>4, <1>5, <1>6, <1>7, <1>8, <1>9 DEF Reports

\* A listener hands on what it took from its stream.
LEMMA ReceiveShape ==
  ASSUME TypeOK, NEW s \in Streams, NEW t \in EventTypes, Receive(s, t)
  PROVE  Shape
<1>1. listeners \in [Streams -> Nat] /\ inbox \in [Streams -> [EventTypes -> Nat]]
  BY DEF TypeOK
<1>2. Waiting' = Waiting
  <2> SUFFICES ASSUME NEW q \in Streams PROVE Waiting'[q] = Waiting[q]
    BY DEF Waiting
  <2>1. t \in {"event", "done", "error"} /\ listeners' = [listeners EXCEPT ![s] = @ - 1]
        /\ inbox' = [inbox EXCEPT ![s][t] = @ + 1]
    BY DEF Receive, EventTypes
  <2>2. /\ listeners[q] \in Nat /\ inbox[q]["event"] \in Nat
        /\ inbox[q]["done"] \in Nat /\ inbox[q]["error"] \in Nat
    BY <1>1 DEF EventTypes
  <2>3. CASE q # s
    BY <1>1, <2>1, <2>3 DEF Waiting
  <2>4. CASE q = s
    <3>1. listeners'[q] = listeners[q] - 1
      BY <1>1, <2>1, <2>4
    <3>2. inbox'[q] = [inbox[q] EXCEPT ![t] = @ + 1] /\ inbox[q] \in [EventTypes -> Nat]
      BY <1>1, <2>1, <2>4
    <3>a. \A u \in EventTypes : inbox'[q][u] = IF u = t THEN inbox[q][u] + 1 ELSE inbox[q][u]
      BY <3>2
    <3>b. /\ Waiting[q] = listeners[q] + inbox[q]["event"] + inbox[q]["done"] + inbox[q]["error"]
          /\ Waiting'[q] = listeners'[q] + inbox'[q]["event"] + inbox'[q]["done"]
                           + inbox'[q]["error"]
      BY DEF Waiting
    <3>3. CASE t = "event"
      <4>1. /\ inbox'[q]["event"] = inbox[q]["event"] + 1
            /\ inbox'[q]["done"] = inbox[q]["done"]
            /\ inbox'[q]["error"] = inbox[q]["error"]
        BY <3>a, <3>3 DEF EventTypes
      <4> QED BY <2>2, <3>1, <3>b, <4>1
    <3>4. CASE t = "done"
      <4>1. /\ inbox'[q]["event"] = inbox[q]["event"]
            /\ inbox'[q]["done"] = inbox[q]["done"] + 1
            /\ inbox'[q]["error"] = inbox[q]["error"]
        BY <3>a, <3>4 DEF EventTypes
      <4> QED BY <2>2, <3>1, <3>b, <4>1
    <3>5. CASE t = "error"
      <4>1. /\ inbox'[q]["event"] = inbox[q]["event"]
            /\ inbox'[q]["done"] = inbox[q]["done"]
            /\ inbox'[q]["error"] = inbox[q]["error"] + 1
        BY <3>a, <3>5 DEF EventTypes
      <4> QED BY <2>2, <3>1, <3>b, <4>1
    <3> QED BY <2>1, <3>3, <3>4, <3>5
  <2> QED BY <2>3, <2>4
<1>3. Kept
  BY <1>2 DEF Receive, Kept, Preparing, convVars, flagVars
<1> QED BY <1>3 DEF Shape

\* An event leaves one listener; an error and an answer leave none, or begin what
\* follows from the answer.
LEMMA HandleShape ==
  ASSUME TypeOK, SingleInv, ~overlapped, NEW s \in Streams, Handle(s)
  PROVE  Shape
<1>a. OneStreamOK /\ PromptOK /\ CompactingOK
  BY DEF SingleInv
<1>b. \A t \in EventTypes : Take(s, t) =>
        /\ s = eventCh /\ eventCh # NoStream /\ isStream = TRUE /\ Preparing = 0
        /\ Cancelled = {}
        /\ \A q \in Streams : Quiet(q)
  BY <1>a, WhenTaken
<1>c. /\ jobs["rewrite"] \in Nat /\ jobs["research"] \in Nat /\ jobs["gaps"] \in Nat
      /\ jobs \in [Jobs -> Nat] /\ listeners \in [Streams -> Nat]
  BY DEF TypeOK, Jobs
<1>d. Preparing = 0 => jobs["rewrite"] = 0 /\ jobs["research"] = 0 /\ jobs["gaps"] = 0
  BY <1>c DEF Preparing
<1>e. eventCh # NoStream /\ FlagsOK => pending \subseteq {origin[eventCh]}
  BY DEF FlagsOK
<1>1. CASE HandleEvent(s)
  <2>1. s = eventCh /\ eventCh \in Streams /\ \A q \in Streams : Quiet(q)
    BY <1>1, <1>b DEF HandleEvent, EventTypes
  <2>2. listeners' = [listeners EXCEPT ![eventCh] = @ + 1]
    BY <1>1, <2>1, StreamAssumption DEF HandleEvent, Listen
  <2>3. \A q \in Streams : Waiting'[q] = IF q = eventCh THEN 1 ELSE 0
    BY <1>c, <2>1, <2>2 DEF Quiet, Waiting
  <2>4. Waiting' = Waiting
    <3>1. inbox[s]["event"] > 0
      BY <1>1 DEF HandleEvent, Take
    <3>2. inbox \in [Streams -> [EventTypes -> Nat]]
      BY DEF TypeOK
    <3>3. \A q \in Streams : /\ listeners[q] \in Nat /\ inbox[q]["event"] \in Nat
                             /\ inbox[q]["done"] \in Nat /\ inbox[q]["error"] \in Nat
      BY <1>c, <3>2 DEF EventTypes
    <3>4. \A q \in Streams : Waiting[q] \in Nat /\ (q = s => Waiting[q] > 0)
      BY <3>1, <3>3 DEF Waiting
    <3>5. \A q \in Streams : Waiting[q] = IF q = eventCh THEN 1 ELSE 0
      BY <1>a, <2>1, <3>4 DEF OneStreamOK
    <3> QED BY <2>3, <3>5 DEF Waiting
  <2>5. Kept
    BY <1>1, <2>1, <2>4 DEF HandleEvent, Kept, Preparing, convVars, flagVars
  <2> QED BY <2>5 DEF Shape
<1>2. ASSUME NEW t \in EventTypes, Take(s, t), UNCHANGED listeners,
             eventCh' = NoStream, live' = Cancelled, text' = {},
             Preparing' = IF isStream' THEN 1 ELSE 0,
             "compact" \notin pending',
             ~orphaned' /\ FlagsOK =>
               pending' \subseteq {"research"} /\ ("research" \in pending' => jobs'["research"] = 1)
      PROVE  Shape
  <2>1. Cancelled = {} /\ \A q \in Streams : Waiting'[q] = 0
    BY <1>2, <1>b, StopsAll
  <2>2. Stopped
    BY <1>2, <2>1 DEF Stopped
  <2> QED BY <2>2 DEF Shape
<1>3. CASE HandleError(s)
  <2>1. eventCh # NoStream /\ Preparing = 0
    BY <1>3, <1>b DEF HandleError, EventTypes
  <2>2. "compact" \in pending => origin[eventCh] = "compact"
    BY <1>a DEF CompactingOK
  <2>3. ~orphaned' /\ FlagsOK => pending' = {}
    BY <1>3, <1>e, <2>1, <2>2 DEF HandleError
  <2>4. /\ Take(s, "error") /\ "error" \in EventTypes /\ UNCHANGED <<listeners, jobs>>
        /\ eventCh' = NoStream /\ live' = Cancelled /\ text' = {} /\ isStream' = FALSE
        /\ "compact" \notin pending'
    BY <1>3 DEF HandleError, Reset, EventTypes
  <2>5. Preparing' = IF isStream' THEN 1 ELSE 0
    BY <2>1, <2>4 DEF Preparing
  <2> QED BY <1>2, <2>3, <2>4, <2>5
<1>4. CASE DoneCompacting(s)
  <2>1. Preparing = 0 /\ eventCh # NoStream
    BY <1>4, <1>b DEF DoneCompacting, EventTypes
  <2>2. FlagsOK => pending' = {}
    BY <1>4, <1>e, <2>1 DEF DoneCompacting
  <2>3. Preparing' = 0
    BY <1>4, <2>1 DEF DoneCompacting, Preparing
  <2> QED BY <1>2, <1>4, <2>2, <2>3 DEF DoneCompacting, Reset, EventTypes
<1>5. ASSUME NEW full, NEW left, Answer(s, full, left)
      PROVE  /\ Take(s, "done") /\ "done" \in EventTypes /\ Preparing = 0 /\ eventCh # NoStream
             /\ "compact" \notin pending /\ (~orphaned' => left = {})
  BY <1>5, <1>b DEF Answer, EventTypes
<1>6. CASE DoneSearches(s)
  <2>1. Take(s, "done") /\ "done" \in EventTypes /\ Preparing = 0
    BY <1>6, <1>5 DEF DoneSearches
  <2>2. Preparing' = 0
    BY <1>6, <1>c, <2>1 DEF DoneSearches, Preparing, Jobs
  <2> QED BY <1>2, <1>6, <2>1, <2>2 DEF DoneSearches, Reset
<1>7. CASE DoneResearches(s)
  <2>1. Take(s, "done") /\ "done" \in EventTypes /\ Preparing = 0
    BY <1>7, <1>5 DEF DoneResearches
  <2>2. Preparing' = 1 /\ jobs'["research"] = 1
    BY <1>7, <1>c, <1>d, <2>1 DEF DoneResearches, Preparing, Jobs
  <2> QED BY <1>2, <1>7, <2>1, <2>2 DEF DoneResearches
<1>8. ASSUME NEW full \in BOOLEAN, Answer(s, full, IF full THEN {} ELSE Settled(full))
      PROVE  /\ Take(s, "done") /\ "done" \in EventTypes /\ Preparing = 0
             /\ "compact" \notin Settled(full) /\ (~orphaned' => Settled(full) = {})
  BY <1>8, <1>5 DEF Settled
<1>9. CASE DoneTurn(s)
  <2>1. PICK full \in BOOLEAN :
          /\ Answer(s, full, IF full THEN {} ELSE Settled(full))
          /\ \/ /\ isStream' = TRUE /\ text' = {} /\ eventCh' = NoStream /\ live' = Cancelled
                /\ jobs' = [jobs EXCEPT !["gaps"] = @ + 1] /\ UNCHANGED listeners
                /\ pending' = Settled(full)
             \/ Reset /\ pending' = Settled(full) /\ UNCHANGED jobs
             \/ /\ Len(messages') > KeepTail /\ Begin("compact", Cancelled) /\ UNCHANGED jobs
                /\ pending' = Settled(full) \cup {"compact"}
                /\ compactKeep' = Len(messages') - KeepTail
    BY <1>9 DEF DoneTurn
  <2>2. /\ Take(s, "done") /\ "done" \in EventTypes /\ Preparing = 0
        /\ "compact" \notin Settled(full) /\ (~orphaned' => Settled(full) = {})
    BY <2>1, <1>8
  <2>3. CASE /\ isStream' = TRUE /\ text' = {} /\ eventCh' = NoStream /\ live' = Cancelled
             /\ jobs' = [jobs EXCEPT !["gaps"] = @ + 1] /\ UNCHANGED listeners
             /\ pending' = Settled(full)
    <3>1. Preparing' = 1
      BY <1>c, <1>d, <2>2, <2>3 DEF Preparing, Jobs
    <3> QED BY <1>2, <2>2, <2>3, <3>1
  <2>4. CASE Reset /\ pending' = Settled(full) /\ UNCHANGED jobs
    <3>1. Preparing' = 0
      BY <2>2, <2>4 DEF Preparing
    <3> QED BY <1>2, <2>2, <2>4, <3>1 DEF Reset
  <2>5. CASE /\ Len(messages') > KeepTail /\ Begin("compact", Cancelled) /\ UNCHANGED jobs
             /\ pending' = Settled(full) \cup {"compact"}
             /\ compactKeep' = Len(messages') - KeepTail
    <3>1. "compact" \in Purposes \cup {"turn"} /\ "compact" \notin Trims
      BY DEF Purposes, Trims
    <3>2. Cancelled = {} /\ \A q \in Streams : Quiet(q)
      BY <1>b, <2>2
    <3>3. Alone("compact")
      BY <2>5, <3>1, <3>2, BeginsAlone
    <3>4. Preparing' = 0
      BY <2>2, <2>5 DEF Preparing
    <3>5. compactKeep' <= Len(messages')
      <4>1. messages' \in Seq(Kinds)
        BY ConvStep DEF ConvOK, Next
      <4>2. Len(messages') \in Nat /\ KeepTail \in Nat
        BY <4>1, LenProperties, BoundAssumption
      <4> QED BY <2>5, <4>2
    <3>6. Started("compact")
      BY <2>2, <2>5, <3>1, <3>3, <3>4, <3>5 DEF Started
    <3> QED BY <3>1, <3>6 DEF Shape
  <2> QED BY <2>1, <2>3, <2>4, <2>5
<1> QED BY <1>1, <1>3, <1>4, <1>6, <1>7, <1>9 DEF Handle, HandleDone

\* Every step that begins no stream over another has one of the three shapes.
LEMMA StepShape ==
  ASSUME TypeOK, SingleInv, ~overlapped', ~overlapped, [Next]_vars
  PROVE  Shape
<1>1. CASE UNCHANGED vars
  <2>1. Kept
    BY <1>1 DEF vars, convVars, flagVars, streamVars, Kept, Preparing, Waiting
  <2> QED BY <2>1 DEF Shape
<1>2. ASSUME NEW s \in Streams, Receive(s, "event") \/ ReceiveEnd(s) PROVE Shape
  BY <1>2, ReceiveShape DEF ReceiveEnd, EventTypes
<1> QED BY <1>1, <1>2, UserShape, ReportShape, HandleShape DEF Next

\* The ghosts are never reset.
LEMMA GhostStep ==
  ASSUME [Next]_vars
  PROVE  (overlapped => overlapped') /\ (orphaned => orphaned')
<1>1. CASE User
  <2>1. \E c : Command(c)
    BY <1>1 DEF User, Enter, Ask, Commit, InitCommand, Research, Gather, GatherDone, Compact,
                Clear, Checkpoint, Rewind, Mode, Skill, Launch
  <2> QED BY <2>1 DEF Command
<1>2. CASE Reports
  <2>1. \E j \in Jobs : Report(j)
    BY <1>2 DEF Reports, RewriteDone, SearchDone, SearchFailed, FetchDone, TaskDone, TaskFailed,
                Note, ResearchDone, ResearchFailed, StrategyLoaded, GapsDone, GapsFailed, Jobs
  <2>2. SearchDone => (overlapped => overlapped')
    BY Zenon DEF SearchDone
  <2>3. StrategyLoaded => (overlapped => overlapped')
    BY Zenon DEF StrategyLoaded
  <2>4. SearchDone \/ StrategyLoaded \/ UNCHANGED overlapped
    BY <1>2
       DEF Reports, RewriteDone, SearchFailed, FetchDone, TaskDone, TaskFailed, Note,
           ResearchDone, ResearchFailed, GapsDone, GapsFailed
  <2>5. UNCHANGED orphaned
    BY <2>1 DEF Report
  <2>6. overlapped => overlapped'
    BY <2>2, <2>3, <2>4
  <2> QED BY <2>5, <2>6
<1>3. ASSUME NEW s \in Streams, Receive(s, "event") \/ ReceiveEnd(s) \/ Handle(s)
      PROVE  (overlapped => overlapped') /\ (orphaned => orphaned')
  <2>1. UNCHANGED overlapped
    BY <1>3 DEF Receive, ReceiveEnd, Handle, HandleEvent, HandleError, HandleDone,
                DoneCompacting, DoneSearches, DoneResearches, DoneTurn
  <2>2. HandleError(s) => (orphaned => orphaned')
    BY Zenon DEF HandleError
  <2>3. ASSUME NEW full, NEW left, Answer(s, full, left) PROVE orphaned => orphaned'
    BY <2>3, Zenon DEF Answer
  <2>4. CASE HandleDone(s)
    <3>1. UNCHANGED orphaned \/ \E full, left : Answer(s, full, left)
      BY <2>4 DEF HandleDone, DoneCompacting, DoneSearches, DoneResearches, DoneTurn
    <3>2. CASE UNCHANGED orphaned
      BY <2>1, <3>2, Zenon
    <3>3. CASE \E full, left : Answer(s, full, left)
      <4>1. PICK full, left : Answer(s, full, left)
        BY <3>3
      <4>2. orphaned => orphaned'
        BY <2>3, <4>1
      <4> QED BY <2>1, <4>2, Zenon
    <3> QED BY <3>1, <3>2, <3>3
  <2>5. CASE HandleEvent(s) \/ Receive(s, "event") \/ ReceiveEnd(s)
    BY <2>5 DEF HandleEvent, Receive, ReceiveEnd
  <2>6. orphaned => orphaned'
    BY <1>3, <2>2, <2>4, <2>5 DEF Handle
  <2> QED BY <2>1, <2>6
<1>4. CASE UNCHANGED vars
  BY <1>4 DEF vars
<1> QED BY <1>1, <1>2, <1>3, <1>4 DEF Next

\* The prompt is free to begin with.
LEMMA SingleInit == Init => SingleInv /\ FlagsInv
<1> SUFFICES ASSUME Init PROVE SingleInv /\ FlagsInv
  OBVIOUS
<1>1. OneStreamOK
  BY DEF Init, OneStreamOK, Waiting, EventTypes
<1>2. PromptOK /\ CompactingOK
  BY DEF Init, PromptOK, Preparing, Jobs, CompactingOK
<1>3. FlagsOK /\ TrimsOK
  BY DEF Init, FlagsOK, TrimsOK
<1> QED BY <1>1, <1>2, <1>3 DEF SingleInv, FlagsInv

\* Each of the three shapes keeps the prompt in one hand.
LEMMA SingleStep == TypeInv /\ SingleInv /\ [Next]_vars => SingleInv'
<1> SUFFICES ASSUME TypeInv, SingleInv, [Next]_vars, ~overlapped'
             PROVE  OneStreamOK' /\ PromptOK' /\ CompactingOK'
  BY DEF SingleInv
<1>1. TypeOK /\ ~overlapped /\ OneStreamOK /\ PromptOK /\ CompactingOK
  BY GhostStep DEF TypeInv, SingleInv
<1>2. Shape
  BY <1>1, StepShape
<1>a. messages \in Seq(Kinds) /\ Len(messages) \in Nat /\ compactKeep \in Nat
      /\ isStream \in BOOLEAN
  BY <1>1, LenProperties DEF TypeOK
<1>3. CASE Kept
  <2>1. OneStreamOK'
    BY <1>1, <1>3 DEF Kept, OneStreamOK
  <2>2. PromptOK'
    BY <1>1, <1>3 DEF Kept, PromptOK
  <2>3. eventCh # NoStream => Len(messages') >= Len(messages)
    <3>1. "note" \in Kinds
      BY DEF Kinds, UserKinds
    <3> QED BY <1>3, <1>a, <3>1, AppendProperties DEF Kept
  <2>4. CompactingOK'
    <3>1. Len(messages') \in Nat
      <4>1. messages' \in Seq(Kinds)
        BY <1>1, ConvStep DEF ConvOK
      <4> QED BY <4>1, LenProperties
    <3> QED BY <1>1, <1>3, <1>a, <2>3, <3>1 DEF Kept, CompactingOK
  <2> QED BY <2>1, <2>2, <2>4
<1>4. CASE Stopped
  BY <1>4 DEF Stopped, OneStreamOK, PromptOK, CompactingOK
<1>5. ASSUME NEW p \in Purposes \cup {"turn"}, Started(p)
      PROVE  OneStreamOK' /\ PromptOK' /\ CompactingOK'
  <2>1. eventCh' # NoStream
    BY <1>5, StreamAssumption DEF Started, Alone
  <2> QED BY <1>5, <2>1 DEF Started, Alone, OneStreamOK, PromptOK, CompactingOK
<1> QED BY <1>2, <1>3, <1>4, <1>5 DEF Shape

\* And the flag with it.
LEMMA FlagsStep == TypeInv /\ SingleInv /\ FlagsInv /\ [Next]_vars => FlagsInv'
<1> SUFFICES ASSUME TypeInv, SingleInv, FlagsInv, [Next]_vars, ~overlapped', ~orphaned'
             PROVE  FlagsOK' /\ TrimsOK'
  BY DEF FlagsInv
<1>1. TypeOK /\ ~overlapped /\ FlagsOK /\ TrimsOK
  BY GhostStep DEF TypeInv, FlagsInv
<1>2. Shape
  BY <1>1, StepShape
<1>a. messages \in Seq(Kinds) /\ Len(messages) \in Nat /\ "note" \in Kinds
      /\ compactAt \in [Trims -> Nat]
  BY <1>1, LenProperties DEF TypeOK, Kinds, UserKinds
<1>3. CASE Kept
  <2>1. FlagsOK'
    BY <1>1, <1>3 DEF Kept, FlagsOK
  <2>2. TrimsOK'
    <3> SUFFICES ASSUME eventCh # NoStream, origin[eventCh] \in Trims PROVE TrimsOK'
      BY <1>3 DEF Kept, TrimsOK
    <3> DEFINE i == compactAt[origin[eventCh]] + 2
    <3>1. i \in 2..Len(messages) /\ messages[i - 1] = "note" /\ messages[i] = "note"
          /\ messages[Len(messages)] = "note"
      BY <1>1 DEF TrimsOK
    <3>2. CASE messages' = messages
      BY <1>1, <1>3, <3>2 DEF Kept, TrimsOK
    <3>3. CASE messages' = Append(messages, "note")
      <4>1. /\ Len(messages') = Len(messages) + 1 /\ messages'[Len(messages) + 1] = "note"
            /\ \A k \in 1..Len(messages) : messages'[k] = messages[k]
        BY <1>a, <3>3, AppendProperties
      <4>2. i - 1 \in 1..Len(messages) /\ i \in 1..Len(messages)
        <5> HIDE DEF i
        <5> QED BY <1>a, <3>1
      <4>3. i \in 2..Len(messages') /\ messages'[i - 1] = "note" /\ messages'[i] = "note"
            /\ messages'[Len(messages')] = "note"
        BY <1>a, <3>1, <4>1, <4>2
      <4> QED BY <1>3, <4>3 DEF Kept, TrimsOK
    <3> QED BY <1>3, <3>2, <3>3 DEF Kept
  <2> QED BY <2>1, <2>2
<1>4. CASE Stopped
  BY <1>1, <1>4 DEF Stopped, FlagsOK, TrimsOK
<1>5. ASSUME NEW p \in Purposes \cup {"turn"}, Started(p)
      PROVE  FlagsOK' /\ TrimsOK'
  <2>1. eventCh' # NoStream /\ origin'[eventCh'] = p
    BY <1>5, StreamAssumption DEF Started, Alone
  <2>2. FlagsOK'
    BY <1>1, <1>5, <2>1 DEF Started, FlagsOK
  <2>3. TrimsOK'
    <3> SUFFICES ASSUME p \in Trims PROVE TrimsOK'
      BY <2>1 DEF TrimsOK
    <3>1. messages' = messages \o <<"note", "note">> /\ compactAt'[p] = Len(messages)
      BY <1>5 DEF Started
    <3>2. <<"note", "note">> \in Seq(Kinds) /\ Len(<<"note", "note">>) = 2
          /\ \A k \in 1..2 : <<"note", "note">>[k] = "note"
      BY <1>a
    <3>3. /\ Len(messages') = Len(messages) + 2
          /\ messages'[Len(messages) + 1] = "note" /\ messages'[Len(messages) + 2] = "note"
      BY <1>a, <3>1, <3>2, ConcatProperties
    <3> DEFINE i == compactAt[origin[eventCh]] + 2
    <3>4. i' = Len(messages) + 2 /\ i' - 1 = Len(messages) + 1
      BY <1>a, <2>1, <3>1
    <3>5. i' \in 2..Len(messages')
      BY <1>a, <3>3, <3>4
    <3> HIDE DEF i
    <3>6. messages'[i' - 1] = "note" /\ messages'[i'] = "note"
          /\ messages'[Len(messages')] = "note"
      BY <3>3, <3>4
    <3> QED BY <3>5, <3>6 DEF TrimsOK, i
  <2> QED BY <2>2, <2>3
<1> QED BY <1>2, <1>3, <1>4, <1>5 DEF Shape

-----------------------------------------------------------------------------
\* As long as no result begins a stream over another one, one thing holds the
\* prompt; until a turn leaves its flag behind, the flag set is that thing's.
THEOREM Prompt == Spec => [](TypeInv /\ SingleInv /\ FlagsInv)
<1>1. Init => TypeInv /\ SingleInv /\ FlagsInv
  BY TypeInit, SingleInit
<1>2. TypeInv /\ SingleInv /\ FlagsInv /\ [Next]_vars => (TypeInv /\ SingleInv /\ FlagsInv)'
  BY TypeStep, SingleStep, FlagsStep
<1> QED BY <1>1, <1>2, PTL DEF Spec

\* One listener at a time (waitForEvent, chat.go): no event is delivered twice.
THEOREM SingleListenerHolds == Spec => []SingleListener
<1>1. TypeInv /\ SingleInv => SingleListener
  <2> SUFFICES ASSUME TypeInv, SingleInv, ~overlapped
               PROVE  /\ \A s \in Streams : Waiting[s] <= 1
                      /\ Cardinality({s \in Streams : Waiting[s] > 0}) <= 1
    BY DEF SingleListener, Waiting
  <2>1. \A s \in Streams : Waiting[s] \in Nat
    <3>1. listeners \in [Streams -> Nat] /\ inbox \in [Streams -> [EventTypes -> Nat]]
      BY DEF TypeInv, TypeOK
    <3>2. \A s \in Streams : /\ listeners[s] \in Nat /\ inbox[s]["event"] \in Nat
                             /\ inbox[s]["done"] \in Nat /\ inbox[s]["error"] \in Nat
      BY <3>1 DEF EventTypes
    <3> QED BY <3>2 DEF Waiting
  <2>2. \A s \in Streams : Waiting[s] > 0 => s = eventCh /\ Waiting[s] = 1
    BY DEF SingleInv, OneStreamOK
  <2>3. {s \in Streams : Waiting[s] > 0} \in SUBSET {eventCh}
    BY <2>2
  <2>4. IsFiniteSet({eventCh}) /\ Cardinality({eventCh}) = 1
    BY FS_Singleton
  <2>5. Cardinality({s \in Streams : Waiting[s] > 0}) <= 1
    BY <2>3, <2>4, FS_Subset
  <2> QED BY <2>1, <2>2, <2>5
<1> QED BY <1>1, Prompt, PTL

\* ctrl+c reaches the stream under way (chat.go, cancelFunc).
THEOREM CancellableHolds == Spec => []Cancellable
<1>1. TypeInv /\ SingleInv => Cancellable
  <2> SUFFICES ASSUME TypeInv, SingleInv, ~overlapped PROVE live \subseteq {cancelFunc}
    BY DEF Cancellable
  <2>1. live \subseteq {eventCh} /\ live \subseteq Streams
    BY DEF SingleInv, OneStreamOK, TypeInv, TypeOK
  <2> QED BY <2>1, StreamAssumption DEF SingleInv, OneStreamOK
<1> QED BY <1>1, Prompt, PTL

\* The messages a summary stands for are still there when it comes in
\* (chat.go, messages[:keep]).
THEOREM ConversationIsSoundHolds == Spec => []ConversationIsSound
<1>1. TypeInv /\ SingleInv => ConversationIsSound
  BY DEF TypeInv, SingleInv, CompactingOK, ConversationIsSound, SummaryFits
<1> QED BY <1>1, Prompt, PTL

\* The message of a git commit is the answer to /commit, as long as no result
\* overlapped and no turn left its flag behind (chat.go, commitPending).
THEOREM CommitIsOwnHolds == Spec => CommitIsOwn
<1> DEFINE Own == commits' # commits /\ ~overlapped /\ ~orphaned =>
                    \A s \in text : origin[s] = "commit"
<1>1. TypeInv /\ SingleInv /\ FlagsInv /\ [Next]_vars => [Own]_vars
  <2> SUFFICES ASSUME TypeInv, SingleInv, FlagsInv, Next, commits' # commits,
                      ~overlapped, ~orphaned, NEW s \in text
               PROVE  origin[s] = "commit"
    BY DEF vars, sideVars
  <2>1. \E q \in Streams : HandleDone(q)
    <3>1. User => UNCHANGED commits
      BY DEF User, Enter, Ask, Commit, InitCommand, Research, Gather, GatherDone, Compact, Clear,
             Checkpoint, Rewind, Mode, Skill, Launch, sideVars
    <3>2. Reports => UNCHANGED commits
      BY DEF Reports, RewriteDone, SearchDone, SearchFailed, FetchDone, TaskDone, TaskFailed,
             Note, ResearchDone, ResearchFailed, StrategyLoaded, GapsDone, GapsFailed, Report,
             sideVars
    <3>3. ASSUME NEW q \in Streams, \/ Receive(q, "event") \/ ReceiveEnd(q)
                                    \/ HandleEvent(q) \/ HandleError(q)
          PROVE  UNCHANGED commits
      BY <3>3 DEF Receive, ReceiveEnd, HandleEvent, HandleError, sideVars
    <3> QED BY <3>1, <3>2, <3>3 DEF Next, Handle
  <2>2. PICK q \in Streams : \E full, left : Answer(q, full, left)
    BY <2>1 DEF HandleDone, DoneCompacting, DoneSearches, DoneResearches, DoneTurn, sideVars
  <2>3. "commit" \in pending
    <3>1. commits \in Nat
      BY DEF TypeInv, TypeOK
    <3> QED BY <2>2, <3>1 DEF Answer
  <2>4. s = eventCh /\ eventCh # NoStream
    BY StreamAssumption DEF SingleInv, OneStreamOK, TypeInv, TypeOK
  <2> QED BY <2>3, <2>4 DEF FlagsInv, FlagsOK
<1> QED BY <1>1, Prompt, PTL DEF Spec, CommitIsOwn

-----------------------------------------------------------------------------
(* Nothing that was asked or answered is lost *)

\* The messages of one conversation after another are those of both.
LEMMA HeldConcat ==
  ASSUME NEW s \in Seq(Kinds), NEW t \in Seq(Kinds)
  PROVE  Held(s \o t) = Held(s) + Held(t)
<1> DEFINE HeldIn(q) == {i \in 1..Len(q) : q[i] \in {"text", "reply"}}
           moved == {Len(s) + i : i \in HeldIn(t)}
           f == [i \in HeldIn(t) |-> Len(s) + i]
<1>1. Len(s) \in Nat /\ Len(t) \in Nat
  BY LenProperties
<1>2. IsFiniteSet(HeldIn(s)) /\ IsFiniteSet(HeldIn(t))
  BY HeldType
<1>3. /\ Len(s \o t) = Len(s) + Len(t)
      /\ \A i \in 1 .. Len(s) + Len(t) : (s \o t)[i] = IF i <= Len(s) THEN s[i] ELSE t[i - Len(s)]
  BY ConcatProperties
<1>4. HeldIn(s \o t) = HeldIn(s) \cup moved
  <2>1. ASSUME NEW i \in HeldIn(s \o t) PROVE i \in HeldIn(s) \cup moved
    <3>1. i \in 1..(Len(s) + Len(t)) /\ (s \o t)[i] \in {"text", "reply"}
      BY <1>3
    <3>2. CASE i <= Len(s)
      BY <1>1, <1>3, <3>1, <3>2
    <3>3. CASE ~(i <= Len(s))
      <4>1. i - Len(s) \in HeldIn(t) /\ i = Len(s) + (i - Len(s))
        BY <1>1, <1>3, <3>1, <3>3
      <4> QED BY <4>1
    <3> QED BY <3>2, <3>3
  <2>2. ASSUME NEW i \in HeldIn(s) PROVE i \in HeldIn(s \o t)
    BY <1>1, <1>3
  <2>3. ASSUME NEW i \in HeldIn(t) PROVE Len(s) + i \in HeldIn(s \o t)
    <3>1. i \in 1..Len(t) /\ t[i] \in {"text", "reply"}
      OBVIOUS
    <3>2. Len(s) + i \in 1..(Len(s) + Len(t)) /\ ~(Len(s) + i <= Len(s))
          /\ (Len(s) + i) - Len(s) = i
      BY <1>1, <3>1
    <3>3. (s \o t)[Len(s) + i] = t[i]
      BY <1>3, <3>2
    <3> QED BY <1>3, <3>1, <3>2, <3>3
  <2> QED BY <2>1, <2>2, <2>3
<1>5. f \in Bijection(HeldIn(t), moved)
  <2>1. f \in [HeldIn(t) -> moved]
    OBVIOUS
  <2>2. \A i, j \in HeldIn(t) : f[i] = f[j] => i = j
    BY <1>1
  <2>3. \A m \in moved : \E i \in HeldIn(t) : f[i] = m
    OBVIOUS
  <2> QED BY <2>1, <2>2, <2>3 DEF Bijection, Injection, Surjection, IsInjective
<1>6. IsFiniteSet(moved) /\ Cardinality(moved) = Cardinality(HeldIn(t))
  BY <1>2, <1>5, FS_Bijection DEF ExistsBijection
<1>7. HeldIn(s) \cap moved = {}
  BY <1>1
<1>8. Cardinality(HeldIn(s) \cup moved)
        = Cardinality(HeldIn(s)) + Cardinality(moved) - Cardinality(HeldIn(s) \cap moved)
  BY <1>2, <1>6, FS_Union
<1>9. Cardinality(HeldIn(s) \cap moved) = 0
  BY <1>7, FS_EmptySet
<1>10. Cardinality(HeldIn(s)) \in Nat /\ Cardinality(HeldIn(t)) \in Nat
  BY <1>2, FS_CardinalityType
<1>11. Held(s \o t) = Cardinality(HeldIn(s) \cup moved)
  BY <1>4 DEF Held
<1>12. Held(s) = Cardinality(HeldIn(s)) /\ Held(t) = Cardinality(HeldIn(t))
  BY DEF Held
<1> HIDE DEF HeldIn, moved
<1> QED BY <1>6, <1>8, <1>9, <1>10, <1>11, <1>12

\* A single message holds what was asked or answered, or not.
LEMMA HeldOne ==
  ASSUME NEW k \in Kinds
  PROVE  Held(<<k>>) = IF k \in {"text", "reply"} THEN 1 ELSE 0
<1>1. Len(<<k>>) = 1 /\ <<k>>[1] = k
  OBVIOUS
<1>2. CASE k \in {"text", "reply"}
  <2>1. {i \in 1..Len(<<k>>) : <<k>>[i] \in {"text", "reply"}} = {1}
    BY <1>1, <1>2
  <2> QED BY <1>2, <2>1, FS_Singleton DEF Held
<1>3. CASE k \notin {"text", "reply"}
  <2>1. {i \in 1..Len(<<k>>) : <<k>>[i] \in {"text", "reply"}} = {}
    BY <1>1, <1>3
  <2> QED BY <1>3, <2>1, FS_EmptySet DEF Held
<1> QED BY <1>2, <1>3

\* The two parts of a conversation hold what it holds.
LEMMA HeldSplit ==
  ASSUME NEW ms \in Seq(Kinds), NEW k \in 0..Len(ms)
  PROVE  Held(ms) = Held(SubSeq(ms, 1, k)) + Held(SubSeq(ms, k + 1, Len(ms)))
<1>1. Len(ms) \in Nat
  BY LenProperties
<1>2. SubSeq(ms, 1, k) \in Seq(Kinds) /\ SubSeq(ms, k + 1, Len(ms)) \in Seq(Kinds)
  BY <1>1, PieceType
<1>3. SubSeq(ms, 1, k) \o SubSeq(ms, k + 1, Len(ms)) = SubSeq(ms, 1, Len(ms))
  <2>1. 1 \in 1..Len(ms) + 1 /\ k \in (1 - 1)..Len(ms) /\ Len(ms) \in k..Len(ms)
    BY <1>1
  <2> QED BY <2>1, ConcatAdjacentSubSeq
<1>4. SubSeq(ms, 1, Len(ms)) = ms
  BY SubSeqFull
<1> QED BY <1>2, <1>3, <1>4, HeldConcat, ZenonT(40)

\* Removing a note removes nothing that was asked or answered.
LEMMA HeldWithout ==
  ASSUME NEW ms \in Seq(Kinds), NEW i \in 1..Len(ms), ms[i] = "note"
  PROVE  Held(Without(ms, i)) = Held(ms)
<1>1. Len(ms) \in Nat /\ "note" \in Kinds
  BY LenProperties DEF Kinds, UserKinds
<1>2. SubSeq(ms, 1, i - 1) \in Seq(Kinds) /\ SubSeq(ms, i + 1, Len(ms)) \in Seq(Kinds)
  BY <1>1, PieceType
<1>3. SubSeq(ms, i, Len(ms)) = <<"note">> \o SubSeq(ms, i + 1, Len(ms))
  BY <1>1, SubSeqRecursiveFirst
<1>4. Held(SubSeq(ms, i, Len(ms))) = Held(<<"note">>) + Held(SubSeq(ms, i + 1, Len(ms)))
  BY <1>2, <1>3, PieceTypes, HeldConcat
<1>5. Held(<<"note">>) = 0
  BY <1>1, HeldOne
<1>6. Held(ms) = Held(SubSeq(ms, 1, i - 1)) + Held(SubSeq(ms, i, Len(ms)))
  <2>1. i - 1 \in 0..Len(ms) /\ (i - 1) + 1 = i
    BY <1>1
  <2> QED BY <2>1, HeldSplit
<1>7. Held(Without(ms, i)) = Held(SubSeq(ms, 1, i - 1)) + Held(SubSeq(ms, i + 1, Len(ms)))
  BY <1>2, HeldConcat DEF Without
<1>8. Held(SubSeq(ms, i + 1, Len(ms))) \in Nat
  BY <1>2, HeldType
<1>9. Held(SubSeq(ms, i, Len(ms))) = Held(SubSeq(ms, i + 1, Len(ms)))
  BY <1>4, <1>5, <1>8
<1> QED BY <1>6, <1>7, <1>9

\* A message that is shortened no longer holds what it held, and no other does less.
LEMMA HeldShortened ==
  ASSUME NEW ms \in Seq(Kinds), NEW i \in 1..Len(ms)
  PROVE  Held([ms EXCEPT ![i] = "note"]) + Held(<<ms[i]>>) = Held(ms)
<1> DEFINE HeldIn(q) == {j \in 1..Len(q) : q[j] \in {"text", "reply"}}
           ms2 == [ms EXCEPT ![i] = "note"]
<1>1. "note" \in Kinds /\ ms[i] \in Kinds
  BY ElementOfSeq DEF Kinds, UserKinds
<1>2. Len(ms2) = Len(ms) /\ \A j \in 1..Len(ms) : ms2[j] = IF j = i THEN "note" ELSE ms[j]
  BY <1>1, ExceptSeq
<1>3. HeldIn(ms2) = HeldIn(ms) \ {i}
  BY <1>2
<1>4. IsFiniteSet(HeldIn(ms)) /\ Cardinality(HeldIn(ms)) \in Nat
  BY HeldType, FS_CardinalityType
<1>5. Cardinality(HeldIn(ms) \ {i}) = IF i \in HeldIn(ms) THEN Cardinality(HeldIn(ms)) - 1
                                                         ELSE Cardinality(HeldIn(ms))
  BY <1>4, FS_RemoveElement
<1>6. Held(<<ms[i]>>) = IF i \in HeldIn(ms) THEN 1 ELSE 0
  BY <1>1, HeldOne
<1>7. Held(ms2) = Cardinality(HeldIn(ms) \ {i}) /\ Held(ms) = Cardinality(HeldIn(ms))
  BY <1>3 DEF Held
<1> HIDE DEF HeldIn, ms2
<1>8. Held(ms2) + Held(<<ms[i]>>) = Held(ms)
  BY <1>4, <1>5, <1>6, <1>7
<1> QED BY <1>8 DEF ms2

\* A question that is rewritten is still there.
LEMMA HeldRewritten ==
  ASSUME NEW ms \in Seq(Kinds), NEW i \in 1..Len(ms)
  PROVE  Held([ms EXCEPT ![i] = "text"]) >= Held(ms)
<1> DEFINE HeldIn(q) == {j \in 1..Len(q) : q[j] \in {"text", "reply"}}
           ms2 == [ms EXCEPT ![i] = "text"]
<1>1. "text" \in Kinds
  BY DEF Kinds, UserKinds
<1>2. ms2 \in Seq(Kinds) /\ Len(ms2) = Len(ms)
      /\ \A j \in 1..Len(ms) : ms2[j] = IF j = i THEN "text" ELSE ms[j]
  BY <1>1, ExceptSeq
<1>3. HeldIn(ms) \in SUBSET HeldIn(ms2)
  BY <1>2
<1>4. IsFiniteSet(HeldIn(ms2))
  BY <1>2, HeldType
<1>5. Cardinality(HeldIn(ms)) <= Cardinality(HeldIn(ms2))
  BY <1>3, <1>4, FS_Subset
<1>6. Cardinality(HeldIn(ms)) \in Nat /\ Cardinality(HeldIn(ms2)) \in Nat
  BY <1>3, <1>4, FS_Subset, FS_CardinalityType
<1>7. Held(ms) = Cardinality(HeldIn(ms)) /\ Held(ms2) = Cardinality(HeldIn(ms2))
  BY DEF Held
<1> HIDE DEF HeldIn
<1> QED BY <1>5, <1>6, <1>7

\* A trim whose flag is not set does nothing.
LEMMA TrimSame ==
  ASSUME NEW c \in [ms : Seq(Kinds), kept : Nat], NEW job, NEW long, job \notin pending
  PROVE  Trim(c, job, long) = c
<1>1. c = [ms |-> c.ms, kept |-> c.kept] /\ c.kept + 0 = c.kept
  OBVIOUS
<1> QED BY <1>1 DEF Trim

\* A trim that removes a note keeps or archives the rest.
LEMMA TrimHeld ==
  ASSUME TypeOK, NEW c \in [ms : Seq(Kinds), kept : Nat], NEW job \in Trims,
         NEW long \in BOOLEAN,
         compactAt[job] + 2 \in 2..Len(c.ms), c.ms[compactAt[job] + 2] = "note"
  PROVE  Held(Trim(c, job, long).ms) + Trim(c, job, long).kept = Held(c.ms) + c.kept
<1> DEFINE i == compactAt[job] + 1
           cut == job \in pending /\ long /\ IsUser(c.ms, i)
           ms == IF cut THEN [c.ms EXCEPT ![i] = "note"] ELSE c.ms
           cuts == job \in pending /\ IsUser(ms, i + 1)
           ms2 == IF cuts THEN Without(ms, i + 1) ELSE ms
           kept == c.kept + IF cut THEN Held(<<c.ms[i]>>) ELSE 0
<1>1. c.ms \in Seq(Kinds) /\ c.kept \in Nat /\ Len(c.ms) \in Nat
  BY LenProperties
<1>2. i \in 1..Len(c.ms) /\ i + 1 \in 1..Len(c.ms) /\ c.ms[i + 1] = "note"
  <2>1. compactAt[job] \in Nat
    BY DEF TypeOK
  <2>2. i + 1 = compactAt[job] + 2
    BY <2>1
  <2> QED BY <1>1, <2>1, <2>2
<1>3. "note" \in Kinds /\ c.ms[i] \in Kinds
  BY <1>1, <1>2, ElementOfSeq DEF Kinds, UserKinds
<1> HIDE DEF i
<1>4. ms \in Seq(Kinds) /\ Len(ms) = Len(c.ms) /\ ms[i + 1] = "note"
  <2>1. i # i + 1
    BY <1>1, <1>2
  <2>2. CASE cut
    BY <1>1, <1>2, <1>3, <2>1, <2>2, ExceptSeq
  <2>3. CASE ~cut
    BY <1>1, <1>2, <2>3
  <2> QED BY <2>2, <2>3
<1>5. Held(ms) + kept = Held(c.ms) + c.kept
  <2>1. Held([c.ms EXCEPT ![i] = "note"]) + Held(<<c.ms[i]>>) = Held(c.ms)
    BY <1>1, <1>2, HeldShortened
  <2>2. Held(<<c.ms[i]>>) \in Nat
    BY <1>3, HeldOne
  <2>3. Held(ms) \in Nat
    BY <1>4, HeldType
  <2>4. CASE cut
    BY <1>1, <2>1, <2>2, <2>3, <2>4
  <2>5. CASE ~cut
    BY <1>1, <2>5
  <2> QED BY <2>4, <2>5
<1> HIDE DEF ms
<1>6. Held(ms2) = Held(ms)
  BY <1>2, <1>4, HeldWithout
<1>7. Trim(c, job, long) = [ms |-> ms2, kept |-> kept]
  BY DEF Trim, ms, i
<1> HIDE DEF ms2, kept
<1> QED BY <1>5, <1>6, <1>7

\* What an answer cuts and removes was put in by the program, and the rest is in
\* the conversation or in the archive.
LEMMA AnsweredHeld ==
  ASSUME TypeOK, FlagsOK, TrimsOK, eventCh # NoStream,
         NEW full \in BOOLEAN, NEW long \in BOOLEAN
  PROVE  Held(Answered(full, long).ms) + Answered(full, long).kept >= Held(messages) + archived
<1> DEFINE c == [ms |-> IF full THEN Append(messages, "reply") ELSE messages,
                 kept |-> archived]
<1>1. messages \in Seq(Kinds) /\ archived \in Nat /\ "reply" \in Kinds /\ Len(messages) \in Nat
  BY LenProperties DEF TypeOK, Kinds
<1>2. Append(messages, "reply") \in Seq(Kinds)
      /\ Append(messages, "reply") = messages \o <<"reply">>
  BY <1>1, AppendProperties, AppendIsConcat
<1>3. c \in [ms : Seq(Kinds), kept : Nat]
  BY <1>1, <1>2
<1>4. Held(c.ms) >= Held(messages) /\ Held(c.ms) \in Nat /\ Held(messages) \in Nat
  <2>1. Held(c.ms) \in Nat /\ Held(messages) \in Nat
    BY <1>1, <1>3, HeldType
  <2>2. CASE full
    <3>1. <<"reply">> \in Seq(Kinds)
      BY <1>1
    <3>2. Held(messages \o <<"reply">>) = Held(messages) + Held(<<"reply">>)
      BY <1>1, <3>1, HeldConcat
    <3>3. Held(<<"reply">>) \in Nat
      BY <3>1, HeldType
    <3>4. c.ms = messages \o <<"reply">>
      BY <1>2, <2>2
    <3>5. Held(c.ms) = Held(messages) + Held(<<"reply">>)
      BY <3>2, <3>4
    <3> QED BY <2>1, <3>3, <3>5
  <2>3. CASE ~full
    BY <2>1, <2>3
  <2> QED BY <2>1, <2>2, <2>3
<1>5. Len(c.ms) >= Len(messages) /\ Len(c.ms) \in Nat
      /\ \A k \in 1..Len(messages) : c.ms[k] = messages[k]
  BY <1>1, AppendProperties
<1>6. c.kept = archived
  OBVIOUS
<1>7. {"search", "research", "strategy"} = Trims
  BY DEF Trims
<1>8. pending = {origin[eventCh]} \ {"turn"}
  BY DEF FlagsOK
<1> HIDE DEF c
<1>9. ASSUME NEW job \in Trims, job \in pending
      PROVE  Held(Trim(c, job, long).ms) + Trim(c, job, long).kept = Held(c.ms) + c.kept
  <2>1. origin[eventCh] = job
    BY <1>8, <1>9
  <2>2. compactAt[job] + 2 \in 2..Len(messages) /\ messages[compactAt[job] + 2] = "note"
    BY <2>1 DEF TrimsOK
  <2>3. compactAt[job] + 2 \in 2..Len(c.ms) /\ c.ms[compactAt[job] + 2] = "note"
    BY <1>1, <1>5, <2>2
  <2> QED BY <1>3, <2>3, TrimHeld
<1>10. ASSUME NEW job \in Trims, job \in pending PROVE \A k \in Trims \ {job} : k \notin pending
  BY <1>8, <1>10
<1>11. Answered(full, long)
         = Trim(Trim(Trim(c, "search", long), "research", long), "strategy", long)
  BY DEF Answered, c
<1>12. \A job \in Trims : Trim(c, job, long) \in [ms : Seq(Kinds), kept : Nat]
  BY <1>3, TrimType
<1>13. \/ Answered(full, long) = c
       \/ \E job \in Trims : job \in pending /\ Answered(full, long) = Trim(c, job, long)
  <2>1. CASE "search" \in pending
    BY <1>3, <1>7, <1>10, <1>11, <1>12, <2>1, TrimSame
  <2>2. CASE "research" \in pending
    BY <1>3, <1>7, <1>10, <1>11, <1>12, <2>2, TrimSame
  <2>3. CASE "strategy" \in pending
    BY <1>3, <1>7, <1>10, <1>11, <1>12, <2>3, TrimSame
  <2>4. CASE pending \cap Trims = {}
    BY <1>3, <1>7, <1>11, <2>4, TrimSame
  <2> QED BY <1>7, <2>1, <2>2, <2>3, <2>4
<1>14. CASE Answered(full, long) = c
  BY <1>1, <1>4, <1>6, <1>14
<1>15. CASE \E job \in Trims : job \in pending /\ Answered(full, long) = Trim(c, job, long)
  BY <1>1, <1>4, <1>6, <1>9, <1>15
<1> QED BY <1>13, <1>14, <1>15

\* Every step keeps what was asked and answered, or is one that means to forget.
LEMMA KeepStep ==
  ASSUME TypeInv, SingleInv, FlagsInv, Next, ~overlapped, ~orphaned
  PROVE  \/ Gather \/ Rewind
         \/ \E s \in Streams : HandleError(s) /\ origin[s] \in {"turn", "init", "commit"}
         \/ Held(messages') + archived' >= Held(messages) + archived
<1> DEFINE Total == Held(messages) + archived
<1>a. TypeOK /\ OneStreamOK /\ PromptOK /\ FlagsOK /\ TrimsOK /\ CompactingOK
  BY DEF TypeInv, SingleInv, FlagsInv
<1>b. messages \in Seq(Kinds) /\ Len(messages) \in Nat /\ archived \in Nat
      /\ compactKeep \in Nat /\ {"text", "reply", "note", "ack"} \subseteq Kinds
  BY <1>a, LenProperties DEF TypeOK, Kinds, UserKinds
<1>c. Held(messages) \in Nat
  BY <1>b, HeldType
<1>d. Total' >= Total <=> Held(messages') + archived' >= Held(messages) + archived
  OBVIOUS
<1>1. ASSUME UNCHANGED <<messages, archived>> PROVE Total' >= Total
  BY <1>b, <1>c, <1>1
<1>2. ASSUME UNCHANGED archived, NEW x \in Seq(Kinds), messages' = messages \o x
      PROVE  Total' >= Total
  <2>1. Held(messages') = Held(messages) + Held(x) /\ Held(x) \in Nat
    BY <1>b, <1>2, HeldConcat, HeldType
  <2> QED BY <1>b, <1>c, <1>2, <2>1
<1>3. ASSUME UNCHANGED archived, NEW k \in Kinds, messages' = Append(messages, k)
      PROVE  Total' >= Total
  <2>1. <<k>> \in Seq(Kinds) /\ messages' = messages \o <<k>>
    BY <1>b, <1>3, AppendIsConcat
  <2> QED BY <1>2, <1>3, <2>1
<1>4. CASE Enter
  <2>1. PICK before \in {<<>>, <<"note">>, <<"note", "ack">>} :
          messages' = messages \o before \o <<"text">>
    BY <1>4 DEF Enter
  <2>2. before \in Seq(Kinds) /\ <<"text">> \in Seq(Kinds) /\ before \o <<"text">> \in Seq(Kinds)
    BY PieceTypes, ConcatProperties
  <2>3. messages' = messages \o (before \o <<"text">>)
    BY <1>b, <2>1, <2>2, ConcatAssociative
  <2> QED BY <1>2, <1>4, <2>2, <2>3 DEF Enter
<1>5. CASE Clear
  <2>1. Held(<<>>) = 0
    BY FS_EmptySet DEF Held
  <2>2. messages' = <<>> /\ archived' = archived + Held(messages)
    BY <1>5 DEF Clear
  <2>3. Held(messages') = 0
    BY <2>1, <2>2
  <2> QED BY <1>b, <1>c, <2>2, <2>3
<1>6. CASE RewriteDone
  <2>1. UNCHANGED archived
    BY <1>6 DEF RewriteDone
  <2>2. CASE messages' = messages
    BY <1>1, <2>1, <2>2
  <2>3. CASE messages' # messages
    <3>1. messages' = [messages EXCEPT ![LastUser] = "text"]
      BY <1>6, <2>3 DEF RewriteDone
    <3>2. LastUser \in 1..Len(messages)
      <4> HIDE DEF LastUser
      <4> QED BY <1>b, <2>3, <3>1, LenProperties
    <3>3. Held(messages') >= Held(messages)
      BY <1>b, <3>1, <3>2, HeldRewritten
    <3>4. messages' \in Seq(Kinds)
      BY <1>b, <3>1, <3>2, ExceptSeq
    <3>5. Held(messages') \in Nat
      BY <3>4, HeldType
    <3> QED BY <1>b, <1>c, <2>1, <3>3, <3>5
  <2> QED BY <2>2, <2>3
<1>7. ASSUME NEW s \in Streams, HandleError(s), origin[s] \notin {"turn", "init", "commit"}
      PROVE  Total' >= Total
  <2>1. s = eventCh /\ eventCh # NoStream /\ UNCHANGED archived
    BY <1>7, <1>a, WhenTaken DEF HandleError, EventTypes
  <2>2. origin[s] \in Trims \cup {"compact"}
    BY <1>7, <1>a DEF TypeOK, Purposes, Trims
  <2>3. CASE origin[s] = "compact"
    <3>1. "compact" \in pending
      BY <1>a, <2>1, <2>3 DEF FlagsOK
    <3> QED BY <1>1, <1>7, <2>1, <3>1 DEF HandleError
  <2>4. CASE origin[s] \in Trims
    <3>1. Len(messages) \in 1..Len(messages) /\ messages[Len(messages)] = "note"
      BY <1>a, <1>b, <2>1, <2>4 DEF TrimsOK
    <3>2. CASE messages' = messages
      BY <1>1, <2>1, <3>2
    <3>3. CASE messages' # messages
      <4>1. messages' = SubSeq(messages, 1, Len(messages) - 1)
        BY <1>7, <3>3 DEF HandleError, Front
      <4>2. Without(messages, Len(messages)) = messages' \o <<>>
        BY <1>b, <4>1, SubSeqEmpty DEF Without
      <4>3. messages' \in Seq(Kinds)
        BY <1>b, <3>1, <4>1, PieceType
      <4>4. messages' \o <<>> = messages'
        BY <4>3, ConcatEmptySeq
      <4>5. Held(messages') = Held(messages)
        BY <1>b, <3>1, <4>2, <4>4, HeldWithout
      <4> QED BY <1>b, <1>c, <2>1, <4>5
    <3> QED BY <3>2, <3>3
  <2> QED BY <2>2, <2>3, <2>4
<1>8. ASSUME NEW s \in Streams, DoneCompacting(s) PROVE Total' >= Total
  <2> DEFINE tail == SubSeq(messages, compactKeep + 1, Len(messages))
             top == SubSeq(messages, 1, compactKeep)
  <2>1. PICK b \in BOOLEAN : Summarize(b)
    BY <1>8 DEF DoneCompacting
  <2>2. compactKeep \in 0..Len(messages)
    BY <1>b, <1>8 DEF DoneCompacting
  <2>3. tail \in Seq(Kinds) /\ top \in Seq(Kinds)
    BY <1>b, <2>2, PieceType
  <2>4. Held(messages) = Held(top) + Held(tail)
    BY <1>b, <2>2, HeldSplit
  <2>5. Held(<<"note", "ack">> \o tail) = Held(<<"note", "ack">>) + Held(tail)
    BY <2>3, PieceTypes, HeldConcat
  <2>6. Held(<<"note", "ack">>) \in Nat /\ Held(tail) \in Nat /\ Held(top) \in Nat
    BY <2>3, PieceTypes, HeldType
  <2>7. CASE b
    <3>1. messages' = <<"note", "ack">> \o tail /\ archived' = archived + Held(top)
      BY <2>1, <2>7 DEF Summarize
    <3>2. Held(messages') = Held(<<"note", "ack">>) + Held(tail)
      BY <2>5, <3>1
    <3> HIDE DEF tail, top
    <3> QED BY <1>b, <2>4, <2>6, <3>1, <3>2
  <2>8. CASE ~b
    <3>1. UNCHANGED <<messages, archived>>
      BY <1>b, <2>1, <2>8 DEF Summarize
    <3> QED BY <1>1, <3>1
  <2> QED BY <2>7, <2>8
<1>9. ASSUME NEW s \in Streams, NEW full \in BOOLEAN, NEW left, Answer(s, full, left)
      PROVE  Total' >= Total
  <2>1. eventCh # NoStream
    BY <1>9, <1>a, WhenTaken DEF Answer, EventTypes
  <2>2. PICK long \in BOOLEAN : messages' = Answered(full, long).ms
                                /\ archived' = Answered(full, long).kept
    BY <1>9 DEF Answer
  <2> QED BY <1>a, <2>1, <2>2, AnsweredHeld
<1>10. CASE User
  <2>1. CASE Ask \/ Commit \/ InitCommand \/ Mode
    BY <1>3, <1>b, <2>1 DEF Ask, Commit, InitCommand, Mode
  <2>2. CASE Skill
    BY <1>2, <2>2, PieceTypes DEF Skill
  <2>3. CASE Research \/ GatherDone \/ Compact \/ Checkpoint \/ \E c \in Commands : Launch(c)
    BY <1>1, <2>3 DEF Research, GatherDone, Compact, Checkpoint, Launch, convVars
  <2> QED BY <1>4, <1>5, <1>10, <2>1, <2>2, <2>3 DEF User
<1>11. CASE Reports
  <2>1. ASSUME NEW p, Discuss(p) PROVE Total' >= Total
    BY <1>2, <2>1, PieceTypes DEF Discuss
  <2>2. CASE SearchDone \/ ResearchDone \/ StrategyLoaded \/ GapsDone
    BY <2>1, <2>2 DEF SearchDone, ResearchDone, StrategyLoaded, GapsDone
  <2>3. CASE FetchDone \/ TaskDone
    BY <1>3, <1>b, <2>3 DEF FetchDone, TaskDone, Note
  <2>4. CASE SearchFailed \/ TaskFailed \/ ResearchFailed \/ GapsFailed
    BY <1>1, <2>4 DEF SearchFailed, TaskFailed, ResearchFailed, GapsFailed, convVars
  <2> QED BY <1>6, <1>11, <2>2, <2>3, <2>4 DEF Reports
<1>12. ASSUME NEW s \in Streams, HandleDone(s) PROVE Total' >= Total
  BY <1>8, <1>9, <1>12 DEF HandleDone, DoneSearches, DoneResearches, DoneTurn
<1>13. ASSUME NEW s \in Streams, Receive(s, "event") \/ ReceiveEnd(s) \/ HandleEvent(s)
       PROVE  Total' >= Total
  BY <1>1, <1>13 DEF Receive, ReceiveEnd, HandleEvent, convVars
<1> QED BY <1>7, <1>10, <1>11, <1>12, <1>13 DEF Next, Handle

\* What the user asked and what the model answered stays in the conversation or
\* goes to the archive (chat.go: the Done and error handlers, /compact and /clear).
THEOREM KeepsMessagesHolds == Spec => KeepsMessages
<1> DEFINE Keeps == \/ overlapped \/ orphaned \/ Gather \/ Rewind
                    \/ \E s \in Streams :
                         HandleError(s) /\ origin[s] \in {"turn", "init", "commit"}
                    \/ Held(messages') + archived' >= Held(messages) + archived
<1>1. TypeInv /\ SingleInv /\ FlagsInv /\ [Next]_vars => [Keeps]_vars
  BY KeepStep
<1> QED BY <1>1, Prompt, PTL DEF Spec, KeepsMessages
=============================================================================
