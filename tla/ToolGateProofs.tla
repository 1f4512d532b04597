--------------------------- MODULE ToolGateProofs ---------------------------
(***************************************************************************)
(* The safety of the permission gate, for any number of turns and calls.   *)
(* ApprovalInv says what a goroutine behind the gate has shown, RequestInv *)
(* where a request can be: not asked yet, in exactly one of the channel, a *)
(* message and the screen, or answered, in that order.                     *)
(***************************************************************************)
EXTENDS ToolGate, FiniteSetTheorems, SequenceTheorems, TLAPS

\* What lets a destructive call run: the mode, or the key pressed for it.
Permitted(c) == permission = "auto" \/ (permission = "confirm" /\ c \in approved)

\* The request of c has left its goroutine.
Asked(c) == c[2] <= made[c[1]] /\ (c[2] = made[c[1]] => pc[c[1]] # "ask")

\* Its request is in the channel, in a ToolConfirmMsg or on the screen.
Out(c) == c = shown \/ c \in inbox \/ confirmCh = <<c>>

\* ApprovalInv: a goroutine that stands behind the gate had its answer.
MadeOK == \A t \in Turns : pc[t] \in {"ask", "wait", "run"} => made[t] >= 1
GateOK == \A t \in Turns : pc[t] \in {"ask", "wait"} => permission = "confirm"
RunOK == \A t \in Turns :
  pc[t] = "run" /\ tool[Call(t)] \in Destructive => Permitted(Call(t))
AnswerOK == \A c \in Calls : answer[c] = "yes" => c \in approved
\* RequestInv: a request is in one place at most, after it was asked and before
\* it is answered.
QueueOK == \A c \in Calls : Out(c) => Asked(c) /\ answer[c] = "none"
AnsweredOK == \A c \in Calls : answer[c] # "none" => Asked(c)
PlaceOK == \A c \in Calls :
  /\ c = shown => c \notin inbox /\ confirmCh # <<c>>
  /\ c \in inbox => confirmCh # <<c>>

\* SoleInv: as long as no stream was begun over a turn, only the turn whose stream
\* the UI reads is under way, its context is live, and a request out is its own.
ActiveOK == \A t \in Turns :
  /\ pc[t] \notin {"none", "ended"} => current = t /\ isStream
  /\ pc[t] # "ended" => t \notin cancelled
WaitedOK == \A c \in Calls : Out(c) => pc[c[1]] = "wait" /\ Call(c[1]) = c

ApprovalInv == MadeOK /\ GateOK /\ RunOK /\ AnswerOK /\ RunsApproved
RequestInv == QueueOK /\ AnsweredOK /\ PlaceOK
SoleInv == ~overtaken => ActiveOK /\ WaitedOK

\* A goroutine in the middle of a call has made one.
LEMMA CallMade ==
  ASSUME TypeOK, MadeOK, NEW t \in Turns, pc[t] \in {"ask", "wait", "run"}
  PROVE  Call(t) \in Calls
BY CallAssumption DEF TypeOK, MadeOK, Call, Calls

\* The confirmation channel is empty or holds a single request.
LEMMA ChannelShape ==
  ASSUME TypeOK
  PROVE  confirmCh = <<>> \/ \E c \in Calls : confirmCh = <<c>>
<1>1. Len(confirmCh) \in {0, 1} /\ confirmCh \in Seq(Calls)
  <2>1. confirmCh \in Seq(Calls) /\ Len(confirmCh) <= 1
    BY DEF TypeOK
  <2>2. Len(confirmCh) \in Nat
    BY <2>1
  <2>3. \A n \in Nat : n <= 1 => n = 0 \/ n = 1
    OBVIOUS
  <2> QED BY <2>1, <2>2, <2>3
<1>2. CASE Len(confirmCh) = 0
  BY <1>1, <1>2, EmptySeq
<1>3. CASE Len(confirmCh) = 1
  <2>1. confirmCh[1] \in Calls
    BY <1>1, <1>3, ElementOfSeq
  <2>2. <<confirmCh[1]>> \in Seq(Calls) /\ Len(<<confirmCh[1]>>) = 1
    BY <2>1
  <2>3. confirmCh = <<confirmCh[1]>>
    BY <1>1, <1>3, <2>2, SeqEqual
  <2> QED BY <2>1, <2>3
<1> QED BY <1>1, <1>2, <1>3

-----------------------------------------------------------------------------
\* The initial states are well typed.
LEMMA TypeInit == Init => TypeOK
<1> SUFFICES ASSUME Init PROVE TypeOK
  OBVIOUS
<1>1. confirmCh \in Seq(Calls) /\ Len(confirmCh) <= 1
  BY DEF Init
<1>2. made \in [Turns -> 0..MaxCalls]
  BY CallAssumption DEF Init
<1> QED BY <1>1, <1>2 DEF Init, TypeOK, Modes, Steps, Tools, Destructive

\* Every step keeps the types; that the call in progress exists is part of it.
LEMMA TypeStep == TypeOK /\ MadeOK /\ [Next]_vars => TypeOK'
<1> SUFFICES ASSUME TypeOK, MadeOK, [Next]_vars PROVE TypeOK'
  OBVIOUS
<1> USE CallAssumption
<1>1. ASSUME NEW t \in Turns, NEW m \in Modes, StartTurn(t, m) PROVE TypeOK'
  BY <1>1 DEF StartTurn, TypeOK, Steps
<1>2. ASSUME NEW key \in {"yes", "no"}, Press(key) PROVE TypeOK'
  <2>1. shown \in Calls
    BY <1>2 DEF TypeOK, Press
  <2> QED BY <1>2, <2>1 DEF Press, TypeOK, loopVars, streamVars
<1>3. CASE Deliver
  <2>1. PICK c \in Calls : confirmCh = <<c>>
    BY <1>3, ChannelShape DEF Deliver
  <2>2. Head(confirmCh) = c /\ Tail(confirmCh) = <<>>
    BY <2>1
  <2> QED BY <1>3, <2>2 DEF Deliver, TypeOK, loopVars, streamVars
<1>4. CASE Show
  BY <1>4 DEF Show, TypeOK, loopVars, streamVars
<1>5. CASE Overtake
  BY <1>5 DEF Overtake, TypeOK, loopVars, promptVars
<1>6. CASE OtherStreamEnds
  BY <1>6 DEF OtherStreamEnds, TypeOK, loopVars, promptVars
<1>7. ASSUME NEW t \in Turns, NEW k \in Tools, CallTool(t, k) PROVE TypeOK'
  <2>1. <<t, made[t] + 1>> \in Calls /\ made[t] + 1 \in 0..MaxCalls
    BY <1>7 DEF CallTool, TypeOK, Calls
  <2>2. tool' \in [Calls -> Tools]
    BY <1>7, <2>1 DEF CallTool, TypeOK
  <2>3. pc' \in [Turns -> Steps] /\ made' \in [Turns -> 0..MaxCalls]
    BY <1>7, <2>1 DEF CallTool, TypeOK, Steps
  <2> QED BY <1>7, <2>2, <2>3 DEF CallTool, TypeOK, promptVars, streamVars
<1>8. ASSUME NEW t \in Turns, Ask(t) PROVE TypeOK'
  <2>1. Call(t) \in Calls /\ confirmCh = <<>>
    BY <1>8, CallMade DEF Ask, TypeOK
  <2>2. confirmCh' = <<Call(t)>>
    BY <1>8, <2>1 DEF Ask
  <2> QED BY <1>8, <2>1, <2>2 DEF Ask, TypeOK, Steps, streamVars
<1>9. ASSUME NEW t \in Turns, GiveUp(t) PROVE TypeOK'
  BY <1>9 DEF GiveUp, TypeOK, Steps, promptVars, streamVars
<1>10. ASSUME NEW t \in Turns, Answered(t) PROVE TypeOK'
  BY <1>10, CallMade DEF Answered, TypeOK, Steps, streamVars
<1>11. ASSUME NEW t \in Turns, Run(t) PROVE TypeOK'
  BY <1>11, CallMade DEF Run, TypeOK, Steps, promptVars, streamVars
<1>12. ASSUME NEW t \in Turns, EndTurn(t) PROVE TypeOK'
  <2>1. CASE current = t
    BY <1>12, <2>1 DEF EndTurn, TypeOK, Steps, promptVars
  <2>2. CASE current # t
    BY <1>12, <2>2 DEF EndTurn, TypeOK, Steps, promptVars
  <2> QED BY <2>1, <2>2
<1>13. CASE UNCHANGED vars
  BY <1>13 DEF vars, TypeOK, loopVars, promptVars, streamVars
<1> QED BY <1>1, <1>2, <1>3, <1>4, <1>5, <1>6, <1>7, <1>8, <1>9, <1>10, <1>11, <1>12, <1>13
        DEF Next, User, Loop

-----------------------------------------------------------------------------
\* No step brings a destructive call behind the gate without "auto" mode or a yes
\* of its own: neither an overlapping turn, nor a prompt overwritten by another.
LEMMA ApprovalStep == TypeOK /\ ApprovalInv /\ [Next]_vars => ApprovalInv'
<1> SUFFICES ASSUME TypeOK, ApprovalInv, [Next]_vars PROVE ApprovalInv'
  OBVIOUS
<1> USE CallAssumption DEF ApprovalInv
<1>1. ASSUME NEW t \in Turns, NEW m \in Modes, StartTurn(t, m) PROVE ApprovalInv'
  BY <1>1 DEF StartTurn, TypeOK, MadeOK, GateOK, RunOK, AnswerOK, RunsApproved,
              Permitted, Call
<1>2. ASSUME NEW key \in {"yes", "no"}, Press(key) PROVE ApprovalInv'
  <2>1. /\ UNCHANGED <<permission, pc, made, tool, ran>>
        /\ approved \subseteq approved'
    BY <1>2 DEF Press, loopVars
  <2>2. MadeOK' /\ GateOK' /\ RunOK' /\ RunsApproved'
    BY <2>1 DEF MadeOK, GateOK, RunOK, RunsApproved, Permitted, Call
  <2>3. AnswerOK'
    BY <1>2 DEF Press, AnswerOK, TypeOK
  <2> QED BY <2>2, <2>3
<1>3. CASE Deliver \/ Show \/ Overtake \/ OtherStreamEnds \/ UNCHANGED vars
  <2>1. UNCHANGED <<permission, pc, made, tool, ran, approved, answer>>
    BY <1>3 DEF Deliver, Show, Overtake, OtherStreamEnds, vars, loopVars, promptVars
  <2> QED BY <2>1 DEF MadeOK, GateOK, RunOK, AnswerOK, RunsApproved, Permitted, Call
<1>4. ASSUME NEW t \in Turns, NEW k \in Tools, CallTool(t, k) PROVE ApprovalInv'
  <2>1. UNCHANGED <<permission, mode, ran, approved, answer>>
    BY <1>4 DEF CallTool, promptVars, streamVars
  <2>2. AnswerOK' /\ RunsApproved'
    BY <2>1 DEF AnswerOK, RunsApproved
  <2>3. made'[t] = made[t] + 1 /\ \A u \in Turns \ {t} : made'[u] = made[u] /\ pc'[u] = pc[u]
    BY <1>4 DEF CallTool, TypeOK
  <2>4. MadeOK'
    BY <2>3 DEF MadeOK, TypeOK
  <2>5. pc[t] = "loop" /\ (pc'[t] = "ask" => permission = "confirm") /\ pc'[t] # "wait"
    BY <1>4 DEF CallTool, TypeOK
  <2>6. GateOK'
    BY <2>1, <2>3, <2>5 DEF GateOK
  <2>7. ASSUME pc'[t] = "run", tool'[Call(t)'] \in Destructive PROVE Permitted(Call(t))'
    <3>1. /\ ~Refused(t, k) /\ tool' = [tool EXCEPT ![<<t, made[t] + 1>>] = k]
          /\ ~(Gated(t, k) /\ permission = "confirm")
      BY <1>4, <2>5, <2>7 DEF CallTool, TypeOK
    <3>2. <<t, made[t] + 1>> \in Calls
      BY <1>4 DEF CallTool, TypeOK, Calls
    <3>3. tool'[Call(t)'] = k
      BY <2>3, <3>1, <3>2 DEF Call, TypeOK
    <3>4. Gated(t, k)
      BY <2>7, <3>1, <3>3 DEF Refused, Gated, Destructive, TypeOK, Modes
    <3>5. permission = "auto"
      BY <3>1, <3>4, ModeAssumption DEF Refused, TypeOK
    <3> QED BY <2>1, <3>5 DEF Permitted
  <2>8. ASSUME NEW u \in Turns \ {t}, pc'[u] = "run", tool'[Call(u)'] \in Destructive
        PROVE  Permitted(Call(u))'
    <3>1. Call(u)' = Call(u) /\ pc[u] = "run"
      BY <2>3, <2>8 DEF Call
    <3>2. Call(u) # <<t, made[t] + 1>> /\ Call(u) \in Calls
      BY <3>1, CallMade DEF Call
    <3>3. tool'[Call(u)] = tool[Call(u)]
      BY <1>4, <3>2 DEF CallTool, TypeOK
    <3> QED BY <2>1, <2>8, <3>1, <3>3 DEF RunOK, Permitted
  <2>9. RunOK'
    BY <2>7, <2>8 DEF RunOK
  <2> QED BY <2>2, <2>4, <2>6, <2>9
<1>5. ASSUME NEW t \in Turns, Ask(t) PROVE ApprovalInv'
  BY <1>5 DEF Ask, TypeOK, MadeOK, GateOK, RunOK, AnswerOK, RunsApproved, Permitted, Call
<1>6. ASSUME NEW t \in Turns, GiveUp(t) \/ EndTurn(t) PROVE ApprovalInv'
  <2>1. /\ UNCHANGED <<permission, made, tool, ran, approved, answer>>
        /\ pc' \in {[pc EXCEPT ![t] = "loop"], [pc EXCEPT ![t] = "ended"]}
    BY <1>6 DEF GiveUp, EndTurn, promptVars
  <2> QED BY <2>1 DEF TypeOK, MadeOK, GateOK, RunOK, AnswerOK, RunsApproved, Permitted, Call
<1>7. ASSUME NEW t \in Turns, Answered(t) PROVE ApprovalInv'
  <2>1. Call(t) \in Calls /\ permission = "confirm" /\ made[t] >= 1
    BY <1>7, CallMade DEF Answered, GateOK, MadeOK
  <2>2. pc'[t] = "run" => Call(t) \in approved
    BY <1>7, <2>1 DEF Answered, AnswerOK, TypeOK
  <2>3. /\ UNCHANGED <<permission, made, tool, ran, approved>>
        /\ \A u \in Turns \ {t} : pc'[u] = pc[u]
        /\ pc'[t] \in {"run", "loop"}
        /\ answer' = [answer EXCEPT ![Call(t)] = "none"]
    BY <1>7 DEF Answered, TypeOK
  <2>4. MadeOK' /\ GateOK'
    BY <2>1, <2>3 DEF MadeOK, GateOK
  <2>5. RunOK'
    BY <2>1, <2>2, <2>3 DEF RunOK, Permitted, Call
  <2>6. AnswerOK' /\ RunsApproved'
    BY <2>1, <2>3 DEF AnswerOK, RunsApproved, TypeOK
  <2> QED BY <2>4, <2>5, <2>6
<1>8. ASSUME NEW t \in Turns, Run(t) PROVE ApprovalInv'
  <2>1. /\ UNCHANGED <<permission, made, tool, approved, answer>>
        /\ pc' = [pc EXCEPT ![t] = "loop"]
    BY <1>8 DEF Run, promptVars
  <2>2. MadeOK' /\ GateOK' /\ RunOK' /\ AnswerOK'
    BY <2>1 DEF TypeOK, MadeOK, GateOK, RunOK, AnswerOK, Permitted, Call
  <2>3. RunsApproved'
    BY <1>8, <2>1 DEF Run, RunOK, RunsApproved, Permitted
  <2> QED BY <2>2, <2>3
<1> QED BY <1>1, <1>2, <1>3, <1>4, <1>5, <1>6, <1>7, <1>8 DEF Next, User, Loop

\* The invariant behind the two theorems that follow.
THEOREM TypeAndApproval == Spec => [](TypeOK /\ ApprovalInv)
<1>1. Init => TypeOK /\ ApprovalInv
  BY TypeInit DEF Init, ApprovalInv, MadeOK, GateOK, RunOK, AnswerOK, RunsApproved
<1>2. TypeOK /\ ApprovalInv /\ [Next]_vars => (TypeOK /\ ApprovalInv)'
  BY TypeStep, ApprovalStep DEF ApprovalInv
<1> QED BY <1>1, <1>2, PTL DEF Spec

\* Every reachable state of the gate is well typed, for any turns and calls.
THEOREM TypeCorrect == Spec => []TypeOK
BY TypeAndApproval, PTL

\* Whatever the turns and their number, nothing destructive is executed without
\* approval in "confirm" mode, and nothing at all in "suggest" mode.
THEOREM RunsApprovedHolds == Spec => []RunsApproved
<1>1. ApprovalInv => RunsApproved
  BY DEF ApprovalInv
<1> QED BY <1>1, TypeAndApproval, PTL

-----------------------------------------------------------------------------
\* A request moves from its goroutine to the channel, to a message and to the
\* screen, and never back; only the one on screen gets an answer.
LEMMA RequestStep ==
  TypeOK /\ ApprovalInv /\ RequestInv /\ [Next]_vars => RequestInv'
<1> SUFFICES ASSUME TypeOK, ApprovalInv, RequestInv, [Next]_vars PROVE RequestInv'
  OBVIOUS
<1> USE CallAssumption
<1>0. MadeOK /\ QueueOK /\ AnsweredOK /\ PlaceOK
  BY DEF ApprovalInv, RequestInv
\* Steps that leave every request and its answer where they are.
<1>1. ASSUME UNCHANGED <<confirmCh, inbox, shown, answer>>,
             \A c \in Calls : Asked(c) => Asked(c)'
      PROVE  RequestInv'
  <2>1. \A c \in Calls : Out(c)' <=> Out(c)
    BY <1>1 DEF Out
  <2>2. QueueOK' /\ AnsweredOK'
    BY <1>0, <1>1, <2>1 DEF QueueOK, AnsweredOK
  <2>3. PlaceOK'
    BY <1>0, <1>1 DEF PlaceOK
  <2> QED BY <2>2, <2>3 DEF RequestInv
<1>2. ASSUME NEW t \in Turns, NEW m \in Modes, StartTurn(t, m) PROVE RequestInv'
  <2>1. \A c \in Calls : Asked(c) => Asked(c)'
    BY <1>2 DEF StartTurn, Asked, TypeOK
  <2> QED BY <1>1, <1>2, <2>1 DEF StartTurn
<1>3. ASSUME NEW key \in {"yes", "no"}, Press(key) PROVE RequestInv'
  <2>1. /\ shown \in Calls /\ shown' = NoCall
        /\ UNCHANGED <<pc, made, confirmCh, inbox>>
        /\ answer' = [answer EXCEPT ![shown] = key]
    BY <1>3 DEF Press, TypeOK, loopVars
  <2>2. \A c \in Calls : Asked(c)' <=> Asked(c)
    BY <2>1 DEF Asked
  <2>3. \A c \in Calls : Out(c)' => Out(c) /\ c # shown
    BY <1>0, <2>1 DEF Out, PlaceOK, Calls
  <2>4. \A c \in Calls \ {shown} : answer'[c] = answer[c]
    BY <2>1 DEF TypeOK
  <2>5. QueueOK'
    BY <1>0, <2>2, <2>3, <2>4 DEF QueueOK
  <2>6. Asked(shown)
    BY <1>0, <2>1 DEF QueueOK, Out
  <2>7. AnsweredOK'
    BY <1>0, <2>2, <2>4, <2>6 DEF AnsweredOK
  <2>8. PlaceOK'
    BY <1>0, <2>1 DEF PlaceOK, Calls
  <2> QED BY <2>5, <2>7, <2>8 DEF RequestInv
\* Steps that move a request, or drop one, and answer none.
<1>4. ASSUME UNCHANGED <<pc, made, answer>>, \A c \in Calls : Out(c)' => Out(c), PlaceOK'
      PROVE  RequestInv'
  <2>1. \A c \in Calls : Asked(c)' <=> Asked(c)
    BY <1>4 DEF Asked
  <2> QED BY <1>0, <1>4, <2>1 DEF RequestInv, QueueOK, AnsweredOK
<1>5. CASE Deliver
  <2>1. PICK d \in Calls : confirmCh = <<d>>
    BY <1>5, ChannelShape DEF Deliver
  <2>2. /\ confirmCh' = <<>> /\ inbox' = inbox \cup {d}
        /\ UNCHANGED <<pc, made, answer, shown>>
    BY <1>5, <2>1 DEF Deliver, loopVars
  <2>3. \A c : <<>> # <<c>>
    OBVIOUS
  <2>4. \A c \in Calls : Out(c)' => Out(c)
    BY <2>1, <2>2, <2>3 DEF Out
  <2>5. PlaceOK'
    BY <1>0, <2>1, <2>2, <2>3 DEF PlaceOK
  <2> QED BY <1>4, <2>2, <2>4, <2>5
<1>6. CASE Show
  <2>1. PICK d \in inbox : shown' = d /\ inbox' = inbox \ {d}
    BY <1>6 DEF Show
  <2>2. UNCHANGED <<pc, made, answer, confirmCh>>
    BY <1>6 DEF Show, loopVars
  <2>3. \A c \in Calls : Out(c)' => Out(c)
    BY <2>1, <2>2 DEF Out
  <2>4. PlaceOK'
    BY <1>0, <2>1, <2>2 DEF PlaceOK, TypeOK
  <2> QED BY <1>4, <2>2, <2>3, <2>4
<1>7. CASE Overtake \/ OtherStreamEnds \/ UNCHANGED vars
  <2>1. UNCHANGED <<pc, made, confirmCh, inbox, shown, answer>>
    BY <1>7 DEF Overtake, OtherStreamEnds, vars, loopVars, promptVars
  <2> QED BY <1>1, <2>1 DEF Asked
<1>8. ASSUME NEW t \in Turns, NEW k \in Tools, CallTool(t, k) PROVE RequestInv'
  <2>1. /\ made'[t] = made[t] + 1 /\ made[t] \in Nat
        /\ \A u \in Turns \ {t} : made'[u] = made[u] /\ pc'[u] = pc[u]
    BY <1>8 DEF CallTool, TypeOK
  <2>2. \A c \in Calls : Asked(c) => Asked(c)'
    BY <2>1 DEF Asked, Calls
  <2> QED BY <1>1, <1>8, <2>2 DEF CallTool, promptVars
<1>9. ASSUME NEW t \in Turns, Ask(t) PROVE RequestInv'
  <2>1. Call(t) \in Calls /\ made[t] \in Nat /\ confirmCh = <<>>
    BY <1>9, CallMade, <1>0 DEF Ask, TypeOK
  <2>2. /\ confirmCh' = <<Call(t)>> /\ pc' = [pc EXCEPT ![t] = "wait"]
        /\ UNCHANGED <<made, inbox, shown, answer>>
    BY <1>9, <2>1 DEF Ask
  <2>3. ~Asked(Call(t))
    BY <1>9 DEF Ask, Asked, Call
  <2>4. ~Out(Call(t)) /\ answer[Call(t)] = "none"
    BY <1>0, <2>1, <2>3 DEF QueueOK, AnsweredOK
  <2>5. \A c \in Calls : Out(c)' => Out(c) \/ c = Call(t)
    BY <2>2 DEF Out
  <2>6. \A c \in Calls : Asked(c) \/ c = Call(t) => Asked(c)'
    BY <2>1, <2>2 DEF Asked, Call, TypeOK
  <2>7. QueueOK' /\ AnsweredOK'
    BY <1>0, <2>2, <2>4, <2>5, <2>6 DEF QueueOK, AnsweredOK
  <2>8. PlaceOK'
    BY <1>0, <2>2, <2>4 DEF PlaceOK, Out
  <2> QED BY <2>7, <2>8 DEF RequestInv
<1>10. ASSUME NEW t \in Turns, GiveUp(t) \/ Run(t) \/ EndTurn(t) PROVE RequestInv'
  <2>1. /\ pc' \in {[pc EXCEPT ![t] = "loop"], [pc EXCEPT ![t] = "ended"]}
        /\ UNCHANGED <<made, confirmCh, inbox, shown, answer>>
    BY <1>10 DEF GiveUp, Run, EndTurn, promptVars
  <2>2. \A c \in Calls : Asked(c) => Asked(c)'
    BY <2>1 DEF Asked, TypeOK, Calls
  <2> QED BY <1>1, <2>1, <2>2
<1>11. ASSUME NEW t \in Turns, Answered(t) PROVE RequestInv'
  <2>1. Call(t) \in Calls /\ answer[Call(t)] # "none"
    BY <1>11, CallMade, <1>0 DEF Answered
  <2>2. /\ answer' = [answer EXCEPT ![Call(t)] = "none"]
        /\ pc' \in {[pc EXCEPT ![t] = "run"], [pc EXCEPT ![t] = "loop"]}
        /\ UNCHANGED <<made, confirmCh, inbox, shown>>
    BY <1>11 DEF Answered
  <2>3. \A c \in Calls : Asked(c) => Asked(c)'
    BY <2>2 DEF Asked, TypeOK, Calls
  <2>4. \A c \in Calls : Out(c)' <=> Out(c)
    BY <2>2 DEF Out
  <2>5. \A c \in Calls : answer'[c] # "none" => answer'[c] = answer[c]
    BY <2>1, <2>2 DEF TypeOK
  <2>6. QueueOK' /\ AnsweredOK'
    BY <1>0, <2>3, <2>4, <2>5 DEF QueueOK, AnsweredOK
  <2>7. PlaceOK'
    BY <1>0, <2>2 DEF PlaceOK
  <2> QED BY <2>6, <2>7 DEF RequestInv
<1> QED BY <1>2, <1>3, <1>5, <1>6, <1>7, <1>8, <1>9, <1>10, <1>11 DEF Next, User, Loop

\* Where a request can be, in every reachable state.
THEOREM Requests == Spec => []RequestInv
<1>1. Init => RequestInv
  <2>1. ASSUME Init, NEW c \in Calls PROVE ~Out(c) /\ answer[c] = "none"
    BY <2>1, CallAssumption DEF Init, Out, Calls
  <2> QED BY <2>1 DEF RequestInv, QueueOK, AnsweredOK, PlaceOK, Init, Out
<1>2. TypeOK /\ ApprovalInv /\ RequestInv /\ [Next]_vars => RequestInv'
  BY RequestStep
<1> QED BY <1>1, <1>2, TypeAndApproval, PTL DEF Spec

\* The key handler of the UI thread (chat.go:628-660) sends into a response
\* channel that still has room, whatever prompts overlapped.
THEOREM KeySendNeverBlocksHolds == Spec => []KeySendNeverBlocks
<1>1. TypeOK /\ RequestInv => KeySendNeverBlocks
  BY DEF RequestInv, QueueOK, Out, KeySendNeverBlocks, TypeOK
<1> QED BY <1>1, TypeAndApproval, Requests, PTL

-----------------------------------------------------------------------------
\* Without a stream begun over a turn, a request is out exactly while its
\* goroutine waits for it, and no second goroutine is under way.
LEMMA SoleStep == TypeOK /\ RequestInv /\ SoleInv /\ [Next]_vars => SoleInv'
<1> SUFFICES ASSUME TypeOK, RequestInv, SoleInv, [Next]_vars, ~overtaken'
             PROVE  ActiveOK' /\ WaitedOK'
  BY DEF SoleInv
<1> USE CallAssumption
<1>a. ~overtaken
  BY DEF Next, User, Loop, StartTurn, Press, Deliver, Show, Overtake, OtherStreamEnds, CallTool,
         Ask, GiveUp, Answered, Run, EndTurn, vars, streamVars, TypeOK
<1>b. ActiveOK /\ WaitedOK /\ QueueOK
  BY <1>a DEF SoleInv, RequestInv
<1>c. /\ pc \in [Turns -> Steps] /\ made \in [Turns -> 0..MaxCalls]
      /\ current \in Turns \cup {NoCall}
      /\ answer \in [Calls -> {"none", "yes", "no"}]
  BY DEF TypeOK
\* A step of a goroutine that stays under way, with no request of its own out
\* before it, or with the one it is about to wait for.
<1>1. ASSUME NEW t \in Turns, pc[t] \notin {"none", "ended"},
             \A u \in Turns \ {t} : pc'[u] = pc[u] /\ made'[u] = made[u],
             UNCHANGED <<current, isStream, cancelled>>,
             \A c \in Calls : Out(c)' =>
               \/ c[1] # t /\ Out(c)
               \/ pc'[t] = "wait" /\ c = <<t, made'[t]>>
      PROVE  ActiveOK' /\ WaitedOK'
  <2>1. ActiveOK'
    BY <1>1, <1>b DEF ActiveOK
  <2>2. ASSUME NEW c \in Calls, Out(c)' PROVE pc'[c[1]] = "wait" /\ Call(c[1])' = c
    <3>1. c[1] \in Turns
      BY DEF Calls
    <3> QED BY <1>1, <1>b, <2>2, <3>1 DEF WaitedOK, Call
  <2> QED BY <2>1, <2>2 DEF WaitedOK
\* Steps that leave the goroutines where they are and send no request.
<1>2. ASSUME UNCHANGED <<pc, made, current, isStream, cancelled>>,
             \A c \in Calls : Out(c)' => Out(c)
      PROVE  ActiveOK' /\ WaitedOK'
  BY <1>2, <1>b DEF ActiveOK, WaitedOK, Call
<1>3. ASSUME NEW t \in Turns, NEW m \in Modes, StartTurn(t, m) PROVE ActiveOK' /\ WaitedOK'
  <2>1. /\ pc' = [pc EXCEPT ![t] = "loop"] /\ current' = t /\ isStream' = TRUE
        /\ pc[t] = "none" /\ ~isStream
        /\ UNCHANGED <<made, cancelled, confirmCh, inbox, shown>>
    BY <1>3 DEF StartTurn
  <2>2. ActiveOK'
    BY <1>b, <1>c, <2>1 DEF ActiveOK
  <2>3. \A c \in Calls : Out(c)' => Out(c) /\ c[1] \in Turns
    BY <2>1 DEF Out, Calls
  <2>4. WaitedOK'
    BY <1>b, <1>c, <2>1, <2>3 DEF WaitedOK, Call
  <2> QED BY <2>2, <2>4
<1>4. ASSUME NEW key \in {"yes", "no"}, Press(key) PROVE ActiveOK' /\ WaitedOK'
  <2>1. \A c \in Calls : Out(c)' => Out(c)
    BY <1>4 DEF Press, Out, Calls
  <2> QED BY <1>2, <1>4, <2>1 DEF Press, loopVars, streamVars
<1>5. CASE Deliver
  <2>1. PICK d \in Calls : confirmCh = <<d>>
    BY <1>5, ChannelShape DEF Deliver
  <2>2. confirmCh' = <<>> /\ inbox' = inbox \cup {d}
        /\ UNCHANGED <<shown, pc, made, current, isStream, cancelled>>
    BY <1>5, <2>1 DEF Deliver, loopVars, streamVars
  <2>3. \A c : <<>> # <<c>>
    OBVIOUS
  <2>4. \A c \in Calls : Out(c)' => Out(c)
    BY <2>1, <2>2, <2>3 DEF Out
  <2> QED BY <1>2, <2>2, <2>4
<1>6. CASE Show
  <2>1. \A c \in Calls : Out(c)' => Out(c)
    BY <1>6 DEF Show, Out
  <2> QED BY <1>2, <1>6, <2>1 DEF Show, loopVars, streamVars
<1>7. CASE Overtake \/ OtherStreamEnds
  BY <1>7, <1>a DEF Overtake, OtherStreamEnds
<1>8. CASE UNCHANGED vars
  BY <1>2, <1>8 DEF vars, loopVars, promptVars, streamVars, Out
\* A goroutine that is not waiting has no request out.
<1>9. ASSUME NEW t \in Turns, pc[t] # "wait" PROVE \A c \in Calls : Out(c) => c[1] # t
  BY <1>9, <1>b DEF WaitedOK
<1>10. ASSUME NEW t \in Turns, NEW k \in Tools, CallTool(t, k) PROVE ActiveOK' /\ WaitedOK'
  <2>1. /\ pc[t] = "loop" /\ \A u \in Turns \ {t} : pc'[u] = pc[u] /\ made'[u] = made[u]
        /\ UNCHANGED <<current, isStream, cancelled>> /\ \A c \in Calls : Out(c)' <=> Out(c)
    BY <1>10, <1>c DEF CallTool, promptVars, streamVars, Out
  <2>2. \A c \in Calls : Out(c)' => c[1] # t /\ Out(c)
    BY <1>9, <2>1
  <2> QED BY <1>1, <2>1, <2>2
<1>11. ASSUME NEW t \in Turns, Ask(t) PROVE ActiveOK' /\ WaitedOK'
  <2>1. confirmCh = <<>>
    <3>1. \A c : Len(<<c>>) = 1
      OBVIOUS
    <3> QED BY <1>11, <3>1, ChannelShape DEF Ask
  <2>2. /\ pc[t] = "ask" /\ pc' = [pc EXCEPT ![t] = "wait"] /\ confirmCh' = <<Call(t)>>
        /\ UNCHANGED <<made, current, isStream, cancelled, inbox, shown>>
    BY <1>11, <2>1 DEF Ask, streamVars
  <2>3. \A c \in Calls : Out(c)' => Out(c) \/ c = <<t, made'[t]>>
    BY <2>2 DEF Out, Call
  <2>4. \A u \in Turns \ {t} : pc'[u] = pc[u] /\ made'[u] = made[u]
    BY <2>2, <1>c
  <2>5. pc'[t] = "wait" /\ \A c \in Calls : Out(c)' => (c[1] # t /\ Out(c)) \/ c = <<t, made'[t]>>
    BY <1>9, <1>c, <2>2, <2>3
  <2> QED BY <1>1, <2>2, <2>4, <2>5
<1>12. ASSUME NEW t \in Turns, GiveUp(t) PROVE ActiveOK' /\ WaitedOK'
  BY <1>12, <1>b DEF GiveUp, ActiveOK
<1>13. ASSUME NEW t \in Turns, Answered(t) PROVE ActiveOK' /\ WaitedOK'
  <2>1. /\ pc[t] = "wait" /\ answer[Call(t)] # "none"
        /\ pc' \in {[pc EXCEPT ![t] = "run"], [pc EXCEPT ![t] = "loop"]}
        /\ UNCHANGED <<made, confirmCh, inbox, shown, current, isStream, cancelled>>
    BY <1>13 DEF Answered, streamVars
  <2>2. \A c \in Calls : Out(c)' => Out(c) /\ c[1] # t
    BY <1>b, <2>1 DEF Out, QueueOK, WaitedOK
  <2>3. \A u \in Turns \ {t} : pc'[u] = pc[u] /\ made'[u] = made[u]
    BY <2>1, <1>c
  <2> QED BY <1>1, <2>1, <2>2, <2>3
<1>14. ASSUME NEW t \in Turns, Run(t) PROVE ActiveOK' /\ WaitedOK'
  <2>1. /\ pc[t] = "run" /\ pc' = [pc EXCEPT ![t] = "loop"]
        /\ UNCHANGED <<made, confirmCh, inbox, shown, current, isStream, cancelled>>
    BY <1>14 DEF Run, promptVars, streamVars
  <2>2. \A u \in Turns \ {t} : pc'[u] = pc[u] /\ made'[u] = made[u]
    BY <2>1, <1>c
  <2>3. \A c \in Calls : Out(c)' => Out(c)
    BY <2>1 DEF Out
  <2>4. \A c \in Calls : Out(c)' => c[1] # t /\ Out(c)
    BY <1>9, <2>1, <2>3
  <2> QED BY <1>1, <2>1, <2>2, <2>4
<1>15. ASSUME NEW t \in Turns, EndTurn(t) PROVE ActiveOK' /\ WaitedOK'
  <2>1. pc[t] = "loop" /\ current = t
    BY <1>15, <1>b DEF EndTurn, ActiveOK
  <2>2. /\ pc' = [pc EXCEPT ![t] = "ended"] /\ cancelled' = cancelled \cup {t}
        /\ UNCHANGED <<made, confirmCh, inbox, shown>>
    BY <1>15, <2>1 DEF EndTurn, promptVars
  <2>3. ActiveOK'
    BY <1>b, <1>c, <2>1, <2>2 DEF ActiveOK
  <2>4. \A c \in Calls : Out(c)' => Out(c) /\ c[1] # t /\ c[1] \in Turns
    BY <1>9, <2>1, <2>2 DEF Out, Calls
  <2>5. WaitedOK'
    BY <1>b, <1>c, <2>2, <2>4 DEF WaitedOK, Call
  <2> QED BY <2>3, <2>5
<1> QED BY <1>3, <1>4, <1>5, <1>6, <1>7, <1>8, <1>10, <1>11, <1>12, <1>13, <1>14, <1>15
        DEF Next, User, Loop

\* What is on the screen, or on its way there, is what a goroutine waits for, and
\* only one request is, as long as no stream was begun over a turn.
THEOREM PromptIsLiveHolds == Spec => []PromptIsLive
<1>1. Init => SoleInv
  BY CallAssumption DEF Init, SoleInv, ActiveOK, WaitedOK, Out, Calls
<1>2. TypeOK /\ RequestInv /\ SoleInv => PromptIsLive
  <2> SUFFICES ASSUME TypeOK, RequestInv, ActiveOK, WaitedOK
               PROVE  /\ Cardinality({c \in Calls : Out(c)}) <= 1
                      /\ \A c \in Calls : Out(c) =>
                           pc[c[1]] = "wait" /\ Call(c[1]) = c /\ answer[c] = "none"
    BY DEF SoleInv, PromptIsLive, Out
  <2>1. \A c \in Calls : Out(c) => c = Call(current)
    BY DEF ActiveOK, WaitedOK, Calls
  <2>2. {c \in Calls : Out(c)} \in SUBSET {Call(current)}
    BY <2>1
  <2>3. Cardinality({c \in Calls : Out(c)}) <= 1
    <3>1. IsFiniteSet({Call(current)}) /\ Cardinality({Call(current)}) = 1
      BY FS_Singleton
    <3>2. Cardinality({c \in Calls : Out(c)}) <= Cardinality({Call(current)})
      BY <2>2, <3>1, FS_Subset
    <3> QED BY <3>1, <3>2
  <2> QED BY <2>3 DEF RequestInv, QueueOK, WaitedOK
<1> QED BY <1>1, <1>2, SoleStep, TypeAndApproval, Requests, PTL DEF Spec
=============================================================================
