-------------------------- MODULE McpClientProofs --------------------------
(***************************************************************************)
(* The safety of an MCP connection, for any number of callers and calls    *)
(* and any capacity of the pipes.  CallerInv says what a caller holds at   *)
(* each place of call, WireInv that everything on its way between client   *)
(* and server belongs to the call its id was given to, ChannelInv where    *)
(* the answer of a registered call is, and LostInv that whoever could      *)
(* still wait when the server is gone is among the ids Drain must visit.   *)
(***************************************************************************)
EXTENDS McpClient, FiniteSetTheorems, SequenceTheorems, TLAPS

Registered == {"recheck", "lock", "write", "wait"}
Checked == {"lock", "write", "wait"}

\* The callers that have been counted and have no id yet.
Unnumbered == {p \in Procs : pc[p] = "checkDead"}

\* Id i has been given out, to no call but c.
Own(i, c) == i \in 1..nextID /\ \A p \in Procs : id[p] = i => call[p] = c
OwnRequests == {r \in Requests : Own(r.id, r.call)}
OwnLines == {l \in Lines : l = Oversized \/ Own(l.id, l.call)}

\* The reply for id i is in the hands of readLoop, or in its channel.
Answering(i) == reader = "deliver" /\ reply.id = i
Answered(i) == Answering(i) \/ replyCh[i] # <<>>

\* CallerInv
CountOK == IsFiniteSet(Unnumbered) /\ nextID + Cardinality(Unnumbered) <= calls
IdOK == \A p \in Procs :
  /\ id[p] \in IF pc[p] \in Registered \cup {"store"} THEN 1..nextID ELSE {0}
  /\ pc[p] \in Registered \cup {"store", "checkDead"} => call[p] \in Ids
UniqueOK == \A p, q \in Procs : id[p] = id[q] /\ id[p] # 0 => p = q
CallerInv == TypeOK /\ CountOK /\ IdOK /\ UniqueOK /\ PendingIsLive

WireInv ==
  /\ stdin \in Seq(OwnRequests \cup {Notice})
  /\ asked \subseteq OwnRequests
  /\ stdout \in Seq(OwnLines)

\* ChannelInv
ReplyOK == reader = "deliver" =>
  /\ reply \in Replies /\ replyCh[reply.id] = <<>>
  /\ reply.call = 0 \/ Own(reply.id, reply.call)
HeldOK == \A i \in Ids : replyCh[i] # <<>> =>
  Head(replyCh[i]).call = 0 \/ Own(i, Head(replyCh[i]).call)
AnsweredOK == \A i \in Ids : Answered(i) =>
  i \in 1..nextID /\ i \notin pending /\ \A p \in Procs : id[p] = i => pc[p] # "store"
ExpectedOK == \A p \in Procs :
  pc[p] \in Registered => id[p] \in pending \/ Answered(id[p])
ChannelInv == ReplyOK /\ HeldOK /\ AnsweredOK /\ ExpectedOK

\* LostInv
DeadOK ==
  /\ reader \in {"drain", "ended"} => dead
  /\ reader \in {"read", "lost"} => ~dead
  /\ reader = "ended" => visit = {}
VisitOK == dead => \A p \in Procs :
  pc[p] \in Checked /\ id[p] \in pending => id[p] \in visit
LostInv == DeadOK /\ VisitOK

-----------------------------------------------------------------------------
\* What NewClient makes of a call's end keeps the types, and revives no server.
LEMMA HandshakeType ==
  ASSUME TypeOK, NEW p, NEW kind, Handshake(p, kind)
  PROVE  stage' \in Stages /\ closed' \in BOOLEAN /\ alive' \in BOOLEAN
BY DEF Handshake, CloseClient, TypeOK, Stages

\* What one entry more, or one less, does to a sequence over S.
LEMMA SeqFacts ==
  ASSUME NEW S, NEW s \in Seq(S)
  PROVE  /\ Len(s) \in Nat
         /\ \A e \in S : Append(s, e) \in Seq(S) /\ Len(Append(s, e)) = Len(s) + 1
         /\ s # <<>> => Head(s) \in S /\ Tail(s) \in Seq(S) /\ Len(Tail(s)) = Len(s) - 1
BY HeadTailProperties, LenProperties

\* The callers that await their number change with the step of one of them.
LEMMA CountStep ==
  ASSUME CountOK, TypeOK, UNCHANGED nextID, calls' \in {calls, calls + 1},
         \A q \in Procs : pc'[q] = "checkDead" => pc[q] = "checkDead"
  PROVE  CountOK'
<1>1. Unnumbered' \in SUBSET Unnumbered
  BY DEF Unnumbered
<1>2. IsFiniteSet(Unnumbered') /\ Cardinality(Unnumbered') <= Cardinality(Unnumbered)
  BY <1>1, FS_Subset DEF CountOK
<1>3. Cardinality(Unnumbered) \in Nat /\ Cardinality(Unnumbered') \in Nat
  BY <1>2, FS_CardinalityType DEF CountOK
<1> QED BY <1>2, <1>3 DEF CountOK, TypeOK

\* Init
LEMMA CallerInit == Init => CallerInv
<1> SUFFICES ASSUME Init PROVE CallerInv
  OBVIOUS
<1> USE BoundAssumption
<1>1. TypeOK
  <2>1. <<>> \in Seq(Requests \cup {Notice}) /\ <<>> \in Seq(Lines) /\ Len(<<>>) = 0
    BY EmptySeq
  <2>2. replyCh \in [Ids -> {<<>>} \cup {<<r>> : r \in Replies}]
    BY DEF Init
  <2>3. /\ stdin \in Seq(Requests \cup {Notice}) /\ stdout \in Seq(Lines)
        /\ Len(stdin) <= PipeCap /\ Len(stdout) <= PipeCap
    BY <2>1 DEF Init
  <2>4. pc \in [Procs -> Steps] /\ id \in [Procs -> 0..MaxCalls] /\ call \in [Procs -> 0..MaxCalls]
    BY DEF Init, Steps
  <2>5. /\ stage \in Stages /\ calls \in 0..MaxCalls /\ nextID \in 0..calls
        /\ pending \subseteq Ids /\ mu = {} /\ visit \subseteq Ids /\ asked \subseteq Requests
        /\ closed = FALSE /\ dead = FALSE /\ alive = TRUE /\ reader = "read" /\ reply = NoReply
    BY DEF Init, Stages
  <2> QED BY <2>2, <2>3, <2>4, <2>5 DEF TypeOK
<1>2. CountOK
  <2>1. Unnumbered = {}
    BY DEF Init, Unnumbered
  <2> QED BY <2>1, FS_EmptySet DEF CountOK, Init
<1> QED BY <1>1, <1>2 DEF CallerInv, Init, IdOK, UniqueOK, PendingIsLive, Registered

\* Every step keeps the types.
LEMMA TypeStep ==
  TypeOK /\ CountOK /\ IdOK /\ ReplyOK /\ [Next]_vars => TypeOK'
<1> SUFFICES ASSUME TypeOK, CountOK, IdOK, ReplyOK, [Next]_vars PROVE TypeOK'
  OBVIOUS
<1> USE BoundAssumption
<1>0. reader = "deliver" => reply \in Replies
  BY DEF ReplyOK
<1>a. /\ pc \in [Procs -> Steps] /\ id \in [Procs -> 0..MaxCalls]
      /\ call \in [Procs -> 0..MaxCalls]
  BY DEF TypeOK
<1>b. stdin \in Seq(Requests \cup {Notice}) /\ Len(stdin) <= PipeCap
  BY DEF TypeOK
<1>1. ASSUME NEW p \in Procs, CheckClosed(p) PROVE TypeOK'
  <2>1. calls' \in 0..MaxCalls /\ nextID' \in 0..calls'
    BY <1>1 DEF CheckClosed, TypeOK
  <2>2. pc' \in [Procs -> Steps] /\ call' \in [Procs -> 0..MaxCalls]
    <3>1. \/ pc' = [pc EXCEPT ![p] = "idle"] /\ call' = [call EXCEPT ![p] = 0]
          \/ pc' = [pc EXCEPT ![p] = "checkDead"] /\ call' = [call EXCEPT ![p] = calls']
      BY <1>1 DEF CheckClosed, TypeOK, Refuse
    <3> QED BY <1>a, <2>1, <3>1 DEF Steps
  <2>3. stage' \in Stages /\ closed' \in BOOLEAN /\ alive' \in BOOLEAN
    BY <1>1, HandshakeType DEF CheckClosed, Refuse, TypeOK
  <2> QED BY <1>1, <2>1, <2>2, <2>3 DEF CheckClosed, TypeOK, readVars
<1>2. ASSUME NEW p \in Procs, CheckDead(p) PROVE TypeOK'
  <2>1. nextID' \in 0..calls /\ nextID' \in 0..MaxCalls
    <3>1. Unnumbered # {} /\ IsFiniteSet(Unnumbered)
      BY <1>2 DEF CheckDead, Unnumbered, CountOK
    <3>2. Cardinality(Unnumbered) \in Nat \ {0}
      BY <3>1, FS_CardinalityType, FS_EmptySet
    <3> QED BY <1>2, <3>2 DEF CheckDead, TypeOK, CountOK
  <2>2. stage' \in Stages /\ closed' \in BOOLEAN /\ alive' \in BOOLEAN
    BY <1>2, HandshakeType DEF CheckDead, Refuse, TypeOK
  <2>3. id' \in [Procs -> 0..MaxCalls]
    <3>1. id' = id \/ id' = [id EXCEPT ![p] = nextID']
      BY <1>2 DEF CheckDead, Refuse, TypeOK
    <3> QED BY <1>a, <2>1, <3>1
  <2>4. pc' \in [Procs -> Steps] /\ call' \in [Procs -> 0..MaxCalls]
    <3>1. \/ pc' = [pc EXCEPT ![p] = "idle"] /\ call' = [call EXCEPT ![p] = 0]
          \/ pc' = [pc EXCEPT ![p] = "store"] /\ call' = call
      BY <1>2 DEF CheckDead, TypeOK, Refuse
    <3> QED BY <1>a, <3>1 DEF Steps
  <2> QED BY <1>2, <2>1, <2>2, <2>3, <2>4 DEF CheckDead, TypeOK, readVars
<1>3. ASSUME NEW p \in Procs, Store(p) PROVE TypeOK'
  <2>1. id[p] \in Ids
    BY <1>3 DEF Store, IdOK, TypeOK, Ids
  <2> QED BY <1>3, <2>1 DEF Store, TypeOK, Steps, readVars, serverVars
<1>4. ASSUME NEW p \in Procs, NEW kind, Return(p, kind)
      PROVE  /\ pc' \in [Procs -> Steps]
             /\ id' \in [Procs -> 0..MaxCalls] /\ call' \in [Procs -> 0..MaxCalls]
             /\ pending' \subseteq Ids /\ stage' \in Stages
             /\ closed' \in BOOLEAN /\ alive' \in BOOLEAN
  BY <1>4, HandshakeType DEF Return, TypeOK, Steps
<1>5. ASSUME NEW p \in Procs, Recheck(p) PROVE TypeOK'
  <2>1. CASE dead /\ id[p] \in pending
    BY <1>4, <1>5, <2>1 DEF Recheck, TypeOK, Steps, readVars
  <2>2. CASE ~(dead /\ id[p] \in pending)
    BY <1>5, <2>2 DEF Recheck, TypeOK, Steps, readVars
  <2> QED BY <2>1, <2>2
<1>6. ASSUME NEW p \in Procs, Lock(p) PROVE TypeOK'
  BY <1>6 DEF Lock, TypeOK, Steps, readVars, serverVars
<1>7. ASSUME NEW p \in Procs, Write(p) PROVE TypeOK'
  <2>1. mu' \in {{}} \cup {{q} : q \in Procs}
    BY <1>7 DEF Write, TypeOK
  <2>2. CASE ~alive
    BY <1>4, <1>7, <2>1, <2>2 DEF Write, TypeOK, Steps, readVars
  <2>3. CASE alive
    <3>1. [id |-> id[p], call |-> call[p]] \in Requests
      BY <1>7 DEF Write, IdOK, TypeOK, Registered, Requests, Ids
    <3>2. stdin' \in Seq(Requests \cup {Notice}) /\ Len(stdin') <= PipeCap
      <4>1. /\ stdin \in Seq(Requests \cup {Notice}) /\ Len(stdin) < PipeCap
            /\ stdin' = Append(stdin, [id |-> id[p], call |-> call[p]])
        BY <1>7, <2>3 DEF Write, TypeOK
      <4> QED BY <3>1, <4>1, SeqFacts
    <3> QED BY <1>7, <2>1, <2>3, <3>2 DEF Write, TypeOK, Steps, readVars
  <2> QED BY <2>2, <2>3
<1>8. ASSUME NEW p \in Procs, ReceiveReply(p) PROVE TypeOK'
  <2>1. id[p] \in Ids /\ \E r \in Replies : replyCh[id[p]] = <<r>>
    BY <1>8 DEF ReceiveReply, IdOK, TypeOK, Registered, Ids
  <2>2. replyCh' = [replyCh EXCEPT ![id[p]] = <<>>]
    BY <1>8, <2>1 DEF ReceiveReply
  <2> QED BY <1>4, <1>8, <2>2 DEF ReceiveReply, TypeOK, readVars
<1>9. ASSUME NEW p \in Procs, Expire(p) PROVE TypeOK'
  BY <1>4, <1>9 DEF Expire, TypeOK, readVars
<1>10. CASE Notify
  BY <1>10 DEF Notify, TypeOK, Steps, readVars, serverVars, Stages, Procs
<1>11. CASE NotifyWrite
  <2>1. stdin' \in Seq(Requests \cup {Notice}) /\ Len(stdin') <= PipeCap
    <3>2. stdin' = stdin \/ (Len(stdin) < PipeCap /\ stdin' = Append(stdin, Notice))
      BY <1>11 DEF NotifyWrite, TypeOK
    <3> QED BY <1>b, <3>2, SeqFacts
  <2>2. mu' \in {{}} \cup {{q} : q \in Procs}
    BY <1>11 DEF NotifyWrite, TypeOK
  <2> QED BY <1>11, <2>1, <2>2 DEF NotifyWrite, TypeOK, Steps, readVars, Stages
<1>12. CASE Read
  <2>1. stdout # <<>> => Tail(stdout) \in Seq(Lines) /\ Len(Tail(stdout)) <= PipeCap
    BY SeqFacts DEF TypeOK
  <2>2. CASE ReadReply
    <3>1. Head(stdout) \in Replies
      <4>1. Head(stdout) \in Lines /\ Head(stdout).kind # "oversized"
        BY <2>2, SeqFacts DEF ReadReply, TypeOK
      <4> QED BY <4>1 DEF Lines, Replies, Oversized, Kinds
    <3> QED BY <2>1, <2>2, <3>1 DEF ReadReply, TypeOK, callVars
  <2>3. CASE Deliver
    <3>1. reply \in Replies
      BY <2>3, <1>0 DEF Deliver
    <3>2. replyCh' \in [Ids -> {<<>>} \cup {<<r>> : r \in Replies}]
      BY <2>3, <3>1 DEF Deliver, TypeOK
    <3> QED BY <2>3, <3>2 DEF Deliver, TypeOK, callVars, serverVars
  <2>4. CASE ReadEnds
    <3>1. <<>> \in Seq(Lines) /\ Len(<<>>) = 0
      BY EmptySeq
    <3> QED BY <2>4, <3>1 DEF ReadEnds, TypeOK, callVars
  <2>5. CASE MarkDead \/ DrainEnds
    BY <2>5 DEF MarkDead, DrainEnds, TypeOK, callVars, serverVars
  <2>6. CASE Drain
    <3>1. PICK i \in pending : reply' = [id |-> i, call |-> 0, kind |-> "lost"] /\ pending' = pending \ {i}
      BY <2>6 DEF Drain
    <3>2. reply' \in Replies
      BY <3>1 DEF Replies, Kinds, TypeOK
    <3> QED BY <2>6, <3>1, <3>2 DEF Drain, TypeOK, callVars, serverVars
  <2> QED BY <1>12, <2>2, <2>3, <2>4, <2>5, <2>6 DEF Read
<1>13. CASE Server
  <2>1. CASE ServerReads
    <3>1. Head(stdin) \in Requests \cup {Notice} /\ Tail(stdin) \in Seq(Requests \cup {Notice})
          /\ Len(Tail(stdin)) <= PipeCap
      BY <2>1, SeqFacts DEF ServerReads, TypeOK
    <3> QED BY <2>1, <3>1 DEF ServerReads, TypeOK, callVars, readVars
  <2>2. CASE ServerAnswers
    <3>1. PICK l \in Lines : stdout' = Append(stdout, l)
      <4>1. Oversized \in Lines
        BY DEF Lines
      <4>2. \A r \in Requests : \A k \in {"ok", "error"} : [id |-> r.id, call |-> r.call, kind |-> k] \in Lines
        BY DEF Lines, Requests, Kinds
      <4> QED BY <2>2, <4>1, <4>2 DEF ServerAnswers, TypeOK
    <3>2. stdout' \in Seq(Lines) /\ Len(stdout') <= PipeCap
      BY <2>2, <3>1, SeqFacts DEF ServerAnswers, TypeOK
    <3>3. asked' \subseteq asked
      BY <2>2 DEF ServerAnswers
    <3> QED BY <2>2, <3>2, <3>3 DEF ServerAnswers, TypeOK, callVars, readVars
  <2>3. CASE ServerCrashes
    <3>1. <<>> \in Seq(Requests \cup {Notice}) /\ Len(<<>>) = 0
      BY EmptySeq
    <3>2. stdin' = <<>> /\ asked' = {} /\ alive' = FALSE
          /\ UNCHANGED <<callVars, readVars, pending, replyCh, closed, stdout>>
      BY <2>3 DEF ServerCrashes
    <3>3. stdin' \in Seq(Requests \cup {Notice}) /\ Len(stdin') <= PipeCap
      BY <3>1, <3>2
    <3> QED BY <3>2, <3>3 DEF TypeOK, callVars, readVars
  <2> QED BY <1>13, <2>1, <2>2, <2>3 DEF Server
<1>14. CASE Shutdown
  <2>1. <<>> \in Seq(Requests \cup {Notice}) /\ Len(<<>>) = 0
    BY EmptySeq
  <2> QED BY <1>14, <2>1 DEF Shutdown, CloseClient, TypeOK, callVars, readVars
<1>15. CASE UNCHANGED vars
  BY <1>15 DEF vars, TypeOK, callVars, readVars, serverVars
<1> QED BY <1>1, <1>2, <1>3, <1>5, <1>6, <1>7, <1>8, <1>9, <1>10, <1>11, <1>12, <1>13,
           <1>14, <1>15 DEF Next, CallStep, Finished

-----------------------------------------------------------------------------
(* What a step does to the callers and to the channels.  A caller begins a  *)
(* call, takes a number, registers it, advances or leaves; readLoop reads;  *)
(* of everything else neither takes notice.                                 *)

Begins(p) ==
  /\ pc[p] = "idle" /\ pc' = [pc EXCEPT ![p] = "checkDead"]
  /\ calls' = calls + 1 /\ call' = [call EXCEPT ![p] = calls']
  /\ UNCHANGED <<id, nextID, pending, replyCh, readVars>>

Numbers(p) ==
  /\ pc[p] = "checkDead" /\ pc' = [pc EXCEPT ![p] = "store"]
  /\ nextID' = nextID + 1 /\ id' = [id EXCEPT ![p] = nextID']
  /\ UNCHANGED <<call, calls, pending, replyCh, readVars>>

Registers(p) ==
  /\ pc[p] = "store" /\ pc' = [pc EXCEPT ![p] = "recheck"]
  /\ pending' = pending \cup {id[p]}
  /\ UNCHANGED <<id, nextID, call, calls, replyCh, readVars>>

Advances(p) ==
  /\ \E next \in {"lock", "write", "wait", "notifyLock", "notifyWrite", "idle"} :
       /\ pc' = [pc EXCEPT ![p] = next]
       /\ <<pc[p], next>> \in
            {<<"recheck", "lock">>, <<"lock", "write">>, <<"write", "wait">>,
             <<"idle", "notifyLock">>, <<"notifyLock", "notifyWrite">>, <<"notifyWrite", "idle">>}
       /\ next = "lock" => ~(dead /\ id[p] \in pending)
  /\ UNCHANGED <<id, nextID, call, calls, pending, replyCh, readVars>>

Leaves(p) ==
  /\ pc' = [pc EXCEPT ![p] = "idle"]
  /\ id' = [id EXCEPT ![p] = 0] /\ call' = [call EXCEPT ![p] = 0]
  /\ pending' = pending \ {id[p]}
  /\ replyCh' \in {replyCh, [replyCh EXCEPT ![id[p]] = <<>>]}
  /\ calls' \in {calls, calls + 1}
  /\ UNCHANGED <<nextID, readVars>>

Stands == UNCHANGED <<pc, id, nextID, call, calls, pending, replyCh, readVars>>

\* Every step is one of these.
LEMMA Moves ==
  ASSUME TypeOK, IdOK, [Next]_vars
  PROVE  \/ \E p \in Procs :
              Begins(p) \/ Numbers(p) \/ Registers(p) \/ Advances(p) \/ Leaves(p)
         \/ Read \/ Stands
<1>a. pc \in [Procs -> Steps] /\ id \in [Procs -> 0..MaxCalls] /\ call \in [Procs -> 0..MaxCalls]
  BY DEF TypeOK
<1>b. closed \in BOOLEAN /\ dead \in BOOLEAN /\ alive \in BOOLEAN /\ pending \subseteq Ids
  BY DEF TypeOK
<1>c. 0 \notin pending
  BY <1>b, BoundAssumption DEF Ids
<1>1. ASSUME NEW p \in Procs, id[p] = 0, NEW kind, Refuse(p, kind),
             UNCHANGED <<id, nextID, pending, replyCh, readVars>>, calls' \in {calls, calls + 1}
      PROVE  Leaves(p)
  BY <1>1, <1>a, <1>c DEF Refuse, Leaves
<1>2. ASSUME NEW p \in Procs, NEW kind, Return(p, kind),
             replyCh' \in {replyCh, [replyCh EXCEPT ![id[p]] = <<>>]},
             UNCHANGED <<nextID, calls, readVars>>
      PROVE  Leaves(p)
  BY <1>2 DEF Return, Leaves
<1>3. ASSUME NEW p \in Procs, CheckClosed(p) PROVE Begins(p) \/ Leaves(p)
  <2>1. id[p] = 0
    BY <1>3 DEF CheckClosed, IdOK, Registered
  <2> QED BY <1>1, <1>3, <1>b, <2>1 DEF CheckClosed, Begins
<1>4. ASSUME NEW p \in Procs, CheckDead(p) PROVE Numbers(p) \/ Leaves(p)
  <2>1. id[p] = 0
    BY <1>4 DEF CheckDead, IdOK, Registered
  <2> QED BY <1>1, <1>4, <1>b, <2>1 DEF CheckDead, Numbers
<1>5. ASSUME NEW p \in Procs, Store(p) PROVE Registers(p)
  BY <1>5 DEF Store, Registers
<1>6. ASSUME NEW p \in Procs, Recheck(p) PROVE Advances(p) \/ Leaves(p)
  <2>1. CASE dead /\ id[p] \in pending
    BY <1>2, <1>6, <2>1 DEF Recheck
  <2>2. CASE ~(dead /\ id[p] \in pending)
    BY <1>6, <2>2 DEF Recheck, Advances
  <2> QED BY <2>1, <2>2
<1>7. ASSUME NEW p \in Procs, Lock(p) PROVE Advances(p)
  <2>1. /\ pc[p] \in {"lock", "notifyLock"}
        /\ pc' = [pc EXCEPT ![p] = IF pc[p] = "lock" THEN "write" ELSE "notifyWrite"]
    BY <1>7, <1>a DEF Lock
  <2> QED BY <1>7, <2>1 DEF Lock, Advances
<1>8. ASSUME NEW p \in Procs, Write(p) PROVE Advances(p) \/ Leaves(p)
  <2>1. CASE alive
    BY <1>8, <2>1 DEF Write, Advances
  <2>2. CASE ~alive
    BY <1>2, <1>8, <2>2 DEF Write
  <2> QED BY <2>1, <2>2
<1>9. ASSUME NEW p \in Procs, ReceiveReply(p) PROVE Leaves(p)
  <2>1. id[p] \in Ids /\ \E r \in Replies : replyCh[id[p]] = <<r>>
    BY <1>9 DEF ReceiveReply, IdOK, TypeOK, Registered, Ids
  <2>2. replyCh' = [replyCh EXCEPT ![id[p]] = <<>>]
    BY <1>9, <2>1 DEF ReceiveReply
  <2> QED BY <1>2, <1>9, <2>2 DEF ReceiveReply
<1>10. ASSUME NEW p \in Procs, Expire(p) PROVE Leaves(p)
  BY <1>2, <1>10 DEF Expire
<1>11. CASE Notify
  BY <1>11, <1>b DEF Notify, Advances, Stands, Procs
<1>12. CASE NotifyWrite
  BY <1>12 DEF NotifyWrite, Advances, Procs
<1>13. CASE Server \/ Shutdown \/ UNCHANGED vars
  BY <1>13 DEF Server, ServerReads, ServerAnswers, ServerCrashes, Shutdown, vars, callVars,
               readVars, serverVars, Stands
<1> QED BY <1>3, <1>4, <1>5, <1>6, <1>7, <1>8, <1>9, <1>10, <1>11, <1>12, <1>13
        DEF Next, CallStep, Finished

\* readLoop leaves the callers alone, and only takes ids out of pending.
LEMMA ReadKeepsCallers ==
  ASSUME Read
  PROVE  UNCHANGED <<pc, id, nextID, call, calls>> /\ pending' \subseteq pending
BY DEF Read, ReadReply, Deliver, ReadEnds, MarkDead, Drain, DrainEnds, callVars

\* Every step keeps what a caller holds.
LEMMA CallerStep == CallerInv /\ ReplyOK /\ [Next]_vars => CallerInv'
<1> SUFFICES ASSUME CallerInv, ReplyOK, [Next]_vars PROVE CallerInv'
  OBVIOUS
<1> USE BoundAssumption
<1>a. TypeOK /\ CountOK /\ IdOK /\ UniqueOK /\ PendingIsLive
  BY DEF CallerInv
<1>b. /\ pc \in [Procs -> Steps] /\ id \in [Procs -> 0..MaxCalls]
      /\ call \in [Procs -> 0..MaxCalls] /\ calls \in 0..MaxCalls /\ nextID \in 0..calls
  BY <1>a DEF TypeOK
<1>c. TypeOK'
  BY <1>a, TypeStep
<1>1. ASSUME NEW p \in Procs, Begins(p) PROVE CallerInv'
  <2>1. CountOK'
    <3>1. Unnumbered' = Unnumbered \cup {p} /\ p \notin Unnumbered
      BY <1>1, <1>b DEF Begins, Unnumbered
    <3>2. /\ IsFiniteSet(Unnumbered')
          /\ Cardinality(Unnumbered') = Cardinality(Unnumbered) + 1
      BY <3>1, <1>a, FS_AddElement DEF CountOK
    <3>3. Cardinality(Unnumbered) \in Nat
      BY <1>a, FS_CardinalityType DEF CountOK
    <3> QED BY <1>1, <1>a, <1>b, <3>2, <3>3 DEF CountOK, Begins
  <2>2. IdOK'
    <3>1. calls' \in Ids
      BY <1>1, <1>b, <1>c DEF TypeOK, Begins, Ids
    <3> QED BY <1>1, <1>a, <1>b, <3>1 DEF IdOK, Begins, Registered
  <2>3. UniqueOK' /\ PendingIsLive'
    BY <1>1, <1>a, <1>b DEF UniqueOK, PendingIsLive, Begins
  <2> QED BY <1>c, <2>1, <2>2, <2>3 DEF CallerInv
<1>2. ASSUME NEW p \in Procs, Numbers(p) PROVE CallerInv'
  <2>1. CountOK'
    <3>1. Unnumbered' = Unnumbered \ {p} /\ p \in Unnumbered
      BY <1>2, <1>b DEF Numbers, Unnumbered
    <3>2. /\ IsFiniteSet(Unnumbered')
          /\ Cardinality(Unnumbered') = Cardinality(Unnumbered) - 1
      BY <3>1, <1>a, FS_RemoveElement DEF CountOK
    <3>3. Cardinality(Unnumbered) \in Nat
      BY <1>a, FS_CardinalityType DEF CountOK
    <3> QED BY <1>2, <1>a, <1>b, <3>2, <3>3 DEF CountOK, Numbers
  <2>2. IdOK'
    BY <1>2, <1>a, <1>b DEF IdOK, Numbers, Registered
  <2>3. \A q \in Procs : id[q] # nextID'
    BY <1>2, <1>a, <1>b DEF IdOK, Numbers
  <2>4. UniqueOK' /\ PendingIsLive'
    BY <1>2, <1>a, <1>b, <2>3 DEF UniqueOK, PendingIsLive, Numbers
  <2> QED BY <1>c, <2>1, <2>2, <2>4 DEF CallerInv
\* From here on no caller is added to those without a number.
<1>3. ASSUME nextID' = nextID, calls' \in {calls, calls + 1},
             \A q \in Procs : pc'[q] = "checkDead" => pc[q] = "checkDead"
      PROVE  CountOK'
  BY <1>3, <1>a, CountStep
<1>4. ASSUME NEW p \in Procs, Registers(p) \/ Advances(p) PROVE CallerInv'
  <2>1. CountOK'
    BY <1>3, <1>4, <1>b DEF Registers, Advances
  <2>2. IdOK' /\ UniqueOK'
    BY <1>4, <1>a, <1>b DEF IdOK, UniqueOK, Registers, Advances, Registered
  <2>3. PendingIsLive'
    BY <1>4, <1>a, <1>b DEF PendingIsLive, Registers, Advances
  <2> QED BY <1>c, <2>1, <2>2, <2>3 DEF CallerInv
<1>5. ASSUME NEW p \in Procs, Leaves(p) PROVE CallerInv'
  <2>1. CountOK'
    BY <1>3, <1>5, <1>b DEF Leaves
  <2>2. IdOK' /\ UniqueOK'
    BY <1>5, <1>a, <1>b DEF IdOK, UniqueOK, Leaves, Registered
  <2>3. PendingIsLive'
    BY <1>5, <1>a, <1>b DEF PendingIsLive, Leaves
  <2> QED BY <1>c, <2>1, <2>2, <2>3 DEF CallerInv
<1>6. ASSUME UNCHANGED <<pc, id, nextID, call, calls>>, pending' \subseteq pending PROVE CallerInv'
  <2>1. CountOK' /\ IdOK' /\ UniqueOK' /\ PendingIsLive'
    BY <1>6, <1>a DEF CountOK, Unnumbered, IdOK, UniqueOK, PendingIsLive
  <2> QED BY <1>c, <2>1 DEF CallerInv
<1> QED BY <1>1, <1>2, <1>4, <1>5, <1>6, <1>a, Moves, ReadKeepsCallers DEF Stands

-----------------------------------------------------------------------------
\* An id, once given to a call, is never given to another.
LEMMA OwnStep ==
  ASSUME CallerInv, [Next]_vars, NEW i, NEW c, Own(i, c)
  PROVE  Own(i, c)'
<1>a. TypeOK /\ IdOK
  BY DEF CallerInv
<1>b. id \in [Procs -> 0..MaxCalls] /\ call \in [Procs -> 0..MaxCalls] /\ nextID \in 0..calls
      /\ calls \in 0..MaxCalls /\ pc \in [Procs -> Steps]
  BY <1>a DEF TypeOK
<1>c. i \in 1..nextID /\ \A q \in Procs : id[q] = i => call[q] = c
  BY DEF Own
<1>1. ASSUME NEW p \in Procs, Begins(p) PROVE Own(i, c)'
  <2>1. id[p] = 0
    BY <1>1, <1>a DEF Begins, IdOK, Registered
  <2> QED BY <1>1, <1>b, <1>c, <2>1 DEF Begins, Own
<1>2. ASSUME NEW p \in Procs, Numbers(p) PROVE Own(i, c)'
  BY <1>2, <1>b, <1>c, BoundAssumption DEF Numbers, Own
<1>3. ASSUME NEW p \in Procs, Leaves(p) PROVE Own(i, c)'
  BY <1>3, <1>b, <1>c DEF Leaves, Own
<1>4. ASSUME UNCHANGED <<id, nextID, call>> PROVE Own(i, c)'
  BY <1>4, <1>c DEF Own
<1> QED BY <1>1, <1>2, <1>3, <1>4, <1>a, Moves, ReadKeepsCallers DEF Registers, Advances, Stands

\* What travels between client and server keeps the call it belongs to.
LEMMA WireStep == CallerInv /\ WireInv /\ [Next]_vars => WireInv'
<1> SUFFICES ASSUME CallerInv, WireInv, [Next]_vars PROVE WireInv'
  OBVIOUS
<1>a. TypeOK /\ IdOK /\ UniqueOK
  BY DEF CallerInv
<1>b. closed \in BOOLEAN /\ dead \in BOOLEAN /\ alive \in BOOLEAN
  BY <1>a DEF TypeOK
<1>c. OwnRequests \subseteq OwnRequests' /\ OwnLines \subseteq OwnLines'
  BY OwnStep DEF OwnRequests, OwnLines
<1>d. /\ stdin \in Seq(OwnRequests \cup {Notice}) /\ asked \subseteq OwnRequests
      /\ stdout \in Seq(OwnLines)
  BY DEF WireInv
<1>e. /\ stdin \in Seq((OwnRequests \cup {Notice})') /\ asked \subseteq OwnRequests'
      /\ stdout \in Seq(OwnLines')
  <2>1. OwnRequests \cup {Notice} \subseteq (OwnRequests \cup {Notice})'
    BY <1>c DEF Notice
  <2> QED BY <1>c, <1>d, <2>1, SeqMonotonic
<1>f. /\ stdin # <<>> => /\ Head(stdin) \in (OwnRequests \cup {Notice})'
                         /\ Tail(stdin) \in Seq((OwnRequests \cup {Notice})')
      /\ stdout # <<>> => Tail(stdout) \in Seq(OwnLines')
  BY <1>e, SeqFacts
<1>g. <<>> \in Seq((OwnRequests \cup {Notice})') /\ <<>> \in Seq(OwnLines')
  BY EmptySeq
<1>1. ASSUME NEW p \in Procs, Write(p) PROVE WireInv'
  <2>1. CASE alive
    <3>1. [id |-> id[p], call |-> call[p]] \in OwnRequests
      <4>1. id[p] \in 1..nextID /\ id[p] \in Ids /\ call[p] \in Ids
        BY <1>1, <1>a, BoundAssumption DEF Write, IdOK, TypeOK, Registered, Ids
      <4>2. Own(id[p], call[p])
        BY <4>1, <1>a DEF Own, UniqueOK, Ids
      <4> QED BY <4>1, <4>2 DEF OwnRequests, Requests
    <3>2. stdin' = Append(stdin, [id |-> id[p], call |-> call[p]]) /\ UNCHANGED <<asked, stdout>>
      BY <1>1, <2>1 DEF Write
    <3>3. stdin' \in Seq((OwnRequests \cup {Notice})')
      BY <1>c, <1>e, <3>1, <3>2, SeqFacts
    <3> QED BY <1>e, <3>2, <3>3 DEF WireInv
  <2>2. CASE ~alive
    BY <1>1, <1>e, <2>2 DEF Write, WireInv
  <2> QED BY <2>1, <2>2
<1>2. CASE NotifyWrite
  <2>1. /\ stdin' = stdin \/ stdin' = Append(stdin, Notice)
        /\ UNCHANGED <<asked, stdout>>
    BY <1>2, <1>b DEF NotifyWrite
  <2>2. Notice \in (OwnRequests \cup {Notice})'
    BY DEF Notice
  <2>3. stdin' \in Seq((OwnRequests \cup {Notice})')
    BY <1>e, <2>1, <2>2, SeqFacts
  <2> QED BY <1>e, <2>1, <2>3 DEF WireInv
<1>3. CASE ServerReads
  <2>1. asked' \subseteq OwnRequests'
    BY <1>3, <1>e, <1>f DEF ServerReads, Notice
  <2> QED BY <1>3, <1>e, <1>f, <2>1 DEF ServerReads, WireInv
<1>4. CASE ServerAnswers
  <2>1. PICK l \in OwnLines : stdout' = Append(stdout, l)
    <3>1. Oversized \in OwnLines
      BY DEF OwnLines, Lines
    <3>2. \A r \in OwnRequests : \A k \in {"ok", "error"} :
            [id |-> r.id, call |-> r.call, kind |-> k] \in OwnLines
      BY DEF OwnRequests, OwnLines, Lines, Requests, Kinds
    <3> QED BY <1>4, <1>d, <3>1, <3>2 DEF ServerAnswers
  <2>2. stdout' \in Seq(OwnLines')
    BY <1>c, <1>e, <2>1, SeqFacts
  <2>3. asked' \subseteq asked /\ UNCHANGED stdin
    BY <1>4 DEF ServerAnswers
  <2> QED BY <1>e, <2>2, <2>3 DEF WireInv
<1>5. CASE ServerCrashes \/ Shutdown
  BY <1>5, <1>e, <1>g DEF ServerCrashes, Shutdown, WireInv
<1>6. CASE Read
  <2>1. UNCHANGED <<stdin, asked>> /\ stdout' \in {stdout, Tail(stdout), <<>>}
        /\ (stdout = <<>> => stdout' = <<>>)
    BY <1>6 DEF Read, ReadReply, Deliver, ReadEnds, MarkDead, Drain, DrainEnds, serverVars
  <2>2. stdout' \in Seq(OwnLines')
    BY <2>1, <1>e, <1>f, <1>g
  <2> QED BY <1>e, <2>1, <2>2 DEF WireInv
<1>7. ASSUME UNCHANGED <<stdin, asked, stdout>> PROVE WireInv'
  BY <1>7, <1>e DEF WireInv
<1>8. ASSUME NEW p \in Procs,
             CheckClosed(p) \/ CheckDead(p) \/ Store(p) \/ Recheck(p) \/ Lock(p)
               \/ ReceiveReply(p) \/ Expire(p)
      PROVE  WireInv'
  BY <1>7, <1>8 DEF CheckClosed, CheckDead, Store, Recheck, Lock, ReceiveReply, Expire, serverVars
<1>9. CASE Notify \/ UNCHANGED vars
  BY <1>7, <1>9 DEF Notify, vars, serverVars
<1> QED BY <1>1, <1>2, <1>3, <1>4, <1>5, <1>6, <1>8, <1>9
        DEF Next, CallStep, Server, Finished

-----------------------------------------------------------------------------
\* What readLoop is about to send, and what it sent, is for the caller that waits
\* on that id, and is sent once; a registered call has it still to come.
LEMMA ChannelStep == CallerInv /\ WireInv /\ ChannelInv /\ [Next]_vars => ChannelInv'
<1> SUFFICES ASSUME CallerInv, WireInv, ChannelInv, [Next]_vars PROVE ChannelInv'
  OBVIOUS
<1> USE BoundAssumption
<1>a. TypeOK /\ IdOK /\ UniqueOK
  BY DEF CallerInv
<1>b. /\ pc \in [Procs -> Steps] /\ id \in [Procs -> 0..MaxCalls] /\ pending \subseteq Ids
      /\ replyCh \in [Ids -> {<<>>} \cup {<<r>> : r \in Replies}]
      /\ calls \in 0..MaxCalls /\ nextID \in 0..calls
  BY <1>a DEF TypeOK
<1>c. ReplyOK /\ HeldOK /\ AnsweredOK /\ ExpectedOK
  BY DEF ChannelInv
\* A step of a caller leaves readLoop as it is, and at most empties its channel.
<1>1. ASSUME UNCHANGED readVars, \A i \in Ids : replyCh'[i] \in {replyCh[i], <<>>}
      PROVE  ReplyOK' /\ HeldOK' /\ \A i \in Ids : Answered(i)' => Answered(i)
  <2>1. \A i \in Ids : Answered(i)' => Answered(i)
    BY <1>1 DEF Answered, Answering, readVars
  <2>2. ReplyOK'
    <3>1. ASSUME reader = "deliver"
          PROVE  /\ reply \in Replies /\ reply.id \in Ids /\ replyCh[reply.id] = <<>>
                 /\ reply.call = 0 \/ Own(reply.id, reply.call)
      BY <3>1, <1>c DEF ReplyOK, Replies
    <3>2. reader' = reader /\ reply' = reply
      BY <1>1 DEF readVars
    <3>3. ASSUME reader = "deliver" PROVE reply'.call = 0 \/ Own(reply.id, reply.call)'
      <4>1. PICK i, c : i = reply.id /\ c = reply.call
        OBVIOUS
      <4>2. c = 0 \/ Own(i, c)'
        BY <3>1, <3>3, <4>1, OwnStep
      <4> QED BY <3>2, <4>1, <4>2 DEF Own
    <3> QED BY <1>1, <3>1, <3>2, <3>3 DEF ReplyOK
  <2>3. HeldOK'
    <3>1. ASSUME NEW i \in Ids, replyCh'[i] # <<>>
          PROVE  Head(replyCh'[i]).call = 0 \/ Own(i, Head(replyCh[i]).call)'
      <4>1. replyCh'[i] = replyCh[i]
        BY <1>1, <3>1
      <4>2. Head(replyCh[i]).call = 0 \/ Own(i, Head(replyCh[i]).call)
        BY <1>c, <3>1, <4>1 DEF HeldOK
      <4> QED BY <4>1, <4>2, OwnStep DEF Own
    <3> QED BY <3>1 DEF HeldOK
  <2> QED BY <2>1, <2>2, <2>3
<1>2. ASSUME NEW p \in Procs, Begins(p) \/ Numbers(p) \/ Advances(p) \/ Registers(p)
      PROVE  ChannelInv'
  <2>1. ReplyOK' /\ HeldOK' /\ \A i \in Ids : Answered(i)' <=> Answered(i)
    <3>1. UNCHANGED <<readVars, replyCh>>
      BY <1>2 DEF Begins, Numbers, Advances, Registers
    <3>2. \A i \in Ids : Answered(i)' <=> Answered(i)
      BY <3>1 DEF Answered, Answering, readVars
    <3> QED BY <1>1, <3>1, <3>2
  <2>2. /\ nextID' >= nextID /\ nextID' \in Nat
        /\ \A i \in pending' : i \in pending \/ (i = id[p] /\ pc[p] = "store")
        /\ \A q \in Procs \ {p} : id'[q] = id[q] /\ pc'[q] = pc[q]
        /\ pc'[p] = "store" => id'[p] = nextID + 1
    BY <1>2, <1>b DEF Begins, Numbers, Advances, Registers
  <2>3. AnsweredOK'
    <3>1. ASSUME NEW i \in Ids, Answered(i)
          PROVE  /\ i \in 1..nextID' /\ i \notin pending'
                 /\ \A q \in Procs : id'[q] = i => pc'[q] # "store"
      <4>1. i \in 1..nextID /\ i \notin pending /\ \A q \in Procs : id[q] = i => pc[q] # "store"
        BY <1>c, <3>1 DEF AnsweredOK
      <4> QED BY <1>b, <2>2, <4>1
    <3> QED BY <2>1, <3>1 DEF AnsweredOK
  <2>4. ExpectedOK'
    <3>1. ASSUME NEW q \in Procs, pc'[q] \in Registered
          PROVE  (id[q] \in pending \/ Answered(id[q]))'
      <4>1. /\ id'[q] = id[q] /\ pending \subseteq pending'
            /\ pc[q] \in Registered \/ (q = p /\ Registers(p))
        BY <1>2, <3>1, <1>b DEF Begins, Numbers, Advances, Registers, Registered
      <4>2. CASE pc[q] \in Registered
        <5>1. id[q] \in Ids
          BY <4>2, <1>a, <1>b DEF IdOK, Ids
        <5>2. id[q] \in pending \/ Answered(id[q])
          BY <4>2, <1>c DEF ExpectedOK
        <5> QED BY <2>1, <4>1, <5>1, <5>2 DEF Answered, Answering
      <4>3. CASE q = p /\ Registers(p)
        BY <4>1, <4>3 DEF Registers
      <4> QED BY <4>1, <4>2, <4>3
    <3> QED BY <3>1 DEF ExpectedOK, Answered, Answering
  <2> QED BY <2>1, <2>3, <2>4 DEF ChannelInv
<1>3. ASSUME NEW p \in Procs, Leaves(p) PROVE ChannelInv'
  <2>1. ReplyOK' /\ HeldOK' /\ \A i \in Ids : Answered(i)' => Answered(i)
    BY <1>1, <1>3, <1>b DEF Leaves
  <2>2. AnsweredOK'
    <3>1. ASSUME NEW i \in Ids, Answered(i)
          PROVE  /\ i \in 1..nextID' /\ i \notin pending'
                 /\ \A q \in Procs : id'[q] = i => pc'[q] # "store"
      <4>1. i \in 1..nextID /\ i \notin pending /\ \A q \in Procs : id[q] = i => pc[q] # "store"
        BY <1>c, <3>1 DEF AnsweredOK
      <4> QED BY <1>3, <1>b, <4>1 DEF Leaves
    <3> QED BY <2>1, <3>1 DEF AnsweredOK
  <2>3. ExpectedOK'
    <3>1. ASSUME NEW q \in Procs, pc'[q] \in Registered
          PROVE  (id[q] \in pending \/ Answered(id[q]))'
      <4>1. q # p /\ id'[q] = id[q] /\ pc[q] \in Registered
        BY <1>3, <3>1, <1>b DEF Leaves, Registered
      <4>2. id[q] \in Ids /\ id[q] # id[p]
        BY <4>1, <1>a, <1>b DEF IdOK, UniqueOK, Ids
      <4>3. id[q] \in pending \/ Answered(id[q])
        BY <4>1, <1>c DEF ExpectedOK
      <4>4. replyCh'[id[q]] = replyCh[id[q]] /\ UNCHANGED readVars /\ pending' = pending \ {id[p]}
        BY <1>3, <1>b, <4>2 DEF Leaves
      <4> QED BY <4>1, <4>2, <4>3, <4>4 DEF Answered, Answering, readVars
    <3> QED BY <3>1 DEF ExpectedOK, Answered, Answering
  <2> QED BY <2>1, <2>2, <2>3 DEF ChannelInv
\* readLoop neither holds a reply nor takes one.
<1>4. ASSUME reader # "deliver", reader' # "deliver",
             UNCHANGED <<pc, id, nextID, pending, replyCh>>
      PROVE  ChannelInv'
  <2>1. \A i \in Ids : Answered(i)' <=> Answered(i)
    BY <1>4 DEF Answered, Answering
  <2>2. HeldOK'
    <3>1. ASSUME NEW i \in Ids, replyCh[i] # <<>>
          PROVE  Head(replyCh[i]).call = 0 \/ Own(i, Head(replyCh[i]).call)'
      <4>1. PICK c : c = Head(replyCh[i]).call
        OBVIOUS
      <4>2. c = 0 \/ Own(i, c)'
        BY <1>c, <3>1, <4>1, OwnStep DEF HeldOK
      <4> QED BY <1>4, <4>1, <4>2 DEF Own
    <3> QED BY <1>4, <3>1 DEF HeldOK
  <2>3. ReplyOK' /\ AnsweredOK'
    BY <1>4, <1>c, <2>1 DEF ReplyOK, AnsweredOK
  <2>4. ExpectedOK'
    <3>1. ASSUME NEW q \in Procs, pc[q] \in Registered PROVE id[q] \in Ids
      BY <3>1, <1>a, <1>b DEF IdOK, Ids
    <3> QED BY <1>4, <1>c, <2>1, <3>1 DEF ExpectedOK, Answered, Answering
  <2> QED BY <2>2, <2>3, <2>4 DEF ChannelInv
\* It takes the entry of an id out of pending, with a reply to send.
<1>5. ASSUME NEW r \in Replies, r.id \in pending, r.call = 0 \/ Own(r.id, r.call),
             reader # "deliver", reader' = "deliver", reply' = r, pending' = pending \ {r.id},
             UNCHANGED <<pc, id, nextID, call, calls, replyCh>>
      PROVE  ChannelInv'
  <2>1. ~Answered(r.id) /\ r.id \in 1..nextID
        /\ \A q \in Procs : id[q] = r.id => pc[q] # "store"
    <3>1. PICK q \in Procs : id[q] = r.id /\ pc[q] \in Registered
      BY <1>5 DEF CallerInv, PendingIsLive, Registered
    <3>2. r.id \in 1..nextID
      BY <3>1, <1>a DEF IdOK
    <3> QED BY <1>5, <1>a, <1>b, <1>c, <3>1, <3>2 DEF AnsweredOK, UniqueOK, Registered
  <2>2. ReplyOK'
    <3>1. r.call = 0 \/ Own(r.id, r.call)'
      BY <1>5, OwnStep
    <3> QED BY <1>5, <2>1, <3>1 DEF ReplyOK, Answered, Own
  <2>3. HeldOK'
    <3>1. ASSUME NEW i \in Ids, replyCh[i] # <<>>
          PROVE  Head(replyCh[i]).call = 0 \/ Own(i, Head(replyCh[i]).call)
      BY <1>c, <3>1 DEF HeldOK
    <3> QED BY <1>5, <3>1 DEF HeldOK, Own
  <2>4. \A i \in Ids : Answered(i)' <=> Answered(i) \/ i = r.id
    BY <1>5 DEF Answered, Answering
  <2>5. AnsweredOK'
    BY <1>5, <1>c, <2>1, <2>4 DEF AnsweredOK
  <2>6. ExpectedOK'
    <3>1. ASSUME NEW q \in Procs, pc[q] \in Registered PROVE id[q] \in Ids
      BY <3>1, <1>a, <1>b DEF IdOK, Ids
    <3>2. \A q \in Procs : pc[q] \in Registered => id[q] \in pending' \/ Answered(id[q]) \/ id[q] = r.id
      BY <1>5, <1>c DEF ExpectedOK
    <3> QED BY <1>5, <3>1, <3>2 DEF ExpectedOK, Answered, Answering
  <2> QED BY <2>2, <2>3, <2>5, <2>6 DEF ChannelInv
<1>6. CASE Deliver
  <2>1. /\ reader = "deliver" /\ reader' # "deliver"
        /\ reply \in Replies /\ reply.id \in Ids /\ replyCh[reply.id] = <<>>
        /\ reply.call = 0 \/ Own(reply.id, reply.call)
    BY <1>6, <1>c DEF Deliver, ReplyOK, Replies
  <2>2. /\ replyCh' = [replyCh EXCEPT ![reply.id] = <<reply>>]
        /\ UNCHANGED <<pc, id, nextID, call, calls, pending>>
    BY <1>6 DEF Deliver, callVars
  <2>3. \A i \in Ids : Answered(i)' <=> Answered(i)
    BY <2>1, <2>2, <1>b DEF Answered, Answering
  <2>4. HeldOK'
    <3>1. ASSUME NEW i \in Ids, replyCh'[i] # <<>>
          PROVE  Head(replyCh'[i]).call = 0 \/ Own(i, Head(replyCh'[i]).call)
      BY <1>b, <1>c, <2>1, <2>2, <3>1 DEF HeldOK, Own
    <3> QED BY <2>2, <3>1 DEF HeldOK, Own
  <2>5. ReplyOK' /\ AnsweredOK'
    BY <1>c, <2>1, <2>2, <2>3 DEF ReplyOK, AnsweredOK
  <2>6. ExpectedOK'
    <3>1. ASSUME NEW q \in Procs, pc[q] \in Registered
          PROVE  id[q] \in Ids /\ (id[q] \in pending \/ Answered(id[q]))
      BY <3>1, <1>a, <1>b, <1>c DEF IdOK, Ids, ExpectedOK
    <3>2. \A q \in Procs : pc[q] \in Registered => (id[q] \in pending \/ Answered(id[q]))'
      <4>1. ASSUME NEW q \in Procs, pc[q] \in Registered PROVE (id[q] \in pending \/ Answered(id[q]))'
        <5>1. PICK i \in Ids : i = id[q]
          BY <3>1, <4>1
        <5>2. i \in pending \/ Answered(i)'
          BY <2>3, <3>1, <4>1, <5>1
        <5> QED BY <2>2, <5>1, <5>2 DEF Answered, Answering
      <4> QED BY <4>1
    <3> QED BY <2>2, <3>2 DEF ExpectedOK
  <2> QED BY <2>4, <2>5, <2>6 DEF ChannelInv
<1>7. CASE Read
  <2>1. CASE ReadReply
    <3>1. PICK r : r = Head(stdout)
      OBVIOUS
    <3>2. r \in OwnLines /\ r.kind # "oversized"
      BY <2>1, <3>1, SeqFacts DEF ReadReply, WireInv
    <3>3. r \in Replies /\ Own(r.id, r.call)
      BY <3>2 DEF OwnLines, Lines, Replies, Oversized, Kinds
    <3>4. UNCHANGED <<pc, id, nextID, call, calls, replyCh>> /\ reader = "read"
      BY <2>1 DEF ReadReply, callVars
    <3>5. CASE r.id \in pending
      BY <1>5, <2>1, <3>1, <3>3, <3>4, <3>5 DEF ReadReply
    <3>6. CASE r.id \notin pending
      BY <1>4, <2>1, <3>1, <3>4, <3>6 DEF ReadReply
    <3> QED BY <3>5, <3>6
  <2>2. CASE Drain
    <3>1. PICK i \in pending : /\ pending' = pending \ {i}
                               /\ reply' = [id |-> i, call |-> 0, kind |-> "lost"]
      BY <2>2 DEF Drain
    <3>2. PICK r : r = [id |-> i, call |-> 0, kind |-> "lost"]
      OBVIOUS
    <3>3. r \in Replies /\ r.id = i /\ r.call = 0
      BY <1>b, <3>2 DEF Replies, Kinds
    <3>4. UNCHANGED <<pc, id, nextID, call, calls, replyCh>> /\ reader # "deliver" /\ reader' = "deliver"
      BY <2>2 DEF Drain, callVars
    <3> QED BY <1>5, <3>1, <3>2, <3>3, <3>4
  <2>3. CASE ReadEnds \/ MarkDead \/ DrainEnds
    BY <1>4, <2>3 DEF ReadEnds, MarkDead, DrainEnds, callVars
  <2> QED BY <1>6, <1>7, <2>1, <2>2, <2>3 DEF Read
<1>8. CASE Stands
  <2>1. \A i \in Ids : Answered(i)' <=> Answered(i)
    BY <1>8 DEF Stands, Answered, Answering, readVars
  <2>2. ReplyOK' /\ HeldOK'
    BY <1>1, <1>8 DEF Stands
  <2>3. AnsweredOK' /\ ExpectedOK'
    BY <1>8, <1>c DEF Stands, AnsweredOK, ExpectedOK, Answered, Answering, readVars
  <2> QED BY <2>2, <2>3 DEF ChannelInv
<1> QED BY <1>2, <1>3, <1>7, <1>8, <1>a, Moves

-----------------------------------------------------------------------------
\* Once the server is marked dead, whoever passed the second check is answered or
\* will be visited by Drain.
LEMMA LostStep == CallerInv /\ ChannelInv /\ LostInv /\ [Next]_vars => LostInv'
<1> SUFFICES ASSUME CallerInv, ChannelInv, LostInv, [Next]_vars PROVE LostInv'
  OBVIOUS
<1>a. TypeOK /\ IdOK /\ UniqueOK
  BY DEF CallerInv
<1>b. pc \in [Procs -> Steps] /\ id \in [Procs -> 0..MaxCalls] /\ dead \in BOOLEAN
  BY <1>a DEF TypeOK
<1>c. DeadOK /\ VisitOK
  BY DEF LostInv
<1>1. ASSUME UNCHANGED readVars,
             dead => \A q \in Procs : pc'[q] \in Checked /\ id'[q] \in pending' =>
                       pc[q] \in Checked /\ id[q] \in pending /\ id'[q] = id[q]
      PROVE  LostInv'
  <2>1. DeadOK'
    BY <1>1, <1>c DEF DeadOK, readVars
  <2>2. VisitOK'
    BY <1>1, <1>c DEF VisitOK, readVars
  <2> QED BY <2>1, <2>2 DEF LostInv
<1>2. ASSUME NEW p \in Procs, Begins(p) \/ Numbers(p) PROVE LostInv'
  BY <1>1, <1>2, <1>b DEF Begins, Numbers, Checked
<1>3. ASSUME NEW p \in Procs, Registers(p) PROVE LostInv'
  <2>1. id[p] # 0
    BY <1>3, <1>a, <1>b DEF Registers, IdOK, TypeOK
  <2> QED BY <1>1, <1>3, <1>a, <1>b, <2>1 DEF Registers, Checked, UniqueOK
<1>4. ASSUME NEW p \in Procs, Advances(p) PROVE LostInv'
  BY <1>1, <1>4, <1>b DEF Advances, Checked
<1>5. ASSUME NEW p \in Procs, Leaves(p) PROVE LostInv'
  BY <1>1, <1>5, <1>b DEF Leaves, Checked
<1>6. CASE Read
  <2>1. UNCHANGED <<pc, id>> /\ pending' \subseteq pending
    BY <1>6, ReadKeepsCallers
  <2>2. CASE ReadReply \/ Deliver \/ ReadEnds \/ Drain
    <3>1. UNCHANGED <<dead, visit>>
      BY <2>2 DEF ReadReply, Deliver, ReadEnds, Drain
    <3>2. DeadOK'
      <4>1. reader \in {"read", "deliver", "lost", "drain", "ended"}
        BY <1>a DEF TypeOK
      <4> QED BY <1>b, <1>c, <2>2, <3>1, <4>1 DEF ReadReply, Deliver, ReadEnds, Drain, DeadOK
    <3>3. VisitOK'
      BY <1>c, <2>1, <3>1 DEF VisitOK
    <3> QED BY <3>2, <3>3 DEF LostInv
  <2>3. CASE MarkDead
    BY <2>1, <2>3 DEF MarkDead, LostInv, DeadOK, VisitOK, callVars
  <2>4. CASE DrainEnds
    BY <1>c, <2>1, <2>4 DEF DrainEnds, LostInv, DeadOK, VisitOK, callVars
  <2> QED BY <1>6, <2>2, <2>3, <2>4 DEF Read
<1>7. CASE Stands
  BY <1>1, <1>7 DEF Stands
<1> QED BY <1>2, <1>3, <1>4, <1>5, <1>6, <1>7, <1>a, Moves

-----------------------------------------------------------------------------
\* The invariant behind the theorems: every part is needed by another.
THEOREM Connection == Spec => [](CallerInv /\ WireInv /\ ChannelInv /\ LostInv)
<1>1. Init => CallerInv /\ WireInv /\ ChannelInv /\ LostInv
  <2> SUFFICES ASSUME Init PROVE WireInv /\ ChannelInv /\ LostInv
    BY CallerInit
  <2>1. WireInv
    BY EmptySeq DEF Init, WireInv
  <2>2. ChannelInv
    BY DEF Init, ChannelInv, ReplyOK, HeldOK, AnsweredOK, ExpectedOK, Answered, Answering, Registered
  <2>3. LostInv
    BY DEF Init, LostInv, DeadOK, VisitOK
  <2> QED BY <2>1, <2>2, <2>3
<1>2. CallerInv /\ WireInv /\ ChannelInv /\ LostInv /\ [Next]_vars
        => (CallerInv /\ WireInv /\ ChannelInv /\ LostInv)'
  BY CallerStep, WireStep, ChannelStep, LostStep DEF ChannelInv
<1> QED BY <1>1, <1>2, PTL DEF Spec

\* Whatever order the answers come in, repeated or late, no caller is handed the
\* answer of another call (readLoop's dispatch, client.go:173-187, and the wait of
\* call, client.go:249-257).
THEOREM OwnAnswerHolds == Spec => []OwnAnswer
<1>1. CallerInv /\ ChannelInv => OwnAnswer
  <2> SUFFICES ASSUME CallerInv, ChannelInv, NEW p \in Procs, pc[p] = "wait", replyCh[id[p]] # <<>>
               PROVE  Head(replyCh[id[p]]).call \in {0, call[p]}
    BY DEF OwnAnswer
  <2>1. id[p] \in Ids
    BY BoundAssumption DEF CallerInv, IdOK, Registered, TypeOK, Ids
  <2> QED BY <2>1 DEF ChannelInv, HeldOK, Own
<1> QED BY <1>1, Connection, PTL

\* The table of pending calls is in order: an entry belongs to a call under way,
\* and the send of readLoop finds its channel empty.
THEOREM PendingIsSoundHolds == Spec => []PendingIsSound
<1>1. CallerInv /\ ChannelInv => PendingIsSound
  BY DEF CallerInv, ChannelInv, ReplyOK, PendingIsSound, ReaderNeverBlocks
<1> QED BY <1>1, Connection, PTL

\* When readLoop is gone, every call that still waits has its error: the check after
\* the registration closes the gap between the two orders of Store and Drain.
THEOREM LostIsReportedHolds == Spec => []LostIsReported
<1>1. CallerInv /\ ChannelInv /\ LostInv => LostIsReported
  <2> SUFFICES ASSUME CallerInv, ChannelInv, LostInv, reader = "ended",
                      NEW p \in Procs, pc[p] = "wait"
               PROVE  replyCh[id[p]] # <<>>
    BY DEF LostIsReported
  <2>1. dead /\ visit = {} /\ id[p] \notin pending
    BY DEF LostInv, DeadOK, VisitOK, Checked
  <2> QED BY <2>1 DEF ChannelInv, ExpectedOK, Answered, Answering, Registered
<1> QED BY <1>1, Connection, PTL
=============================================================================
