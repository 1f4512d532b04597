------------------------------ MODULE McpClient ------------------------------
(***************************************************************************)
(* One MCP server connection (internal/mcp/client.go): a JSON-RPC client   *)
(* over the pipes of a child process.  Callers register a reply channel    *)
(* under a fresh id, write the request and wait for the reply or their     *)
(* deadline; one goroutine, readLoop, hands out the replies and fails      *)
(* every pending call when the server is gone.  The handshake of NewClient *)
(* is made by Boot; the users may call once it has succeeded.              *)
(*                                                                         *)
(* A request carries its wire id and, as a ghost, the call it stands for.  *)
(***************************************************************************)
EXTENDS Naturals, Sequences, FiniteSets

CONSTANTS
  Users,     \* goroutines that call tools
  Boot,      \* the goroutine that runs NewClient
  MaxCalls,  \* bound on the calls made over the connection
  PipeCap,   \* requests, and answers, that the pipes hold
  NoReply    \* no reply being delivered

Procs == Users \cup {Boot}
Ids == 1..MaxCalls

ASSUME ProcAssumption == Boot \notin Users
ASSUME BoundAssumption == MaxCalls \in Nat /\ PipeCap \in Nat \ {0}

\* "error" is an RPC error, or a result that does not parse; "oversized" is a
\* line longer than the scanner's buffer.
Kinds == {"ok", "error", "lost"}
Oversized == [id |-> 0, call |-> 0, kind |-> "oversized"]
Requests == [id : Ids, call : Ids]
Notice == [id |-> 0, call |-> 0]   \* a notification asks for no reply
Replies == [id : Ids, call : Ids \cup {0}, kind : Kinds]
Lines == [id : Ids, call : Ids, kind : Kinds \ {"lost"}] \cup {Oversized}

VARIABLES
  stage,    \* how far the handshake of NewClient has come
  pc,       \* where each caller is inside call
  id,       \* the wire id of its call, 0 outside one
  nextID,   \* the ids given out
  call,     \* ghost: which call each caller is making, 0 if none
  calls,    \* ghost: the calls begun
  pending,  \* ids with a registered reply channel
  replyCh,  \* the reply channel of every id, of capacity one
  mu,       \* the callers holding the mutex of stdin
  closed, dead,
  reader,   \* where readLoop is
  reply,    \* the reply readLoop is about to send
  visit,    \* ids readLoop's Range must still visit
  alive, stdin, asked, stdout   \* the server process and its pipes

callVars == <<stage, pc, id, nextID, call, calls, mu>>
readVars == <<dead, reader, reply, visit>>
serverVars == <<alive, stdin, asked, stdout>>
vars == <<callVars, readVars, serverVars, pending, replyCh, closed>>

Stages == {"initialize", "notify", "list", "ready", "failed"}
Steps == {"idle", "checkDead", "store", "recheck", "lock", "write", "wait",
          "notifyLock", "notifyWrite"}

Init ==
  /\ stage = "initialize"
  /\ pc = [p \in Procs |-> "idle"]
  /\ id = [p \in Procs |-> 0]
  /\ call = [p \in Procs |-> 0]
  /\ nextID = 0 /\ calls = 0
  /\ pending = {}
  /\ replyCh = [i \in Ids |-> <<>>]
  /\ mu = {}
  /\ closed = FALSE /\ dead = FALSE
  /\ reader = "read" /\ reply = NoReply /\ visit = {}
  /\ alive = TRUE /\ stdin = <<>> /\ asked = {} /\ stdout = <<>>

-----------------------------------------------------------------------------
(* The child process, modelled from what the client must cope with.        *)

ServerReads ==
  /\ alive /\ stdin # <<>>
  /\ asked' = asked \cup ({Head(stdin)} \ {Notice})
  /\ stdin' = Tail(stdin)
  /\ UNCHANGED <<callVars, readVars, pending, replyCh, closed, alive, stdout>>

\* It answers in any order, possibly twice, possibly never, and may write a
\* line the client refuses.  Past the handshake "ok" stands for an RPC error too:
\* a user's call returns either in the same way.
ServerAnswers ==
  /\ alive /\ Len(stdout) < PipeCap
  /\ \/ \E r \in asked, k \in IF stage = "ready" THEN {"ok"} ELSE {"ok", "error"} :
          /\ stdout' = Append(stdout, [id |-> r.id, call |-> r.call, kind |-> k])
          /\ asked' \in {asked, asked \ {r}}
     \/ stdout' = Append(stdout, Oversized) /\ asked' = asked
  /\ UNCHANGED <<callVars, readVars, pending, replyCh, closed, alive, stdin>>

\* What it had read, and what was still in its stdin, is gone.
ServerCrashes ==
  /\ alive /\ alive' = FALSE
  /\ stdin' = <<>> /\ asked' = {}
  /\ UNCHANGED <<callVars, readVars, pending, replyCh, closed, stdout>>

-----------------------------------------------------------------------------
(* call *)

CloseClient_NoKill ==
  /\ closed' = TRUE
  /\ alive' = alive

\* Close: a second call returns at once; the first one kills the process.
CloseClient ==
  /\ closed' = TRUE
  /\ alive' = IF closed THEN alive ELSE FALSE

\* NewClient's reaction to the end of a call it made: proceed, or Close and fail.
Handshake(p, kind) ==
  IF p # Boot
    THEN UNCHANGED <<stage, closed, alive>>
    ELSE IF kind = "ok"
      THEN /\ stage' = IF stage = "initialize" THEN "notify" ELSE "ready"
           /\ UNCHANGED <<closed, alive>>
      ELSE stage' = "failed" /\ CloseClient

\* Every return of call runs the deferred pending.Delete.
Return(p, kind) ==
  /\ pc' = [pc EXCEPT ![p] = "idle"]
  /\ id' = [id EXCEPT ![p] = 0]
  /\ call' = [call EXCEPT ![p] = 0]
  /\ pending' = pending \ {id[p]}
  /\ Handshake(p, kind)

\* The two early returns, before anything is registered.
Refuse(p, kind) ==
  /\ pc' = [pc EXCEPT ![p] = "idle"]
  /\ call' = [call EXCEPT ![p] = 0]
  /\ Handshake(p, kind)

CheckClosed(p) ==
  /\ pc[p] = "idle" /\ calls < MaxCalls
  /\ IF p = Boot THEN stage \in {"initialize", "list"} ELSE stage = "ready"
  /\ calls' = calls + 1
  /\ IF closed
       THEN Refuse(p, "closed")
       ELSE /\ pc' = [pc EXCEPT ![p] = "checkDead"]
            /\ call' = [call EXCEPT ![p] = calls + 1]
            /\ UNCHANGED <<stage, closed, alive>>
  /\ UNCHANGED <<id, nextID, mu, readVars, pending, replyCh, stdin, asked, stdout>>

CheckDead_IdFromPending(p) ==
  /\ pc[p] = "checkDead"
  /\ IF dead
       THEN Refuse(p, "lost") /\ UNCHANGED <<id, nextID>>
       ELSE /\ nextID' = Cardinality(pending) + 1
            /\ id' = [id EXCEPT ![p] = Cardinality(pending) + 1]
            /\ pc' = [pc EXCEPT ![p] = "store"]
            /\ UNCHANGED <<call, stage, closed, alive>>
  /\ UNCHANGED <<calls, mu, readVars, pending, replyCh, stdin, asked, stdout>>

CheckDead(p) ==
  /\ pc[p] = "checkDead"
  /\ IF dead
       THEN Refuse(p, "lost") /\ UNCHANGED <<id, nextID>>
       ELSE /\ nextID' = nextID + 1
            /\ id' = [id EXCEPT ![p] = nextID + 1]
            /\ pc' = [pc EXCEPT ![p] = "store"]
            /\ UNCHANGED <<call, stage, closed, alive>>
  /\ UNCHANGED <<calls, mu, readVars, pending, replyCh, stdin, asked, stdout>>

Store(p) ==
  /\ pc[p] = "store"
  /\ pending' = pending \cup {id[p]}
  /\ pc' = [pc EXCEPT ![p] = "recheck"]
  /\ UNCHANGED <<stage, id, nextID, call, calls, mu, readVars, replyCh, closed, serverVars>>

Recheck_Omitted(p) ==
  /\ pc[p] = "recheck"
  /\ pc' = [pc EXCEPT ![p] = "lock"]
  /\ UNCHANGED <<id, call, stage, closed, alive, pending>>
  /\ UNCHANGED <<nextID, calls, mu, readVars, replyCh, stdin, asked, stdout>>

\* If readLoop drained pending before the Store, nobody would answer; if it
\* already took the entry, its error is in the channel.
Recheck(p) ==
  /\ pc[p] = "recheck"
  /\ IF dead /\ id[p] \in pending
       THEN Return(p, "lost")
       ELSE /\ pc' = [pc EXCEPT ![p] = "lock"]
            /\ UNCHANGED <<id, call, stage, closed, alive, pending>>
  /\ UNCHANGED <<nextID, calls, mu, readVars, replyCh, stdin, asked, stdout>>

Lock(p) ==
  /\ pc[p] \in {"lock", "notifyLock"} /\ mu = {}
  /\ mu' = mu \cup {p}
  /\ pc' = [pc EXCEPT ![p] = IF @ = "lock" THEN "write" ELSE "notifyWrite"]
  /\ UNCHANGED <<stage, id, nextID, call, calls, readVars, pending, replyCh, closed, serverVars>>

\* The write blocks while the pipe is full and fails once its reader is gone.
Write(p) ==
  /\ pc[p] = "write"
  /\ mu' = mu \ {p}
  /\ \/ /\ alive /\ Len(stdin) < PipeCap
        /\ stdin' = Append(stdin, [id |-> id[p], call |-> call[p]])
        /\ pc' = [pc EXCEPT ![p] = "wait"]
        /\ UNCHANGED <<id, call, stage, closed, alive, pending>>
     \/ /\ ~alive
        /\ Return(p, "writeError")
        /\ UNCHANGED stdin
  /\ UNCHANGED <<nextID, calls, readVars, replyCh, asked, stdout>>

ReceiveReply(p) ==
  /\ pc[p] = "wait" /\ replyCh[id[p]] # <<>>
  /\ Return(p, Head(replyCh[id[p]]).kind)
  /\ replyCh' = [replyCh EXCEPT ![id[p]] = Tail(@)]
  /\ UNCHANGED <<nextID, calls, mu, readVars, stdin, asked, stdout>>

Expire_HandshakeOnly(p) ==
  /\ pc[p] = "wait" /\ p = Boot
  /\ Return(p, "timeout")
  /\ UNCHANGED <<nextID, calls, mu, readVars, replyCh, stdin, asked, stdout>>

\* The deadline of the call, or of the whole handshake, or a cancelled caller.
Expire(p) ==
  /\ pc[p] = "wait"
  /\ Return(p, "timeout")
  /\ UNCHANGED <<nextID, calls, mu, readVars, replyCh, stdin, asked, stdout>>

\* notify registers nothing and ignores the error of its write.
Notify ==
  /\ stage = "notify" /\ pc[Boot] = "idle"
  /\ IF closed THEN stage' = "list" /\ pc' = pc
               ELSE stage' = stage /\ pc' = [pc EXCEPT ![Boot] = "notifyLock"]
  /\ UNCHANGED <<id, nextID, call, calls, mu, readVars, serverVars, pending, replyCh, closed>>

NotifyWrite ==
  /\ pc[Boot] = "notifyWrite"
  /\ IF alive THEN Len(stdin) < PipeCap /\ stdin' = Append(stdin, Notice)
              ELSE UNCHANGED stdin
  /\ mu' = mu \ {Boot}
  /\ stage' = "list"
  /\ pc' = [pc EXCEPT ![Boot] = "idle"]
  /\ UNCHANGED <<id, nextID, call, calls, readVars, pending, replyCh, closed,
                 alive, asked, stdout>>

\* Manager.Close at the end of the program, whoever is still calling.
Shutdown ==
  /\ stage = "ready" /\ ~closed
  /\ CloseClient
  /\ stdin' = <<>> /\ asked' = {}
  /\ UNCHANGED <<callVars, readVars, pending, replyCh, stdout>>

-----------------------------------------------------------------------------
(* readLoop *)

ReadReply_Load ==
  /\ reader = "read" /\ stdout # <<>> /\ Head(stdout).kind # "oversized"
  /\ stdout' = Tail(stdout)
  /\ LET r == Head(stdout)
     IN  IF r.id \in pending
           THEN /\ pending' = pending
                /\ reply' = r /\ reader' = "deliver"
           ELSE UNCHANGED <<pending, reply, reader>>
  /\ UNCHANGED <<callVars, dead, visit, replyCh, closed, alive, stdin, asked>>

\* LoadAndDelete: a reply nobody waits for any more is dropped, and so is a
\* second reply to the same call.
ReadReply ==
  /\ reader = "read" /\ stdout # <<>> /\ Head(stdout).kind # "oversized"
  /\ stdout' = Tail(stdout)
  /\ LET r == Head(stdout)
     IN  IF r.id \in pending
           THEN /\ pending' = pending \ {r.id}
                /\ reply' = r /\ reader' = "deliver"
           ELSE UNCHANGED <<pending, reply, reader>>
  /\ UNCHANGED <<callVars, dead, visit, replyCh, closed, alive, stdin, asked>>

\* The send to the reply channel, which would block if it held a reply.
Deliver ==
  /\ reader = "deliver" /\ replyCh[reply.id] = <<>>
  /\ replyCh' = [replyCh EXCEPT ![reply.id] = <<reply>>]
  /\ reply' = NoReply
  /\ reader' = IF dead THEN "drain" ELSE "read"
  /\ UNCHANGED <<callVars, dead, visit, serverVars, pending, closed>>

\* The end of the server's output, or a line the scanner refuses.  Wait, in
\* Close, may close the pipe with replies still unread.
ReadEnds ==
  /\ reader = "read"
  /\ \/ stdout = <<>> /\ ~alive
     \/ stdout # <<>> /\ Head(stdout).kind = "oversized"
     \/ closed /\ ~alive
  /\ reader' = "lost"
  /\ stdout' = IF alive THEN stdout ELSE <<>>
  /\ UNCHANGED <<callVars, dead, reply, visit, alive, stdin, asked, pending, replyCh, closed>>

MarkDead ==
  /\ reader = "lost"
  /\ dead' = TRUE
  /\ reader' = "drain"
  /\ visit' = pending
  /\ UNCHANGED <<callVars, reply, serverVars, pending, replyCh, closed>>

\* Range visits every id that was there when it began, and perhaps later ones.
Drain ==
  /\ reader = "drain"
  /\ \E i \in pending :
       /\ pending' = pending \ {i}
       /\ reply' = [id |-> i, call |-> 0, kind |-> "lost"]
  /\ reader' = "deliver"
  /\ UNCHANGED <<callVars, dead, visit, serverVars, replyCh, closed>>

DrainEnds ==
  /\ reader = "drain" /\ pending \cap visit = {}
  /\ reader' = "ended"
  /\ visit' = {}
  /\ UNCHANGED <<callVars, dead, reply, serverVars, pending, replyCh, closed>>

-----------------------------------------------------------------------------
CallStep(p) ==
  \/ CheckDead(p) \/ Store(p) \/ Recheck(p) \/ Lock(p) \/ Write(p)
  \/ ReceiveReply(p) \/ Expire(p)

Read == ReadReply \/ Deliver \/ ReadEnds \/ MarkDead \/ Drain \/ DrainEnds

Server == ServerReads \/ ServerAnswers \/ ServerCrashes

Idle(p) == pc[p] = "idle"

\* Nothing is left to do once NewClient failed or the bound on calls is reached.
Finished == (calls = MaxCalls \/ stage = "failed") /\ (\A p \in Procs : Idle(p)) /\ UNCHANGED vars

Next ==
  \/ \E p \in Procs : CheckClosed(p) \/ CallStep(p)
  \/ Notify \/ NotifyWrite \/ Read \/ Server \/ Shutdown \/ Finished

Spec == Init /\ [][Next]_vars

\* The scheduler runs every goroutine that can run, Go's mutex is handed to
\* every waiter, and every wait has a deadline.  The server owes nothing.
FairSpec ==
  /\ Spec
  /\ \A p \in Procs : WF_vars(CallStep(p)) /\ SF_vars(Lock(p))
  /\ WF_vars(Notify) /\ WF_vars(NotifyWrite)
  /\ WF_vars(Read)

-----------------------------------------------------------------------------
(* Properties *)

TypeOK ==
  /\ stage \in Stages
  /\ pc \in [Procs -> Steps]
  /\ id \in [Procs -> 0..MaxCalls] /\ call \in [Procs -> 0..MaxCalls]
  /\ calls \in 0..MaxCalls /\ nextID \in 0..calls
  /\ pending \subseteq Ids
  /\ replyCh \in [Ids -> {<<>>} \cup {<<r>> : r \in Replies}]
  /\ mu \in {{}} \cup {{p} : p \in Procs}
  /\ closed \in BOOLEAN /\ dead \in BOOLEAN
  /\ reader \in {"read", "deliver", "lost", "drain", "ended"}
  /\ reply \in Replies \cup {NoReply} /\ visit \subseteq Ids
  /\ alive \in BOOLEAN /\ asked \subseteq Requests
  /\ stdin \in Seq(Requests \cup {Notice}) /\ stdout \in Seq(Lines)
  /\ Len(stdin) <= PipeCap /\ Len(stdout) <= PipeCap

\* The reply a caller is about to take answers its own request (or reports the
\* loss of the server), although answers come in any order, twice, or after
\* their call gave up.
OwnAnswer ==
  \A p \in Procs :
    pc[p] = "wait" /\ replyCh[id[p]] # <<>> =>
      Head(replyCh[id[p]]).call \in {0, call[p]}

\* readLoop never blocks on a reply channel: one blocked send would silence
\* every other call on the connection (the send in readLoop has no select).
ReaderNeverBlocks == reader = "deliver" => replyCh[reply.id] = <<>>

\* Once readLoop has ended no call is left waiting for its deadline: whoever
\* waits has an error in its channel, whenever it registered.
LostIsReported ==
  reader = "ended" =>
    \A p \in Procs : pc[p] = "wait" => replyCh[id[p]] # <<>>

\* A reply channel stays registered only for a call that is being made.
PendingIsLive ==
  \A i \in pending :
    \E p \in Procs : id[p] = i /\ pc[p] \in {"recheck", "lock", "write", "wait"}

\* The table of pending calls is in order: each entry is of a call under way,
\* and its channel has room for the answer readLoop is about to put there.
PendingIsSound == TypeOK /\ ReaderNeverBlocks /\ PendingIsLive

\* A call whose request was written returns, whatever the server does.
WaitEnds == \A p \in Procs : pc[p] = "wait" ~> Idle(p)

\* Close releases every caller and ends readLoop, with a write blocked on a
\* full pipe, a reply being delivered or a call about to register.
CloseReleases == closed ~> reader = "ended" /\ \A p \in Procs : Idle(p)
=============================================================================
