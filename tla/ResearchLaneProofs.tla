------------------------- MODULE ResearchLaneProofs --------------------------
(* The invariants of ResearchLane, in three parts, and its promise.            *)
(*                                                                             *)
(* The type invariant: one lemma per kind of write, one per action.            *)
(*                                                                             *)
(* OneChild and ExitsAreReal: death is final, a living child is registered,    *)
(* and the supervisor starts another only from a point of its loop at which it *)
(* knows that none lives (ExitsKnown).                                         *)
(*                                                                             *)
(* OneLane and TerminalStable: the lane is taken only when it is free, and a   *)
(* child drains only the run its row still says it works on (RunOwned).        *)
EXTENDS LaneInvariant, FiniteSetTheorems, TLAPS

-----------------------------------------------------------------------------
\* What a write preserves.

LEMMA Bounds ==
    /\ MaxAttempts \in Nat /\ MaxAttempts > 0
    /\ MaxVersion \in Nat /\ MaxVersion > 0
    /\ MaxTurns \in Nat /\ MaxTurns > 0
    /\ Capacity \in Nat /\ Capacity > 0
    /\ MaxSupCrashes \in Nat /\ MaxWorkerCrashes \in Nat
    /\ MaxLostCallbacks \in Nat /\ MaxLostReplies \in Nat /\ MaxBacklog \in Nat
BY BoundAssumption

LEMMA CallsOfItems ==
    (Job \X (1 .. MaxVersion)) \cup (Run \X (1 .. MaxTurns)) \subseteq CallId
BY Bounds DEF CallId, Item, Turn

\* What a step leaves alone stays typed.
LEMMA Unmoved ==
    ASSUME Typed
    PROVE  /\ UNCHANGED jobs => JobsTyped'
           /\ UNCHANGED runs => RunsOK'
           /\ UNCHANGED <<calls, overdue>> => CallsOK'
           /\ UNCHANGED <<open, exits>> => ExitsOK'
           /\ UNCHANGED <<tomb, backlog>> => BrokerOK'
           /\ UNCHANGED proc => ProcOK'
           /\ UNCHANGED mem => MemTyped'
           /\ UNCHANGED <<futures, outcomes>> => RuntimeOK'
           /\ UNCHANGED sup => SupTyped'
           /\ UNCHANGED faults => FaultsOK'
BY DEF Typed, JobsTyped, JobsOK, Charged, RunsOK, CallsOK, ExitsOK, BrokerOK,
       ProcOK, MemTyped, MemOK, HoldsCall, RuntimeOK, SupTyped, SupOK, FaultsOK

\* A child that moves within its loop, with the call it already holds.
LEMMA GotoTyped ==
    ASSUME Typed, NEW w \in Worker, NEW point \in WorkerPC, Goto(w, point),
           point \in Empty \/ mem[w].pc \notin Empty, point # "prepare"
    PROVE  MemTyped'
<1>1. /\ mem' \in [Worker -> Memory]
      /\ mem'[w].pc = point /\ mem'[w].call = mem[w].call
  BY DEF Typed, MemTyped, MemOK, Memory, Goto
<1>2. \A v \in Worker : v # w => mem'[v] = mem[v]
  BY DEF Typed, MemTyped, MemOK, Goto
<1>3. QED
  BY <1>1, <1>2 DEF Typed, MemTyped, MemOK, HoldsCall

LEMMA GotoWithTyped ==
    ASSUME Typed, NEW w \in Worker, NEW got \in Got, GotoWith(w, "settle", got),
           mem[w].pc \notin Empty
    PROVE  MemTyped'
<1>1. mem[w] \in Memory /\ mem[w].call # None
  BY DEF Typed, MemTyped, MemOK, HoldsCall
<1>2. /\ mem' \in [Worker -> Memory]
      /\ mem'[w].pc = "settle" /\ mem'[w].call = mem[w].call
  BY <1>1 DEF Typed, MemTyped, MemOK, Memory, GotoWith, WorkerPC
<1>3. \A v \in Worker : v # w => mem'[v] = mem[v]
  BY DEF Typed, MemTyped, MemOK, GotoWith
<1>4. QED
  BY <1>1, <1>2, <1>3 DEF Typed, MemTyped, MemOK, HoldsCall, Empty

LEMMA TakesCallTyped ==
    ASSUME Typed, NEW w \in Worker, NEW point \in WorkerPC, NEW prefer \in BOOLEAN,
           NEW c \in (Job \X (1 .. MaxVersion)) \cup (Run \X (1 .. MaxTurns)),
           point = "prepare" => c[1] \in Run,
           mem' = [mem EXCEPT ![w] = [@ EXCEPT !.pc = point, !.prefer = prefer, !.call = c]]
    PROVE  MemTyped'
<1>1. c \in CallId /\ c # None
  BY CallsOfItems, IdentityAssumption
<1>2. mem'[w].call = c /\ mem'[w].pc = point /\ mem'[w] \in Memory
  BY <1>1 DEF Typed, MemTyped, MemOK, Memory
<1>3. \A v \in Worker : v # w => mem'[v] = mem[v]
  BY DEF Typed, MemTyped, MemOK
<1>4. MemOK'
  BY <1>2 DEF Typed, MemTyped, MemOK
<1>. QED  BY <1>1, <1>2, <1>3, <1>4 DEF Typed, MemTyped, HoldsCall

LEMMA ReleaseTyped == ASSUME Typed, NEW w \in Worker, Release(w) PROVE MemTyped'
<1>0. mem \in [Worker -> Memory]
  BY DEF Typed, MemTyped, MemOK
<1>1. mem[w] \in Memory
  BY <1>0
<1>2. mem'[w] = [mem[w] EXCEPT !.call = None,
                   !.pc = IF mem[w].pc = "stopping" THEN "stopped" ELSE "idle"]
  <2>1. \A x : [mem EXCEPT ![w] = x][w] = x
    BY <1>0
  <2>. QED  BY <2>1 DEF Release
<1>3. mem'[w] \in Memory /\ mem'[w].call = None /\ mem'[w].pc \in {"stopped", "idle"}
  <2>1. CASE mem[w].pc = "stopping"
    BY <1>1, <1>2, <2>1 DEF Memory, WorkerPC
  <2>2. CASE mem[w].pc # "stopping"
    BY <1>1, <1>2, <2>2 DEF Memory, WorkerPC
  <2>. QED  BY <2>1, <2>2
<1>4. MemOK'
  BY <1>2, <1>3 DEF Release, Typed, MemTyped, MemOK
<1>5. HoldsCall(w)'
  BY <1>3 DEF HoldsCall, Empty
<1>6. \A v \in Worker : v # w => mem'[v] = mem[v]
  BY DEF Release, Typed, MemTyped, MemOK
<1>. QED  BY <1>4, <1>5, <1>6 DEF Typed, MemTyped, HoldsCall

LEMMA BlankTyped ==
    ASSUME Typed, NEW w \in Worker, NEW point \in {"idle", "stopped"},
           mem' = [mem EXCEPT ![w] = [Blank EXCEPT !.pc = point]]
    PROVE  MemTyped'
BY DEF Typed, MemTyped, MemOK, Memory, HoldsCall, Blank, WorkerPC, Got, Empty

LEMMA ForgetTyped ==
    ASSUME Typed, NEW w \in Worker, Forget(w), UNCHANGED futures PROVE RuntimeOK'
BY DEF Typed, RuntimeOK, Forget

LEMMA VanishTyped ==
    ASSUME Typed, NEW w \in Worker, Vanish(w)
    PROVE  ProcOK' /\ MemTyped' /\ RuntimeOK'
<1>1. ProcOK' /\ RuntimeOK'
  BY DEF Typed, Vanish, ProcOK, RuntimeOK
<1>2. MemTyped'
  BY DEF Typed, MemTyped, MemOK, Memory, HoldsCall, Vanish, Blank, WorkerPC, Got, Empty
<1>. QED  BY <1>1, <1>2

LEMMA ConfirmExitTyped ==
    ASSUME Typed, NEW w \in Worker, NEW ok \in BOOLEAN, ConfirmExit(w, ok)
    PROVE  JobsTyped' /\ RunsOK' /\ CallsOK' /\ ExitsOK'
<1>1. CallsOK'
  <2>1. \A c \in CallId : CallAfterExit(c, w, ok) \in CallRow
    BY DEF Typed, CallAfterExit, CallsOK, CallRow, CallStatus, Held
  <2>2. overdue' \subseteq CallId
    BY DEF Typed, ConfirmExit, CallsOK
  <2>. QED  BY <2>1, <2>2 DEF ConfirmExit, CallsOK
<1>2. RunsOK'
  BY DEF Typed, ConfirmExit, RunsOK, RunRow, JobStatus, Terminal
<1>3. ExitsOK'
  BY DEF Typed, ConfirmExit, ExitsOK
<1>. QED  BY <1>1, <1>2, <1>3, Unmoved DEF ConfirmExit

LEMMA RecoverLeasesTyped == ASSUME Typed, RecoverLeases PROVE JobsTyped'
<1>1. \A j \in Job : /\ Recovered(j) \in JobRow
                     /\ Recovered(j).status \in Active => Recovered(j) = jobs[j]
  <2>. SUFFICES ASSUME NEW j \in Job
                PROVE  /\ Recovered(j) \in JobRow
                       /\ Recovered(j).status \in Active => Recovered(j) = jobs[j]
    OBVIOUS
  <2>1. jobs[j] \in JobRow /\ 0 \in 0 .. MaxVersion
    BY Bounds DEF Typed, JobsTyped, JobsOK
  <2>. QED  BY <2>1 DEF Recovered, JobRow, JobStatus, Active, Terminal
<1>2. JobsOK'
  BY <1>1 DEF JobsOK, RecoverLeases
<1>3. \A j \in Job : Charged(j)'
  BY <1>1 DEF Typed, JobsTyped, Charged, RecoverLeases
<1>. QED  BY <1>2, <1>3 DEF JobsTyped

LEMMA KillTyped == ASSUME Typed, NEW S, Kill(S) PROVE ProcOK'
BY DEF Typed, ProcOK, Kill

LEMMA BrokerReconcileTyped ==
    ASSUME Typed, NEW w \in Worker, BrokerReconcile(w) PROVE BrokerOK'
BY Bounds DEF Typed, BrokerOK, BrokerReconcile

LEMMA OnlyMemTyped ==
    ASSUME Typed, MemTyped', UNCHANGED <<ledger, broker, quiet, sup, faults>>
    PROVE  Typed'
BY Unmoved DEF Typed, ledger, broker, quiet

-----------------------------------------------------------------------------
\* The initial states, the members.

LEMMA TypedInit == Init => Typed
<1>. SUFFICES ASSUME Init PROVE Typed
  OBVIOUS
<1>1. JobsTyped
  BY Bounds DEF Init, JobsTyped, JobsOK, JobRow, JobStatus, Charged, Active
<1>2. MemTyped
  BY DEF Init, MemTyped, MemOK, Memory, HoldsCall, Blank, Empty, WorkerPC, Got
<1>3. RunsOK /\ CallsOK
  BY Bounds DEF Init, RunsOK, RunRow, CallsOK, CallRow, JobStatus, CallStatus
<1>4. ExitsOK /\ BrokerOK /\ ProcOK /\ RuntimeOK
  BY DEF Init, ExitsOK, BrokerOK, ProcOK, RuntimeOK
<1>5. SupTyped /\ FaultsOK
  BY Bounds DEF Init, SupTyped, SupOK, SupMemory, SupPC, Asleep, FaultsOK, Faults
<1>. QED  BY <1>1, <1>2, <1>3, <1>4, <1>5 DEF Typed

LEMMA TypedMembers == ASSUME Typed, Members PROVE Typed'
<1>1. ASSUME NEW j \in Job, Enqueue(j) PROVE Typed'
  <2>1. JobsTyped'
    BY <1>1 DEF Enqueue, Typed, JobsTyped, JobsOK, JobRow, JobStatus, Charged, Active
  <2>. QED  BY <1>1, <2>1, Unmoved DEF Typed, Enqueue, butJobs, others, broker, child
<1>2. ASSUME NEW r \in Run, Submit(r) \/ DeleteConversation(r) PROVE Typed'
  <2>1. RunsOK'
    BY <1>2 DEF Submit, DeleteConversation, Typed, RunsOK, RunRow, JobStatus, Active, Terminal
  <2>. QED
    BY <1>2, <2>1, Unmoved
    DEF Typed, Submit, DeleteConversation, butRuns, others, broker, child
<1>. QED  BY <1>1, <1>2 DEF Members

-----------------------------------------------------------------------------
\* The compute child.

\* Every step that only moves the child within its loop.
LEMMA TypedMoves ==
    ASSUME Typed, NEW w \in Worker,
           \/ StopServing(w) \/ LookForWork(w) \/ NoJob(w) \/ NoRun(w)
           \/ Deny(w) \/ NotSubmitted(w) \/ WaiterReturns(w) \/ WaiterTimesOut(w)
    PROVE  Typed'
<1>1. CASE StopServing(w) \/ LookForWork(w) \/ NoJob(w) \/ NoRun(w)
  <2>1. PICK point \in Empty : Goto(w, point)
    BY <1>1 DEF StopServing, LookForWork, NoJob, NoRun, Empty
  <2>2. MemTyped'
    BY <2>1, GotoTyped DEF Empty, WorkerPC
  <2>. QED  BY <1>1, <2>2, OnlyMemTyped DEF StopServing, LookForWork, NoJob, NoRun
<1>2. CASE Deny(w) \/ NotSubmitted(w)
  <2>1. PICK got \in Got : GotoWith(w, "settle", got)
    BY <1>2 DEF Deny, NotSubmitted, Got
  <2>2. MemTyped'
    BY <1>2, <2>1, GotoWithTyped DEF Deny, NotSubmitted, At, Empty
  <2>. QED  BY <1>2, <2>2, OnlyMemTyped DEF Deny, NotSubmitted
<1>3. CASE WaiterReturns(w)
  <2>1. PICK got \in Got : GotoWith(w, "settle", got)
    <3>1. \A o \in Retained(w) : o[2] \in Got
      BY DEF Retained, Typed, RuntimeOK, Got
    <3>. QED  BY <1>3, <3>1 DEF WaiterReturns, Got
  <2>2. MemTyped'
    BY <1>3, <2>1, GotoWithTyped DEF WaiterReturns, At, Empty
  <2>. QED  BY <1>3, <2>2, OnlyMemTyped DEF WaiterReturns
<1>4. CASE WaiterTimesOut(w)
  <2>1. MemTyped'
    BY <1>4, GotoTyped DEF WaiterTimesOut, At, Empty, WorkerPC
  <2>. QED  BY <1>4, <2>1, OnlyMemTyped DEF WaiterTimesOut
<1>. QED  BY <1>1, <1>2, <1>3, <1>4

LEMMA TypedCheckDrains == ASSUME Typed, NEW w \in Worker, CheckDrains(w) PROVE Typed'
<1>1. MemTyped'
  BY GotoTyped DEF CheckDrains, Empty, WorkerPC
<1>2. ExitsOK'
  <2>1. \A c \in overdue : ProviderOf[c[1]] \in Provider
    BY IdentityAssumption DEF Typed, CallsOK, CallId
  <2>. QED  BY <2>1 DEF CheckDrains, OpenCircuitsOf, OverdueOf, butOpen, Typed, ExitsOK
<1>. QED  BY <1>1, <1>2, Unmoved DEF Typed, CheckDrains, butOpen, broker, quiet

LEMMA TypedClaimJob == ASSUME Typed, NEW w \in Worker, ClaimJob(w) PROVE Typed'
<1>. PICK refused \in SUBSET Claimable, j \in Claimable :
        /\ jobs' = [i \in Job |->
             IF i \in refused THEN [jobs[i] EXCEPT !.status = "unavailable"]
             ELSE IF i = j THEN Claimed(j, w) ELSE jobs[i]]
        /\ mem' = [mem EXCEPT ![w] = [@ EXCEPT !.pc = "admit", !.prefer = TRUE,
                                       !.call = <<j, jobs[j].version + 1>>]]
  BY DEF ClaimJob
<1>1. j \in Job /\ jobs[j] \in JobRow /\ jobs[j].attempts < MaxAttempts
      /\ jobs[j].version < MaxVersion
  BY DEF Typed, JobsTyped, JobsOK, Claimable, Retriable
<1>2. Claimed(j, w) \in JobRow /\ Claimed(j, w).attempts > 0
  BY <1>1, Bounds DEF Claimed, JobRow, JobStatus, Active
<1>3. JobsOK'
  BY <1>2 DEF Typed, JobsTyped, JobsOK, JobRow, JobStatus, Terminal
<1>4. \A i \in Job : Charged(i)'
  BY <1>2 DEF Charged, Typed, JobsTyped, JobsOK, JobRow, Active, Terminal
<1>5. <<j, jobs[j].version + 1>> \in Job \X (1 .. MaxVersion)
  BY <1>1, Bounds DEF JobRow
<1>6. MemTyped'
  BY <1>5, TakesCallTyped DEF WorkerPC, Empty
<1>. QED
  BY <1>3, <1>4, <1>6, Unmoved DEF Typed, JobsTyped, ClaimJob, butJobs, broker, quiet

LEMMA TypedRefuseAll == ASSUME Typed, NEW w \in Worker, RefuseAll(w) PROVE Typed'
<1>1. JobsTyped'
  BY DEF RefuseAll, Typed, JobsTyped, JobsOK, JobRow, JobStatus, Charged, Active, Terminal
<1>2. MemTyped'
  BY GotoTyped DEF RefuseAll, Empty, WorkerPC
<1>. QED  BY <1>1, <1>2, Unmoved DEF Typed, RefuseAll, butJobs, broker, quiet

LEMMA TypedClaimRun ==
    ASSUME Typed, NEW w \in Worker, NEW r \in Run, ClaimRun(w, r) PROVE Typed'
<1>1. RunsOK'
  BY DEF ClaimRun, Typed, RunsOK, RunRow, JobStatus, Active
<1>2. <<r, 1>> \in Run \X (1 .. MaxTurns)
  BY Bounds
<1>3. MemTyped'
  BY <1>2, TakesCallTyped DEF ClaimRun, WorkerPC
<1>. QED  BY <1>1, <1>3, Unmoved DEF Typed, ClaimRun, butRuns, broker, quiet

LEMMA TypedRefuseRun ==
    ASSUME Typed, NEW w \in Worker, NEW r \in Run, RefuseRun(w, r) PROVE Typed'
<1>1. RunsOK'
  BY DEF RefuseRun, Typed, RunsOK, RunRow, JobStatus, Terminal
<1>2. MemTyped'
  <2>1. PICK point \in Empty : Goto(w, point)
    BY DEF RefuseRun, Empty
  <2>. QED  BY <2>1, GotoTyped DEF Empty, WorkerPC
<1>. QED  BY <1>1, <1>2, Unmoved DEF Typed, RefuseRun, butRuns, broker, quiet

\* The call a child holds while it works is one of the lane's calls.
LEMMA OwnTyped ==
    ASSUME Typed, NEW w \in Worker, HasItem(w)
    PROVE  /\ Own(w) \in CallId /\ ItemOf(w) \in Item
           /\ OnJob(w) => Own(w)[2] \in 1 .. MaxVersion
           /\ ~OnJob(w) => OnRun(w)
           /\ OnRun(w) => Own(w)[2] \in 1 .. MaxTurns
<1>1. Own(w) \in (Job \X (1 .. MaxVersion)) \cup (Run \X (1 .. MaxTurns))
  BY DEF Typed, MemTyped, HoldsCall, HasItem, Own
<1>2. CASE Own(w) \in Job \X (1 .. MaxVersion)
  BY <1>1, <1>2, CallsOfItems, IdentityAssumption DEF Own, ItemOf, OnJob, OnRun, HasItem, Item
<1>3. CASE Own(w) \in Run \X (1 .. MaxTurns)
  BY <1>1, <1>3, CallsOfItems, IdentityAssumption DEF Own, ItemOf, OnJob, OnRun, HasItem, Item
<1>. QED  BY <1>1, <1>2, <1>3

LEMMA BusyHasItem ==
    ASSUME Typed, NEW w \in Worker, mem[w].pc \notin Empty PROVE HasItem(w)
BY DEF Typed, MemTyped, HoldsCall, HasItem

LEMMA TypedAdmit == ASSUME Typed, NEW w \in Worker, Admit(w) PROVE Typed'
<1>1. Own(w) \in CallId
  BY BusyHasItem, OwnTyped DEF Admit, At, Empty
<1>2. CallsOK'
  BY DEF Admit, butCalls, Typed, CallsOK, CallRow, CallStatus, Held
<1>3. RuntimeOK'
  BY <1>1 DEF Admit, Typed, RuntimeOK
<1>4. MemTyped'
  BY GotoTyped DEF Admit, At, Empty, WorkerPC
<1>. QED  BY <1>2, <1>3, <1>4, Unmoved DEF Typed, Admit, butCalls, broker

LEMMA TypedOperation == ASSUME Typed, NEW w \in Worker, Operation(w) PROVE Typed'
<1>1. ASSUME NEW c \in CallId, NEW result \in {"completed", "failed"}, OpDone(w, c, result)
      PROVE  Typed'
  <2>1. CallsOK'
    BY <1>1 DEF OpDone, Typed, CallsOK, CallRow, CallStatus
  <2>2. RuntimeOK'
    BY <1>1 DEF OpDone, Typed, RuntimeOK
  <2>. QED  BY <1>1, <2>1, <2>2, Unmoved DEF Typed, OpDone, broker
<1>2. ASSUME NEW c \in CallId, LostCallback(w, c) PROVE Typed'
  <2>1. FaultsOK'
    BY <1>2, Bounds DEF LostCallback, Typed, FaultsOK, Faults
  <2>2. RuntimeOK'
    BY <1>2 DEF LostCallback, Typed, RuntimeOK
  <2>. QED  BY <1>2, <2>1, <2>2, Unmoved DEF Typed, LostCallback, ledger, broker
<1>. QED  BY <1>1, <1>2 DEF Operation

LEMMA TypedDrainCall == ASSUME Typed, NEW w \in Worker, DrainCall(w) PROVE Typed'
<1>1. CallsOK'
  BY DEF DrainCall, butCalls, Typed, CallsOK, CallRow, CallStatus, Held
<1>2. MemTyped'
  BY GotoTyped DEF DrainCall, At, Empty, WorkerPC
<1>. QED  BY <1>1, <1>2, Unmoved DEF Typed, DrainCall, butCalls, broker, quiet

LEMMA TypedDrainAges == ASSUME Typed, NEW c \in CallId, DrainAges(c) PROVE Typed'
<1>1. CallsOK'
  BY DEF DrainAges, butOverdue, Typed, CallsOK
<1>. QED  BY <1>1, Unmoved DEF Typed, DrainAges, butOverdue, others, broker, child

LEMMA TypedMarkDraining == ASSUME Typed, NEW w \in Worker, MarkDraining(w) PROVE Typed'
<1>1. MemTyped'
  BY GotoTyped DEF MarkDraining, At, Empty, WorkerPC
<1>2. JobsTyped'
  BY Unmoved
  DEF MarkDraining, Drained, Typed, JobsTyped, JobsOK, JobRow, JobStatus, Charged, Active
<1>3. RunsOK'
  BY DEF MarkDraining, Typed, RunsOK, RunRow, JobStatus, Active
<1>. QED  BY <1>1, <1>2, <1>3, Unmoved DEF Typed, MarkDraining, broker, quiet

LEMMA TypedCompleteJob == ASSUME Typed, NEW w \in Worker, CompleteJob(w) PROVE Typed'
<1>1. JobsTyped'
  BY Unmoved
  DEF CompleteJob, Typed, JobsTyped, JobsOK, JobRow, JobStatus, Charged, Active, Terminal
<1>2. MemTyped' /\ RuntimeOK'
  BY ReleaseTyped, ForgetTyped DEF CompleteJob
<1>. QED  BY <1>1, <1>2, Unmoved DEF Typed, CompleteJob, butJobs, broker

LEMMA TypedFailJob == ASSUME Typed, NEW w \in Worker, FailJob(w) PROVE Typed'
<1>1. JobsTyped'
  BY Unmoved
  DEF FailJob, Typed, JobsTyped, JobsOK, JobRow, JobStatus, Charged, Active, Terminal
<1>2. MemTyped' /\ RuntimeOK'
  BY ReleaseTyped, ForgetTyped DEF FailJob
<1>. QED  BY <1>1, <1>2, Unmoved DEF Typed, FailJob, butJobs, broker

LEMMA TypedDeferJob == ASSUME Typed, NEW w \in Worker, DeferJob(w) PROVE Typed'
<1>1. JobsTyped'
  <2>1. CASE UNCHANGED jobs
    BY <2>1, Unmoved
  <2>2. CASE /\ jobs[ItemOf(w)].status = "running"
             /\ jobs' = [jobs EXCEPT ![ItemOf(w)] = Deferred(ItemOf(w))]
    <3>1. ItemOf(w) \in Job /\ jobs[ItemOf(w)] \in JobRow /\ jobs[ItemOf(w)].attempts > 0
      BY <2>2 DEF DeferJob, OnJob, Typed, JobsTyped, JobsOK, Charged, Active
    <3>2. Deferred(ItemOf(w)) \in JobRow /\ Deferred(ItemOf(w)).status = "queued"
      <4>1. jobs[ItemOf(w)].attempts - 1 \in 0 .. MaxAttempts /\ 0 \in 0 .. MaxVersion
        BY <3>1, Bounds DEF JobRow
      <4>. QED  BY <3>1, <4>1 DEF Deferred, JobRow, JobStatus
    <3>. QED  BY <2>2, <3>1, <3>2 DEF Typed, JobsTyped, JobsOK, Charged, Active
  <2>. QED  BY <2>1, <2>2 DEF DeferJob
<1>2. MemTyped'
  BY ReleaseTyped DEF DeferJob
<1>. QED  BY <1>1, <1>2, Unmoved DEF Typed, DeferJob, butJobs, broker, quiet

LEMMA TypedPrepareTurn == ASSUME Typed, NEW w \in Worker, PrepareTurn(w) PROVE Typed'
<1>1. HasItem(w) /\ OnRun(w)
  BY BusyHasItem DEF PrepareTurn, At, Empty, Typed, MemTyped, HoldsCall, OnRun, ItemOf
<1>2. Own(w)[2] \in 0 .. MaxTurns
  BY <1>1, OwnTyped, Bounds
<1>3. RunsOK'
  BY <1>2 DEF PrepareTurn, Typed, RunsOK, RunRow
<1>4. MemTyped'
  BY GotoTyped DEF PrepareTurn, At, Empty, WorkerPC
<1>. QED  BY <1>3, <1>4, Unmoved DEF Typed, PrepareTurn, butRuns, broker, quiet

LEMMA TypedNextTurn == ASSUME Typed, NEW w \in Worker, NextTurn(w) PROVE Typed'
<1>1. ItemOf(w) \in Run /\ Own(w)[2] + 1 \in 1 .. MaxTurns
  BY OwnTyped, Bounds DEF NextTurn, OnRun, TurnsLeft
<1>2. <<ItemOf(w), Own(w)[2] + 1>> \in Run \X (1 .. MaxTurns)
  BY <1>1
<1>3. mem' = [mem EXCEPT ![w] = [@ EXCEPT !.pc = "prepare", !.prefer = mem[w].prefer,
                                   !.call = <<ItemOf(w), Own(w)[2] + 1>>]]
  BY DEF NextTurn, Typed, MemTyped, MemOK, Memory
<1>4. MemTyped'
  <2>1. mem[w].prefer \in BOOLEAN /\ "prepare" \in WorkerPC
    BY DEF Typed, MemTyped, MemOK, Memory, WorkerPC
  <2>2. <<ItemOf(w), Own(w)[2] + 1>>[1] \in Run
    BY <1>1
  <2>. QED  BY <1>2, <1>3, <2>1, <2>2, TakesCallTyped
<1>5. RuntimeOK'
  BY ForgetTyped DEF NextTurn
<1>. QED  BY <1>4, <1>5, Unmoved DEF Typed, NextTurn, ledger, broker

LEMMA TypedFinishRun == ASSUME Typed, NEW w \in Worker, FinishRun(w) PROVE Typed'
<1>1. RunsOK'
  <2>1. PICK status \in {"completed", "unavailable"} :
               runs' = IF runs[ItemOf(w)].status \in Active
                       THEN [runs EXCEPT ![ItemOf(w)].status = status] ELSE runs
    BY DEF FinishRun
  <2>2. status \in JobStatus
    BY DEF JobStatus, Terminal
  <2>. QED  BY <2>1, <2>2 DEF Typed, RunsOK, RunRow
<1>2. MemTyped' /\ RuntimeOK'
  BY ReleaseTyped, ForgetTyped DEF FinishRun
<1>. QED  BY <1>1, <1>2, Unmoved DEF Typed, FinishRun, butRuns, broker

LEMMA TypedWorkerStep == ASSUME Typed, NEW w \in Worker, WorkerStep(w) PROVE Typed'
BY TypedMoves, TypedCheckDrains, TypedClaimJob, TypedRefuseAll, TypedClaimRun,
   TypedRefuseRun, TypedAdmit, TypedDrainCall, TypedMarkDraining, TypedCompleteJob,
   TypedFailJob, TypedDeferJob, TypedPrepareTurn, TypedNextTurn, TypedFinishRun
DEF WorkerStep

LEMMA TypedChildEnds ==
    ASSUME Typed, NEW w \in Worker, ChildEnds(w) \/ ChildFails(w) PROVE Typed'
<1>1. CASE WorkerRaises(w)
  <2>1. MemTyped'
    BY <1>1, BlankTyped DEF WorkerRaises
  <2>2. FaultsOK'
    BY <1>1, Bounds DEF WorkerRaises, Typed, FaultsOK, Faults
  <2>. QED  BY <1>1, <2>1, <2>2, Unmoved DEF Typed, WorkerRaises, ledger, broker, quiet
<1>2. CASE WorkerDies(w)
  <2>1. FaultsOK'
    BY <1>2, Bounds DEF WorkerDies, Typed, FaultsOK, Faults
  <2>. QED  BY <1>2, <2>1, VanishTyped, Unmoved DEF Typed, WorkerDies, ledger, broker
<1>3. CASE ChildEnds(w)
  <2>1. Vanish(w) /\ UNCHANGED <<ledger, broker, sup, faults>>
    BY <1>3 DEF ChildEnds, WorkerLeaves, KillLands, GateCloses
  <2>. QED  BY <2>1, VanishTyped, Unmoved DEF Typed, ledger, broker
<1>. QED  BY <1>1, <1>2, <1>3 DEF ChildFails

-----------------------------------------------------------------------------
\* The supervisor.

LEMMA TypedSupStart == ASSUME Typed, SupStart PROVE Typed'
<1>1. SupTyped'
  BY DEF SupStart, SupTyped, SupOK, SupMemory, SupPC, Asleep
<1>. QED  BY <1>1, Unmoved DEF Typed, SupStart, ledger, broker, child

LEMMA TypedRecovery == ASSUME Typed, Recovery PROVE Typed'
<1>1. CASE RecoverInventory
  <2>1. SupTyped'
    BY <1>1 DEF RecoverInventory, Typed, SupTyped, SupOK, SupMemory, SupPC
  <2>2. ProcOK'
    BY <1>1, KillTyped DEF RecoverInventory
  <2>. QED  BY <1>1, <2>1, <2>2, Unmoved DEF Typed, RecoverInventory, ledger, broker
<1>2. CASE RecoverLeasesStep
  <2>1. SupTyped'
    BY <1>2 DEF RecoverLeasesStep, Typed, SupTyped, SupOK, SupMemory, SupPC
  <2>2. JobsTyped'
    BY <1>2, RecoverLeasesTyped DEF RecoverLeasesStep
  <2>. QED
    BY <1>2, <2>1, <2>2, Unmoved
    DEF Typed, RecoverLeasesStep, RecoverLeases, butJobs, broker, child
<1>3. CASE RecoverNext
  <2>1. SupTyped'
    BY <1>3 DEF RecoverNext, Typed, SupTyped, SupOK, SupMemory, SupPC
  <2>. QED  BY <1>3, <2>1, Unmoved DEF Typed, RecoverNext, ledger, broker, child
<1>4. ASSUME NEW w \in Worker, RecoverReconcile(w) PROVE Typed'
  <2>1. SupTyped'
    BY <1>4 DEF RecoverReconcile, Typed, SupTyped, SupOK, SupMemory, SupPC
  <2>2. BrokerOK'
    BY <1>4, BrokerReconcileTyped DEF RecoverReconcile
  <2>. QED  BY <1>4, <2>1, <2>2, Unmoved DEF Typed, RecoverReconcile, ledger, child
<1>5. ASSUME NEW w \in Worker, RecoverConfirm(w) PROVE Typed'
  <2>1. SupTyped'
    BY <1>5 DEF RecoverConfirm, Typed, SupTyped, SupOK, SupMemory
  <2>. QED
    BY <1>5, <2>1, ConfirmExitTyped, Unmoved DEF Typed, RecoverConfirm, broker, child
<1>6. ASSUME NEW w \in Worker, RecoverForget(w) PROVE Typed'
  <2>1. SupTyped'
    BY <1>6 DEF RecoverForget, Typed, SupTyped, SupOK, SupMemory
  <2>2. BrokerOK'
    BY <1>6 DEF RecoverForget, Typed, BrokerOK
  <2>. QED  BY <1>6, <2>1, <2>2, Unmoved DEF Typed, RecoverForget, ledger, child
<1>. QED  BY <1>1, <1>2, <1>3, <1>4, <1>5, <1>6 DEF Recovery

LEMMA TypedTick == ASSUME Typed, Tick PROVE Typed'
<1>1. CASE TickPickExit
  <2>1. SupTyped'
    <3>1. CASE sup' = [sup EXCEPT !.pc = "settle"]
      BY <3>1 DEF Typed, SupTyped, SupOK, SupMemory, SupPC
    <3>2. CASE \E w \in Worker : sup' = [sup EXCEPT !.pc = "settle", !.pending = w,
                                                     !.blocked = TRUE]
      <4>1. PICK w \in Worker : sup' = [sup EXCEPT !.pc = "settle", !.pending = w,
                                                   !.blocked = TRUE]
        BY <3>2
      <4>2. sup' \in SupMemory
        BY <4>1 DEF Typed, SupTyped, SupOK, SupMemory, SupPC
      <4>3. sup'.pc = "settle"
        BY <4>1 DEF Typed, SupTyped, SupOK, SupMemory
      <4>. QED  BY <4>2, <4>3 DEF SupTyped, SupOK
    <3>. QED  BY <1>1, <3>1, <3>2 DEF TickPickExit
  <2>. QED  BY <1>1, <2>1, Unmoved DEF Typed, TickPickExit, ledger, broker, child
<1>2. CASE TickStuck
  <2>1. SupTyped'
    BY <1>2 DEF TickStuck, Typed, SupTyped, SupOK, SupMemory
  <2>2. ExitsOK'
    <3>1. \A c \in overdue : ProviderOf[c[1]] \in Provider
      BY IdentityAssumption DEF Typed, CallsOK, CallId
    <3>. QED
      BY <1>2, <3>1 DEF TickStuck, OpenCircuitsOf, OverdueOf, butOpen, Typed, ExitsOK
  <2>. QED  BY <1>2, <2>1, <2>2, Unmoved DEF Typed, TickStuck, butOpen, broker, child
<1>3. CASE TickDead
  <2>1. sup.child \in Worker
    BY <1>3 DEF TickDead, Watching, Typed, SupTyped, SupOK, SupMemory
  <2>2. SupTyped'
    BY <1>3, <2>1 DEF TickDead, Typed, SupTyped, SupOK, SupMemory, SupPC
  <2>. QED
    BY <1>3, <2>1, <2>2, ConfirmExitTyped, Unmoved DEF Typed, TickDead, broker, child
<1>4. CASE TickStop
  <2>1. SupTyped' /\ ProcOK'
    BY <1>4, KillTyped, Unmoved DEF TickStop, Typed, SupTyped, SupOK, SupMemory
  <2>. QED  BY <1>4, <2>1, Unmoved DEF Typed, TickStop, ledger, broker
<1>5. CASE TickReconcile
  <2>1. SupTyped'
    <3>1. CASE sup' = [sup EXCEPT !.pc = "spawn"]
      BY <3>1 DEF Typed, SupTyped, SupOK, SupMemory, SupPC
    <3>2. CASE sup.pending # None
               /\ \E ok \in BOOLEAN : sup' = [sup EXCEPT !.pc = "record", !.ok = ok]
      <4>1. PICK ok \in BOOLEAN : sup' = [sup EXCEPT !.pc = "record", !.ok = ok]
        BY <3>2
      <4>2. sup' \in SupMemory
        BY <4>1 DEF Typed, SupTyped, SupOK, SupMemory, SupPC
      <4>3. sup'.pc = "record" /\ sup'.pending # None
        BY <3>2, <4>1 DEF Typed, SupTyped, SupOK, SupMemory
      <4>. QED  BY <4>2, <4>3 DEF SupTyped, SupOK
    <3>3. Reconciles(sup.pending) \in BOOLEAN /\ FALSE \in BOOLEAN
      BY DEF Reconciles
    <3>. QED  BY <1>5, <3>1, <3>2, <3>3 DEF TickReconcile
  <2>2. BrokerOK'
    <3>1. CASE UNCHANGED broker
      BY <3>1, Unmoved DEF broker
    <3>2. CASE sup.pending # None /\ BrokerReconcile(sup.pending)
      BY <3>2, BrokerReconcileTyped DEF Typed, SupTyped, SupOK, SupMemory
    <3>. QED  BY <1>5, <3>1, <3>2 DEF TickReconcile
  <2>3. FaultsOK'
    BY <1>5, Bounds, Unmoved DEF TickReconcile, Typed, FaultsOK, Faults
  <2>. QED  BY <1>5, <2>1, <2>2, <2>3, Unmoved DEF Typed, TickReconcile, ledger, child
<1>6. CASE TickConfirm
  <2>1. SupTyped' /\ sup.ok \in BOOLEAN
    BY <1>6 DEF TickConfirm, Typed, SupTyped, SupOK, SupMemory, SupPC
  <2>2. sup.pending \in Worker
    BY <1>6 DEF TickConfirm, Typed, SupTyped, SupOK, SupMemory
  <2>. QED
    BY <1>6, <2>1, <2>2, ConfirmExitTyped, Unmoved DEF Typed, TickConfirm, broker, child
<1>7. CASE TickLeases
  <2>1. SupTyped'
    BY <1>7 DEF TickLeases, Typed, SupTyped, SupOK, SupMemory, SupPC
  <2>2. JobsTyped'
    BY <1>7, RecoverLeasesTyped DEF TickLeases
  <2>. QED
    BY <1>7, <2>1, <2>2, Unmoved
    DEF Typed, TickLeases, RecoverLeases, butJobs, broker, child
<1>8. CASE TickSpawn
  <2>1. CASE \E blocked \in BOOLEAN : sup' = [sup EXCEPT !.pc = "top", !.blocked = blocked]
             /\ UNCHANGED <<tomb, proc>>
    <3>1. SupTyped'
      BY <2>1 DEF Typed, SupTyped, SupOK, SupMemory, SupPC
    <3>. QED  BY <1>8, <2>1, <3>1, Unmoved DEF Typed, TickSpawn, ledger
  <2>2. ASSUME NEW w \in Worker,
               proc' = [proc EXCEPT ![w] = "gated"],
               tomb' = [tomb EXCEPT ![w] = "registered"],
               sup' = [sup EXCEPT !.pc = "admit", !.todo = {w}]
        PROVE  Typed'
    <3>1. SupTyped'
      BY <2>2 DEF Typed, SupTyped, SupOK, SupMemory, SupPC
    <3>2. BrokerOK' /\ ProcOK'
      BY <1>8, <2>2 DEF TickSpawn, Typed, BrokerOK, ProcOK
    <3>. QED  BY <1>8, <3>1, <3>2, Unmoved DEF Typed, TickSpawn, ledger
  <2>3. sup.blocked \in BOOLEAN
    BY DEF Typed, SupTyped, SupOK, SupMemory
  <2>. QED  BY <1>8, <2>1, <2>2, <2>3 DEF TickSpawn
<1>9. ASSUME NEW w \in Worker, TickAdmit(w) PROVE Typed'
  <2>1. SupTyped' /\ ProcOK'
    BY <1>9 DEF TickAdmit, Typed, SupTyped, SupOK, SupMemory, SupPC, ProcOK
  <2>. QED  BY <1>9, <2>1, Unmoved DEF Typed, TickAdmit, ledger, broker
<1>. QED  BY <1>1, <1>2, <1>3, <1>4, <1>5, <1>6, <1>7, <1>8, <1>9 DEF Tick

LEMMA TypedSupEnds ==
    ASSUME Typed, SupUnwinds \/ SupCrash \/ SupRaises PROVE Typed'
<1>1. CASE SupUnwinds
  <2>1. SupTyped' /\ sup.child \in Worker
    BY <1>1 DEF SupUnwinds, Typed, SupTyped, SupOK, SupMemory, SupPC, Asleep
  <2>2. JobsTyped' /\ RunsOK' /\ CallsOK' /\ ExitsOK'
    <3>1. CASE ConfirmExit(sup.child, FALSE)
      BY <2>1, <3>1, ConfirmExitTyped
    <3>2. CASE UNCHANGED ledger
      BY <3>2, Unmoved DEF ledger
    <3>. QED  BY <1>1, <3>1, <3>2 DEF SupUnwinds
  <2>. QED  BY <1>1, <2>1, <2>2, Unmoved DEF Typed, SupUnwinds, broker, child
<1>2. CASE SupCrash
  <2>1. FaultsOK'
    BY <1>2, Bounds DEF SupCrash, Typed, FaultsOK, Faults
  <2>2. SupTyped'
    BY <1>2 DEF SupCrash, SupTyped, SupOK, SupMemory, SupPC, Asleep
  <2>. QED  BY <1>2, <2>1, <2>2, Unmoved DEF Typed, SupCrash, ledger, broker, child
<1>3. CASE SupRaises
  <2>1. FaultsOK'
    BY <1>3, Bounds DEF SupRaises, Typed, FaultsOK, Faults
  <2>2. SupTyped'
    <3>1. CASE sup' = Asleep
      BY <3>1 DEF SupTyped, SupOK, SupMemory, SupPC, Asleep
    <3>2. CASE sup.child # None /\ sup' = [Asleep EXCEPT !.pc = "unwind", !.child = sup.child]
      <4>1. sup.child \in Worker
        BY <3>2 DEF Typed, SupTyped, SupOK, SupMemory
      <4>. QED  BY <3>2, <4>1 DEF SupTyped, SupOK, SupMemory, SupPC, Asleep
    <3>. QED  BY <1>3, <3>1, <3>2 DEF SupRaises
  <2>3. ProcOK'
    BY <1>3, KillTyped, Unmoved DEF SupRaises
  <2>. QED  BY <1>3, <2>1, <2>2, <2>3, Unmoved DEF Typed, SupRaises, ledger, broker
<1>. QED  BY <1>1, <1>2, <1>3

-----------------------------------------------------------------------------
LEMMA TypedNext == ASSUME Typed, [Next]_vars PROVE Typed'
<1>1. CASE Next
  <2>1. CASE \E w \in Worker : WorkerStep(w) \/ Operation(w) \/ ChildEnds(w) \/ ChildFails(w)
    BY <2>1, TypedWorkerStep, TypedOperation, TypedChildEnds
  <2>2. CASE \E c \in CallId : DrainAges(c)
    BY <2>2, TypedDrainAges
  <2>3. CASE Members
    BY <2>3, TypedMembers
  <2>4. CASE SupStep \/ SupCrash \/ SupRaises
    BY <2>4, TypedSupStart, TypedRecovery, TypedTick, TypedSupEnds DEF SupStep
  <2>. QED  BY <1>1, <2>1, <2>2, <2>3, <2>4 DEF Next
<1>2. CASE UNCHANGED vars
  BY <1>2, Unmoved DEF Typed, vars, ledger, broker, child
<1>. QED  BY <1>1, <1>2

\* Every child works on a call of the lane, every job that is worked on has been
\* charged for it, and the supervisor knows whose exit it records (the values
\* jobs.py, provider_runtime.py and worker.py keep in their rows and fields).
THEOREM TypedAlways == Spec => []Typed
<1>1. Init => Typed
  BY TypedInit
<1>2. Typed /\ [Next]_vars => Typed'
  BY TypedNext
<1>. QED  BY <1>1, <1>2, PTL DEF Spec

\* The ledgers, the broker, the children and the supervisor keep their types,
\* the charged attempts and the faults their bounds.
THEOREM TypeCorrect == Spec => []TypeOK
<1>1. Typed => TypeOK
  BY DEF Typed, JobsTyped, MemTyped, SupTyped, TypeOK
<1>. QED  BY <1>1, TypedAlways, PTL


-----------------------------------------------------------------------------
\* Steps that cannot disturb the registry.

LEMMA ExitsUndisturbed ==
    ASSUME ExitsKnown, UNCHANGED <<exits, tomb, backlog, proc, sup>> PROVE ExitsKnown'
BY DEF ExitsKnown, SupKnows, ExitsAreReal, LivingKnown, OneChild

LEMMA ExitsWorkerStep ==
    ASSUME ExitsKnown, NEW w \in Worker, WorkerStep(w) \/ Operation(w) PROVE ExitsKnown'
<1>1. UNCHANGED <<exits, tomb, backlog, proc, sup>>
  BY DEF WorkerStep, Operation, CheckDrains, StopServing, LookForWork, NoJob, NoRun,
         ClaimJob, RefuseAll, ClaimRun, RefuseRun, Admit, Deny, NotSubmitted,
         WaiterReturns, WaiterTimesOut, DrainCall, MarkDraining, CompleteJob, FailJob,
         DeferJob, PrepareTurn, NextTurn, FinishRun, OpDone, LostCallback,
         ledger, broker, quiet, butJobs, butRuns, butCalls, butOpen
<1>. QED  BY <1>1, ExitsUndisturbed

LEMMA ExitsMembers ==
    ASSUME ExitsKnown, Members \/ \E c \in CallId : DrainAges(c) PROVE ExitsKnown'
<1>1. UNCHANGED <<exits, tomb, backlog, proc, sup>>
  BY DEF Members, Enqueue, Submit, DeleteConversation, DrainAges, others, broker, child,
         butJobs, butRuns, butOverdue
<1>. QED  BY <1>1, ExitsUndisturbed

-----------------------------------------------------------------------------
\* A child that dies.

LEMMA ExitsVanish ==
    ASSUME Typed, ExitsKnown, NEW w \in Worker, Vanish(w),
           UNCHANGED <<exits, tomb, backlog, sup>>,
           proc[w] = "gated" => ~(sup.pc = "admit" /\ w \in sup.todo)
    PROVE  ExitsKnown'
<1>1. proc' = [proc EXCEPT ![w] = "dead"] /\ proc \in [Worker -> {"unborn", "gated", "alive", "doomed", "dead"}]
  BY DEF Vanish, Typed, ProcOK
<1>2. SupKnows'
  <2>1. sup.pending # None => proc'[sup.pending] = "dead"
    BY <1>1 DEF ExitsKnown, SupKnows, Typed, SupTyped, SupOK, SupMemory
  <2>2. sup.pc = "admit" => \A v \in sup.todo : proc'[v] = "gated"
    BY <1>1 DEF ExitsKnown, SupKnows, Typed, SupTyped, SupOK, SupMemory
  <2>. QED  BY <2>1, <2>2 DEF ExitsKnown, SupKnows
<1>3. ExitsAreReal'
  BY <1>1 DEF ExitsKnown, ExitsAreReal
<1>4. LivingKnown'
  BY <1>1 DEF ExitsKnown, LivingKnown, Living
<1>5. OneChild'
  BY <1>1 DEF ExitsKnown, OneChild
<1>. QED  BY <1>2, <1>3, <1>4, <1>5 DEF ExitsKnown

LEMMA ExitsChildEnds ==
    ASSUME Typed, ExitsKnown, NEW w \in Worker, ChildEnds(w) \/ ChildFails(w)
    PROVE  ExitsKnown'
<1>1. CASE WorkerRaises(w)
  BY <1>1, ExitsUndisturbed DEF WorkerRaises, ledger, broker, quiet
<1>2. CASE WorkerDies(w) \/ WorkerLeaves(w) \/ KillLands(w) \/ GateCloses(w)
  BY <1>2, ExitsVanish
  DEF WorkerDies, WorkerLeaves, KillLands, GateCloses, At, Executing, ledger, broker
<1>. QED  BY <1>1, <1>2 DEF ChildEnds, ChildFails

-----------------------------------------------------------------------------
\* The writes of the supervisor.

\* A kill changes what a living process will do, never whether it lives.
LEMMA KillSpares ==
    ASSUME Typed, NEW S, Kill(S)
    PROVE  \A w \in Worker : /\ proc'[w] \in Living <=> proc[w] \in Living
                             /\ proc'[w] = "dead" <=> proc[w] = "dead"
BY DEF Typed, ProcOK, Kill, Living

\* A reconcile call answers TRUE only of a dead process, whose row it marks.
LEMMA BrokerReconciles ==
    ASSUME Typed, ExitsAreReal, NEW w \in Worker, BrokerReconcile(w)
    PROVE  /\ \A v \in Worker : v # w => tomb'[v] = tomb[v] /\ backlog'[v] = backlog[v]
           /\ tomb'[w] # tomb[w] => Reconciles(w)
           /\ Reconciles(w) => /\ proc[w] = "dead" /\ tomb'[w] = "reconciled"
                               /\ backlog'[w] = 0
           /\ tomb[w] = "reconciled" => backlog'[w] = 0
           /\ tomb'[w] = "reconciled" => proc[w] = "dead" /\ backlog'[w] = 0
BY DEF Typed, BrokerOK, ExitsAreReal, BrokerReconcile, Reconciles

LEMMA ReconcileKeepsExitsReal ==
    ASSUME Typed, ExitsAreReal, NEW w \in Worker, BrokerReconcile(w), UNCHANGED <<exits, proc>>
    PROVE  ExitsAreReal'
BY BrokerReconciles DEF ExitsAreReal, Reconciles

LEMMA ConfirmKeepsExitsReal ==
    ASSUME Typed, ExitsAreReal, NEW w \in Worker, NEW ok \in BOOLEAN, ConfirmExit(w, ok),
           proc[w] = "dead", ok => tomb[w] = "reconciled",
           UNCHANGED <<tomb, backlog, proc>>
    PROVE  ExitsAreReal'
BY DEF ExitsAreReal, ConfirmExit, Typed, ExitsOK

LEMMA OneChildStays ==
    ASSUME OneChild, \A w \in Worker : proc'[w] \in Living => proc[w] \in Living
    PROVE  OneChild'
BY DEF OneChild, Living

\* Away from the points that may have a child, none lives.
LEMMA NoneLives ==
    ASSUME LivingKnown,
           \/ sup.pc \notin {"down", "unwind", "top", "reconcile", "admit"}
           \/ sup.pc = "reconcile" /\ sup.todo = {}
    PROVE  \A w \in Worker : proc[w] \notin Living
BY DEF LivingKnown

LEMMA SupTypes ==
    ASSUME Typed
    PROVE  /\ sup.child \in Worker \cup {None} /\ sup.pending \in Worker \cup {None}
           /\ sup.list \in SUBSET Worker /\ sup.todo \in SUBSET Worker
           /\ sup.ok \in BOOLEAN /\ sup \in SupMemory
BY DEF Typed, SupTyped, SupOK, SupMemory

-----------------------------------------------------------------------------
\* Recovery.

LEMMA ExitsSupStart == ASSUME Typed, ExitsKnown, SupStart PROVE ExitsKnown'
<1>1. UNCHANGED <<exits, tomb, backlog, proc>>
      /\ sup'.pc = "top" /\ sup'.child = None /\ sup'.pending = None /\ sup'.todo = {}
  BY DEF SupStart, Asleep, ledger, broker, child
<1>. QED
  BY <1>1 DEF ExitsKnown, SupKnows, Childless, Settled, ExitsAreReal, LivingKnown, OneChild

LEMMA ExitsRecoverInventory ==
    ASSUME Typed, ExitsKnown, RecoverInventory PROVE ExitsKnown'
<1>1. /\ sup'.pc = "reconcile" /\ sup'.child = None /\ sup'.pending = sup.pending
      /\ sup'.list = {w \in Worker : tomb[w] # "none"} /\ sup'.todo = sup'.list
      /\ UNCHANGED <<exits, tomb, backlog>>
      /\ \A w \in Worker : /\ proc'[w] \in Living <=> proc[w] \in Living
                           /\ proc'[w] = "dead" <=> proc[w] = "dead"
  BY SupTypes, KillSpares DEF RecoverInventory, SupMemory, ledger, broker
<1>2. SupKnows'
  BY <1>1, SupTypes DEF ExitsKnown, SupKnows, Settled
<1>3. ExitsAreReal' /\ OneChild'
  BY <1>1, OneChildStays DEF ExitsKnown, ExitsAreReal
<1>4. LivingKnown'
  BY <1>1 DEF ExitsKnown, LivingKnown
<1>. QED  BY <1>2, <1>3, <1>4 DEF ExitsKnown

LEMMA ExitsRecoverReconcile ==
    ASSUME Typed, ExitsKnown, NEW w \in Worker, RecoverReconcile(w) PROVE ExitsKnown'
<1>1. /\ sup.pc = "reconcile" /\ w \in sup.todo /\ BrokerReconcile(w)
      /\ UNCHANGED <<exits, proc>>
      /\ sup'.pc = IF Reconciles(w) THEN "reconcile" ELSE "top"
      /\ sup'.child = sup.child /\ sup'.pending = sup.pending
      /\ sup'.list = sup.list /\ sup'.todo = sup.todo \ {w}
  BY SupTypes DEF RecoverReconcile, SupMemory, ledger, child
<1>2. SupKnows'
  BY <1>1, BrokerReconciles, SupTypes DEF ExitsKnown, SupKnows, Childless, Settled
<1>3. ExitsAreReal' /\ OneChild'
  BY <1>1, ReconcileKeepsExitsReal, OneChildStays DEF ExitsKnown
<1>4. LivingKnown'
  BY <1>1, BrokerReconciles DEF ExitsKnown, LivingKnown, Living, SupKnows, Childless
<1>. QED  BY <1>2, <1>3, <1>4 DEF ExitsKnown

LEMMA ExitsRecoverConfirm ==
    ASSUME Typed, ExitsKnown, NEW w \in Worker, RecoverConfirm(w) PROVE ExitsKnown'
<1>1. /\ sup.pc = "confirm" /\ w \in sup.todo /\ ConfirmExit(w, TRUE)
      /\ UNCHANGED <<tomb, backlog, proc>>
      /\ sup'.pc = "confirm" /\ sup'.child = sup.child /\ sup'.pending = sup.pending
      /\ sup'.list = sup.list /\ sup'.todo = sup.todo \ {w}
  BY SupTypes DEF RecoverConfirm, SupMemory, broker, child
<1>2. tomb[w] = "reconciled" /\ proc[w] = "dead"
  BY <1>1 DEF ExitsKnown, SupKnows, Settled, ExitsAreReal
<1>3. ExitsAreReal' /\ OneChild'
  BY <1>1, <1>2, ConfirmKeepsExitsReal, OneChildStays DEF ExitsKnown
<1>4. SupKnows' /\ LivingKnown'
  BY <1>1 DEF ExitsKnown, SupKnows, Childless, Settled, LivingKnown
<1>. QED  BY <1>3, <1>4 DEF ExitsKnown

LEMMA ExitsRecoverForget ==
    ASSUME Typed, ExitsKnown, NEW w \in Worker, RecoverForget(w) PROVE ExitsKnown'
<1>1. /\ sup.pc = "forget" /\ UNCHANGED <<exits, backlog, proc>>
      /\ sup'.pc = "forget" /\ sup'.child = sup.child /\ sup'.pending = sup.pending
      /\ sup'.list = sup.list /\ sup'.todo = sup.todo \ {w}
      /\ tomb' = [tomb EXCEPT ![w] = IF @ = "reconciled" THEN "none" ELSE @]
  BY SupTypes DEF RecoverForget, SupMemory, ledger, child
<1>2. ExitsAreReal' /\ OneChild'
  BY <1>1, OneChildStays DEF ExitsKnown, ExitsAreReal, Typed, BrokerOK
<1>3. SupKnows'
  BY <1>1 DEF ExitsKnown, SupKnows, Childless, Settled
<1>4. LivingKnown'
  BY <1>1, NoneLives DEF ExitsKnown, LivingKnown
<1>. QED  BY <1>2, <1>3, <1>4 DEF ExitsKnown

LEMMA ExitsRecoverNext == ASSUME Typed, ExitsKnown, RecoverNext PROVE ExitsKnown'
<1>1. UNCHANGED <<exits, tomb, backlog, proc>> /\ sup.todo = {}
  BY DEF RecoverNext, ledger, broker, child
<1>2. \/ /\ sup.pc = "reconcile" /\ sup'.pc = "confirm" /\ sup'.todo = sup.list
         /\ sup'.list = sup.list
      \/ /\ sup.pc = "confirm" /\ sup'.pc = "leases" /\ sup'.todo = {}
         /\ sup'.list = sup.list
      \/ sup.pc = "forget" /\ sup'.pc = "tick"
  BY SupTypes DEF RecoverNext, SupMemory
<1>3. sup'.child = sup.child /\ sup'.pending = sup.pending
  BY SupTypes DEF RecoverNext, SupMemory
<1>4. \A w \in Worker : proc'[w] \notin Living
  BY <1>1, <1>2, NoneLives DEF ExitsKnown
<1>5. SupKnows'
  BY <1>1, <1>2, <1>3 DEF ExitsKnown, SupKnows, Childless, Settled
<1>. QED  BY <1>1, <1>4, <1>5 DEF ExitsKnown, ExitsAreReal, LivingKnown, OneChild

LEMMA ExitsRecovery == ASSUME Typed, ExitsKnown, Recovery PROVE ExitsKnown'
<1>1. CASE RecoverLeasesStep
  <2>1. /\ sup.pc = "leases" /\ UNCHANGED <<exits, tomb, backlog, proc>>
        /\ sup'.pc = "forget" /\ sup'.child = sup.child /\ sup'.pending = sup.pending
        /\ sup'.list = sup.list /\ sup'.todo = sup.list
    BY <1>1, SupTypes DEF RecoverLeasesStep, RecoverLeases, butJobs, SupMemory, broker, child
  <2>. QED
    BY <2>1 DEF ExitsKnown, SupKnows, Childless, Settled, ExitsAreReal, LivingKnown, OneChild
<1>. QED
  BY <1>1, ExitsRecoverInventory, ExitsRecoverReconcile, ExitsRecoverConfirm,
     ExitsRecoverForget, ExitsRecoverNext DEF Recovery

-----------------------------------------------------------------------------
\* The tick.

LEMMA ExitsTickPickExit == ASSUME Typed, ExitsKnown, TickPickExit PROVE ExitsKnown'
<1>1. sup.pc = "tick" /\ UNCHANGED <<exits, tomb, backlog, proc>>
  BY DEF TickPickExit, ledger, broker, child
<1>2. CASE sup' = [sup EXCEPT !.pc = "settle"]
  <2>1. sup'.pc = "settle" /\ sup'.child = sup.child /\ sup'.pending = sup.pending
    BY <1>2, SupTypes DEF SupMemory
  <2>. QED
    BY <1>1, <2>1 DEF ExitsKnown, SupKnows, Childless, Settled, ExitsAreReal, LivingKnown, OneChild
<1>3. ASSUME NEW w \in Worker, exits[w] = "unreconciled",
             sup' = [sup EXCEPT !.pc = "settle", !.pending = w, !.blocked = TRUE]
      PROVE  ExitsKnown'
  <2>1. sup'.pc = "settle" /\ sup'.child = sup.child /\ sup'.pending = w
    BY <1>3, SupTypes DEF SupMemory
  <2>2. proc[w] = "dead"
    BY <1>3 DEF ExitsKnown, ExitsAreReal
  <2>. QED
    BY <1>1, <2>1, <2>2
    DEF ExitsKnown, SupKnows, Childless, Settled, ExitsAreReal, LivingKnown, OneChild
<1>. QED  BY <1>2, <1>3 DEF TickPickExit

LEMMA ExitsTickStuck == ASSUME Typed, ExitsKnown, TickStuck PROVE ExitsKnown'
<1>1. /\ UNCHANGED <<exits, tomb, backlog, proc>>
      /\ sup.pc = "top" /\ sup'.pc = "top" /\ sup'.child = sup.child
      /\ sup'.pending = sup.pending
  BY SupTypes DEF TickStuck, Watching, SupMemory, butOpen, broker, child
<1>. QED
  BY <1>1 DEF ExitsKnown, SupKnows, Childless, Settled, ExitsAreReal, LivingKnown, OneChild

LEMMA ExitsTickDead == ASSUME Typed, ExitsKnown, TickDead PROVE ExitsKnown'
<1>1. /\ sup.pc = "top" /\ sup.child \in Worker /\ proc[sup.child] = "dead"
      /\ ConfirmExit(sup.child, FALSE) /\ UNCHANGED <<tomb, backlog, proc>>
      /\ sup'.pc = "settle" /\ sup'.child = None /\ sup'.pending = sup.child
  BY SupTypes DEF TickDead, Watching, SupMemory, SupPC, broker, child
<1>2. ExitsAreReal' /\ OneChild'
  BY <1>1, ConfirmKeepsExitsReal, OneChildStays DEF ExitsKnown
<1>3. SupKnows'
  BY <1>1 DEF SupKnows, Childless, Settled
<1>4. LivingKnown'
  BY <1>1, IdentityAssumption DEF ExitsKnown, LivingKnown, Living
<1>. QED  BY <1>2, <1>3, <1>4 DEF ExitsKnown

LEMMA ExitsTickStop == ASSUME Typed, ExitsKnown, TickStop PROVE ExitsKnown'
<1>1. /\ sup.pc = "top" /\ sup'.pc = "top" /\ sup'.child = sup.child
      /\ sup'.pending = sup.pending /\ UNCHANGED <<exits, tomb, backlog>>
      /\ \A w \in Worker : /\ proc'[w] \in Living <=> proc[w] \in Living
                           /\ proc'[w] = "dead" <=> proc[w] = "dead"
  BY SupTypes, KillSpares DEF TickStop, Watching, SupMemory, ledger, broker
<1>2. SupKnows'
  BY <1>1, SupTypes DEF ExitsKnown, SupKnows, Childless, Settled
<1>3. ExitsAreReal' /\ OneChild'
  BY <1>1, OneChildStays DEF ExitsKnown, ExitsAreReal
<1>4. LivingKnown'
  BY <1>1 DEF ExitsKnown, LivingKnown
<1>. QED  BY <1>2, <1>3, <1>4 DEF ExitsKnown

LEMMA ExitsTickReconcile == ASSUME Typed, ExitsKnown, TickReconcile PROVE ExitsKnown'
<1>1. CASE sup.pending = None
  <2>1. /\ sup.pc = "settle" /\ UNCHANGED <<exits, tomb, backlog, proc>>
        /\ sup'.pc = "spawn" /\ sup'.child = sup.child /\ sup'.pending = None
    BY <1>1, SupTypes DEF TickReconcile, SupMemory, ledger, broker, child
  <2>. QED
    BY <2>1 DEF ExitsKnown, SupKnows, Childless, Settled, ExitsAreReal, LivingKnown, OneChild
<1>2. CASE sup.pending # None
  <2>1. /\ sup.pc = "settle" /\ UNCHANGED <<exits, proc>> /\ sup.pending \in Worker
        /\ BrokerReconcile(sup.pending)
        /\ sup'.pc = "record" /\ sup'.child = sup.child /\ sup'.pending = sup.pending
        /\ sup'.ok => Reconciles(sup.pending)
    BY <1>2, SupTypes DEF TickReconcile, SupMemory, ledger, child
  <2>2. SupKnows'
    BY <2>1, BrokerReconciles DEF ExitsKnown, SupKnows, Childless, Settled
  <2>3. ExitsAreReal' /\ OneChild'
    BY <2>1, ReconcileKeepsExitsReal, OneChildStays DEF ExitsKnown
  <2>4. LivingKnown'
    BY <2>1, NoneLives DEF ExitsKnown, LivingKnown
  <2>. QED  BY <2>2, <2>3, <2>4 DEF ExitsKnown
<1>. QED  BY <1>1, <1>2

LEMMA ExitsTickConfirm == ASSUME Typed, ExitsKnown, TickConfirm PROVE ExitsKnown'
<1>1. /\ sup.pc = "record" /\ sup.pending \in Worker
      /\ ConfirmExit(sup.pending, sup.ok) /\ UNCHANGED <<tomb, backlog, proc>>
      /\ sup'.pc \in {"tickLeases", "spawn"} /\ sup'.child = sup.child
      /\ sup'.pending = sup.pending
  BY SupTypes DEF TickConfirm, Typed, SupTyped, SupMemory, broker, child
<1>2. proc[sup.pending] = "dead" /\ (sup.ok => tomb[sup.pending] = "reconciled")
  BY <1>1, IdentityAssumption DEF ExitsKnown, SupKnows
<1>3. ExitsAreReal' /\ OneChild'
  BY <1>1, <1>2, SupTypes, ConfirmKeepsExitsReal, OneChildStays DEF ExitsKnown
<1>4. SupKnows' /\ LivingKnown'
  BY <1>1 DEF ExitsKnown, SupKnows, Childless, Settled, LivingKnown
<1>. QED  BY <1>3, <1>4 DEF ExitsKnown

LEMMA ExitsTickLeases == ASSUME Typed, ExitsKnown, TickLeases PROVE ExitsKnown'
<1>1. /\ sup.pc = "tickLeases" /\ UNCHANGED <<exits, tomb, backlog, proc>>
      /\ sup'.pc = "spawn" /\ sup'.child = sup.child /\ sup'.pending = None
  BY SupTypes DEF TickLeases, RecoverLeases, butJobs, SupMemory, broker, child
<1>. QED
  BY <1>1 DEF ExitsKnown, SupKnows, Childless, Settled, ExitsAreReal, LivingKnown, OneChild

\* The only step that makes a process: none lives when it is taken.
LEMMA ExitsTickSpawn == ASSUME Typed, ExitsKnown, TickSpawn PROVE ExitsKnown'
<1>1. \A w \in Worker : proc[w] \notin Living
  <2>1. sup.pc = "spawn" /\ LivingKnown
    BY DEF TickSpawn, ExitsKnown
  <2>. QED  BY <2>1 DEF LivingKnown
<1>2. sup.pc = "spawn" /\ sup.child = None /\ UNCHANGED <<exits, backlog>>
  BY DEF TickSpawn, ExitsKnown, SupKnows, Childless, ledger
<1>3. CASE /\ sup'.pc = "top" /\ sup'.child = sup.child /\ sup'.pending = sup.pending
           /\ UNCHANGED <<tomb, proc>>
  BY <1>1, <1>2, <1>3
  DEF ExitsKnown, SupKnows, Childless, Settled, ExitsAreReal, LivingKnown, OneChild
<1>4. ASSUME NEW w \in Worker, proc[w] = "unborn",
             proc' = [proc EXCEPT ![w] = "gated"],
             tomb' = [tomb EXCEPT ![w] = "registered"],
             sup' = [sup EXCEPT !.pc = "admit", !.todo = {w}]
      PROVE  ExitsKnown'
  <2>1. /\ sup'.pc = "admit" /\ sup'.todo = {w} /\ sup'.child = None
        /\ sup'.pending = sup.pending
    BY <1>2, <1>4, SupTypes DEF SupMemory
  <2>2. /\ proc'[w] = "gated" /\ tomb'[w] = "registered"
        /\ \A v \in Worker : v # w => proc'[v] = proc[v] /\ tomb'[v] = tomb[v]
    BY <1>4 DEF Typed, ProcOK, BrokerOK
  <2>3. SupKnows'
    BY <1>4, <2>1, <2>2, SupTypes DEF ExitsKnown, SupKnows, Settled
  <2>4. ExitsAreReal'
    BY <1>2, <1>4, <2>2 DEF ExitsKnown, ExitsAreReal
  <2>5. LivingKnown' /\ OneChild'
    BY <1>1, <2>1, <2>2 DEF LivingKnown, OneChild, Living
  <2>. QED  BY <2>3, <2>4, <2>5 DEF ExitsKnown
<1>5. CASE /\ sup' = [sup EXCEPT !.pc = "top", !.blocked = @ \/ (sup.child = None /\
                         (HeldCalls # {} \/ \E w \in Worker : exits[w] = "unreconciled"))]
           /\ UNCHANGED <<tomb, proc>>
  BY <1>3, <1>5, SupTypes DEF SupMemory
<1>. QED  BY <1>4, <1>5 DEF TickSpawn

LEMMA ExitsTickAdmit ==
    ASSUME Typed, ExitsKnown, NEW w \in Worker, TickAdmit(w) PROVE ExitsKnown'
<1>1. /\ sup.pc = "admit" /\ w \in sup.todo /\ UNCHANGED <<exits, tomb, backlog>>
      /\ proc' = [proc EXCEPT ![w] = "alive"]
      /\ sup'.pc = "top" /\ sup'.child = w /\ sup'.pending = sup.pending
  BY SupTypes DEF TickAdmit, SupMemory, ledger, broker
<1>2. /\ proc[w] = "gated" /\ proc'[w] = "alive"
      /\ \A v \in Worker : v # w => proc'[v] = proc[v]
  BY <1>1 DEF ExitsKnown, SupKnows, Typed, ProcOK
<1>3. SupKnows'
  BY <1>1, <1>2, SupTypes DEF ExitsKnown, SupKnows, Childless, Settled
<1>4. ExitsAreReal' /\ OneChild'
  BY <1>1, <1>2, OneChildStays DEF ExitsKnown, ExitsAreReal, Living
<1>5. LivingKnown'
  BY <1>1, <1>2 DEF ExitsKnown, LivingKnown, OneChild, Living
<1>. QED  BY <1>3, <1>4, <1>5 DEF ExitsKnown

LEMMA ExitsTick == ASSUME Typed, ExitsKnown, Tick PROVE ExitsKnown'
BY ExitsTickPickExit, ExitsTickStuck, ExitsTickDead, ExitsTickStop, ExitsTickReconcile,
   ExitsTickConfirm, ExitsTickLeases, ExitsTickSpawn, ExitsTickAdmit DEF Tick

LEMMA ExitsSupEnds ==
    ASSUME Typed, ExitsKnown, SupUnwinds \/ SupCrash \/ SupRaises PROVE ExitsKnown'
<1>1. CASE SupUnwinds
  <2>1. /\ sup'.pc = "down" /\ sup'.child = None /\ sup'.pending = None
        /\ UNCHANGED <<tomb, backlog, proc>> /\ sup.child \in Worker
    BY <1>1, SupTypes DEF SupUnwinds, Asleep, Typed, SupTyped, broker, child
  <2>2. ExitsAreReal'
    <3>1. CASE proc[sup.child] = "dead" /\ ConfirmExit(sup.child, FALSE)
      BY <2>1, <3>1, ConfirmKeepsExitsReal DEF ExitsKnown
    <3>2. CASE UNCHANGED ledger
      BY <2>1, <3>2 DEF ExitsKnown, ExitsAreReal, ledger
    <3>. QED  BY <1>1, <3>1, <3>2 DEF SupUnwinds
  <2>. QED  BY <2>1, <2>2 DEF ExitsKnown, SupKnows, Settled, LivingKnown, OneChild
<1>2. CASE SupCrash
  <2>1. /\ sup'.pc = "down" /\ sup'.child = None /\ sup'.pending = None
        /\ UNCHANGED <<exits, tomb, backlog, proc>>
    BY <1>2 DEF SupCrash, Asleep, ledger, broker, child
  <2>. QED
    BY <2>1 DEF ExitsKnown, SupKnows, Settled, ExitsAreReal, LivingKnown, OneChild
<1>3. CASE SupRaises
  <2>1. /\ sup'.pc \in {"down", "unwind"} /\ sup'.pending = None
        /\ sup'.pc = "down" => sup'.child = None
        /\ UNCHANGED <<exits, tomb, backlog>>
    <3>1. CASE sup' = Asleep
      BY <1>3, <3>1 DEF SupRaises, Asleep, ledger, broker
    <3>2. CASE sup' = [Asleep EXCEPT !.pc = "unwind", !.child = sup.child]
      BY <1>3, <3>2 DEF SupRaises, Asleep, ledger, broker
    <3>. QED  BY <1>3, <3>1, <3>2 DEF SupRaises
  <2>2. \A w \in Worker : /\ proc'[w] \in Living <=> proc[w] \in Living
                          /\ proc'[w] = "dead" <=> proc[w] = "dead"
    BY <1>3, KillSpares DEF SupRaises
  <2>3. SupKnows'
    BY <2>1 DEF SupKnows, Childless, Settled
  <2>4. ExitsAreReal' /\ OneChild'
    BY <2>1, <2>2, OneChildStays DEF ExitsKnown, ExitsAreReal
  <2>5. LivingKnown'
    BY <2>1, <2>2 DEF ExitsKnown, LivingKnown
  <2>. QED  BY <2>3, <2>4, <2>5 DEF ExitsKnown
<1>. QED  BY <1>1, <1>2, <1>3

-----------------------------------------------------------------------------
LEMMA ExitsInit == Init => ExitsKnown
BY DEF Init, Asleep, ExitsKnown, SupKnows, Settled, ExitsAreReal, LivingKnown, OneChild, Living

LEMMA ExitsNext == ASSUME Typed, ExitsKnown, [Next]_vars PROVE ExitsKnown'
<1>1. CASE UNCHANGED vars
  BY <1>1, ExitsUndisturbed DEF vars, ledger, broker, child
<1>. QED
  BY <1>1, ExitsWorkerStep, ExitsMembers, ExitsChildEnds, ExitsSupStart, ExitsRecovery,
     ExitsTick, ExitsSupEnds DEF Next, SupStep

\* What the supervisor and both ledgers know of every process is true, whenever
\* the supervisor or a child died (recover_worker_state, WorkerSupervisor.tick).
THEOREM ExitsKnownAlways == Spec => []ExitsKnown
<1>1. Init => ExitsKnown
  BY ExitsInit
<1>2. Typed /\ ExitsKnown /\ [Next]_vars => ExitsKnown'
  BY ExitsNext
<1>. QED  BY <1>1, <1>2, TypedAlways, PTL DEF Spec

\* Two compute children never live at once, for any number of workers, crashes
\* and lost replies (recover_worker_state, tick, CgroupLauncher.recover).
THEOREM OneChildAlways == Spec => []OneChild
<1>1. ExitsKnown => OneChild
  BY DEF ExitsKnown
<1>. QED  BY <1>1, ExitsKnownAlways, PTL

\* No exit is recorded of a process that lives, and none is believed reconciled
\* before the broker settled it (confirm_worker_exit, ExitRegistry.reconcile).
THEOREM ExitsAreRealAlways == Spec => []ExitsAreReal
<1>1. ExitsKnown => ExitsAreReal
  BY DEF ExitsKnown
<1>. QED  BY <1>1, ExitsKnownAlways, PTL

-----------------------------------------------------------------------------
\* Steps that take nothing.

LEMMA LaneShrinks ==
    ASSUME LaneExclusive, ActiveJobs' \subseteq ActiveJobs, ActiveRuns' \subseteq ActiveRuns
    PROVE  LaneExclusive'
BY DEF LaneExclusive

LEMMA LaneUndisturbed ==
    ASSUME LaneExclusive, UNCHANGED <<jobs, runs>> PROVE LaneExclusive'
BY DEF LaneExclusive, ActiveJobs, ActiveRuns

LEMMA RunsUndisturbed ==
    ASSUME RunOwned, UNCHANGED <<runs, proc, mem>> PROVE RunOwned'
BY DEF RunOwned, Owned, OnRun, HasItem, ItemOf, Executing

\* A run that was taken keeps its owner; a step of one child leaves the runs of
\* the others at work.
Keeps(w) ==
    \A r \in Run :
        /\ runs[r].status \in Taken => /\ runs'[r].worker = runs[r].worker
                                       /\ runs'[r].status \in Taken
        /\ runs[r].status \in Active /\ runs[r].worker # w => runs'[r].status \in Active

\* One child moves; the runs of the others stay as they were.
LEMMA OwnerMoves ==
    ASSUME RunOwned, NEW w \in Worker, Keeps(w), Owned(w)',
           \A v \in Worker : v # w => mem'[v] = mem[v] /\ proc'[v] = proc[v]
    PROVE  RunOwned'
<1>. SUFFICES ASSUME NEW v \in Worker, v # w PROVE Owned(v)'
  BY DEF RunOwned
<1>1. /\ mem'[v] = mem[v] /\ proc'[v] = proc[v] /\ ItemOf(v)' = ItemOf(v)
      /\ OnRun(v)' <=> OnRun(v)
  BY DEF OnRun, HasItem, ItemOf
<1>2. ASSUME OnRun(v) PROVE /\ runs'[ItemOf(v)].worker = v
                            /\ runs'[ItemOf(v)].status \in Taken
  BY <1>2 DEF RunOwned, Owned, Keeps, OnRun
<1>3. ASSUME OnRun(v), mem[v].pc \in Working
      PROVE  runs'[ItemOf(v)].status \in Active
  BY <1>3 DEF RunOwned, Owned, Keeps, OnRun
<1>. QED  BY <1>1, <1>2, <1>3 DEF RunOwned, Owned, Executing

\* A child that moves within its loop, or lets its call go.
LEMMA MemMoves ==
    ASSUME Typed, NEW w \in Worker
    PROVE  /\ \A point : Goto(w, point) =>
                /\ \A v \in Worker : v # w => mem'[v] = mem[v]
                /\ mem'[w].pc = point /\ mem'[w].call = mem[w].call
           /\ \A got : GotoWith(w, "settle", got) =>
                /\ \A v \in Worker : v # w => mem'[v] = mem[v]
                /\ mem'[w].pc = "settle" /\ mem'[w].call = mem[w].call
           /\ Release(w) =>
                /\ \A v \in Worker : v # w => mem'[v] = mem[v]
                /\ mem'[w].call = None
BY DEF Typed, MemTyped, MemOK, Memory, Goto, GotoWith, Release, Working

-----------------------------------------------------------------------------
\* Members and time.

LEMMA LaneMembers ==
    ASSUME Typed, RunOwned, LaneExclusive, Members \/ \E c \in CallId : DrainAges(c)
    PROVE  RunOwned' /\ LaneExclusive'
<1>1. ASSUME NEW j \in Job, Enqueue(j) PROVE RunOwned' /\ LaneExclusive'
  <2>1. ActiveJobs' \subseteq ActiveJobs /\ ActiveRuns' \subseteq ActiveRuns
    BY <1>1 DEF Enqueue, butJobs, ActiveJobs, ActiveRuns, Active, Typed, JobsTyped, JobsOK, JobRow
  <2>. QED
    BY <1>1, <2>1, LaneShrinks, RunsUndisturbed DEF Enqueue, butJobs, others, child
<1>2. ASSUME NEW r \in Run, Submit(r) \/ DeleteConversation(r)
      PROVE  RunOwned' /\ LaneExclusive'
  <2>1. UNCHANGED <<jobs, proc, mem>>
    BY <1>2 DEF Submit, DeleteConversation, butRuns, others, child
  <2>2. \A q \in Run : /\ runs'[q].worker = runs[q].worker
                       /\ runs'[q].status \in Active <=> runs[q].status \in Active
                       /\ runs[q].status \in Taken => runs'[q].status \in Taken
    BY <1>2 DEF Submit, DeleteConversation, Active, Taken, Terminal, Typed, RunsOK, RunRow
  <2>3. ActiveJobs' \subseteq ActiveJobs /\ ActiveRuns' \subseteq ActiveRuns
    BY <2>1, <2>2 DEF ActiveJobs, ActiveRuns
  <2>4. RunOwned'
    BY <2>1, <2>2 DEF RunOwned, Owned, OnRun, HasItem, ItemOf, Executing
  <2>. QED  BY <2>3, <2>4, LaneShrinks
<1>3. ASSUME NEW c \in CallId, DrainAges(c) PROVE RunOwned' /\ LaneExclusive'
  BY <1>3, LaneUndisturbed, RunsUndisturbed DEF DrainAges, butOverdue, others, child
<1>. QED  BY <1>1, <1>2, <1>3 DEF Members

-----------------------------------------------------------------------------
\* The compute child.

\* Steps that write neither queue and take no item.
LEMMA LaneMoves ==
    ASSUME Typed, RunOwned, LaneExclusive, NEW w \in Worker,
           \/ CheckDrains(w) \/ StopServing(w) \/ LookForWork(w) \/ NoJob(w) \/ NoRun(w)
           \/ Deny(w) \/ NotSubmitted(w) \/ WaiterReturns(w) \/ WaiterTimesOut(w)
           \/ DrainCall(w) \/ Admit(w)
    PROVE  RunOwned' /\ LaneExclusive'
<1>1. UNCHANGED <<jobs, runs, proc>> /\ Executing(w)
  BY DEF CheckDrains, StopServing, LookForWork, NoJob, NoRun, Deny, NotSubmitted,
         WaiterReturns, WaiterTimesOut, DrainCall, Admit, At, ledger, butOpen, butCalls, quiet
<1>2. /\ \A v \in Worker : v # w => mem'[v] = mem[v]
      /\ mem'[w].call = mem[w].call
      /\ mem'[w].pc \in Working => mem[w].pc \in Working /\ proc[w] \in {"alive", "doomed"}
  BY MemMoves
  DEF CheckDrains, StopServing, LookForWork, NoJob, NoRun, Deny, NotSubmitted,
      WaiterReturns, WaiterTimesOut, DrainCall, Admit, At, Executing, Working
<1>3. Owned(w)' /\ Keeps(w)
  BY <1>1, <1>2 DEF RunOwned, Owned, OnRun, HasItem, ItemOf, Executing, Keeps
<1>. QED  BY <1>1, <1>2, <1>3, OwnerMoves, LaneUndisturbed

\* Steps that end what the child holds.
LEMMA LaneJobEnds ==
    ASSUME Typed, RunOwned, LaneExclusive, NEW w \in Worker,
           CompleteJob(w) \/ FailJob(w) \/ DeferJob(w)
    PROVE  RunOwned' /\ LaneExclusive'
<1>1. UNCHANGED <<runs, proc>> /\ Release(w)
  BY DEF CompleteJob, FailJob, DeferJob, butJobs, quiet
<1>2. ActiveJobs' \subseteq ActiveJobs
  BY DEF CompleteJob, FailJob, DeferJob, Deferred, ActiveJobs, Active, Terminal,
         Typed, JobsTyped, JobsOK, JobRow
<1>3. LaneExclusive'
  BY <1>1, <1>2, LaneShrinks DEF ActiveRuns
<1>4. Owned(w)' /\ Keeps(w)
  BY <1>1, MemMoves DEF Owned, OnRun, HasItem, Keeps
<1>. QED  BY <1>1, <1>3, <1>4, MemMoves, OwnerMoves

LEMMA LaneFinishRun ==
    ASSUME Typed, RunOwned, LaneExclusive, NEW w \in Worker, FinishRun(w)
    PROVE  RunOwned' /\ LaneExclusive'
<1>1. UNCHANGED <<jobs, proc>> /\ Release(w) /\ OnRun(w)
  BY DEF FinishRun, butRuns
<1>2. \A r \in Run : /\ runs'[r].worker = runs[r].worker
                     /\ runs'[r].status \in Active => runs[r].status \in Active
                     /\ runs[r].status \in Taken => runs'[r].status \in Taken
                     /\ r # ItemOf(w) => runs'[r] = runs[r]
  BY DEF FinishRun, Active, Taken, Terminal, Typed, RunsOK, RunRow
<1>3. LaneExclusive'
  BY <1>1, <1>2, LaneShrinks DEF ActiveJobs, ActiveRuns
<1>4. Owned(w)' /\ Keeps(w)
  BY <1>1, <1>2, MemMoves DEF RunOwned, Owned, OnRun, HasItem, Keeps
<1>. QED  BY <1>1, <1>3, <1>4, MemMoves, OwnerMoves

\* The steps of a run that go on working on it.
LEMMA LaneRunGoesOn ==
    ASSUME Typed, RunOwned, LaneExclusive, NEW w \in Worker,
           PrepareTurn(w) \/ NextTurn(w)
    PROVE  RunOwned' /\ LaneExclusive'
<1>1. UNCHANGED <<jobs, proc>> /\ proc[w] \in {"alive", "doomed"} /\ mem[w].pc \in Working
  BY DEF PrepareTurn, NextTurn, At, Executing, Working, butRuns, ledger, quiet
<1>2. \A r \in Run : runs'[r].status = runs[r].status /\ runs'[r].worker = runs[r].worker
  BY DEF PrepareTurn, NextTurn, ledger, Typed, RunsOK, RunRow
<1>3. OnRun(w)
  BY BusyHasItem
  DEF PrepareTurn, NextTurn, At, Empty, Typed, MemTyped, HoldsCall, OnRun, ItemOf
<1>4. /\ \A v \in Worker : v # w => mem'[v] = mem[v]
      /\ mem'[w].call # None => mem'[w].call[1] = mem[w].call[1]
  <2>1. CASE PrepareTurn(w)
    BY <2>1, MemMoves DEF PrepareTurn
  <2>2. CASE NextTurn(w)
    BY <2>2 DEF NextTurn, ItemOf, Typed, MemTyped, MemOK, Memory
  <2>. QED  BY <2>1, <2>2
<1>5. LaneExclusive'
  BY <1>1, <1>2, LaneShrinks DEF ActiveJobs, ActiveRuns
<1>6. Owned(w)' /\ Keeps(w)
  BY <1>1, <1>2, <1>3, <1>4 DEF RunOwned, Owned, OnRun, HasItem, ItemOf, Keeps, Executing
<1>. QED  BY <1>1, <1>4, <1>5, <1>6, OwnerMoves

\* The drain update of execute does not look at the run's status: it is right
\* because the child still owns an active run.
LEMMA LaneMarkDraining ==
    ASSUME Typed, RunOwned, LaneExclusive, NEW w \in Worker, MarkDraining(w)
    PROVE  RunOwned' /\ LaneExclusive'
<1>1. /\ UNCHANGED proc /\ proc[w] \in {"alive", "doomed"}
      /\ mem[w].pc = "drained" /\ HasItem(w)
  BY BusyHasItem DEF MarkDraining, At, Executing, Empty, quiet
<1>2. /\ \A v \in Worker : v # w => mem'[v] = mem[v]
      /\ mem'[w].pc = "polling" /\ mem'[w].call = mem[w].call
  BY MemMoves DEF MarkDraining
<1>3. CASE OnJob(w)
  <2>1. UNCHANGED runs /\ ActiveJobs' \subseteq ActiveJobs
    BY <1>3 DEF MarkDraining, Drained, ActiveJobs, Active, Typed, JobsTyped, JobsOK, JobRow
  <2>2. ~OnRun(w)'
    BY <1>2, <1>3, IdentityAssumption DEF OnJob, OnRun, ItemOf
  <2>3. LaneExclusive'
    BY <2>1, LaneShrinks DEF ActiveRuns
  <2>4. Owned(w)' /\ Keeps(w)
    BY <2>1, <2>2 DEF Owned, Keeps
  <2>. QED  BY <1>1, <1>2, <2>3, <2>4, OwnerMoves
<1>4. CASE ~OnJob(w)
  <2>1. UNCHANGED jobs /\ OnRun(w) /\ runs[ItemOf(w)].status \in Active
    BY <1>1, <1>4, OwnTyped DEF MarkDraining, RunOwned, Owned, Working
  <2>2. \A r \in Run : /\ runs'[r].worker = runs[r].worker
                       /\ runs'[r].status = IF r = ItemOf(w) THEN "draining" ELSE runs[r].status
    BY <1>4 DEF MarkDraining, Typed, RunsOK, RunRow
  <2>3. LaneExclusive'
    BY <2>1, <2>2, LaneShrinks DEF ActiveJobs, ActiveRuns, Active
  <2>4. Owned(w)' /\ Keeps(w)
    BY <1>1, <1>2, <2>1, <2>2
    DEF RunOwned, Owned, OnRun, HasItem, ItemOf, Executing, Keeps, Taken, Active
  <2>. QED  BY <1>1, <1>2, <2>3, <2>4, OwnerMoves
<1>. QED  BY <1>3, <1>4

\* Refused candidates leave the queue.
LEMMA LaneRefuses ==
    ASSUME Typed, RunOwned, LaneExclusive, NEW w \in Worker,
           RefuseAll(w) \/ \E r \in Run : RefuseRun(w, r)
    PROVE  RunOwned' /\ LaneExclusive'
<1>1. CASE RefuseAll(w)
  <2>1. UNCHANGED <<runs, proc>> /\ Goto(w, "offerRun")
    BY <1>1 DEF RefuseAll, butJobs, quiet
  <2>2. ActiveJobs' \subseteq ActiveJobs
    BY <1>1 DEF RefuseAll, ActiveJobs, Active, Typed, JobsTyped, JobsOK, JobRow
  <2>3. LaneExclusive'
    BY <2>1, <2>2, LaneShrinks DEF ActiveRuns
  <2>4. Owned(w)' /\ Keeps(w)
    BY <2>1, MemMoves DEF RunOwned, Owned, OnRun, HasItem, ItemOf, Executing, Keeps, Working
  <2>. QED  BY <2>1, <2>3, <2>4, MemMoves, OwnerMoves
<1>2. ASSUME NEW r \in Run, RefuseRun(w, r) PROVE RunOwned' /\ LaneExclusive'
  <2>1. /\ UNCHANGED <<jobs, proc>> /\ runs[r].status = "queued"
        /\ Goto(w, "claimJob") \/ Goto(w, "idle")
    BY <1>2 DEF RefuseRun, butRuns, quiet
  <2>2. /\ \A q \in Run : q # r => runs'[q] = runs[q]
        /\ runs'[r].status = "unavailable"
    <3>1. runs' = [runs EXCEPT ![r] = [runs[r] EXCEPT !.status = "unavailable", !.worker = w]]
      BY <1>2 DEF RefuseRun
    <3>2. runs \in [Run -> RunRow] /\ runs[r] \in RunRow
      BY DEF Typed, RunsOK
    <3>3. [runs[r] EXCEPT !.status = "unavailable", !.worker = w].status = "unavailable"
      BY <3>2 DEF RunRow
    <3>. QED  BY <3>1, <3>2, <3>3
  <2>3. LaneExclusive'
    BY <2>1, <2>2, LaneShrinks DEF ActiveJobs, ActiveRuns, Active
  <2>4. Keeps(w)
    BY <2>1, <2>2 DEF Keeps, Taken, Active, Terminal
  <2>5. Owned(w)'
    BY <2>1, <2>2, MemMoves
    DEF RunOwned, Owned, OnRun, HasItem, ItemOf, Executing, Working, Taken, Active, Terminal
  <2>. QED  BY <2>1, <2>3, <2>4, <2>5, MemMoves, OwnerMoves
<1>. QED  BY <1>1, <1>2

\* The two steps that take the lane find it free.
LEMMA LaneClaimJob ==
    ASSUME Typed, RunOwned, LaneExclusive, NEW w \in Worker, ClaimJob(w)
    PROVE  RunOwned' /\ LaneExclusive'
<1>. PICK refused \in SUBSET Claimable, j \in Claimable :
        /\ jobs' = [i \in Job |->
             IF i \in refused THEN [jobs[i] EXCEPT !.status = "unavailable"]
             ELSE IF i = j THEN Claimed(j, w) ELSE jobs[i]]
        /\ mem' = [mem EXCEPT ![w] = [@ EXCEPT !.pc = "admit", !.prefer = TRUE,
                                       !.call = <<j, jobs[j].version + 1>>]]
  BY DEF ClaimJob
<1>1. UNCHANGED <<runs, proc>> /\ ActiveJobs = {} /\ ActiveRuns = {} /\ j \in Job
  BY DEF ClaimJob, butJobs, quiet, LaneFree, Claimable
<1>2. ActiveJobs' \subseteq {j}
  BY <1>1 DEF ActiveJobs, Active, Typed, JobsTyped, JobsOK, JobRow
<1>3. LaneExclusive'
  BY <1>1, <1>2 DEF LaneExclusive, ActiveRuns
<1>4. /\ \A v \in Worker : v # w => mem'[v] = mem[v]
      /\ mem'[w].call = <<j, jobs[j].version + 1>>
  BY DEF Typed, MemTyped, MemOK, Memory
<1>5. Owned(w)' /\ Keeps(w)
  BY <1>1, <1>4, IdentityAssumption DEF Owned, OnRun, ItemOf, Keeps
<1>. QED  BY <1>1, <1>3, <1>4, <1>5, OwnerMoves

LEMMA LaneClaimRun ==
    ASSUME Typed, RunOwned, LaneExclusive, NEW w \in Worker, NEW r \in Run, ClaimRun(w, r)
    PROVE  RunOwned' /\ LaneExclusive'
<1>1. /\ UNCHANGED <<jobs, proc>> /\ ActiveJobs = {} /\ ActiveRuns = {}
      /\ runs[r].status = "queued" /\ Executing(w)
  BY DEF ClaimRun, At, butRuns, quiet, LaneFree
<1>2. /\ \A q \in Run : q # r => runs'[q] = runs[q]
      /\ runs'[r].status = "running" /\ runs'[r].worker = w
  BY DEF ClaimRun, Typed, RunsOK, RunRow
<1>3. LaneExclusive'
  BY <1>1, <1>2 DEF LaneExclusive, ActiveJobs, ActiveRuns
<1>4. /\ \A v \in Worker : v # w => mem'[v] = mem[v]
      /\ mem'[w].call = <<r, 1>>
  BY DEF ClaimRun, Typed, MemTyped, MemOK, Memory
<1>5. Owned(w)' /\ Keeps(w)
  BY <1>1, <1>2, <1>4 DEF Owned, OnRun, ItemOf, Executing, Keeps, Taken, Active, Terminal
<1>. QED  BY <1>1, <1>3, <1>4, <1>5, OwnerMoves

LEMMA LaneWorkerStep ==
    ASSUME Typed, RunOwned, LaneExclusive, NEW w \in Worker, WorkerStep(w) \/ Operation(w)
    PROVE  RunOwned' /\ LaneExclusive'
<1>1. CASE Operation(w)
  BY <1>1, RunsUndisturbed, LaneUndisturbed DEF Operation, OpDone, LostCallback, ledger
<1>. QED
  BY <1>1, LaneMoves, LaneJobEnds, LaneFinishRun, LaneRunGoesOn, LaneMarkDraining,
     LaneRefuses, LaneClaimJob, LaneClaimRun DEF WorkerStep

LEMMA LaneChildEnds ==
    ASSUME Typed, RunOwned, LaneExclusive, NEW w \in Worker, ChildEnds(w) \/ ChildFails(w)
    PROVE  RunOwned' /\ LaneExclusive'
<1>1. /\ UNCHANGED <<jobs, runs>>
      /\ \A v \in Worker : v # w => mem'[v] = mem[v] /\ proc'[v] = proc[v]
      /\ mem'[w].call = None
  BY DEF ChildEnds, ChildFails, WorkerRaises, WorkerDies, WorkerLeaves, KillLands, GateCloses,
         Vanish, Blank, ledger, quiet, Typed, MemTyped, MemOK, ProcOK
<1>2. Owned(w)' /\ Keeps(w)
  BY <1>1 DEF Owned, OnRun, HasItem, Keeps
<1>. QED  BY <1>1, <1>2, OwnerMoves, LaneUndisturbed

-----------------------------------------------------------------------------
\* The supervisor.

LEMMA LaneSupQuiet ==
    ASSUME RunOwned, LaneExclusive, UNCHANGED <<jobs, runs, mem>>,
           \A w \in Worker : Executing(w) => Executing(w)'
    PROVE  RunOwned' /\ LaneExclusive'
<1>1. RunOwned'
  BY DEF RunOwned, Owned, OnRun, HasItem, ItemOf
<1>. QED  BY <1>1, LaneUndisturbed

LEMMA LaneRecoverLeases ==
    ASSUME Typed, RunOwned, LaneExclusive, RecoverLeases, UNCHANGED <<mem, proc>>
    PROVE  RunOwned' /\ LaneExclusive'
<1>1. \A j \in Job : Recovered(j).status \in Active => Recovered(j) = jobs[j]
  BY DEF Recovered, Active, Typed, JobsTyped, JobsOK, JobRow
<1>2. ActiveJobs' \subseteq ActiveJobs /\ UNCHANGED runs
  BY <1>1 DEF RecoverLeases, butJobs, ActiveJobs
<1>. QED  BY <1>2, LaneShrinks, RunsUndisturbed DEF ActiveRuns

LEMMA LaneConfirmExit ==
    ASSUME Typed, RunOwned, LaneExclusive, NEW w \in Worker, NEW ok \in BOOLEAN,
           ConfirmExit(w, ok), proc[w] = "dead", UNCHANGED <<mem, proc>>
    PROVE  RunOwned' /\ LaneExclusive'
<1>1. UNCHANGED jobs
  BY DEF ConfirmExit
<1>2. \A r \in Run : /\ runs'[r].worker = runs[r].worker
                     /\ runs'[r].status \in Active => runs[r].status \in Active
                     /\ runs[r].status \in Taken => runs'[r].status \in Taken
                     /\ runs[r].worker # w => runs'[r] = runs[r]
  BY DEF ConfirmExit, Taken, Terminal, Active, Typed, RunsOK, RunRow
<1>3. LaneExclusive'
  BY <1>1, <1>2, LaneShrinks DEF ActiveJobs, ActiveRuns
<1>4. RunOwned'
  BY <1>2 DEF RunOwned, Owned, OnRun, HasItem, ItemOf, Executing
<1>. QED  BY <1>3, <1>4

LEMMA LaneSupervisor ==
    ASSUME Typed, ExitsKnown, RunOwned, LaneExclusive, SupStep \/ SupCrash \/ SupRaises
    PROVE  RunOwned' /\ LaneExclusive'
<1>1. CASE \/ SupStart \/ RecoverInventory \/ RecoverNext \/ TickPickExit \/ TickStuck
           \/ TickStop \/ TickReconcile \/ TickSpawn \/ SupCrash \/ SupRaises
           \/ \E w \in Worker : RecoverReconcile(w) \/ RecoverForget(w) \/ TickAdmit(w)
  <2>1. UNCHANGED <<jobs, runs, mem>>
    BY <1>1
    DEF SupStart, RecoverInventory, RecoverNext, TickPickExit, TickStuck, TickStop,
        TickReconcile, TickSpawn, SupCrash, SupRaises, RecoverReconcile, RecoverForget,
        TickAdmit, ledger, child, butOpen
  <2>2. \/ UNCHANGED proc
        \/ \E S : Kill(S)
        \/ \E w \in Worker, to \in {"gated", "alive"} :
              /\ proc[w] = "unborn" \/ to = "alive"
              /\ proc' = [proc EXCEPT ![w] = to]
    BY <1>1
    DEF SupStart, RecoverInventory, RecoverNext, TickPickExit, TickStuck, TickStop,
        TickReconcile, TickSpawn, SupCrash, SupRaises, RecoverReconcile, RecoverForget,
        TickAdmit, child
  <2>3. \A w \in Worker : Executing(w) => Executing(w)'
    BY <2>2 DEF Executing, Kill, Typed, ProcOK
  <2>. QED  BY <2>1, <2>3, LaneSupQuiet
<1>2. CASE RecoverLeasesStep \/ TickLeases
  BY <1>2, LaneRecoverLeases DEF RecoverLeasesStep, TickLeases, child
<1>3. ASSUME NEW w \in Worker, RecoverConfirm(w) PROVE RunOwned' /\ LaneExclusive'
  <2>1. proc[w] = "dead"
    BY <1>3, SupTypes DEF RecoverConfirm, ExitsKnown, SupKnows, Settled, ExitsAreReal
  <2>. QED  BY <1>3, <2>1, LaneConfirmExit DEF RecoverConfirm, child
<1>4. CASE TickConfirm
  <2>1. sup.pending \in Worker /\ sup.ok \in BOOLEAN /\ proc[sup.pending] = "dead"
    BY <1>4, SupTypes DEF TickConfirm, Typed, SupTyped, ExitsKnown, SupKnows
  <2>. QED  BY <1>4, <2>1, LaneConfirmExit DEF TickConfirm, child
<1>5. CASE TickDead
  <2>1. sup.child \in Worker
    BY <1>5, SupTypes DEF TickDead, Watching
  <2>. QED  BY <1>5, <2>1, LaneConfirmExit DEF TickDead, child
<1>6. CASE SupUnwinds
  <2>1. sup.child \in Worker
    BY <1>6, SupTypes DEF SupUnwinds, Typed, SupTyped
  <2>2. CASE proc[sup.child] = "dead"
    BY <1>6, <2>1, <2>2, LaneConfirmExit DEF SupUnwinds, child
  <2>3. CASE proc[sup.child] # "dead"
    BY <1>6, <2>3, LaneSupQuiet DEF SupUnwinds, ledger, child, Executing
  <2>. QED  BY <2>2, <2>3
<1>. QED  BY <1>1, <1>2, <1>3, <1>4, <1>5, <1>6 DEF SupStep, Recovery, Tick

-----------------------------------------------------------------------------
LEMMA LaneInit == Init => RunOwned /\ LaneExclusive
BY DEF Init, Blank, RunOwned, Owned, OnRun, HasItem, LaneExclusive, ActiveJobs, ActiveRuns, Active

LEMMA LaneNext ==
    ASSUME Typed, ExitsKnown, RunOwned, LaneExclusive, [Next]_vars
    PROVE  RunOwned' /\ LaneExclusive'
<1>1. CASE UNCHANGED vars
  BY <1>1, RunsUndisturbed, LaneUndisturbed DEF vars, ledger, child
<1>. QED
  BY <1>1, LaneMembers, LaneWorkerStep, LaneChildEnds, LaneSupervisor DEF Next

\* The inductive invariant holds: types, what the supervisor knows of every
\* process, who owns a run, and the lane element by element.
THEOREM Invariant == Spec => []IInv
<1>1. Init => IInv
  BY TypedInit, ExitsInit, LaneInit DEF IInv
<1>2. IInv /\ [Next]_vars => IInv'
  BY TypedNext, ExitsNext, LaneNext DEF IInv
<1>. QED  BY <1>1, <1>2, PTL DEF Spec

LEMMA AtMostOne ==
    ASSUME NEW S, \A x, y \in S : x = y
    PROVE  Cardinality(S) = IF S = {} THEN 0 ELSE 1
<1>1. CASE S = {}
  BY <1>1, FS_EmptySet
<1>2. CASE S # {}
  <2>1. PICK x \in S : S = {x}
    BY <1>2
  <2>. QED  BY <1>2, <2>1, FS_Singleton
<1>. QED  BY <1>1, <1>2

\* At most one job or assistant run is running or draining, for every number of
\* jobs, runs, workers, crashes and lost callbacks (claim_job, claim).
THEOREM OneLaneAlways == Spec => []OneLane
<1>1. IInv => OneLane
  BY AtMostOne DEF IInv, LaneExclusive, OneLane
<1>. QED  BY <1>1, Invariant, PTL

-----------------------------------------------------------------------------
\* What a step may never do: answer a job or a run twice.

Stable == /\ \A j \in Job : jobs[j].status \in Terminal => jobs'[j].status = jobs[j].status
          /\ \A r \in Run : runs[r].status \in Terminal => runs'[r].status = runs[r].status

LEMMA StableUndisturbed == UNCHANGED <<jobs, runs>> => Stable
BY DEF Stable

LEMMA StableMembers ==
    ASSUME Typed, Members \/ \E c \in CallId : DrainAges(c) PROVE Stable
<1>1. ASSUME NEW j \in Job, Enqueue(j) PROVE Stable
  BY <1>1 DEF Enqueue, butJobs, Stable, Terminal, Typed, JobsTyped, JobsOK
<1>2. ASSUME NEW r \in Run, Submit(r) \/ DeleteConversation(r) PROVE Stable
  BY <1>2 DEF Submit, DeleteConversation, butRuns, Stable, Terminal, Typed, RunsOK
<1>3. ASSUME NEW c \in CallId, DrainAges(c) PROVE Stable
  BY <1>3, StableUndisturbed DEF DrainAges, butOverdue
<1>. QED  BY <1>1, <1>2, <1>3 DEF Members

LEMMA StableJobs ==
    ASSUME Typed, NEW w \in Worker,
           ClaimJob(w) \/ RefuseAll(w) \/ CompleteJob(w) \/ FailJob(w) \/ DeferJob(w)
    PROVE  Stable
<1>1. UNCHANGED runs
  BY DEF ClaimJob, RefuseAll, CompleteJob, FailJob, DeferJob, butJobs
<1>2. CASE ClaimJob(w) \/ RefuseAll(w)
  <2>1. \A j \in Job : jobs[j].status \in Terminal => jobs'[j] = jobs[j]
    BY <1>2 DEF ClaimJob, RefuseAll, Claimable, Terminal
  <2>. QED  BY <1>1, <2>1 DEF Stable
<1>3. CASE CompleteJob(w) \/ FailJob(w) \/ DeferJob(w)
  <2>1. \A j \in Job : jobs[j].status \in Terminal => jobs'[j] = jobs[j]
    BY <1>3
    DEF CompleteJob, FailJob, DeferJob, StillHolds, Terminal, Active, Typed, JobsTyped, JobsOK
  <2>. QED  BY <1>1, <2>1 DEF Stable
<1>. QED  BY <1>2, <1>3

LEMMA StableRuns ==
    ASSUME Typed, NEW w \in Worker,
           \/ \E r \in Run : ClaimRun(w, r) \/ RefuseRun(w, r)
           \/ PrepareTurn(w) \/ FinishRun(w)
    PROVE  Stable
<1>1. UNCHANGED jobs
  BY DEF ClaimRun, RefuseRun, PrepareTurn, FinishRun, butRuns
<1>2. \A r \in Run : runs[r].status \in Terminal => runs'[r].status = runs[r].status
  BY DEF ClaimRun, RefuseRun, PrepareTurn, FinishRun, Terminal, Active, Typed, RunsOK, RunRow
<1>. QED  BY <1>1, <1>2 DEF Stable

\* The update of execute has no status test: RunOwned is why it never reopens a
\* run that _finish or confirm_worker_exit has answered.
LEMMA StableMarkDraining ==
    ASSUME Typed, RunOwned, NEW w \in Worker, MarkDraining(w) PROVE Stable
<1>1. mem[w].pc = "drained" /\ HasItem(w)
  BY BusyHasItem DEF MarkDraining, At, Empty
<1>2. CASE OnJob(w)
  BY <1>2 DEF MarkDraining, Drained, Stable, Terminal, Typed, JobsTyped, JobsOK
<1>3. CASE ~OnJob(w)
  <2>1. UNCHANGED jobs /\ runs[ItemOf(w)].status \in Active
    BY <1>1, <1>3, OwnTyped DEF MarkDraining, RunOwned, Owned, Working
  <2>2. \A r \in Run : r # ItemOf(w) => runs'[r] = runs[r]
    BY <1>3 DEF MarkDraining, Typed, RunsOK
  <2>. QED  BY <2>1, <2>2 DEF Stable, Active, Terminal
<1>. QED  BY <1>2, <1>3

LEMMA StableChild ==
    ASSUME Typed, RunOwned, NEW w \in Worker,
           WorkerStep(w) \/ Operation(w) \/ ChildEnds(w) \/ ChildFails(w)
    PROVE  Stable
<1>1. CASE \/ CheckDrains(w) \/ StopServing(w) \/ LookForWork(w) \/ NoJob(w) \/ NoRun(w)
           \/ Deny(w) \/ NotSubmitted(w) \/ WaiterReturns(w) \/ WaiterTimesOut(w)
           \/ DrainCall(w) \/ Admit(w) \/ NextTurn(w) \/ Operation(w)
           \/ ChildEnds(w) \/ ChildFails(w)
  <2>1. UNCHANGED <<jobs, runs>>
    BY <1>1
    DEF CheckDrains, StopServing, LookForWork, NoJob, NoRun, Deny, NotSubmitted,
        WaiterReturns, WaiterTimesOut, DrainCall, Admit, NextTurn, Operation, OpDone,
        LostCallback, ChildEnds, ChildFails, WorkerRaises, WorkerDies, WorkerLeaves,
        KillLands, GateCloses, ledger, butOpen, butCalls
  <2>. QED  BY <2>1, StableUndisturbed
<1>. QED  BY <1>1, StableJobs, StableRuns, StableMarkDraining DEF WorkerStep

LEMMA StableSupervisor ==
    ASSUME Typed, SupStep \/ SupCrash \/ SupRaises PROVE Stable
<1>1. \/ UNCHANGED <<jobs, runs>>
      \/ RecoverLeases
      \/ \E w, ok : ConfirmExit(w, ok)
  BY DEF SupStep, SupCrash, SupRaises, Recovery, Tick, SupStart, RecoverInventory,
         RecoverNext, RecoverReconcile, RecoverConfirm, RecoverLeasesStep, RecoverForget,
         TickPickExit, TickStuck, TickDead, TickStop, TickReconcile, TickConfirm,
         TickLeases, TickSpawn, TickAdmit, SupUnwinds, ledger, butOpen
<1>2. CASE RecoverLeases
  BY <1>2 DEF RecoverLeases, Recovered, Expired, butJobs, Stable, Terminal, Active
<1>3. ASSUME NEW w, NEW ok, ConfirmExit(w, ok) PROVE Stable
  BY <1>3 DEF ConfirmExit, Stable, Terminal, Active
<1>. QED  BY <1>1, <1>2, <1>3, StableUndisturbed

\* A job or a run that was answered keeps its answer, whatever any process does
\* after it (the status tests of every update, and RunOwned where execute's
\* drain update has none).
THEOREM TerminalStableAlways == Spec => TerminalStable
<1>1. IInv /\ [Next]_vars => [Stable]_vars
  <2>. SUFFICES ASSUME IInv, Next PROVE Stable
    OBVIOUS
  <2>. QED  BY StableMembers, StableChild, StableSupervisor DEF IInv, Next
<1>. QED  BY <1>1, Invariant, PTL DEF Spec, TerminalStable, Stable

-----------------------------------------------------------------------------
\* The refinement of LanePromise: each step of the ledgers is one step of the
\* promise, or none.

LEMMA PhaseCases ==
    /\ PhaseOf("absent") = "absent" /\ PhaseOf("queued") = "waiting"
    /\ \A status \in Active : PhaseOf(status) = "working"
    /\ \A status \in Terminal : PhaseOf(status) = "answered"
    /\ \A status \in JobStatus : /\ PhaseOf(status) = "working" <=> status \in Active
                                 /\ PhaseOf(status) = "answered" <=> status \in Terminal
                                 /\ PhaseOf(status) = "waiting" <=> status = "queued"
                                 /\ PhaseOf(status) = "absent" <=> status = "absent"
BY DEF PhaseOf, JobStatus, Active, Terminal

LEMMA ShownItem ==
    /\ \A j \in Job : /\ j \in Item /\ Shown[j] = PhaseOf(jobs[j].status)
                      /\ Shown'[j] = PhaseOf(jobs'[j].status)
    /\ \A r \in Run : /\ r \in Item /\ r \notin Job /\ Shown[r] = PhaseOf(runs[r].status)
                      /\ Shown'[r] = PhaseOf(runs'[r].status)
    /\ \A i \in Item : i \in Job \/ i \in Run
BY IdentityAssumption DEF Shown, Item

\* A step that moves some items to one phase and charges nobody.
LEMMA ShownMoves ==
    ASSUME NEW items \in SUBSET Item, NEW to,
           \A j \in Job : PhaseOf(jobs'[j].status) = IF j \in items THEN to ELSE PhaseOf(jobs[j].status),
           \A r \in Run : PhaseOf(runs'[r].status) = IF r \in items THEN to ELSE PhaseOf(runs[r].status)
    PROVE  Shown' = Promise!Moved(items, to)
<1>1. \A i \in Item : Shown'[i] = IF i \in items THEN to ELSE Shown[i]
  BY ShownItem
<1>. QED  BY <1>1 DEF Promise!Moved, Promise!Item, Item, Shown

LEMMA ChargesStay ==
    ASSUME \A j \in Job : jobs'[j].attempts = jobs[j].attempts PROVE UNCHANGED Charges
BY DEF Charges

PromiseStep == Promise!Next \/ UNCHANGED <<Shown, Charges>>

LEMMA PromiseStutters ==
    ASSUME \A j \in Job : /\ PhaseOf(jobs'[j].status) = PhaseOf(jobs[j].status)
                          /\ jobs'[j].attempts = jobs[j].attempts,
           \A r \in Run : PhaseOf(runs'[r].status) = PhaseOf(runs[r].status)
    PROVE  PromiseStep
<1>1. UNCHANGED Shown
  BY DEF Shown, Item
<1>. QED  BY <1>1, ChargesStay DEF PromiseStep

LEMMA StatusTypes ==
    ASSUME Typed
    PROVE  /\ jobs \in [Job -> JobRow] /\ runs \in [Run -> RunRow]
           /\ \A j \in Job : jobs[j].status \in JobStatus /\ jobs[j].attempts \in Nat
           /\ \A r \in Run : runs[r].status \in JobStatus
BY DEF Typed, JobsTyped, JobsOK, RunsOK, JobRow, RunRow

\* One job goes on, by a write of its row that keeps its attempts.
LEMMA JobStep ==
    ASSUME Typed, NEW j \in Job, NEW to \in {"waiting", "answered", "working"}, UNCHANGED runs,
           \A i \in Job : /\ i # j => PhaseOf(jobs'[i].status) = PhaseOf(jobs[i].status)
                          /\ jobs'[i].attempts = jobs[i].attempts,
           PhaseOf(jobs'[j].status) = to
    PROVE  /\ Shown' = Promise!Moved({j}, to) /\ UNCHANGED Charges
           /\ jobs[j].status \in Active /\ to = "answered" => Promise!Answer(j)
           /\ jobs[j].status \in Active /\ to = "waiting" /\ Retriable(j) => Promise!Retry(j)
           /\ jobs[j].status = "absent" /\ to = "waiting" => Promise!Ask(j)
<1>1. j \in Item /\ Shown[j] = PhaseOf(jobs[j].status)
  BY ShownItem
<1>2. Shown' = Promise!Moved({j}, to) /\ UNCHANGED Charges
  BY <1>1, ShownMoves, ShownItem, ChargesStay
<1>. QED
  BY <1>1, <1>2, PhaseCases
  DEF Promise!Answer, Promise!Retry, Promise!Ask, Retriable, Charges

LEMMA RunStep ==
    ASSUME Typed, NEW r \in Run, NEW to \in {"waiting", "answered", "working"}, UNCHANGED jobs,
           \A q \in Run : q # r => PhaseOf(runs'[q].status) = PhaseOf(runs[q].status),
           PhaseOf(runs'[r].status) = to
    PROVE  /\ Shown' = Promise!Moved({r}, to) /\ UNCHANGED Charges
           /\ runs[r].status \in Active /\ to = "answered" => Promise!Answer(r)
           /\ runs[r].status = "queued" /\ to = "answered" => Promise!Refuse({r})
           /\ runs[r].status = "absent" /\ to = "waiting" => Promise!Ask(r)
<1>1. r \in Item /\ Shown[r] = PhaseOf(runs[r].status)
  BY ShownItem
<1>2. Shown' = Promise!Moved({r}, to) /\ UNCHANGED Charges
  BY <1>1, ShownMoves, ShownItem, ChargesStay
<1>. QED
  BY <1>1, <1>2, PhaseCases
  DEF Promise!Answer, Promise!Refuse, Promise!Ask, Promise!Waiting

LEMMA PromiseNextOf ==
    /\ \A i \in Item : Promise!Ask(i) \/ Promise!Answer(i) => PromiseStep
    /\ \A items \in SUBSET Item : Promise!Refuse(items) => PromiseStep
    /\ \A j \in Job : Promise!Retry(j) \/ Promise!GiveBack(j) => PromiseStep
    /\ \A j \in Job, refused \in SUBSET Job : Promise!StartJob(j, refused) => PromiseStep
    /\ \A r \in Run : Promise!StartRun(r) => PromiseStep
BY DEF PromiseStep, Promise!Next, Promise!Item, Item

LEMMA PromiseMembers ==
    ASSUME Typed, Members PROVE PromiseStep
<1>1. ASSUME NEW j \in Job, Enqueue(j) PROVE PromiseStep
  <2>1. /\ UNCHANGED runs /\ jobs[j].status = "absent" /\ jobs'[j].status = "queued"
        /\ \A i \in Job : (i # j => jobs'[i] = jobs[i]) /\ jobs'[i].attempts = jobs[i].attempts
    BY <1>1, StatusTypes DEF Enqueue, butJobs, JobRow
  <2>2. Promise!Ask(j)
    BY <2>1, PhaseCases, JobStep
  <2>. QED  BY <2>2, PromiseNextOf, ShownItem
<1>2. ASSUME NEW r \in Run, Submit(r) PROVE PromiseStep
  <2>1. /\ UNCHANGED jobs /\ runs[r].status = "absent" /\ runs'[r].status = "queued"
        /\ \A q \in Run : q # r => runs'[q] = runs[q]
    BY <1>2, StatusTypes DEF Submit, butRuns, RunRow
  <2>2. Promise!Ask(r)
    BY <2>1, PhaseCases, RunStep
  <2>. QED  BY <2>2, PromiseNextOf, ShownItem
<1>3. ASSUME NEW r \in Run, DeleteConversation(r) PROVE PromiseStep
  <2>1. /\ UNCHANGED jobs /\ \A q \in Run : q # r => runs'[q] = runs[q]
        /\ \/ runs[r].status = "queued" /\ runs'[r].status = "cancelled"
           \/ runs[r].status = "running" /\ runs'[r].status = "draining"
    BY <1>3, StatusTypes DEF DeleteConversation, butRuns, RunRow
  <2>2. CASE runs[r].status = "queued"
    <3>1. Promise!Refuse({r})
      BY <2>1, <2>2, PhaseCases, RunStep DEF Terminal
    <3>. QED  BY <3>1, PromiseNextOf, ShownItem
  <2>3. CASE runs[r].status = "running"
    BY <2>1, <2>3, PhaseCases, PromiseStutters DEF Active
  <2>. QED  BY <2>1, <2>2, <2>3
<1>. QED  BY <1>1, <1>2, <1>3 DEF Members

\* claim_job: the lane takes one job and drops the candidates it met first.
LEMMA PromiseClaimJob ==
    ASSUME Typed, NEW w \in Worker, ClaimJob(w) PROVE PromiseStep
<1>. PICK refused \in SUBSET Claimable, j \in Claimable :
        /\ j \notin refused
        /\ jobs' = [i \in Job |->
             IF i \in refused THEN [jobs[i] EXCEPT !.status = "unavailable"]
             ELSE IF i = j THEN Claimed(j, w) ELSE jobs[i]]
  BY DEF ClaimJob
<1>1. /\ UNCHANGED runs /\ LaneFree /\ refused \in SUBSET Job /\ j \in Job
      /\ \A i \in refused \cup {j} : jobs[i].status = "queued"
      /\ jobs[j].attempts < MaxAttempts
  BY DEF ClaimJob, butJobs, Claimable, Retriable
<1>2. /\ \A i \in refused : /\ jobs'[i].status = "unavailable"
                            /\ jobs'[i].attempts = jobs[i].attempts
      /\ jobs'[j].status = "running" /\ jobs'[j].attempts = jobs[j].attempts + 1
      /\ \A i \in Job : i \notin refused \cup {j} => jobs'[i] = jobs[i]
  BY <1>1, StatusTypes DEF Claimed, JobRow
<1>3. Promise!Idle
  <2>1. \A i \in Job : jobs[i].status \notin Active
    BY <1>1 DEF LaneFree, ActiveJobs
  <2>2. \A r \in Run : runs[r].status \notin Active
    BY <1>1 DEF LaneFree, ActiveRuns
  <2>. QED
    BY <2>1, <2>2, ShownItem, PhaseCases, StatusTypes DEF Promise!Idle, Promise!Item, Item
<1>4. Promise!Waiting(refused \cup {j})
  BY <1>1, ShownItem, PhaseCases DEF Promise!Waiting
<1>5. Shown' = [Promise!Moved(refused, "answered") EXCEPT ![j] = "working"]
  <2>1. \A i \in Item : Shown'[i] = IF i = j THEN "working"
                                    ELSE IF i \in refused THEN "answered" ELSE Shown[i]
    BY <1>1, <1>2, ShownItem, PhaseCases DEF Active, Terminal
  <2>2. j \in Item
    BY <1>1, ShownItem
  <2>. QED  BY <2>1, <2>2 DEF Promise!Moved, Promise!Item, Item, Shown
<1>6. Charges' = [Charges EXCEPT ![j] = @ + 1] /\ Charges[j] < MaxAttempts
  <2>1. \A i \in Job : jobs'[i].attempts = IF i = j THEN jobs[j].attempts + 1 ELSE jobs[i].attempts
    BY <1>1, <1>2
  <2>2. Charges[j] = jobs[j].attempts /\ Charges[j] < MaxAttempts
    BY <1>1 DEF Charges
  <2>. QED  BY <1>1, <2>1, <2>2 DEF Charges
<1>7. Promise!StartJob(j, refused)
  BY <1>3, <1>4, <1>5, <1>6 DEF Promise!StartJob
<1>. QED  BY <1>1, <1>7, PromiseNextOf

LEMMA PromiseRefuses ==
    ASSUME Typed, NEW w \in Worker, RefuseAll(w) \/ \E r \in Run : RefuseRun(w, r)
    PROVE  PromiseStep
<1>1. CASE RefuseAll(w)
  <2>1. /\ UNCHANGED runs /\ Claimable # {} /\ Claimable \in SUBSET Item
        /\ \A j \in Claimable : jobs[j].status = "queued" /\ j \in Job
        /\ \A j \in Job : /\ jobs'[j].attempts = jobs[j].attempts
                          /\ j \in Claimable => jobs'[j].status = "unavailable"
                          /\ j \notin Claimable => jobs'[j] = jobs[j]
    BY <1>1, StatusTypes, ShownItem DEF RefuseAll, butJobs, Claimable, JobRow
  <2>2. Shown' = Promise!Moved(Claimable, "answered") /\ UNCHANGED Charges
    BY <2>1, PhaseCases, ShownItem, ShownMoves, ChargesStay DEF Terminal
  <2>3. Promise!Waiting(Claimable)
    BY <2>1, ShownItem, PhaseCases DEF Promise!Waiting
  <2>4. Promise!Refuse(Claimable)
    BY <2>1, <2>2, <2>3 DEF Promise!Refuse
  <2>. QED  BY <2>1, <2>4, PromiseNextOf
<1>2. ASSUME NEW r \in Run, RefuseRun(w, r) PROVE PromiseStep
  <2>1. UNCHANGED jobs /\ runs[r].status = "queued"
        /\ runs' = [runs EXCEPT ![r] = [runs[r] EXCEPT !.status = "unavailable", !.worker = w]]
    BY <1>2 DEF RefuseRun, butRuns
  <2>2. [runs[r] EXCEPT !.status = "unavailable", !.worker = w].status = "unavailable"
    BY StatusTypes DEF RunRow
  <2>3. runs'[r].status = "unavailable" /\ \A q \in Run : q # r => runs'[q] = runs[q]
    BY <2>1, <2>2, StatusTypes
  <2>4. Promise!Refuse({r})
    BY <2>1, <2>3, PhaseCases, RunStep DEF Terminal
  <2>. QED  BY <2>4, PromiseNextOf, ShownItem
<1>. QED  BY <1>1, <1>2

LEMMA PromiseClaimRun ==
    ASSUME Typed, NEW w \in Worker, NEW r \in Run, ClaimRun(w, r) PROVE PromiseStep
<1>1. /\ UNCHANGED jobs /\ LaneFree /\ runs[r].status = "queued"
      /\ runs'[r].status = "running" /\ \A q \in Run : q # r => runs'[q] = runs[q]
  BY StatusTypes DEF ClaimRun, butRuns, RunRow
<1>2. Shown' = Promise!Moved({r}, "working") /\ UNCHANGED Charges
  BY <1>1, PhaseCases, RunStep DEF Active
<1>3. Promise!Idle /\ Promise!Waiting({r})
  BY <1>1, ShownItem, PhaseCases, StatusTypes
  DEF Promise!Idle, Promise!Waiting, Promise!Item, Item, LaneFree, ActiveJobs, ActiveRuns
<1>. QED  BY <1>2, <1>3, PromiseNextOf DEF Promise!StartRun

\* The end of an attempt: an answer, a retry, or the attempt given back.
LEMMA PromiseJobEnds ==
    ASSUME Typed, NEW w \in Worker, CompleteJob(w) \/ FailJob(w) \/ DeferJob(w)
    PROVE  PromiseStep
<1>. DEFINE j == ItemOf(w)
<1>1. j \in Job /\ UNCHANGED runs
  BY DEF CompleteJob, FailJob, DeferJob, OnJob, butJobs
<1>2. CASE UNCHANGED jobs
  BY <1>1, <1>2, PromiseStutters
<1>3. ASSUME NEW status \in Terminal \cup {"queued"}, jobs[j].status \in Active,
             status = "queued" => Retriable(j),
             jobs' = [jobs EXCEPT ![j].status = status]
      PROVE  PromiseStep
  <2>1. /\ jobs'[j].status = status
        /\ \A i \in Job : (i # j => jobs'[i] = jobs[i]) /\ jobs'[i].attempts = jobs[i].attempts
    BY <1>1, <1>3, StatusTypes DEF JobRow
  <2>2. Promise!Answer(j) \/ Promise!Retry(j)
    BY <1>1, <1>3, <2>1, PhaseCases, JobStep DEF Terminal
  <2>. QED  BY <1>1, <2>2, PromiseNextOf, ShownItem
<1>4. CASE CompleteJob(w)
  <2>. PICK status \in Terminal :
         jobs' = IF StillHolds(w) THEN [jobs EXCEPT ![j].status = status] ELSE jobs
    BY <1>4 DEF CompleteJob
  <2>1. status # "queued"
    BY DEF Terminal
  <2>2. CASE StillHolds(w)
    BY <1>3, <2>1, <2>2 DEF StillHolds
  <2>3. CASE ~StillHolds(w)
    BY <1>2, <2>3
  <2>. QED  BY <2>2, <2>3
<1>5. CASE FailJob(w)
  <2>. PICK got \in {"failed", "invalid"} :
         jobs' = IF StillHolds(w) /\ CallSettled(w)
                 THEN [jobs EXCEPT ![j].status =
                         IF got = "failed" /\ Retriable(j) THEN "queued" ELSE "failed"]
                 ELSE jobs
    BY <1>5 DEF FailJob
  <2>1. CASE StillHolds(w) /\ CallSettled(w)
    <3>. DEFINE status == IF got = "failed" /\ Retriable(j) THEN "queued" ELSE "failed"
    <3>1. jobs' = [jobs EXCEPT ![j].status = status] /\ jobs[j].status \in Active
      BY <2>1 DEF StillHolds
    <3>2. status \in Terminal \cup {"queued"} /\ (status = "queued" => Retriable(j))
      BY DEF Terminal
    <3>. HIDE DEF status
    <3>. QED  BY <1>3, <3>1, <3>2
  <2>2. CASE ~(StillHolds(w) /\ CallSettled(w))
    BY <1>2, <2>2
  <2>. QED  BY <2>1, <2>2
<1>6. CASE DeferJob(w) /\ ~UNCHANGED jobs
  <2>1. jobs' = [jobs EXCEPT ![j] = Deferred(j)] /\ jobs[j].status = "running"
    BY <1>6 DEF DeferJob
  <2>2. jobs[j] \in JobRow
    BY <1>1, StatusTypes
  <2>3. Deferred(j).status = "queued" /\ Deferred(j).attempts = jobs[j].attempts - 1
    BY <2>2 DEF Deferred, JobRow
  <2>4. /\ jobs'[j].status = "queued" /\ jobs'[j].attempts = jobs[j].attempts - 1
        /\ \A i \in Job : i # j => jobs'[i] = jobs[i]
    BY <1>1, <2>1, <2>3, StatusTypes
  <2>5. Shown' = Promise!Moved({j}, "waiting")
    BY <1>1, <2>4, PhaseCases, ShownItem, ShownMoves
  <2>6. Charges' = [Charges EXCEPT ![j] = @ - 1]
    BY <1>1, <2>4 DEF Charges
  <2>7. Promise!GiveBack(j)
    BY <1>1, <2>1, <2>5, <2>6, ShownItem, PhaseCases DEF Promise!GiveBack, Active
  <2>. QED  BY <1>1, <2>7, PromiseNextOf
<1>. QED  BY <1>2, <1>4, <1>5, <1>6

\* execute's turns and its end; its drain update is no step of the promise
\* because the run is still active (RunOwned).
LEMMA PromiseRunSteps ==
    ASSUME Typed, RunOwned, NEW w \in Worker, PrepareTurn(w) \/ FinishRun(w) \/ MarkDraining(w)
    PROVE  PromiseStep
<1>1. CASE PrepareTurn(w)
  BY <1>1, PromiseStutters, StatusTypes DEF PrepareTurn, butRuns, RunRow
<1>2. CASE FinishRun(w)
  <2>. DEFINE r == ItemOf(w)
  <2>1. r \in Run /\ UNCHANGED jobs
    BY <1>2 DEF FinishRun, OnRun, butRuns
  <2>2. ASSUME NEW status \in {"completed", "unavailable"}, runs[r].status \in Active,
               runs' = [runs EXCEPT ![r].status = status]
        PROVE  PromiseStep
    <3>1. runs'[r].status = status /\ \A q \in Run : q # r => runs'[q] = runs[q]
      BY <2>1, <2>2, StatusTypes DEF RunRow
    <3>2. Promise!Answer(r)
      BY <2>1, <2>2, <3>1, PhaseCases, RunStep DEF Terminal
    <3>. QED  BY <2>1, <3>2, PromiseNextOf, ShownItem
  <2>3. CASE UNCHANGED runs
    BY <2>1, <2>3, PromiseStutters
  <2>. QED  BY <1>2, <2>2, <2>3 DEF FinishRun
<1>3. CASE MarkDraining(w)
  <2>1. mem[w].pc = "drained" /\ HasItem(w)
    BY <1>3, BusyHasItem DEF MarkDraining, At, Empty
  <2>2. CASE OnJob(w)
    <3>1. UNCHANGED runs /\ \A j \in Job : /\ jobs'[j].attempts = jobs[j].attempts
                                           /\ \/ jobs'[j] = jobs[j]
                                              \/ {jobs[j].status, jobs'[j].status} \subseteq Active
      BY <1>3, <2>2, StatusTypes DEF MarkDraining, Drained, JobRow, Active
    <3>. QED  BY <3>1, PhaseCases, PromiseStutters
  <2>3. CASE ~OnJob(w)
    <3>1. runs[ItemOf(w)].status \in Active /\ UNCHANGED jobs
      BY <1>3, <2>1, <2>3, OwnTyped DEF RunOwned, Owned, Working, MarkDraining
    <3>2. \A r \in Run : runs'[r] = runs[r] \/ {runs[r].status, runs'[r].status} \subseteq Active
      BY <1>3, <2>3, <3>1, StatusTypes DEF MarkDraining, RunRow, Active
    <3>. QED  BY <3>1, <3>2, PhaseCases, PromiseStutters
  <2>. QED  BY <2>2, <2>3
<1>. QED  BY <1>1, <1>2, <1>3

\* The two transactions of the supervisor answer or free at most one item: the
\* lane held no more (LaneExclusive).
LEMMA PromiseRecoverLeases ==
    ASSUME Typed, LaneExclusive, RecoverLeases PROVE PromiseStep
<1>1. UNCHANGED runs /\ \A j \in Job : jobs'[j] = Recovered(j)
  BY DEF RecoverLeases, butJobs
<1>2. CASE \A j \in Job : ~Expired(j)
  BY <1>1, <1>2, PromiseStutters DEF Recovered
<1>3. ASSUME NEW j \in Job, Expired(j) PROVE PromiseStep
  <2>1. jobs[j].status \in Active /\ \A i \in Job : i # j => ~Expired(i)
    BY <1>3 DEF LaneExclusive, ActiveJobs, Expired
  <2>2. jobs[j] \in JobRow
    BY StatusTypes
  <2>3. /\ Recovered(j).status = IF Retriable(j) THEN "queued" ELSE "failed"
        /\ Recovered(j).attempts = jobs[j].attempts
    BY <1>3, <2>2 DEF Recovered, JobRow
  <2>4. \A i \in Job : (i # j => jobs'[i] = jobs[i]) /\ jobs'[i].attempts = jobs[i].attempts
    BY <1>1, <2>1, <2>3 DEF Recovered
  <2>5. Promise!Answer(j) \/ Promise!Retry(j)
    BY <1>1, <2>1, <2>3, <2>4, PhaseCases, JobStep DEF Terminal
  <2>. QED  BY <2>5, PromiseNextOf, ShownItem
<1>. QED  BY <1>2, <1>3

LEMMA PromiseConfirmExit ==
    ASSUME Typed, LaneExclusive, NEW w, NEW ok, ConfirmExit(w, ok) PROVE PromiseStep
<1>. DEFINE Ends(r) == ok /\ runs[r].worker = w /\ runs[r].status \in Active
<1>1. /\ UNCHANGED jobs
      /\ \A r \in Run : runs'[r] = IF Ends(r) THEN [runs[r] EXCEPT !.status = "unavailable"]
                                   ELSE runs[r]
  BY DEF ConfirmExit
<1>2. CASE \A r \in Run : ~Ends(r)
  BY <1>1, <1>2, PromiseStutters
<1>3. ASSUME NEW r \in Run, Ends(r) PROVE PromiseStep
  <2>1. runs[r].status \in Active /\ \A q \in Run : q # r => ~Ends(q)
    BY <1>3 DEF LaneExclusive, ActiveRuns
  <2>2. runs'[r].status = "unavailable" /\ \A q \in Run : q # r => runs'[q] = runs[q]
    BY <1>1, <1>3, <2>1, StatusTypes DEF RunRow
  <2>3. Promise!Answer(r)
    BY <1>1, <2>1, <2>2, PhaseCases, RunStep DEF Terminal
  <2>. QED  BY <2>3, PromiseNextOf, ShownItem
<1>. QED  BY <1>2, <1>3

LEMMA PromiseNext == ASSUME IInv, [Next]_vars PROVE PromiseStep
<1>0. Typed /\ RunOwned /\ LaneExclusive
  BY DEF IInv
<1>1. UNCHANGED <<jobs, runs>> => PromiseStep
  BY PromiseStutters
<1>2. ASSUME NEW w \in Worker,
             WorkerStep(w) \/ Operation(w) \/ ChildEnds(w) \/ ChildFails(w)
      PROVE  PromiseStep
  <2>1. CASE \/ CheckDrains(w) \/ StopServing(w) \/ LookForWork(w) \/ NoJob(w) \/ NoRun(w)
             \/ Deny(w) \/ NotSubmitted(w) \/ WaiterReturns(w) \/ WaiterTimesOut(w)
             \/ DrainCall(w) \/ Admit(w) \/ NextTurn(w) \/ Operation(w)
             \/ ChildEnds(w) \/ ChildFails(w)
    <3>1. UNCHANGED <<jobs, runs>>
      BY <2>1
      DEF CheckDrains, StopServing, LookForWork, NoJob, NoRun, Deny, NotSubmitted,
          WaiterReturns, WaiterTimesOut, DrainCall, Admit, NextTurn, Operation, OpDone,
          LostCallback, ChildEnds, ChildFails, WorkerRaises, WorkerDies, WorkerLeaves,
          KillLands, GateCloses, ledger, butOpen, butCalls
    <3>. QED  BY <1>1, <3>1
  <2>. QED
    BY <1>0, <1>2, <2>1, PromiseClaimJob, PromiseRefuses, PromiseClaimRun, PromiseJobEnds,
       PromiseRunSteps DEF WorkerStep
<1>3. CASE SupStep \/ SupCrash \/ SupRaises
  <2>1. \/ UNCHANGED <<jobs, runs>>
        \/ RecoverLeases
        \/ \E w, ok : ConfirmExit(w, ok)
    BY <1>3
    DEF SupStep, SupCrash, SupRaises, Recovery, Tick, SupStart, RecoverInventory,
        RecoverNext, RecoverReconcile, RecoverConfirm, RecoverLeasesStep, RecoverForget,
        TickPickExit, TickStuck, TickDead, TickStop, TickReconcile, TickConfirm,
        TickLeases, TickSpawn, TickAdmit, SupUnwinds, ledger, butOpen
  <2>. QED  BY <1>0, <1>1, <2>1, PromiseRecoverLeases, PromiseConfirmExit
<1>4. CASE (\E c \in CallId : DrainAges(c)) \/ UNCHANGED vars
  BY <1>1, <1>4 DEF DrainAges, butOverdue, vars, ledger
<1>. QED  BY <1>0, <1>2, <1>3, <1>4, PromiseMembers DEF Next

LEMMA PromiseInit == Init => Promise!Init
<1>. SUFFICES ASSUME Init PROVE Promise!Init
  OBVIOUS
<1>1. \A i \in Item : Shown[i] = "absent"
  BY ShownItem, PhaseCases DEF Init
<1>. QED  BY <1>1 DEF Promise!Init, Promise!Item, Item, Shown, Charges, Init

\* The research lane implements LanePromise: whatever crashes, times out or is
\* lost, a member sees an item wait, be worked on alone and at most MaxAttempts
\* times, and be answered once (every update of web_jobs and assistant_runs).
THEOREM PromiseAlwaysKept == Spec => KeepsPromise
<1>1. IInv /\ [Next]_vars => [Promise!Next]_<<Shown, Charges>>
  BY PromiseNext DEF PromiseStep
<1>. QED  BY <1>1, PromiseInit, Invariant, PTL DEF Spec, KeepsPromise, Promise!Spec

=============================================================================
