--------------------------- MODULE LaneHoldProofs ----------------------------
(* PermitHeld, NoOverlap, FreshAttempt, SettledOwner and HandoffKept of        *)
(* ResearchLane, and what its steps never do to a permit or to an attempt: the *)
(* parts of HInv are preserved by every step from a state of IInv.             *)
EXTENDS ResearchLaneProofs, LaneHold

-----------------------------------------------------------------------------
\* What the types say of a call.

LEMMA CallOf == \A c \in CallId : /\ c = <<c[1], c[2]>> /\ c[2] \in Turn
                                  /\ c[1] \in Job \/ c[1] \in Run
BY DEF CallId, Item

LEMMA CallHere == /\ \A j \in Job, n \in Turn : <<j, n>> \in CallId
                  /\ \A r \in Run, n \in Turn : <<r, n>> \in CallId
                  /\ Turn \subseteq Nat
BY Bounds DEF CallId, Item, Turn

LEMMA LaneTypes ==
    ASSUME Typed
    PROVE  /\ jobs \in [Job -> JobRow] /\ runs \in [Run -> RunRow]
           /\ calls \in [CallId -> CallRow]
           /\ exits \in [Worker -> {"none", "unreconciled", "reconciled"}]
           /\ tomb \in [Worker -> {"none", "registered", "reconciled"}]
           /\ proc \in [Worker -> {"unborn", "gated", "alive", "doomed", "dead"}]
           /\ mem \in [Worker -> Memory]
           /\ futures \in [Worker -> SUBSET CallId]
           /\ outcomes \in [Worker -> SUBSET (CallId \X {"completed", "failed"})]
BY DEF Typed, JobsTyped, JobsOK, RunsOK, CallsOK, ExitsOK, BrokerOK, ProcOK, MemTyped, MemOK,
       RuntimeOK

-----------------------------------------------------------------------------
\* How calls, jobs and runs move in a step that reserves no call.

CallsFall ==
    \A c \in CallId :
        /\ calls'[c].worker = calls[c].worker
        /\ calls'[c].status = "none" <=> calls[c].status = "none"
        /\ calls'[c].status \in Held => calls[c].status \in Held
        /\ calls[c].status \in {"completed", "failed"} => calls'[c].status = calls[c].status

\* The attempt a row carries stays, or no call of it is held.
JobStays(j) ==
    jobs[j].status \in Active => /\ jobs'[j].status \in Active
                                 /\ jobs'[j].token = jobs[j].token
                                 /\ jobs'[j].worker = jobs[j].worker
JobsMove ==
    \A j \in Job :
        /\ jobs'[j].version >= jobs[j].version
        /\ JobStays(j) \/ \A n \in Turn : calls'[<<j, n>>].status \notin Held

RunStays(r) ==
    runs[r].status \in Active => /\ runs'[r].status \in Active
                                 /\ runs'[r].turn = runs[r].turn
                                 /\ runs'[r].worker = runs[r].worker
RunsMove ==
    \A r \in Run :
        /\ runs'[r].status \in {"absent", "queued"} => runs[r].status \in {"absent", "queued"}
        /\ RunStays(r) \/ \A w \in Worker : \A c \in futures'[w] : c[1] # r

LEMMA CallsStay == UNCHANGED calls => CallsFall
BY DEF CallsFall

LEMMA JobsStay == Typed /\ UNCHANGED jobs => JobsMove
BY LaneTypes DEF JobsMove, JobStays, JobRow

LEMMA RunsStay == UNCHANGED runs => RunsMove
BY DEF RunsMove, RunStays

LEMMA PermitsFall ==
    ASSUME PermitsKept, CallsFall,
           \A w \in Worker : exits'[w] = "reconciled" /\ exits[w] # "reconciled"
                             => \A c \in HeldCalls' : calls'[c].worker # w
    PROVE  PermitsKept'
<1>1. HeldCalls' \subseteq HeldCalls
  BY DEF CallsFall, HeldCalls
<1>2. IsFiniteSet(HeldCalls') /\ Cardinality(HeldCalls') <= Cardinality(HeldCalls)
  BY <1>1, FS_Subset DEF PermitsKept
<1>3. Cardinality(HeldCalls') <= Capacity
  BY <1>1, <1>2, FS_Subset, FS_CardinalityType, Bounds DEF PermitsKept
<1>4. \A w \in Worker : exits'[w] = "reconciled" => \A c \in HeldCalls' : calls'[c].worker # w
  BY <1>1 DEF PermitsKept, CallsFall, HeldCalls
<1>. QED  BY <1>2, <1>3, <1>4 DEF PermitsKept

LEMMA JobFencedMoves ==
    ASSUME Typed, Typed', JobFenced, CallsFall, JobsMove PROVE JobFenced'
<1>. SUFFICES ASSUME NEW j \in Job, NEW n \in Turn
              PROVE  /\ calls'[<<j, n>>].status \in Held =>
                          /\ jobs'[j].status \in Active /\ jobs'[j].token = n
                          /\ jobs'[j].worker = calls'[<<j, n>>].worker
                     /\ calls'[<<j, n>>].status # "none" => n <= jobs'[j].version
  BY DEF JobFenced
<1>1. <<j, n>> \in CallId
  BY CallHere
<1>2. ASSUME calls'[<<j, n>>].status \in Held
      PROVE  /\ jobs'[j].status \in Active /\ jobs'[j].token = n
             /\ jobs'[j].worker = calls'[<<j, n>>].worker
  BY <1>1, <1>2 DEF JobFenced, CallsFall, JobsMove, JobStays
<1>3. calls'[<<j, n>>].status # "none" => n <= jobs'[j].version
  <2>1. /\ jobs[j].version \in Nat /\ jobs'[j].version \in Nat /\ n \in Nat
    BY LaneTypes, CallHere DEF Typed, JobsTyped, JobsOK, JobRow
  <2>2. jobs'[j].version >= jobs[j].version
    BY DEF JobsMove
  <2>3. calls[<<j, n>>].status # "none" => n <= jobs[j].version
    BY DEF JobFenced
  <2>. QED  BY <1>1, <2>1, <2>2, <2>3 DEF CallsFall
<1>. QED  BY <1>2, <1>3

LEMMA RunFencedMoves ==
    ASSUME RunFenced, CallsFall, RunsMove, Typed',
           \A w \in Worker : futures'[w] \subseteq futures[w],
           \A w \in Worker : exits'[w] = "reconciled" => \A r \in ActiveRuns' : runs'[r].worker # w
    PROVE  RunFenced'
<1>1. ASSUME NEW w \in Worker, NEW c \in futures'[w], c[1] \in Run
      PROVE  /\ runs'[c[1]].status \in Active /\ runs'[c[1]].turn = c[2]
             /\ runs'[c[1]].worker = w
  <2>1. c \in futures[w] /\ RunStays(c[1])
    BY <1>1 DEF RunsMove
  <2>. QED  BY <1>1, <2>1 DEF RunFenced, RunStays
<1>2. ASSUME NEW r \in Run, NEW n \in Turn, runs'[r].status \in {"absent", "queued"}
      PROVE  calls'[<<r, n>>].status = "none"
  BY <1>2, CallHere DEF RunFenced, RunsMove, CallsFall
<1>. QED  BY <1>1, <1>2 DEF RunFenced

LEMMA RuntimeFalls ==
    ASSUME RuntimeKept, CallsFall, Typed,
           \A w \in Worker :
               /\ ~Executing(w)' => mem'[w] = Blank /\ futures'[w] = {} /\ outcomes'[w] = {}
               /\ futures'[w] \subseteq futures[w]
               /\ \A c \in futures'[w] : calls'[c].status \in Active
               /\ \A o \in outcomes'[w] : o \in outcomes[w] \/ calls'[o[1]].status \in {"completed", "failed"}
    PROVE  RuntimeKept'
<1>. SUFFICES ASSUME NEW w \in Worker
              PROVE  /\ \A c \in futures'[w] : calls'[c].worker = w
                     /\ \A o \in outcomes'[w] : calls'[o[1]].status \in {"completed", "failed"}
  BY DEF RuntimeKept
<1>1. ASSUME NEW c \in futures'[w] PROVE calls'[c].worker = w
  BY LaneTypes DEF RuntimeKept, CallsFall
<1>2. ASSUME NEW o \in outcomes'[w], o \in outcomes[w]
      PROVE  calls'[o[1]].status \in {"completed", "failed"}
  <2>1. o[1] \in CallId
    BY <1>2, LaneTypes
  <2>. QED  BY <1>2, <2>1 DEF RuntimeKept, CallsFall
<1>. QED  BY <1>1, <1>2

-----------------------------------------------------------------------------
\* The hand of a child that does not move.

LEMMA BlankHand ==
    ASSUME NEW w \in Worker, mem[w] = Blank, futures[w] = {} PROVE InHand(w)
BY DEF InHand, Blank, OnJob, OnRun, HasItem, Own

LEMMA HandStays ==
    ASSUME Typed, RunOwned, NEW w \in Worker, InHand(w), CallsFall, mem'[w] = mem[w],
           futures'[w] \subseteq futures[w],
           \A j \in Job : jobs[j].status \in Active /\ jobs[j].worker = w =>
                            JobStays(j) /\ jobs'[j].version = jobs[j].version,
           \A r \in Run : runs[r].status \in Active /\ runs[r].worker = w => runs'[r].turn = runs[r].turn
    PROVE  InHand(w)'
<1>1. /\ Own(w)' = Own(w) /\ ItemOf(w)' = ItemOf(w) /\ OnJob(w)' = OnJob(w)
      /\ OnRun(w)' = OnRun(w)
  BY DEF Own, ItemOf, OnJob, OnRun, HasItem
<1>2. /\ mem[w].pc \notin Empty => Own(w) \in CallId
      /\ OnRun(w) => \A n \in Turn : <<ItemOf(w), n>> \in CallId
  BY CallsOfItems, CallHere DEF Typed, MemTyped, HoldsCall, Own, OnRun
<1>3. /\ mem'[w].pc # "stopped" => futures'[w] \subseteq {Own(w)}
      /\ mem'[w].pc \in Free => futures'[w] = {}
  BY DEF InHand
<1>4. /\ mem'[w].pc = "settle" /\ mem'[w].got # "failed" => calls'[Own(w)].status \notin Held
      /\ mem'[w].pc \in {"prepare", "admit"} => calls'[Own(w)].status = "none"
      /\ OnRun(w) => \A n \in Turn : n > Own(w)[2] => calls'[<<ItemOf(w), n>>].status = "none"
  BY <1>2 DEF InHand, CallsFall, Empty
<1>5. mem'[w].pc = "admit" /\ OnJob(w) => /\ jobs'[ItemOf(w)].status \in Active
                                          /\ jobs'[ItemOf(w)].token = Own(w)[2]
                                          /\ jobs'[ItemOf(w)].worker = w
                                          /\ Own(w)[2] <= jobs'[ItemOf(w)].version
  BY DEF InHand, JobStays, OnJob
<1>6. mem'[w].pc = "admit" /\ OnRun(w) => runs'[ItemOf(w)].turn = Own(w)[2]
  <2>. SUFFICES ASSUME mem[w].pc = "admit", OnRun(w) PROVE runs'[ItemOf(w)].turn = Own(w)[2]
    OBVIOUS
  <2>1. runs[ItemOf(w)].status \in Active /\ runs[ItemOf(w)].worker = w /\ ItemOf(w) \in Run
    BY DEF RunOwned, Owned, Working, OnRun
  <2>. QED  BY <2>1 DEF InHand
<1>. QED  BY <1>1, <1>3, <1>4, <1>5, <1>6 DEF InHand

\* While a child executes no other does, and the others have nothing.
LEMMA OthersBlank ==
    ASSUME IInv, RuntimeKept, NEW w \in Worker, Executing(w)
    PROVE  \A v \in Worker : v # w => /\ ~Executing(v) /\ mem[v] = Blank
                                      /\ futures[v] = {} /\ outcomes[v] = {}
BY DEF IInv, ExitsKnown, OneChild, Executing, RuntimeKept

-----------------------------------------------------------------------------
\* A child that moves.

\* A step of the child takes no job and no run for anybody else.
TakesFor(w) ==
    /\ \A j \in Job : jobs'[j].status \in Active =>
          \/ jobs[j].status \in Active /\ jobs'[j].worker = jobs[j].worker
          \/ jobs'[j].worker = w
    /\ \A r \in Run : runs'[r].status \in Active =>
          \/ runs[r].status \in Active /\ runs'[r].worker = runs[r].worker
          \/ runs'[r].worker = w

\* What a step of the child's loop or of its threads leaves alone.
Local(w) == /\ UNCHANGED <<exits, tomb, proc, sup>>
            /\ \A v \in Worker : v # w => /\ mem'[v] = mem[v] /\ futures'[v] = futures[v]
                                         /\ outcomes'[v] = outcomes[v]

LEMMA HandoverStays ==
    ASSUME HandoverKept, UNCHANGED <<exits, tomb, proc, sup>> PROVE HandoverKept'
BY DEF HandoverKept, HandoffKept

LEMMA ClearedStays ==
    ASSUME IInv, Cleared, UNCHANGED <<exits, proc, sup>>, NEW w \in Worker, Executing(w),
           TakesFor(w)
    PROVE  Cleared'
<1>1. Vouched' <=> Vouched
  BY DEF Vouched
<1>2. exits[w] = "none"
  BY LaneTypes DEF IInv, ExitsKnown, ExitsAreReal, Executing
<1>3. NoneOrphaned => NoneOrphaned'
  BY <1>2 DEF NoneOrphaned, TakesFor, ActiveJobs
<1>. QED  BY <1>1, <1>3 DEF Cleared

\* A step that reserves no call keeps HInv when it keeps the hand of its child.
LEMMA WorkerMoves ==
    ASSUME IInv, IInv', HInv, NEW w \in Worker, Executing(w), Local(w),
           CallsFall, JobsMove, RunsMove, TakesFor(w), InHand(w)',
           futures'[w] \subseteq futures[w],
           \A c \in futures'[w] : calls'[c].status \in Active,
           \A o \in outcomes'[w] : o \in outcomes[w] \/ calls'[o[1]].status \in {"completed", "failed"}
    PROVE  HInv'
<1>1. Typed /\ Typed' /\ exits[w] = "none" /\ Executing(w)'
  BY LaneTypes DEF IInv, ExitsKnown, ExitsAreReal, Executing, Local
<1>2. \A v \in Worker : v # w => /\ ~Executing(v) /\ mem'[v] = Blank
                                 /\ futures'[v] = {} /\ outcomes'[v] = {}
  BY OthersBlank DEF HInv, Local
<1>3. RuntimeKept'
  BY <1>1, <1>2, RuntimeFalls DEF HInv
<1>4. PermitsKept'
  BY PermitsFall DEF HInv, Local
<1>5. JobFenced'
  BY <1>1, JobFencedMoves DEF HInv
<1>6. RunFenced'
  <2>1. \A v \in Worker : futures'[v] \subseteq futures[v]
    BY DEF Local
  <2>2. \A v \in Worker : exits'[v] = "reconciled" => \A r \in ActiveRuns' : runs'[r].worker # v
    BY <1>1 DEF Local, TakesFor, HInv, RunFenced, ActiveRuns
  <2>. QED  BY <1>1, <2>1, <2>2, RunFencedMoves DEF HInv
<1>7. HandKept'
  <2>. SUFFICES ASSUME NEW v \in Worker, v # w PROVE InHand(v)'
    BY DEF HandKept
  <2>. QED  BY <1>2 DEF InHand, Blank, OnJob, OnRun, HasItem, Own
<1>8. Cleared' /\ HandoverKept'
  BY ClearedStays, HandoverStays DEF HInv, Local
<1>. QED  BY <1>3, <1>4, <1>5, <1>6, <1>7, <1>8 DEF HInv

-----------------------------------------------------------------------------
\* The hand a step leaves its child.

LEMMA MemGoes ==
    ASSUME Typed, NEW w \in Worker
    PROVE  /\ \A point : Goto(w, point) => mem'[w].got = mem[w].got
           /\ \A got : GotoWith(w, "settle", got) => mem'[w].got = got
           /\ Release(w) => mem'[w].pc \in {"stopped", "idle"}
<1>1. mem \in [Worker -> Memory]
  BY DEF Typed, MemTyped, MemOK
<1>2. w \in DOMAIN mem /\ mem[w] \in Memory
  BY <1>1
<1>3. ASSUME NEW point, Goto(w, point) PROVE mem'[w].got = mem[w].got
  <2>1. mem' = [mem EXCEPT ![w].pc = point]
    BY <1>3 DEF Goto
  <2>2. mem'[w] = [mem[w] EXCEPT !.pc = point]
    BY <1>2, <2>1
  <2>. QED  BY <1>2, <2>2 DEF Memory
<1>4. ASSUME NEW got, GotoWith(w, "settle", got) PROVE mem'[w].got = got
  <2>1. mem' = [mem EXCEPT ![w].pc = "settle", ![w].got = got]
    BY <1>4 DEF GotoWith
  <2>2. mem'[w] = [mem[w] EXCEPT !.pc = "settle", !.got = got]
    BY <1>2, <2>1
  <2>. QED  BY <1>2, <2>2 DEF Memory
<1>5. ASSUME Release(w) PROVE mem'[w].pc \in {"stopped", "idle"}
  <2>1. mem'[w] = [mem[w] EXCEPT !.call = None,
                          !.pc = IF mem[w].pc = "stopping" THEN "stopped" ELSE "idle"]
    BY <1>2, <1>5 DEF Release
  <2>. QED  BY <1>2, <2>1 DEF Memory
<1>. QED  BY <1>3, <1>4, <1>5

LEMMA ReleasedHand ==
    ASSUME Typed, NEW w \in Worker, Release(w), futures'[w] = {} PROVE InHand(w)'
BY MemMoves, MemGoes DEF InHand, Free, OnJob, OnRun, HasItem

\* An outcome to settle: the operation is over, and unless it is a failure that
\* left no trace its call row is settled.
LEMMA SettlingDone ==
    ASSUME IInv, HInv, NEW w \in Worker, NEW got, Settling(w, got)
    PROVE  /\ Executing(w) /\ mem[w].pc \in {"settle", "polling", "stopping"}
           /\ futures[w] = {}
           /\ got # "failed" => calls[Own(w)].status \notin Held
<1>1. InHand(w) /\ RuntimeKept /\ Executing(w)
  BY DEF HInv, HandKept, Settling, At
<1>2. CASE At(w, {"settle"}) /\ got = mem[w].got
  BY <1>1, <1>2 DEF InHand, Free, At
<1>3. CASE At(w, {"polling", "stopping"}) /\ \E o \in Retained(w) : TRUE
  <2>1. calls[Own(w)].status \in {"completed", "failed"}
    BY <1>1, <1>3 DEF RuntimeKept, Retained
  <2>2. futures[w] = {}
    BY <1>1, <1>3, <2>1 DEF InHand, RuntimeKept, At, Active
  <2>. QED  BY <1>1, <1>3, <2>1, <2>2 DEF At, Held
<1>. QED  BY <1>2, <1>3 DEF Settling

\* Steps that only move the child within its loop.
LEMMA HoldMoves ==
    ASSUME IInv, IInv', HInv, NEW w \in Worker,
           \/ CheckDrains(w) \/ StopServing(w) \/ LookForWork(w) \/ NoJob(w) \/ NoRun(w)
           \/ Deny(w) \/ NotSubmitted(w) \/ WaiterReturns(w) \/ WaiterTimesOut(w)
    PROVE  HInv'
<1>0. Typed /\ InHand(w) /\ RuntimeKept
  BY DEF IInv, HInv, HandKept
<1>1. /\ UNCHANGED <<jobs, runs, calls, exits, tomb, proc, sup, futures, outcomes>>
      /\ Executing(w)
  BY DEF CheckDrains, StopServing, LookForWork, NoJob, NoRun, Deny, NotSubmitted,
         WaiterReturns, WaiterTimesOut, At, ledger, broker, butOpen, quiet
<1>2. /\ \A v \in Worker : v # w => mem'[v] = mem[v]
      /\ mem'[w].call = mem[w].call
  BY <1>0, MemMoves
  DEF CheckDrains, StopServing, LookForWork, NoJob, NoRun, Deny, NotSubmitted,
      WaiterReturns, WaiterTimesOut
<1>3. InHand(w)'
  <2>. DEFINE Fits == /\ mem[w].pc # "stopped" /\ mem'[w].pc \notin {"prepare", "admit"}
                      /\ mem'[w].pc \in Free => futures[w] = {}
                      /\ mem'[w].pc = "settle" /\ mem'[w].got # "failed"
                         => calls[Own(w)].status \notin Held
  <2>4. Fits
    <3>1. CASE \/ CheckDrains(w) \/ StopServing(w) \/ LookForWork(w) \/ NoJob(w) \/ NoRun(w)
               \/ WaiterTimesOut(w)
      BY <1>0, <3>1, MemMoves
      DEF CheckDrains, StopServing, LookForWork, NoJob, NoRun, WaiterTimesOut, At, InHand, Free
    <3>2. CASE Deny(w) \/ NotSubmitted(w)
      BY <1>0, <3>2, MemMoves DEF Deny, NotSubmitted, At, InHand, Free, Held
    <3>3. CASE WaiterReturns(w)
      <4>1. mem[w].pc = "waiting" /\ futures[w] = {} /\ mem'[w].pc = "settle"
        BY <1>0, <3>3, MemMoves DEF WaiterReturns, At, InHand
      <4>2. CASE Retained(w) = {}
        BY <1>0, <3>3, <4>1, <4>2, MemGoes DEF WaiterReturns
      <4>3. CASE Retained(w) # {}
        <5>1. calls[Own(w)].status \in {"completed", "failed"}
          BY <1>0, <4>3 DEF RuntimeKept, Retained
        <5>. QED  BY <4>1, <5>1 DEF Held
      <4>. QED  BY <4>1, <4>2, <4>3
    <3>. QED  BY <3>1, <3>2, <3>3
  <2>5. /\ Own(w)' = Own(w) /\ ItemOf(w)' = ItemOf(w) /\ OnRun(w)' = OnRun(w)
    BY <1>2 DEF Own, ItemOf, OnRun, HasItem
  <2>. QED  BY <1>0, <1>1, <2>4, <2>5 DEF InHand
<1>4. Local(w) /\ TakesFor(w)
  BY <1>1, <1>2 DEF Local, TakesFor
<1>. QED  BY <1>0, <1>1, <1>3, <1>4, CallsStay, JobsStay, RunsStay, WorkerMoves
          DEF RuntimeKept

\* Steps that end what the child holds.
LEMMA JobEndsFenced ==
    ASSUME IInv, HInv, NEW w \in Worker, CompleteJob(w) \/ FailJob(w) \/ DeferJob(w)
    PROVE  /\ \A j \in Job :
                /\ jobs'[j].version = jobs[j].version
                /\ jobs'[j].status \in Active => jobs'[j] = jobs[j]
                /\ jobs'[j] # jobs[j] => \A n \in Turn : calls[<<j, n>>].status \notin Held
           /\ OnJob(w) /\ Executing(w) /\ futures[w] = {}
<1>0. Typed /\ JobFenced
  BY DEF IInv, HInv
<1>1. OnJob(w) /\ Executing(w) /\ futures[w] = {}
  BY SettlingDone DEF CompleteJob, FailJob, DeferJob
<1>2. \A j \in Job : /\ jobs'[j].version = jobs[j].version
                     /\ j # ItemOf(w) => jobs'[j] = jobs[j]
                     /\ jobs'[j].status \in Active => jobs'[j] = jobs[j]
  <2>1. CASE CompleteJob(w) \/ FailJob(w)
    BY <1>0, <1>1, <2>1, LaneTypes
    DEF CompleteJob, FailJob, OnJob, JobRow, Terminal, Active
  <2>2. CASE DeferJob(w)
    <3>1. jobs[ItemOf(w)] \in JobRow /\ ItemOf(w) \in Job
      BY <1>0, <1>1, LaneTypes DEF OnJob
    <3>2. /\ Deferred(ItemOf(w)).version = jobs[ItemOf(w)].version
          /\ Deferred(ItemOf(w)).status = "queued"
      BY <3>1 DEF Deferred, JobRow
    <3>. QED  BY <1>0, <2>2, <3>1, <3>2, LaneTypes DEF DeferJob, Active
  <2>. QED  BY <2>1, <2>2
<1>3. jobs'[ItemOf(w)] # jobs[ItemOf(w)] =>
        jobs[ItemOf(w)].token = Own(w)[2] /\ calls[Own(w)].status \notin Held
  <2>1. CASE CompleteJob(w)
    BY <2>1, SettlingDone DEF CompleteJob, StillHolds
  <2>2. CASE FailJob(w)
    BY <2>2 DEF FailJob, StillHolds, CallSettled
  <2>3. CASE DeferJob(w)
    BY <2>3 DEF DeferJob, Held
  <2>. QED  BY <2>1, <2>2, <2>3
<1>4. Own(w) = <<ItemOf(w), Own(w)[2]>> /\ ItemOf(w) \in Job
  BY <1>0, <1>1, OwnTyped, CallOf DEF Own, ItemOf, OnJob
<1>5. ASSUME NEW j \in Job, jobs'[j] # jobs[j], NEW n \in Turn
      PROVE  calls[<<j, n>>].status \notin Held
  <2>. SUFFICES ASSUME calls[<<j, n>>].status \in Held PROVE FALSE
    OBVIOUS
  <2>1. j = ItemOf(w) /\ jobs[j].token = n
    BY <1>0, <1>2, <1>5 DEF JobFenced
  <2>. QED  BY <1>3, <1>4, <1>5, <2>1
<1>. QED  BY <1>1, <1>2, <1>5

LEMMA HoldJobEnds ==
    ASSUME IInv, IInv', HInv, NEW w \in Worker, CompleteJob(w) \/ FailJob(w) \/ DeferJob(w)
    PROVE  HInv'
<1>0. Typed /\ Typed'
  BY DEF IInv
<1>1. /\ UNCHANGED <<runs, calls, exits, tomb, proc, sup, futures>> /\ Release(w)
      /\ Executing(w) /\ futures[w] = {} /\ OnJob(w)
  BY JobEndsFenced DEF CompleteJob, FailJob, DeferJob, butJobs, broker, quiet
<1>2. /\ outcomes'[w] \subseteq outcomes[w]
      /\ \A v \in Worker : v # w => mem'[v] = mem[v] /\ outcomes'[v] = outcomes[v]
  BY <1>0, <1>1, LaneTypes, MemMoves DEF CompleteJob, FailJob, DeferJob, Forget, quiet
<1>3. JobsMove
  BY <1>0, <1>1, JobEndsFenced, LaneTypes DEF JobsMove, JobStays, JobRow
<1>4. Local(w) /\ TakesFor(w) /\ InHand(w)'
  BY <1>0, <1>1, <1>2, JobEndsFenced, ReleasedHand DEF Local, TakesFor
<1>. QED  BY <1>1, <1>2, <1>3, <1>4, CallsStay, RunsStay, WorkerMoves

LEMMA HoldFinishRun ==
    ASSUME IInv, IInv', HInv, NEW w \in Worker, FinishRun(w) PROVE HInv'
<1>0. Typed /\ Typed' /\ InHand(w)
  BY DEF IInv, HInv, HandKept
<1>1. /\ UNCHANGED <<jobs, calls, exits, tomb, proc, sup, futures>> /\ Release(w) /\ OnRun(w)
  BY DEF FinishRun, butRuns, broker
<1>2. Executing(w) /\ futures[w] = {}
  <2>1. CASE At(w, {"prepare"})
    BY <1>0, <2>1 DEF At, InHand, Free
  <2>2. CASE \E got \in Got : Settling(w, got)
    BY <2>2, SettlingDone
  <2>. QED  BY <2>1, <2>2 DEF FinishRun
<1>3. /\ outcomes'[w] \subseteq outcomes[w]
      /\ \A v \in Worker : v # w => mem'[v] = mem[v] /\ outcomes'[v] = outcomes[v]
  BY <1>0, <1>1, LaneTypes, MemMoves DEF FinishRun, Forget
<1>4. \A r \in Run : /\ r # ItemOf(w) => runs'[r] = runs[r]
                     /\ runs'[r].status \in Active \cup {"absent", "queued"} => runs'[r] = runs[r]
  BY <1>0, <1>1, LaneTypes DEF FinishRun, OnRun, RunRow, Active
<1>5. \A v \in Worker : v # w => futures[v] = {}
  BY <1>2, OthersBlank DEF HInv
<1>6. RunsMove
  BY <1>1, <1>2, <1>4, <1>5 DEF RunsMove, RunStays
<1>7. Local(w) /\ TakesFor(w) /\ InHand(w)'
  BY <1>0, <1>1, <1>2, <1>3, <1>4, ReleasedHand DEF Local, TakesFor
<1>. QED  BY <1>0, <1>1, <1>2, <1>3, <1>6, <1>7, CallsStay, JobsStay, WorkerMoves

\* The hand of a child that goes on with the call it has.
LEMMA HandGoes ==
    ASSUME Typed, NEW w \in Worker, InHand(w), CallsFall, futures'[w] \subseteq futures[w],
           mem[w].pc # "stopped", mem'[w].call = mem[w].call,
           mem'[w].pc \notin {"prepare", "admit"},
           mem'[w].pc \in Free => futures'[w] = {},
           mem'[w].pc # "settle"
    PROVE  InHand(w)'
<1>1. /\ Own(w)' = Own(w) /\ ItemOf(w)' = ItemOf(w) /\ OnRun(w)' = OnRun(w)
  BY DEF Own, ItemOf, OnRun, HasItem
<1>2. OnRun(w) => \A n \in Turn : n > Own(w)[2] => calls'[<<ItemOf(w), n>>].status = "none"
  BY CallHere DEF InHand, CallsFall, OnRun
<1>. QED  BY <1>1, <1>2 DEF InHand

LEMMA HoldDrains ==
    ASSUME IInv, IInv', HInv, NEW w \in Worker, DrainCall(w) \/ MarkDraining(w) PROVE HInv'
<1>0. Typed /\ Typed' /\ InHand(w) /\ RuntimeKept /\ RunOwned /\ Executing(w)
  BY DEF IInv, HInv, HandKept, DrainCall, MarkDraining, At
<1>1. /\ UNCHANGED <<exits, tomb, proc, sup, futures, outcomes>>
      /\ \A v \in Worker : v # w => mem'[v] = mem[v]
      /\ mem'[w].call = mem[w].call
      /\ mem[w].pc \in {"timedOut", "drained"} /\ mem'[w].pc \in {"drained", "polling"}
  BY <1>0, MemMoves DEF DrainCall, MarkDraining, At, butCalls, broker, quiet
<1>2. /\ Own(w) \in CallId /\ (OnJob(w) => ItemOf(w) \in Job)
      /\ (~OnJob(w) => ItemOf(w) \in Run /\ runs[ItemOf(w)].status \in Active)
  BY <1>0, <1>1, BusyHasItem, OwnTyped DEF Empty, RunOwned, Owned, Working, OnJob, OnRun
<1>3. CallsFall /\ \A c \in futures'[w] : calls'[c].status \in Active
  <2>1. CASE DrainCall(w)
    <3>. DEFINE to == IF calls[Own(w)].status = "running" THEN "draining"
                      ELSE calls[Own(w)].status
    <3>0. calls' = [calls EXCEPT ![Own(w)] = [calls[Own(w)] EXCEPT !.status = to]]
      BY <2>1 DEF DrainCall
    <3>1. \A c \in CallId :
            /\ calls'[c].worker = calls[c].worker
            /\ \/ calls'[c].status = calls[c].status
               \/ (calls[c].status = "running" /\ calls'[c].status = "draining")
      <4>1. calls[Own(w)] \in CallRow /\ calls \in [CallId -> CallRow]
        BY <1>0, <1>2, LaneTypes
      <4>2. /\ [calls[Own(w)] EXCEPT !.status = to].status = to
            /\ [calls[Own(w)] EXCEPT !.status = to].worker = calls[Own(w)].worker
        BY <4>1 DEF CallRow
      <4>. QED  BY <3>0, <4>1, <4>2
    <3>. QED  BY <1>0, <1>1, <3>1, LaneTypes DEF CallsFall, RuntimeKept, Held, Active
  <2>2. CASE MarkDraining(w)
    BY <1>0, <1>1, <2>2 DEF MarkDraining, CallsFall, RuntimeKept
  <2>. QED  BY <2>1, <2>2
<1>4. \A j \in Job : /\ jobs'[j].version = jobs[j].version /\ jobs'[j].token = jobs[j].token
                     /\ jobs'[j].worker = jobs[j].worker
                     /\ jobs'[j].status \in Active <=> jobs[j].status \in Active
  BY <1>0, <1>2, LaneTypes DEF DrainCall, MarkDraining, Drained, butCalls, JobRow, Active
<1>5. \A r \in Run : /\ runs'[r].turn = runs[r].turn /\ runs'[r].worker = runs[r].worker
                     /\ runs'[r].status \in Active <=> runs[r].status \in Active
                     /\ runs'[r].status \in {"absent", "queued"} => runs'[r].status = runs[r].status
  <2>1. CASE UNCHANGED runs
    BY <2>1
  <2>2. CASE MarkDraining(w) /\ ~OnJob(w)
    BY <1>0, <1>2, <2>2, LaneTypes DEF MarkDraining, RunRow, Active
  <2>. QED  BY <2>1, <2>2 DEF DrainCall, MarkDraining, butCalls
<1>6. JobsMove /\ RunsMove /\ TakesFor(w) /\ Local(w)
  <2>1. JobsMove
    BY <1>0, <1>4, LaneTypes DEF JobsMove, JobStays, JobRow
  <2>. QED  BY <1>1, <1>4, <1>5, <2>1 DEF RunsMove, RunStays, TakesFor, Local
<1>7. InHand(w)'
  BY <1>0, <1>1, <1>3, HandGoes DEF Free
<1>. QED  BY <1>0, <1>1, <1>3, <1>6, <1>7, WorkerMoves DEF RuntimeKept

LEMMA HoldRefuses ==
    ASSUME IInv, IInv', HInv, NEW w \in Worker,
           RefuseAll(w) \/ \E r \in Run : RefuseRun(w, r)
    PROVE  HInv'
<1>0. Typed /\ Typed' /\ InHand(w) /\ RuntimeKept
  BY DEF IInv, HInv, HandKept
<1>1. /\ UNCHANGED <<calls, exits, tomb, proc, sup, futures, outcomes>> /\ Executing(w)
      /\ \A v \in Worker : v # w => mem'[v] = mem[v]
      /\ mem'[w].call = mem[w].call
      /\ mem[w].pc \in {"idle", "claimJob", "offerRun"}
      /\ mem'[w].pc \in {"idle", "claimJob", "offerRun"}
  BY <1>0, MemMoves DEF RefuseAll, RefuseRun, At, butJobs, butRuns, broker, quiet
<1>2. futures[w] = {} /\ CallsFall
  BY <1>0, <1>1, CallsStay DEF InHand, Free
<1>3. \A j \in Job : /\ jobs'[j].version = jobs[j].version
                     /\ \/ jobs'[j] = jobs[j]
                        \/ (jobs[j].status = "queued" /\ jobs'[j].status = "unavailable")
  <2>1. CASE RefuseAll(w)
    BY <1>0, <2>1, LaneTypes DEF RefuseAll, Claimable, JobRow
  <2>2. CASE UNCHANGED jobs
    BY <2>2
  <2>. QED  BY <2>1, <2>2 DEF RefuseRun, butRuns
<1>. DEFINE Refused(r) == \/ runs'[r] = runs[r]
                          \/ (runs[r].status = "queued" /\ runs'[r].status = "unavailable")
<1>4. \A r \in Run : Refused(r)
  <2>1. CASE RefuseAll(w)
    BY <2>1 DEF RefuseAll, butJobs
  <2>2. ASSUME NEW r \in Run, RefuseRun(w, r) PROVE \A q \in Run : Refused(q)
    <3>1. runs' = [runs EXCEPT ![r] = [runs[r] EXCEPT !.status = "unavailable", !.worker = w]]
          /\ runs[r].status = "queued"
      BY <2>2 DEF RefuseRun
    <3>2. runs \in [Run -> RunRow] /\ runs[r] \in RunRow
      BY <1>0, LaneTypes
    <3>3. [runs[r] EXCEPT !.status = "unavailable", !.worker = w].status = "unavailable"
      BY <3>2 DEF RunRow
    <3>. QED  BY <3>1, <3>2, <3>3
  <2>. QED  BY <2>1, <2>2
<1>5. JobsMove /\ RunsMove /\ TakesFor(w) /\ Local(w)
  <2>1. JobsMove
    BY <1>0, <1>3, LaneTypes DEF JobsMove, JobStays, JobRow, Active
  <2>2. RunsMove
    BY <1>4 DEF RunsMove, RunStays, Active
  <2>. QED  BY <1>1, <1>3, <1>4, <2>1, <2>2 DEF TakesFor, Local, Active
<1>6. InHand(w)'
  BY <1>0, <1>1, <1>2, HandGoes
<1>. QED  BY <1>1, <1>2, <1>5, <1>6, WorkerMoves

\* What the operations, their threads and the loop's own failure do.
LEMMA HoldOperation ==
    ASSUME IInv, IInv', HInv, NEW w \in Worker, Operation(w) \/ WorkerRaises(w) PROVE HInv'
<1>0. Typed /\ Typed' /\ RunOwned /\ InHand(w) /\ RuntimeKept
  BY DEF IInv, HInv, HandKept
<1>1. UNCHANGED <<jobs, runs, exits, tomb, proc, sup>> /\ Executing(w)
  BY DEF Operation, OpDone, LostCallback, WorkerRaises, ledger, broker, quiet
<1>2. JobsMove /\ RunsMove /\ TakesFor(w)
  BY <1>0, <1>1, JobsStay, RunsStay DEF TakesFor
<1>3. ASSUME NEW c \in CallId, NEW result \in {"completed", "failed"}, OpDone(w, c, result)
      PROVE  HInv'
  <2>1. /\ c \in futures[w] /\ UNCHANGED mem
        /\ futures'[w] = futures[w] \ {c} /\ outcomes'[w] = outcomes[w] \cup {<<c, result>>}
        /\ \A v \in Worker : v # w => futures'[v] = futures[v] /\ outcomes'[v] = outcomes[v]
        /\ calls'[c].status = result /\ calls'[c].worker = calls[c].worker
        /\ \A d \in CallId : d # c => calls'[d] = calls[d]
    BY <1>0, <1>3, LaneTypes DEF OpDone, CallRow
  <2>2. CallsFall
    BY <1>0, <2>1 DEF CallsFall, RuntimeKept, Active, Held
  <2>3. InHand(w)'
    BY <1>0, <1>1, <2>1, <2>2, HandStays DEF JobStays
  <2>4. Local(w) /\ \A d \in futures'[w] : calls'[d].status \in Active
    BY <1>0, <1>1, <2>1, LaneTypes DEF Local, RuntimeKept
  <2>. QED  BY <1>1, <1>2, <2>1, <2>2, <2>3, <2>4, WorkerMoves
<1>4. ASSUME NEW c \in CallId, LostCallback(w, c) PROVE HInv'
  <2>1. /\ UNCHANGED <<mem, outcomes>> /\ CallsFall
        /\ futures'[w] = futures[w] \ {c}
        /\ \A v \in Worker : v # w => futures'[v] = futures[v]
        /\ UNCHANGED calls
    BY <1>0, <1>4, LaneTypes, CallsStay DEF LostCallback, ledger
  <2>2. InHand(w)'
    BY <1>0, <1>1, <2>1, HandStays DEF JobStays
  <2>3. Local(w) /\ \A d \in futures'[w] : calls'[d].status \in Active
    BY <1>0, <1>1, <2>1 DEF Local, RuntimeKept
  <2>. QED  BY <1>1, <1>2, <2>1, <2>2, <2>3, WorkerMoves
<1>5. CASE WorkerRaises(w)
  <2>1. /\ UNCHANGED <<calls, futures, outcomes>> /\ CallsFall
        /\ mem'[w].pc = "stopped" /\ mem'[w].call = None
        /\ \A v \in Worker : v # w => mem'[v] = mem[v]
    BY <1>0, <1>5, LaneTypes, CallsStay DEF WorkerRaises, Blank, ledger, quiet
  <2>2. InHand(w)'
    BY <2>1 DEF InHand, Free, OnJob, OnRun, HasItem
  <2>3. Local(w) /\ \A d \in futures'[w] : calls'[d].status \in Active
    BY <1>0, <1>1, <2>1 DEF Local, RuntimeKept
  <2>. QED  BY <1>1, <1>2, <2>1, <2>2, <2>3, WorkerMoves
<1>. QED  BY <1>3, <1>4, <1>5 DEF Operation

-----------------------------------------------------------------------------
\* The child takes an item, or goes on to the next call of the run it has.

\* A call that is new to the child, when nothing of it executes.
LEMMA FreshHand ==
    ASSUME Typed, NEW w \in Worker, NEW c \in CallId, futures'[w] = {},
           mem'[w].call = c, mem'[w].pc \in {"prepare", "admit"}, calls'[c].status = "none",
           c[1] \in Job => /\ jobs'[c[1]].status \in Active /\ jobs'[c[1]].token = c[2]
                           /\ jobs'[c[1]].worker = w /\ c[2] <= jobs'[c[1]].version,
           mem'[w].pc = "admit" /\ c[1] \in Run => runs'[c[1]].turn = c[2],
           c[1] \in Run => \A n \in Turn : n > c[2] => calls'[<<c[1], n>>].status = "none"
    PROVE  InHand(w)'
BY DEF InHand, Free, Own, ItemOf, OnJob, OnRun

LEMMA HoldClaimJob ==
    ASSUME IInv, IInv', HInv, NEW w \in Worker, ClaimJob(w) PROVE HInv'
<1>. PICK refused \in SUBSET Claimable, j \in Claimable :
        /\ j \notin refused
        /\ jobs' = [i \in Job |->
             IF i \in refused THEN [jobs[i] EXCEPT !.status = "unavailable"]
             ELSE IF i = j THEN Claimed(j, w) ELSE jobs[i]]
        /\ mem' = [mem EXCEPT ![w] = [@ EXCEPT !.pc = "admit", !.prefer = TRUE,
                                       !.call = <<j, jobs[j].version + 1>>]]
  BY DEF ClaimJob
<1>. DEFINE n == jobs[j].version + 1
<1>0. /\ Typed /\ Typed' /\ InHand(w) /\ RuntimeKept /\ JobFenced
      /\ j \in Job /\ jobs[j].status = "queued" /\ jobs[j].version \in Nat
      /\ jobs[j].version < MaxVersion
  BY LaneTypes DEF IInv, HInv, HandKept, Claimable, JobRow
<1>1. /\ UNCHANGED <<runs, calls, exits, tomb, proc, sup, futures, outcomes>>
      /\ Executing(w) /\ mem[w].pc = "claimJob" /\ ActiveJobs = {}
      /\ \A v \in Worker : v # w => mem'[v] = mem[v]
  BY <1>0, LaneTypes DEF ClaimJob, At, butJobs, broker, quiet, LaneFree
<1>2. mem'[w].call = <<j, n>> /\ mem'[w].pc = "admit"
  BY <1>0, LaneTypes DEF Memory
<1>3. /\ jobs'[j].status = "running" /\ jobs'[j].token = n /\ jobs'[j].version = n
      /\ jobs'[j].worker = w
      /\ \A i \in Job : i # j =>
           /\ jobs'[i].version = jobs[i].version
           /\ jobs'[i] = jobs[i] \/ jobs'[i].status = "unavailable"
  BY <1>0, LaneTypes DEF Claimed, JobRow
<1>4. <<j, n>> \in CallId /\ n \in Turn /\ n \in Nat
  <2>1. n \in 1 .. MaxVersion
    BY <1>0, Bounds
  <2>2. <<j, n>> \in CallId
    BY <1>0, <2>1, CallsOfItems
  <2>. QED  BY <2>1, <2>2 DEF CallId
<1>5. calls[<<j, n>>].status = "none"
  <2>1. ~(n <= jobs[j].version)
    BY <1>0
  <2>. QED  BY <1>0, <1>4, <2>1 DEF JobFenced
<1>6. futures[w] = {} /\ CallsFall
  BY <1>0, <1>1, CallsStay DEF InHand, Free
<1>7. JobsMove /\ RunsMove /\ TakesFor(w) /\ Local(w)
  <2>1. \A i \in Job : jobs'[i].version >= jobs[i].version /\ JobStays(i)
    <3>1. \A i \in Job : jobs[i].status \notin Active
      BY <1>1 DEF ActiveJobs
    <3>2. \A i \in Job : jobs[i].version \in Nat
      BY <1>0, LaneTypes DEF JobRow
    <3>. QED  BY <1>0, <1>3, <3>1, <3>2 DEF JobStays
  <2>2. TakesFor(w)
    BY <1>1, <1>3 DEF TakesFor, Active
  <2>. QED  BY <1>1, <2>1, <2>2, RunsStay DEF JobsMove, Local
<1>8. InHand(w)'
  <2>1. j \notin Run /\ jobs'[j].status \in Active /\ n <= jobs'[j].version
    BY <1>0, <1>3, <1>4, IdentityAssumption DEF Active
  <2>. QED  BY <1>0, <1>1, <1>2, <1>3, <1>4, <1>5, <1>6, <2>1, FreshHand
<1>. QED  BY <1>1, <1>6, <1>7, <1>8, WorkerMoves

LEMMA HoldClaimRun ==
    ASSUME IInv, IInv', HInv, NEW w \in Worker, NEW r \in Run, ClaimRun(w, r) PROVE HInv'
<1>0. /\ Typed /\ Typed' /\ InHand(w) /\ RuntimeKept /\ RunFenced
      /\ runs[r].status = "queued" /\ runs[r] \in RunRow
  BY LaneTypes DEF IInv, HInv, HandKept, ClaimRun
<1>1. /\ UNCHANGED <<jobs, calls, exits, tomb, proc, sup, futures, outcomes>>
      /\ Executing(w) /\ mem[w].pc \in {"idle", "offerRun"}
      /\ \A v \in Worker : v # w => mem'[v] = mem[v]
      /\ mem'[w].call = <<r, 1>> /\ mem'[w].pc = "prepare"
  BY <1>0, LaneTypes DEF ClaimRun, At, butRuns, broker, quiet, Memory
<1>2. /\ \A q \in Run : q # r => runs'[q] = runs[q]
      /\ runs'[r].status = "running" /\ runs'[r].worker = w
  BY <1>0, LaneTypes DEF ClaimRun, RunRow
<1>3. <<r, 1>> \in CallId /\ 1 \in Turn /\ r \notin Job
  <2>1. 1 \in 1 .. MaxTurns
    BY Bounds
  <2>2. <<r, 1>> \in CallId
    BY <2>1, CallsOfItems
  <2>. QED  BY <2>2, IdentityAssumption DEF CallId
<1>4. \A n \in Turn : calls[<<r, n>>].status = "none"
  BY <1>0 DEF RunFenced
<1>5. futures[w] = {} /\ CallsFall
  BY <1>0, <1>1, CallsStay DEF InHand, Free
<1>6. JobsMove /\ RunsMove /\ TakesFor(w) /\ Local(w)
  BY <1>0, <1>1, <1>2, JobsStay DEF RunsMove, RunStays, TakesFor, Local, Active
<1>7. InHand(w)'
  BY <1>0, <1>1, <1>3, <1>4, <1>5, FreshHand
<1>. QED  BY <1>1, <1>5, <1>6, <1>7, WorkerMoves

LEMMA HoldTurns ==
    ASSUME IInv, IInv', HInv, NEW w \in Worker, PrepareTurn(w) \/ NextTurn(w) PROVE HInv'
<1>0. Typed /\ Typed' /\ InHand(w) /\ RuntimeKept
  BY DEF IInv, HInv, HandKept
<1>1. /\ UNCHANGED <<jobs, calls, exits, tomb, proc, sup, futures>>
      /\ Executing(w) /\ mem[w].pc \in {"prepare", "settle"}
  BY DEF PrepareTurn, NextTurn, At, ledger, butRuns, broker, quiet
<1>2. /\ OnRun(w) /\ Own(w) \in CallId /\ Own(w)[2] \in 1 .. MaxTurns
      /\ Own(w) = <<ItemOf(w), Own(w)[2]>> /\ ItemOf(w) \in Run /\ ItemOf(w) \notin Job
  <2>1. OnRun(w)
    BY <1>0, BusyHasItem
    DEF PrepareTurn, NextTurn, At, Empty, Typed, MemTyped, HoldsCall, OnRun, ItemOf
  <2>. QED  BY <1>0, <2>1, OwnTyped, CallOf, IdentityAssumption DEF OnRun, Own, ItemOf
<1>3. futures[w] = {} /\ CallsFall
  BY <1>0, <1>1, CallsStay DEF InHand, Free
<1>4. CASE PrepareTurn(w)
  <2>1. /\ \A v \in Worker : v # w => mem'[v] = mem[v]
        /\ mem'[w].call = Own(w) /\ mem'[w].pc = "admit" /\ UNCHANGED outcomes
        /\ mem[w].pc = "prepare"
    BY <1>0, <1>4, MemMoves DEF PrepareTurn, Own, quiet, At
  <2>2. /\ \A r \in Run : /\ r # ItemOf(w) => runs'[r] = runs[r]
                          /\ runs'[r].status = runs[r].status /\ runs'[r].worker = runs[r].worker
        /\ runs'[ItemOf(w)].turn = Own(w)[2]
    BY <1>0, <1>2, <1>4, LaneTypes DEF PrepareTurn, RunRow
  <2>3. \A v \in Worker : v # w => futures[v] = {}
    BY <1>1, OthersBlank DEF HInv
  <2>4. JobsMove /\ RunsMove /\ TakesFor(w) /\ Local(w)
    BY <1>0, <1>1, <1>3, <2>1, <2>2, <2>3, JobsStay DEF RunsMove, RunStays, TakesFor, Local
  <2>5. InHand(w)'
    <3>1. calls[Own(w)].status = "none"
      BY <1>0, <2>1 DEF InHand
    <3>2. \A n \in Turn : n > Own(w)[2] => calls[<<ItemOf(w), n>>].status = "none"
      BY <1>0, <1>2 DEF InHand
    <3>3. Own(w)[1] = ItemOf(w)
      BY DEF Own, ItemOf
    <3>. QED  BY <1>0, <1>1, <1>2, <1>3, <2>1, <2>2, <3>1, <3>2, <3>3, FreshHand
  <2>. QED  BY <1>1, <1>3, <2>1, <2>4, <2>5, WorkerMoves
<1>5. CASE NextTurn(w)
  <2>. DEFINE c == <<ItemOf(w), Own(w)[2] + 1>>
  <2>1. /\ \A v \in Worker : v # w => mem'[v] = mem[v] /\ outcomes'[v] = outcomes[v]
        /\ mem'[w].call = c /\ mem'[w].pc = "prepare"
        /\ outcomes'[w] \subseteq outcomes[w]
        /\ UNCHANGED runs
    BY <1>0, <1>5, LaneTypes DEF NextTurn, Memory, Forget, ledger
  <2>2. c \in CallId /\ c[1] = ItemOf(w) /\ c[2] = Own(w)[2] + 1
        /\ c[2] > Own(w)[2] /\ c[2] \in Turn
    <3>1. Own(w)[2] + 1 \in 1 .. MaxTurns
      BY <1>2, <1>5, Bounds DEF NextTurn, TurnsLeft
    <3>2. c \in CallId
      BY <1>2, <3>1, CallsOfItems
    <3>. QED  BY <1>2, <3>1, <3>2, CallOf
  <2>3. \A n \in Turn : n > Own(w)[2] => calls[<<ItemOf(w), n>>].status = "none"
    BY <1>0, <1>2 DEF InHand
  <2>4. JobsMove /\ RunsMove /\ TakesFor(w) /\ Local(w)
    BY <1>0, <1>1, <2>1, JobsStay, RunsStay DEF TakesFor, Local
  <2>5. InHand(w)'
    <3>1. calls[c].status = "none"
      BY <2>2, <2>3
    <3>2. \A n \in Turn : n > c[2] => n > Own(w)[2]
      BY <1>2, <2>2, CallHere, Bounds
    <3>. QED  BY <1>0, <1>1, <1>2, <1>3, <2>1, <2>2, <2>3, <3>1, <3>2, FreshHand
  <2>. QED  BY <1>1, <1>3, <2>1, <2>4, <2>5, WorkerMoves
<1>. QED  BY <1>4, <1>5

-----------------------------------------------------------------------------
\* _reserve: the one step that makes a call row.

LEMMA HoldAdmit ==
    ASSUME IInv, IInv', HInv, NEW w \in Worker, Admit(w) PROVE HInv'
<1>. DEFINE c == Own(w)
<1>0. /\ Typed /\ Typed' /\ InHand(w) /\ RuntimeKept /\ RunOwned /\ Executing(w)
      /\ mem[w].pc = "admit" /\ calls[c].status = "none" /\ PermitFree
      /\ UNCHANGED <<jobs, runs, exits, tomb, proc, sup, outcomes>>
  BY DEF IInv, HInv, HandKept, Admit, At, butCalls, broker
<1>1. /\ c \in CallId /\ (OnJob(w) \/ OnRun(w)) /\ HasItem(w) /\ ItemOf(w) = c[1]
      /\ c = <<c[1], c[2]>> /\ c[2] \in Turn /\ futures[w] = {}
  BY <1>0, BusyHasItem, OwnTyped, CallOf DEF Empty, Own, ItemOf, InHand, Free
<1>2. /\ calls'[c].status = "running" /\ calls'[c].worker = w
      /\ \A d \in CallId : d # c => calls'[d] = calls[d]
      /\ futures'[w] = {c}
      /\ \A v \in Worker : v # w => futures'[v] = futures[v] /\ mem'[v] = mem[v]
      /\ mem'[w].pc = "waiting" /\ mem'[w].call = c
  BY <1>0, <1>1, LaneTypes, MemMoves DEF Admit, Own
<1>3. \A v \in Worker : v # w => /\ ~Executing(v) /\ mem[v] = Blank
                                 /\ futures[v] = {} /\ outcomes[v] = {}
  BY <1>0, OthersBlank
<1>4. RuntimeKept'
  <2>1. \A o \in outcomes[w] : o[1] \in CallId /\ o[1] # c
    BY <1>0, LaneTypes DEF RuntimeKept
  <2>2. \A v \in Worker : ~Executing(v)' <=> ~Executing(v)
    BY <1>0 DEF Executing
  <2>3. \A o \in outcomes[w] : calls'[o[1]].status \in {"completed", "failed"}
    BY <1>0, <1>2, <2>1 DEF RuntimeKept
  <2>. QED  BY <1>0, <1>2, <1>3, <2>2, <2>3 DEF RuntimeKept, Active
<1>5. PermitsKept'
  <2>1. HeldCalls' = HeldCalls \cup {c} /\ c \notin HeldCalls
    BY <1>0, <1>1, <1>2 DEF HeldCalls, Held
  <2>2. /\ IsFiniteSet(HeldCalls')
        /\ Cardinality(HeldCalls') = Cardinality(HeldCalls) + 1
    BY <2>1, FS_AddElement DEF HInv, PermitsKept
  <2>3. Cardinality(HeldCalls) \in Nat
    BY FS_CardinalityType DEF HInv, PermitsKept
  <2>4. Cardinality(HeldCalls') <= Capacity
    BY <1>0, <2>2, <2>3, Bounds DEF PermitFree
  <2>5. exits[w] = "none"
    BY <1>0, LaneTypes DEF IInv, ExitsKnown, ExitsAreReal, Executing
  <2>6. \A v \in Worker : exits'[v] = "reconciled" => \A d \in HeldCalls' : calls'[d].worker # v
    BY <1>0, <1>2, <2>1, <2>5 DEF HInv, PermitsKept, HeldCalls
  <2>. QED  BY <2>2, <2>4, <2>6 DEF PermitsKept
<1>6. JobFenced'
  <2>. SUFFICES ASSUME NEW j \in Job, NEW n \in Turn
                PROVE  /\ calls'[<<j, n>>].status \in Held =>
                            /\ jobs[j].status \in Active /\ jobs[j].token = n
                            /\ jobs[j].worker = calls'[<<j, n>>].worker
                       /\ calls'[<<j, n>>].status # "none" => n <= jobs[j].version
    BY <1>0 DEF JobFenced
  <2>1. CASE <<j, n>> # c
    BY <1>2, <2>1, CallHere DEF HInv, JobFenced
  <2>2. CASE <<j, n>> = c
    BY <1>0, <1>1, <1>2, <2>2 DEF InHand, OnJob, Own
  <2>. QED  BY <2>1, <2>2
<1>7. RunFenced'
  <2>1. c[1] \in Run => /\ runs[c[1]].status \in Active /\ runs[c[1]].turn = c[2]
                        /\ runs[c[1]].worker = w
    BY <1>0, <1>1 DEF InHand, RunOwned, Owned, Working, OnRun, Own
  <2>2. ASSUME NEW r \in Run, NEW n \in Turn, runs[r].status \in {"absent", "queued"}
        PROVE  calls'[<<r, n>>].status = "none"
    <3>1. calls[<<r, n>>].status = "none" /\ <<r, n>> \in CallId
      BY <2>2, CallHere DEF HInv, RunFenced
    <3>2. <<r, n>> # c
      BY <2>1, <2>2 DEF Active
    <3>. QED  BY <1>2, <3>1, <3>2
  <2>. QED  BY <1>0, <1>2, <1>3, <2>1, <2>2 DEF HInv, RunFenced, ActiveRuns
<1>8. HandKept'
  <2>1. \A v \in Worker : v # w => InHand(v)'
    BY <1>2, <1>3 DEF InHand, Blank, OnJob, OnRun, HasItem, Own
  <2>2. OnRun(w) => \A n \in Turn : n > c[2] => calls'[<<ItemOf(w), n>>].status = "none"
    <3>. SUFFICES ASSUME OnRun(w), NEW n \in Turn, n > c[2]
                  PROVE  calls'[<<ItemOf(w), n>>].status = "none"
      OBVIOUS
    <3>1. calls[<<ItemOf(w), n>>].status = "none" /\ <<ItemOf(w), n>> \in CallId
      BY <1>0, CallHere DEF InHand, OnRun, Own
    <3>2. n # c[2]
      BY <1>1, CallHere
    <3>3. <<ItemOf(w), n>> # c
      BY <1>1, <3>2
    <3>. QED  BY <1>2, <3>1, <3>3
  <2>3. /\ Own(w)' = c /\ ItemOf(w)' = ItemOf(w) /\ OnRun(w)' = OnRun(w)
    BY <1>2 DEF Own, ItemOf, OnRun, HasItem
  <2>4. InHand(w)'
    BY <1>2, <2>2, <2>3 DEF InHand, Free
  <2>. QED  BY <2>1, <2>4 DEF HandKept
<1>9. Cleared' /\ HandoverKept'
  BY <1>0, ClearedStays, HandoverStays DEF HInv, TakesFor
<1>. QED  BY <1>4, <1>5, <1>6, <1>7, <1>8, <1>9 DEF HInv

-----------------------------------------------------------------------------
\* The steps of everybody else.

LEMMA WorkerHolds ==
    ASSUME IInv, IInv', HInv, NEW w \in Worker,
           WorkerStep(w) \/ Operation(w) \/ WorkerRaises(w)
    PROVE  HInv'
BY HoldMoves, HoldJobEnds, HoldFinishRun, HoldDrains, HoldRefuses, HoldOperation,
   HoldClaimJob, HoldClaimRun, HoldTurns, HoldAdmit DEF WorkerStep

LEMMA SideMoves ==
    ASSUME IInv, IInv', HInv, UNCHANGED <<mem, futures, outcomes>>,
           \A w \in Worker : Executing(w) => Executing(w)',
           CallsFall, \A w \in Worker : \A c \in futures[w] : calls'[c].status \in Active,
           JobsMove, RunsMove,
           \A w \in Worker : Executing(w) => \A j \in Job :
               jobs[j].status \in Active /\ jobs[j].worker = w =>
                   JobStays(j) /\ jobs'[j].version = jobs[j].version,
           \A r \in Run : runs'[r].turn = runs[r].turn,
           \A w \in Worker : exits'[w] = "reconciled" /\ exits[w] # "reconciled"
                             => \A c \in HeldCalls' : calls'[c].worker # w,
           \A w \in Worker : exits'[w] = "reconciled" => \A r \in ActiveRuns' : runs'[r].worker # w
    PROVE  RuntimeKept' /\ PermitsKept' /\ JobFenced' /\ RunFenced' /\ HandKept'
<1>0. Typed /\ Typed' /\ RunOwned /\ RuntimeKept
  BY DEF IInv, HInv
<1>1. RuntimeKept'
  BY <1>0, RuntimeFalls DEF RuntimeKept
<1>2. PermitsKept' /\ JobFenced' /\ RunFenced'
  BY <1>0, PermitsFall, JobFencedMoves, RunFencedMoves DEF HInv
<1>3. ASSUME NEW w \in Worker PROVE InHand(w)'
  <2>1. CASE Executing(w)
    BY <1>0, <2>1, HandStays DEF HInv, HandKept
  <2>2. CASE ~Executing(w)
    BY <1>0, <2>2 DEF RuntimeKept, InHand, Blank, OnJob, OnRun, HasItem, Own
  <2>. QED  BY <2>1, <2>2
<1>. QED  BY <1>1, <1>2, <1>3 DEF HandKept

LEMMA ClearedOn ==
    ASSUME Cleared, Vouched' => Vouched,
           \A j \in Job : jobs'[j].status \in Active => /\ jobs[j].status \in Active
                                                        /\ jobs'[j].worker = jobs[j].worker,
           \A w \in Worker : exits'[w] = "reconciled" => exits[w] = "reconciled"
    PROVE  Cleared'
BY DEF Cleared, NoneOrphaned, ActiveJobs

LEMMA HoldMembers ==
    ASSUME IInv, IInv', HInv, Members \/ \E c \in CallId : DrainAges(c) PROVE HInv'
<1>0. Typed /\ Typed' /\ RuntimeKept /\ JobFenced /\ RunFenced
  BY DEF IInv, HInv
<1>1. /\ UNCHANGED <<calls, exits, tomb, proc, mem, futures, outcomes, sup>>
      /\ CallsFall
  BY CallsStay DEF Members, Enqueue, Submit, DeleteConversation, DrainAges, butJobs, butRuns,
                   butOverdue, others, broker, child
<1>2. \A j \in Job : /\ jobs'[j].version = jobs[j].version
                     /\ \/ jobs'[j] = jobs[j]
                        \/ (jobs[j].status = "absent" /\ jobs'[j].status = "queued")
  <2>1. ASSUME NEW i \in Job, Enqueue(i)
        PROVE  \A j \in Job : /\ jobs'[j].version = jobs[j].version
                              /\ \/ jobs'[j] = jobs[j]
                                 \/ (jobs[j].status = "absent" /\ jobs'[j].status = "queued")
    BY <1>0, <2>1, LaneTypes DEF Enqueue, JobRow
  <2>2. CASE UNCHANGED jobs
    BY <2>2
  <2>. QED  BY <2>1, <2>2 DEF Members, Submit, DeleteConversation, DrainAges, butRuns, butOverdue
<1>3. \A r \in Run : /\ runs'[r].turn = runs[r].turn /\ runs'[r].worker = runs[r].worker
                     /\ runs'[r].status \in {"absent", "queued"} => runs[r].status \in {"absent", "queued"}
                     /\ runs[r].status \in Active <=> runs'[r].status \in Active
  <2>1. ASSUME NEW q \in Run, Submit(q) \/ DeleteConversation(q)
        PROVE  \A r \in Run :
                 /\ runs'[r].turn = runs[r].turn /\ runs'[r].worker = runs[r].worker
                 /\ runs'[r].status \in {"absent", "queued"} => runs[r].status \in {"absent", "queued"}
                 /\ runs[r].status \in Active <=> runs'[r].status \in Active
    BY <1>0, <2>1, LaneTypes DEF Submit, DeleteConversation, RunRow, Active
  <2>2. CASE UNCHANGED runs
    BY <2>2
  <2>. QED  BY <2>1, <2>2 DEF Members, Enqueue, DrainAges, butJobs, butOverdue
<1>4. JobsMove /\ RunsMove /\ \A j \in Job : jobs[j].status \in Active => JobStays(j)
  <2>1. \A j \in Job : jobs[j].version \in Nat
    BY <1>0, LaneTypes DEF JobRow
  <2>. QED  BY <1>2, <1>3, <2>1 DEF JobsMove, RunsMove, JobStays, RunStays, Active
<1>5. \A w \in Worker : exits'[w] = "reconciled" => \A r \in ActiveRuns' : runs'[r].worker # w
  BY <1>0, <1>1, <1>3 DEF RunFenced, ActiveRuns
<1>6. RuntimeKept' /\ PermitsKept' /\ JobFenced' /\ RunFenced' /\ HandKept'
  BY <1>0, <1>1, <1>2, <1>3, <1>4, <1>5, SideMoves DEF RuntimeKept, Executing
<1>7. Cleared'
  BY <1>1, <1>2, ClearedOn DEF HInv, Vouched, Active
<1>. QED  BY <1>1, <1>6, <1>7, HandoverStays DEF HInv

\* A child that dies takes its operations and its memory with it.
LEMMA HoldVanish ==
    ASSUME IInv, IInv', HInv, NEW w \in Worker, Vanish(w), proc[w] # "unborn",
           UNCHANGED <<ledger, broker, sup>>
    PROVE  HInv'
<1>0. Typed /\ Typed' /\ RuntimeKept /\ UNCHANGED <<jobs, runs, calls, exits, tomb>>
  BY DEF IInv, HInv, ledger, broker
<1>1. /\ proc'[w] = "dead" /\ mem'[w] = Blank /\ futures'[w] = {} /\ outcomes'[w] = {}
      /\ \A v \in Worker : v # w => /\ proc'[v] = proc[v] /\ mem'[v] = mem[v]
                                    /\ futures'[v] = futures[v] /\ outcomes'[v] = outcomes[v]
  BY <1>0, LaneTypes DEF Vanish
<1>2. CallsFall /\ JobsMove /\ RunsMove
  BY <1>0, CallsStay, JobsStay, RunsStay
<1>3. RuntimeKept'
  BY <1>0, <1>1, <1>2, RuntimeFalls DEF RuntimeKept, Executing
<1>4. PermitsKept' /\ JobFenced'
  BY <1>0, <1>2, PermitsFall, JobFencedMoves DEF HInv
<1>5. RunFenced'
  BY <1>0, <1>1, <1>2, RunFencedMoves DEF HInv, RunFenced, ActiveRuns
<1>6. HandKept'
  BY <1>0, <1>1 DEF HInv, HandKept, InHand, Blank, OnJob, OnRun, HasItem, Own, ItemOf
<1>7. Cleared'
  <2>1. Vouched' => Vouched
    BY <1>1 DEF Vouched, Living
  <2>. QED  BY <1>0, <2>1, ClearedOn DEF HInv
<1>8. HandoverKept'
  BY <1>0, <1>1 DEF HInv, HandoverKept, HandoffKept
<1>. QED  BY <1>3, <1>4, <1>5, <1>6, <1>7, <1>8 DEF HInv

LEMMA HoldChildEnds ==
    ASSUME IInv, IInv', HInv, NEW w \in Worker, ChildEnds(w) \/ WorkerDies(w) PROVE HInv'
BY HoldVanish
DEF ChildEnds, WorkerDies, WorkerLeaves, KillLands, GateCloses, At, Executing

-----------------------------------------------------------------------------
\* The supervisor.

\* What it does to processes, to the registry and to its own memory.
LEMMA HoldSupQuiet ==
    ASSUME IInv, IInv', HInv, UNCHANGED <<jobs, runs, calls, exits, mem, futures, outcomes>>,
           \A w \in Worker : Executing(w) => Executing(w)'
    PROVE  RuntimeKept' /\ PermitsKept' /\ JobFenced' /\ RunFenced' /\ HandKept'
<1>1. Typed /\ CallsFall /\ JobsMove /\ RunsMove
  BY CallsStay, JobsStay, RunsStay DEF IInv
<1>. QED  BY <1>1, SideMoves DEF HInv, RuntimeKept, RunFenced, ActiveRuns, JobStays

\* confirm_worker_exit settles the calls and the runs of a process that is dead.
LEMMA HoldConfirmExit ==
    ASSUME IInv, IInv', HInv, NEW w \in Worker, NEW ok \in BOOLEAN,
           ConfirmExit(w, ok), proc[w] = "dead", UNCHANGED <<mem, futures, outcomes, proc>>
    PROVE  /\ RuntimeKept' /\ PermitsKept' /\ JobFenced' /\ RunFenced' /\ HandKept'
           /\ \A v \in Worker : exits[v] = "reconciled" => exits'[v] = "reconciled"
           /\ ~ok => \A v \in Worker : exits'[v] = "reconciled" => exits[v] = "reconciled"
           /\ ok => exits'[w] = "reconciled"
           /\ UNCHANGED jobs
<1>0. Typed /\ Typed' /\ RuntimeKept /\ UNCHANGED jobs
  BY DEF IInv, HInv, ConfirmExit
<1>1. /\ \A v \in Worker : v # w => exits'[v] = exits[v]
      /\ exits'[w] = IF ok \/ exits[w] = "reconciled" THEN "reconciled" ELSE "unreconciled"
  BY <1>0, LaneTypes DEF ConfirmExit
<1>2. \A c \in CallId :
        /\ calls'[c].worker = calls[c].worker
        /\ calls[c].worker # w => calls'[c] = calls[c]
        /\ calls[c].status \notin Held => calls'[c] = calls[c]
        /\ calls[c].worker = w /\ calls[c].status \in Held =>
             calls'[c].status = IF ok THEN "failed" ELSE "uncertain"
  BY <1>0, LaneTypes DEF ConfirmExit, CallAfterExit, CallRow
<1>3. \A r \in Run :
        /\ runs'[r].worker = runs[r].worker /\ runs'[r].turn = runs[r].turn
        /\ ~(ok /\ runs[r].worker = w /\ runs[r].status \in Active) => runs'[r] = runs[r]
        /\ ok /\ runs[r].worker = w /\ runs[r].status \in Active => runs'[r].status = "unavailable"
  BY <1>0, LaneTypes DEF ConfirmExit, RunRow
<1>4. CallsFall
  BY <1>2 DEF CallsFall, Held
<1>5. \A v \in Worker : \A c \in futures[v] : v # w /\ calls'[c] = calls[c]
                                              /\ calls[c].status \in Active
  BY <1>0, <1>2, LaneTypes DEF RuntimeKept, Executing
<1>6. JobsMove /\ \A j \in Job : JobStays(j)
  BY <1>0, JobsStay DEF JobStays
<1>7. RunsMove
  <2>. SUFFICES ASSUME NEW r \in Run, ok, runs[r].worker = w, runs[r].status \in Active,
                       NEW v \in Worker, NEW c \in futures[v], c[1] = r
                PROVE  FALSE
    BY <1>0, <1>3 DEF RunsMove, RunStays
  <2>. QED  BY <1>5 DEF HInv, RunFenced
<1>8. \A v \in Worker : exits'[v] = "reconciled" /\ exits[v] # "reconciled"
                        => \A c \in HeldCalls' : calls'[c].worker # v
  BY <1>1, <1>2 DEF HeldCalls, Held
<1>9. \A v \in Worker : exits'[v] = "reconciled" => \A r \in ActiveRuns' : runs'[r].worker # v
  BY <1>1, <1>3 DEF HInv, RunFenced, ActiveRuns, Active
<1>10. RuntimeKept' /\ PermitsKept' /\ JobFenced' /\ RunFenced' /\ HandKept'
  BY <1>0, <1>3, <1>4, <1>5, <1>6, <1>7, <1>8, <1>9, SideMoves DEF Executing
<1>. QED  BY <1>0, <1>1, <1>10

LEMMA LeasesFenced ==
    ASSUME IInv, HInv, NEW j \in Job, Expired(j), NEW n \in Turn
    PROVE  calls[<<j, n>>].status \notin Held
<1>1. jobs[j].worker \in Worker /\ exits[jobs[j].worker] = "reconciled"
  BY LaneTypes DEF IInv, Expired, JobRow
<1>2. <<j, n>> \in HeldCalls => jobs[j].worker = calls[<<j, n>>].worker
  BY DEF HInv, JobFenced, HeldCalls
<1>. QED  BY <1>1, <1>2, CallHere DEF HInv, PermitsKept, HeldCalls

\* recover_expired_leases takes its jobs from the settled owners only, and none
\* of them has a held call or a living process.
LEMMA HoldRecoverLeases ==
    ASSUME IInv, IInv', HInv, RecoverLeases, UNCHANGED <<mem, futures, outcomes, proc>>
    PROVE  /\ RuntimeKept' /\ PermitsKept' /\ JobFenced' /\ RunFenced' /\ HandKept'
           /\ NoneOrphaned'
<1>0. /\ Typed /\ Typed' /\ RuntimeKept /\ UNCHANGED <<runs, calls, exits>>
      /\ CallsFall /\ RunsMove
  BY CallsStay, RunsStay DEF IInv, HInv, RecoverLeases, butJobs
<1>1. \A j \in Job :
        /\ jobs'[j].version = jobs[j].version
        /\ ~Expired(j) => jobs'[j] = jobs[j]
        /\ Expired(j) => jobs'[j].status \notin Active
  <2>. SUFFICES ASSUME NEW j \in Job
                PROVE  /\ Recovered(j).version = jobs[j].version
                       /\ ~Expired(j) => Recovered(j) = jobs[j]
                       /\ Expired(j) => Recovered(j).status \notin Active
    BY DEF RecoverLeases
  <2>1. jobs[j] \in JobRow
    BY <1>0, LaneTypes
  <2>2. CASE Retriable(j)
    BY <2>1, <2>2 DEF Recovered, JobRow, Active
  <2>3. CASE ~Retriable(j)
    BY <2>1, <2>3 DEF Recovered, JobRow, Active
  <2>. QED  BY <2>2, <2>3
<1>3. JobsMove
  <2>1. \A j \in Job : jobs[j].version \in Nat
    BY <1>0, LaneTypes DEF JobRow
  <2>. QED  BY <1>0, <1>1, <2>1, LeasesFenced DEF JobsMove, JobStays
<1>4. \A w \in Worker : Executing(w) => \A j \in Job :
        jobs[j].status \in Active /\ jobs[j].worker = w =>
            JobStays(j) /\ jobs'[j].version = jobs[j].version
  <2>1. \A w \in Worker : Executing(w) => exits[w] = "none"
    BY <1>0, LaneTypes DEF IInv, ExitsKnown, ExitsAreReal, Executing
  <2>. QED  BY <1>1, <2>1 DEF JobStays, Expired
<1>5. RuntimeKept' /\ PermitsKept' /\ JobFenced' /\ RunFenced' /\ HandKept'
  BY <1>0, <1>3, <1>4, SideMoves DEF Executing, RuntimeKept, HInv, RunFenced, ActiveRuns
<1>6. NoneOrphaned'
  BY <1>0, <1>1, IdentityAssumption DEF NoneOrphaned, ActiveJobs, Expired
<1>. QED  BY <1>5, <1>6

\* The hand-over: an exit the broker forgets is in the web ledger for good.
LEMMA HandoffOn ==
    ASSUME HandoffKept,
           \A w \in Worker : exits[w] = "reconciled" => exits'[w] = "reconciled",
           \A w \in Worker : proc'[w] # "unborn" /\ tomb'[w] = "none" =>
               \/ proc[w] # "unborn" /\ tomb[w] = "none"
               \/ exits'[w] = "reconciled"
    PROVE  HandoffKept'
BY DEF HandoffKept

LEMMA HandoverQuiet ==
    ASSUME HandoverKept, UNCHANGED <<exits, tomb, proc>>,
           sup'.pc \notin {"confirm", "leases", "forget"}
    PROVE  HandoverKept'
BY DEF HandoverKept, HandoffKept

\* Who may live vouches for the sweep before and after a step.
LEMMA ClearedQuiet ==
    ASSUME Cleared, UNCHANGED <<jobs, exits>>, Vouched' => Vouched PROVE Cleared'
BY ClearedOn

LEMMA HoldRecoverSteps ==
    ASSUME IInv, IInv', HInv,
           SupStart \/ RecoverInventory \/ RecoverNext \/ \E w \in Worker : RecoverReconcile(w)
    PROVE  HInv'
<1>0. /\ Typed /\ SupKnows /\ LivingKnown /\ Cleared /\ HandoverKept
      /\ UNCHANGED <<jobs, runs, calls, exits, mem, futures, outcomes>>
  BY DEF IInv, ExitsKnown, HInv, SupStart, RecoverInventory, RecoverNext, RecoverReconcile,
         ledger, child
<1>1. CASE SupStart
  <2>1. /\ UNCHANGED <<tomb, proc>> /\ sup'.pc = "top" /\ sup'.child = None
    BY <1>1 DEF SupStart, Asleep, broker, child
  <2>2. Cleared' /\ HandoverKept'
    BY <1>0, <2>1, ClearedQuiet, HandoverQuiet DEF Vouched, Swept
  <2>. QED  BY <1>0, <2>1, <2>2, HoldSupQuiet DEF HInv, Executing
<1>2. CASE RecoverInventory
  <2>1. /\ UNCHANGED tomb /\ sup'.pc = "reconcile" /\ sup'.child = None
        /\ \A w \in Worker : /\ proc'[w] \in Living <=> proc[w] \in Living
                             /\ Executing(w) => Executing(w)'
                             /\ proc'[w] = "unborn" <=> proc[w] = "unborn"
    BY <1>0, <1>2, SupTypes, KillSpares, LaneTypes
    DEF RecoverInventory, SupMemory, broker, Kill, Executing
  <2>2. Cleared'
    BY <1>0, <2>1, ClearedQuiet DEF Vouched, Swept
  <2>3. HandoverKept'
    BY <1>0, <2>1, HandoffOn DEF HandoverKept
  <2>. QED  BY <1>0, <2>1, <2>2, <2>3, HoldSupQuiet DEF HInv
<1>3. ASSUME NEW w \in Worker, RecoverReconcile(w) PROVE HInv'
  <2>1. /\ BrokerReconcile(w) /\ UNCHANGED proc /\ sup'.child = sup.child
        /\ sup.pc = "reconcile" /\ sup'.pc \in {"reconcile", "top"}
    BY <1>0, <1>3, SupTypes DEF RecoverReconcile, SupMemory, child
  <2>2. Cleared'
    BY <1>0, <2>1, ClearedQuiet DEF Vouched, Swept
  <2>3. \A v \in Worker : tomb'[v] = "none" => tomb[v] = "none"
    BY <1>0, <2>1, LaneTypes DEF BrokerReconcile
  <2>4. HandoverKept'
    BY <1>0, <2>1, <2>3, HandoffOn DEF HandoverKept
  <2>. QED  BY <1>0, <2>1, <2>2, <2>4, HoldSupQuiet DEF HInv, Executing
<1>4. CASE RecoverNext
  <2>1. /\ UNCHANGED <<tomb, proc>> /\ sup.todo = {} /\ sup'.child = sup.child
        /\ \/ sup.pc = "reconcile" /\ sup'.pc = "confirm" /\ sup'.todo = sup'.list
           \/ sup.pc = "confirm" /\ sup'.pc = "leases" /\ sup'.list = sup.list
           \/ sup.pc = "forget" /\ sup'.pc = "tick"
    BY <1>0, <1>4, SupTypes DEF RecoverNext, SupMemory, broker, child
  <2>2. Cleared'
    BY <1>0, <2>1, ClearedQuiet DEF Vouched, Swept
  <2>3. HandoverKept'
    BY <1>0, <2>1 DEF HandoverKept, HandoffKept
  <2>. QED  BY <1>0, <2>1, <2>2, <2>3, HoldSupQuiet DEF HInv, Executing
<1>. QED  BY <1>1, <1>2, <1>3, <1>4

LEMMA HoldRecoverConfirm ==
    ASSUME IInv, IInv', HInv, NEW w \in Worker, RecoverConfirm(w) PROVE HInv'
<1>0. Typed /\ SupKnows /\ LivingKnown /\ ExitsAreReal /\ Cleared /\ HandoverKept
  BY DEF IInv, ExitsKnown, HInv
<1>1. /\ ConfirmExit(w, TRUE) /\ w \in sup.todo /\ UNCHANGED <<tomb, proc, mem, futures, outcomes>>
      /\ sup.pc = "confirm" /\ sup'.pc = "confirm" /\ sup'.child = None
      /\ sup'.list = sup.list /\ sup'.todo = sup.todo \ {w}
  BY <1>0, SupTypes DEF RecoverConfirm, SupMemory, SupKnows, Childless, broker, child
<1>2. proc[w] = "dead" /\ \A v \in Worker : proc[v] \notin Living
  BY <1>0, <1>1, NoneLives DEF SupKnows, Settled, ExitsAreReal
<1>3. /\ RuntimeKept' /\ PermitsKept' /\ JobFenced' /\ RunFenced' /\ HandKept'
      /\ \A v \in Worker : exits[v] = "reconciled" => exits'[v] = "reconciled"
      /\ exits'[w] = "reconciled"
  BY <1>1, <1>2, HoldConfirmExit
<1>4. ~Vouched'
  BY <1>1, <1>2 DEF Vouched, Swept
<1>5. HandoverKept'
  <2>1. HandoffKept'
    BY <1>0, <1>1, <1>3, HandoffOn DEF HandoverKept
  <2>2. \A v \in sup'.list \ sup'.todo : exits'[v] = "reconciled"
    BY <1>0, <1>1, <1>3, SupTypes DEF HandoverKept
  <2>. QED  BY <1>1, <2>1, <2>2 DEF HandoverKept
<1>. QED  BY <1>3, <1>4, <1>5 DEF HInv, Cleared

LEMMA HoldLeases ==
    ASSUME IInv, IInv', HInv, RecoverLeasesStep \/ TickLeases PROVE HInv'
<1>0. Typed /\ HandoverKept
  BY DEF IInv, HInv
<1>1. /\ RecoverLeases /\ UNCHANGED <<exits, tomb, proc, mem, futures, outcomes>>
      /\ \/ sup.pc = "leases" /\ sup'.pc = "forget" /\ sup'.list = sup.list
         \/ sup'.pc = "spawn"
  BY <1>0, SupTypes
  DEF RecoverLeasesStep, TickLeases, RecoverLeases, butJobs, SupMemory, broker, child
<1>2. HandoverKept'
  BY <1>0, <1>1 DEF HandoverKept, HandoffKept
<1>. QED  BY <1>1, <1>2, HoldRecoverLeases DEF HInv, Cleared

\* forget: the row that is deleted has its exit in the web ledger.
LEMMA HoldRecoverForget ==
    ASSUME IInv, IInv', HInv, NEW w \in Worker, RecoverForget(w) PROVE HInv'
<1>0. Typed /\ SupKnows /\ Cleared /\ HandoverKept
  BY DEF IInv, ExitsKnown, HInv
<1>1. /\ UNCHANGED <<jobs, runs, calls, exits, proc, mem, futures, outcomes>>
      /\ w \in sup.todo /\ sup.pc = "forget" /\ sup'.pc = "forget"
      /\ sup'.list = sup.list
      /\ \A v \in Worker : v # w => tomb'[v] = tomb[v]
  BY <1>0, SupTypes, LaneTypes DEF RecoverForget, SupMemory, ledger, child
<1>2. exits[w] = "reconciled"
  BY <1>0, <1>1 DEF SupKnows, Settled, HandoverKept
<1>3. HandoverKept'
  BY <1>0, <1>1, <1>2, HandoffOn DEF HandoverKept
<1>4. Cleared'
  BY <1>0, <1>1, ClearedQuiet DEF Vouched, Swept
<1>. QED  BY <1>1, <1>3, <1>4, HoldSupQuiet DEF HInv, Executing

\* The steps of a tick that write no queue.
LEMMA HoldTickQuiet ==
    ASSUME IInv, IInv', HInv, TickPickExit \/ TickStuck \/ TickStop \/ TickReconcile
    PROVE  HInv'
<1>0. /\ Typed /\ SupKnows /\ Cleared /\ HandoverKept
      /\ UNCHANGED <<jobs, runs, calls, exits, mem, futures, outcomes>>
  BY DEF IInv, ExitsKnown, HInv, TickPickExit, TickStuck, TickStop, TickReconcile, ledger,
         butOpen, child
<1>1. Vouched
  <2>1. CASE TickPickExit \/ TickReconcile
    BY <2>1 DEF TickPickExit, TickReconcile, Vouched, Swept
  <2>2. CASE TickStuck \/ TickStop
    BY <2>2 DEF TickStuck, TickStop, Watching, Vouched
  <2>. QED  BY <2>1, <2>2
<1>2. sup'.pc \notin {"confirm", "leases", "forget"}
  <2>1. CASE TickPickExit
    BY <1>0, <2>1, SupTypes DEF TickPickExit, SupMemory
  <2>2. CASE TickStuck \/ TickStop
    BY <1>0, <2>2, SupTypes DEF TickStuck, TickStop, Watching, SupMemory
  <2>3. CASE TickReconcile
    BY <1>0, <2>3, SupTypes DEF TickReconcile, SupMemory
  <2>. QED  BY <2>1, <2>2, <2>3
<1>3. /\ \A w \in Worker : Executing(w) => Executing(w)'
      /\ \A w \in Worker : proc'[w] = "unborn" <=> proc[w] = "unborn"
      /\ \A w \in Worker : tomb'[w] = "none" => tomb[w] = "none"
  <2>1. CASE UNCHANGED <<tomb, proc>>
    BY <2>1 DEF Executing
  <2>2. CASE TickStop
    BY <1>0, <2>2, LaneTypes DEF TickStop, Kill, Executing, broker
  <2>3. CASE TickReconcile /\ sup.pending # None
    BY <1>0, <2>3, SupTypes, LaneTypes DEF TickReconcile, BrokerReconcile, Executing, child
  <2>. QED
    BY <2>1, <2>2, <2>3 DEF TickPickExit, TickStuck, TickReconcile, broker, child
<1>4. Cleared'
  BY <1>0, <1>1, ClearedQuiet
<1>5. HandoverKept'
  BY <1>0, <1>2, <1>3, HandoffOn DEF HandoverKept
<1>. QED  BY <1>0, <1>3, <1>4, <1>5, HoldSupQuiet DEF HInv

LEMMA HoldTickExits ==
    ASSUME IInv, IInv', HInv, TickDead \/ TickConfirm \/ SupUnwinds PROVE HInv'
<1>0. Typed /\ SupKnows /\ LivingKnown /\ Cleared /\ HandoverKept
  BY DEF IInv, ExitsKnown, HInv
<1>1. ASSUME NEW w \in Worker, NEW ok \in BOOLEAN, ConfirmExit(w, ok), proc[w] = "dead",
             UNCHANGED <<tomb, proc, mem, futures, outcomes>>,
             sup'.pc \notin {"confirm", "leases", "forget"},
             ok => ~Vouched', Vouched' => Vouched
      PROVE  HInv'
  <2>1. /\ RuntimeKept' /\ PermitsKept' /\ JobFenced' /\ RunFenced' /\ HandKept'
        /\ \A v \in Worker : exits[v] = "reconciled" => exits'[v] = "reconciled"
        /\ ~ok => \A v \in Worker : exits'[v] = "reconciled" => exits[v] = "reconciled"
        /\ UNCHANGED jobs
    BY <1>1, HoldConfirmExit
  <2>2. Cleared'
    <3>1. CASE ok
      BY <1>1, <3>1 DEF Cleared
    <3>2. CASE ~ok
      BY <1>0, <1>1, <2>1, <3>2, ClearedOn
    <3>. QED  BY <1>1, <3>1, <3>2
  <2>3. HandoverKept'
    BY <1>0, <1>1, <2>1, HandoffOn DEF HandoverKept
  <2>. QED  BY <2>1, <2>2, <2>3 DEF HInv
<1>2. CASE TickDead
  <2>1. /\ sup.child \in Worker /\ proc[sup.child] = "dead" /\ ConfirmExit(sup.child, FALSE)
        /\ UNCHANGED <<tomb, proc, mem, futures, outcomes>> /\ sup'.pc = "settle" /\ Vouched
    BY <1>0, <1>2, SupTypes DEF TickDead, Watching, SupMemory, Vouched, broker, child
  <2>. QED  BY <1>1, <2>1
<1>3. CASE TickConfirm
  <2>1. /\ sup.pending \in Worker /\ proc[sup.pending] = "dead" /\ sup.ok \in BOOLEAN
        /\ ConfirmExit(sup.pending, sup.ok) /\ sup.pc = "record" /\ sup'.child = None
        /\ UNCHANGED <<tomb, proc, mem, futures, outcomes>>
        /\ sup'.pc = IF sup.ok THEN "tickLeases" ELSE "spawn"
    BY <1>0, <1>3, SupTypes
    DEF TickConfirm, Typed, SupTyped, SupKnows, Childless, SupMemory, broker, child
  <2>2. \A w \in Worker : proc[w] \notin Living
    BY <1>0, <2>1, NoneLives
  <2>3. sup.ok => ~Vouched'
    BY <2>1, <2>2 DEF Vouched, Swept
  <2>4. ~sup.ok => Vouched
    BY <2>1 DEF Vouched
  <2>. QED  BY <1>1, <2>1, <2>3, <2>4
<1>4. CASE SupUnwinds
  <2>1. /\ sup.child \in Worker /\ Vouched /\ UNCHANGED <<tomb, proc, mem, futures, outcomes>>
        /\ sup'.pc = "down"
    BY <1>0, <1>4, SupTypes DEF SupUnwinds, Typed, SupTyped, Vouched, Asleep, broker, child
  <2>2. CASE proc[sup.child] = "dead"
    BY <1>1, <1>4, <2>1, <2>2 DEF SupUnwinds
  <2>3. CASE proc[sup.child] # "dead"
    <3>1. UNCHANGED <<jobs, runs, calls, exits>>
      BY <1>4, <2>3 DEF SupUnwinds, ledger
    <3>. QED
      BY <1>0, <2>1, <3>1, ClearedQuiet, HandoverQuiet, HoldSupQuiet DEF HInv, Executing
  <2>. QED  BY <2>2, <2>3
<1>. QED  BY <1>2, <1>3, <1>4

\* A child is made and admitted only after the sweep.
LEMMA HoldSpawns ==
    ASSUME IInv, IInv', HInv, TickSpawn \/ \E w \in Worker : TickAdmit(w) PROVE HInv'
<1>0. /\ Typed /\ SupKnows /\ Cleared /\ HandoverKept
      /\ UNCHANGED <<jobs, runs, calls, exits, mem, futures, outcomes>>
  BY DEF IInv, ExitsKnown, HInv, TickSpawn, TickAdmit, ledger
<1>1. Vouched
  BY DEF TickSpawn, TickAdmit, Vouched, Swept
<1>2. sup'.pc \in {"top", "admit"}
  BY <1>0, SupTypes DEF TickSpawn, TickAdmit, SupMemory
<1>. DEFINE Registers == /\ \A w \in Worker : Executing(w) => Executing(w)'
                         /\ \A w \in Worker : proc'[w] # "unborn" /\ tomb'[w] = "none" =>
                               proc[w] # "unborn" /\ tomb[w] = "none"
<1>3. Registers
  <2>1. CASE UNCHANGED <<tomb, proc>>
    BY <2>1 DEF Executing
  <2>2. ASSUME NEW w \in Worker, proc[w] = "unborn", proc' = [proc EXCEPT ![w] = "gated"],
               tomb' = [tomb EXCEPT ![w] = "registered"]
        PROVE  Registers
    BY <1>0, <2>2, LaneTypes DEF Executing
  <2>3. ASSUME NEW w \in Worker, TickAdmit(w) PROVE Registers
    <3>1. proc[w] = "gated" /\ UNCHANGED tomb /\ proc' = [proc EXCEPT ![w] = "alive"]
      BY <1>0, <2>3 DEF TickAdmit, SupKnows, broker
    <3>. QED  BY <1>0, <3>1, LaneTypes DEF Executing
  <2>. QED  BY <2>1, <2>2, <2>3 DEF TickSpawn
<1>4. Cleared' /\ HandoverKept'
  BY <1>0, <1>1, <1>2, <1>3, ClearedQuiet, HandoffOn DEF HandoverKept
<1>. QED  BY <1>0, <1>3, <1>4, HoldSupQuiet DEF HInv

LEMMA HoldSupFails ==
    ASSUME IInv, IInv', HInv, SupCrash \/ SupRaises PROVE HInv'
<1>0. /\ Typed /\ Cleared /\ HandoverKept
      /\ UNCHANGED <<jobs, runs, calls, exits, tomb, mem, futures, outcomes>>
  BY DEF IInv, HInv, SupCrash, SupRaises, ledger, broker, child
<1>1. /\ sup'.pc \in {"down", "unwind"}
      /\ sup'.child # None => sup.child # None
  <2>1. CASE sup' = Asleep
    BY <2>1 DEF Asleep
  <2>2. CASE sup' = [Asleep EXCEPT !.pc = "unwind", !.child = sup.child] /\ sup.child # None
    BY <2>2 DEF Asleep
  <2>. QED  BY <2>1, <2>2 DEF SupCrash, SupRaises
<1>2. \A w \in Worker : /\ Executing(w) => Executing(w)'
                        /\ proc'[w] \in Living <=> proc[w] \in Living
                        /\ proc'[w] = "unborn" <=> proc[w] = "unborn"
  <2>1. CASE UNCHANGED proc
    BY <2>1 DEF Executing
  <2>2. CASE \E S : Kill(S)
    BY <1>0, <2>2, LaneTypes DEF Kill, Executing, Living
  <2>. QED  BY <2>1, <2>2 DEF SupCrash, SupRaises, child
<1>3. Cleared'
  BY <1>0, <1>1, <1>2, ClearedQuiet DEF Vouched, Swept
<1>4. HandoverKept'
  BY <1>0, <1>1, <1>2, HandoffOn DEF HandoverKept
<1>. QED  BY <1>0, <1>2, <1>3, <1>4, HoldSupQuiet DEF HInv

-----------------------------------------------------------------------------
LEMMA HoldInit == Init => HInv
<1>. SUFFICES ASSUME Init PROVE HInv
  OBVIOUS
<1>1. HeldCalls = {}
  BY DEF Init, HeldCalls, Held
<1>2. PermitsKept
  BY <1>1, FS_EmptySet, Bounds DEF PermitsKept, Init
<1>3. /\ \A w \in Worker : ~Executing(w) /\ mem[w] = Blank /\ futures[w] = {} /\ outcomes[w] = {}
      /\ \A w \in Worker : exits[w] = "none" /\ tomb[w] = "none" /\ proc[w] = "unborn"
      /\ sup.pc = "down" /\ sup.child = None
  BY DEF Init, Executing, Asleep
<1>4. \A c \in CallId : calls[c].status = "none"
  BY DEF Init
<1>5. RuntimeKept
  BY <1>3 DEF RuntimeKept
<1>6. JobFenced
  BY <1>4, CallHere DEF JobFenced, Held
<1>7. RunFenced
  BY <1>3, <1>4, CallHere DEF RunFenced
<1>8. HandKept
  BY <1>3, BlankHand DEF HandKept
<1>9. Cleared /\ HandoverKept
  BY <1>3 DEF Cleared, NoneOrphaned, HandoverKept, HandoffKept
<1>. QED  BY <1>2, <1>5, <1>6, <1>7, <1>8, <1>9 DEF HInv

LEMMA HoldNext == ASSUME IInv, IInv', HInv, [Next]_vars PROVE HInv'
<1>1. CASE UNCHANGED vars
  <2>1. /\ UNCHANGED <<jobs, runs, calls, exits, tomb, proc, mem, futures, outcomes, sup>>
        /\ \A w \in Worker : Executing(w) => Executing(w)'
    BY <1>1 DEF vars, ledger, broker, child, Executing
  <2>2. Cleared' /\ HandoverKept'
    BY <2>1, ClearedQuiet, HandoverStays DEF HInv, Vouched
  <2>. QED  BY <2>1, <2>2, HoldSupQuiet DEF HInv
<1>2. CASE SupStep
  BY <1>2, HoldRecoverSteps, HoldRecoverConfirm, HoldLeases, HoldRecoverForget, HoldTickQuiet,
     HoldTickExits, HoldSpawns DEF SupStep, Recovery, Tick
<1>. QED
  BY <1>1, <1>2, HoldMembers, WorkerHolds, HoldChildEnds, HoldSupFails DEF Next, ChildFails

\* What the threads, the memory of a child and both ledgers say of one another.
THEOREM HoldInvariant == Spec => []HInv
<1>1. Init => HInv
  BY HoldInit
<1>2. IInv /\ IInv' /\ HInv /\ [Next]_vars => HInv'
  BY HoldNext
<1>. QED  BY <1>1, <1>2, Invariant, PTL DEF Spec

-----------------------------------------------------------------------------
\* The promises of the lane.

\* An operation executes only for the attempt its row still carries, whatever
\* timed out, crashed or was recovered in between (mark_draining, fail_attempt,
\* confirm_worker_exit, recover_expired_leases).
THEOREM NoOverlapAlways == Spec => []NoOverlap
<1>1. IInv /\ HInv => NoOverlap
  <2>. SUFFICES ASSUME IInv, HInv, NEW w \in Worker, NEW c \in futures[w]
                PROVE  IF c[1] \in Job
                       THEN jobs[c[1]].status \in Active /\ jobs[c[1]].token = c[2] /\ jobs[c[1]].worker = w
                       ELSE runs[c[1]].status \in Active /\ runs[c[1]].turn = c[2] /\ runs[c[1]].worker = w
    BY DEF NoOverlap
  <2>1. c \in CallId /\ calls[c].status \in Held /\ calls[c].worker = w
    BY LaneTypes DEF IInv, HInv, RuntimeKept, Active, Held
  <2>2. CASE c[1] \in Job
    BY <2>1, <2>2, CallOf DEF HInv, JobFenced
  <2>3. CASE c[1] \notin Job
    BY <2>1, <2>3, CallOf DEF HInv, RunFenced
  <2>. QED  BY <2>2, <2>3
<1>. QED  BY <1>1, Invariant, HoldInvariant, PTL

\* Every operation that executes holds its permit, and the permits never exceed
\* the capacity, whichever callbacks were lost (_reserve, _completed, _draining).
THEOREM PermitHeldAlways == Spec => []PermitHeld
<1>1. IInv /\ HInv => PermitHeld
  <2>. SUFFICES ASSUME IInv, HInv PROVE PermitHeld
    OBVIOUS
  <2>1. \A w \in Worker : \A c \in futures[w] : calls[c].status \in Active /\ calls[c].worker = w
    BY DEF HInv, RuntimeKept
  <2>. DEFINE Executed == UNION {futures[w] : w \in Worker}
  <2>2. Executed \subseteq HeldCalls
    BY <2>1, LaneTypes DEF IInv, HeldCalls, Active, Held
  <2>3. IsFiniteSet(HeldCalls) /\ Cardinality(HeldCalls) <= Capacity
    BY DEF HInv, PermitsKept
  <2>4. Cardinality(Executed) <= Cardinality(HeldCalls) /\ IsFiniteSet(Executed)
    BY <2>2, <2>3, FS_Subset
  <2>5. Cardinality(Executed) \in Nat /\ Cardinality(HeldCalls) \in Nat
    BY <2>3, <2>4, FS_CardinalityType
  <2>6. Cardinality(Executed) <= Capacity
    BY <2>3, <2>4, <2>5, Bounds
  <2>. QED  BY <2>1, <2>3, <2>6 DEF PermitHeld
<1>. QED  BY <1>1, Invariant, HoldInvariant, PTL

\* An attempt asks for admission under a call id no earlier attempt has used
\* (claim_job's token, execute's call id).
THEOREM FreshAttemptAlways == Spec => []FreshAttempt
<1>1. HInv => FreshAttempt
  BY DEF HInv, HandKept, InHand, FreshAttempt, At
<1>. QED  BY <1>1, HoldInvariant, PTL

\* A crash between the two commits of an exit loses no exit: the broker forgets
\* a worker only after the web ledger has settled it (recover_worker_state).
THEOREM HandoffKeptAlways == Spec => []HandoffKept
<1>1. HInv => HandoffKept
  BY DEF HInv, HandoverKept
<1>. QED  BY <1>1, HoldInvariant, PTL

\* A settled worker owns no permit, no run, and no job once a successor is
\* admitted (confirm_worker_exit, recover_expired_leases).
THEOREM SettledOwnerAlways == Spec => []SettledOwner
<1>1. HInv => SettledOwner
  BY DEF HInv, PermitsKept, RunFenced, Cleared, Vouched, Living, NoneOrphaned, SettledOwner
<1>. QED  BY <1>1, HoldInvariant, PTL

\* A permit is returned only by the end of the operation or of its process.
THEOREM PermitReturnedAlways == Spec => PermitReturned
<1>. DEFINE Returned == \A c \in CallId :
        calls[c].status \in Held /\ calls'[c].status \notin Held
        => \A w \in Worker : c \notin futures'[w]
<1>1. HInv' => Returned
  BY DEF HInv, RuntimeKept, Active, Held
<1>2. HInv' => [Returned]_vars
  BY <1>1
<1>. QED  BY <1>2, HoldInvariant, PTL DEF PermitReturned

\* The only steps that take the lane from an active job are its own end and the
\* recovery of its lease.
LEMMA StaysAtWork ==
    ASSUME IInv, Next, NEW j \in Job, jobs[j].status \in Active
    PROVE  \/ jobs'[j].status \in Active
           \/ \E w \in Worker : CompleteJob(w) \/ FailJob(w) \/ DeferJob(w)
           \/ RecoverLeases
<1>0. Typed
  BY DEF IInv
<1>1. ASSUME NEW w \in Worker,
             \/ WorkerStep(w) /\ ~(CompleteJob(w) \/ FailJob(w) \/ DeferJob(w))
             \/ Operation(w) \/ ChildEnds(w) \/ ChildFails(w)
      PROVE  jobs'[j].status \in Active
  <2>1. CASE RefuseAll(w) \/ ClaimJob(w)
    BY <1>0, <2>1, LaneTypes
    DEF RefuseAll, ClaimJob, Claimable, LaneFree, ActiveJobs, Active
  <2>2. CASE MarkDraining(w)
    BY <1>0, <2>2, LaneTypes DEF MarkDraining, Drained, JobRow, Active
  <2>3. CASE UNCHANGED jobs
    BY <2>3
  <2>. QED
    BY <1>1, <2>1, <2>2, <2>3
    DEF WorkerStep, CheckDrains, StopServing, LookForWork, NoJob, NoRun, ClaimRun, RefuseRun,
        Deny, NotSubmitted, WaiterReturns, WaiterTimesOut, DrainCall, Admit, PrepareTurn,
        NextTurn, FinishRun, Operation, OpDone, LostCallback, ChildEnds, ChildFails,
        WorkerRaises, WorkerDies, WorkerLeaves, KillLands, GateCloses, ledger, butOpen,
        butCalls, butRuns
<1>2. CASE Members \/ \E c \in CallId : DrainAges(c)
  BY <1>0, <1>2, LaneTypes
  DEF Members, Enqueue, Submit, DeleteConversation, DrainAges, butRuns, butOverdue, Active
<1>3. CASE SupStep \/ SupCrash \/ SupRaises
  <2>1. UNCHANGED jobs \/ RecoverLeases
    BY <1>3
    DEF SupStep, SupCrash, SupRaises, Recovery, Tick, SupStart, RecoverInventory,
        RecoverNext, RecoverReconcile, RecoverConfirm, RecoverLeasesStep, RecoverForget,
        TickPickExit, TickStuck, TickDead, TickStop, TickReconcile, TickConfirm,
        TickLeases, TickSpawn, TickAdmit, SupUnwinds, ConfirmExit, ledger, butOpen
  <2>. QED  BY <2>1
<1>. QED  BY <1>1, <1>2, <1>3 DEF Next

\* A job goes back to the queue or fails only when nothing of its attempt
\* executes and its call is settled (fail_attempt, recover_expired_leases).
THEOREM NoEarlyRetryAlways == Spec => NoEarlyRetry
<1>. DEFINE Late(j) == jobs[j].status \in Active /\ jobs'[j].status \in {"queued", "failed"}
                       => \A n \in Turn : /\ \A w \in Worker : <<j, n>> \notin futures[w]
                                          /\ calls[<<j, n>>].status \notin Held
<1>1. IInv /\ HInv /\ [Next]_vars => [\A j \in Job : Late(j)]_vars
  <2>. SUFFICES ASSUME IInv, HInv, Next, NEW j \in Job, jobs[j].status \in Active,
                       jobs'[j].status \in {"queued", "failed"}, NEW n \in Turn
                PROVE  /\ \A w \in Worker : <<j, n>> \notin futures[w]
                       /\ calls[<<j, n>>].status \notin Held
    OBVIOUS
  <2>1. calls[<<j, n>>].status \notin Held
    <3>1. CASE \E w \in Worker : CompleteJob(w) \/ FailJob(w) \/ DeferJob(w)
      BY <3>1, JobEndsFenced DEF Active
    <3>2. CASE RecoverLeases
      <4>1. Expired(j)
        BY <3>2 DEF RecoverLeases, Recovered, Active
      <4>. QED  BY <4>1, LeasesFenced
    <3>. QED  BY <3>1, <3>2, StaysAtWork DEF Active
  <2>. QED  BY <2>1 DEF HInv, RuntimeKept, Active, Held
<1>. QED  BY <1>1, Invariant, HoldInvariant, PTL DEF Spec, NoEarlyRetry

=============================================================================
