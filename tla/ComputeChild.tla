---------------------------- MODULE ComputeChild ----------------------------
(* The compute child: ComputeWorker.run_once over a ProviderRuntime, the      *)
(* writes of JobService and AssistantService it makes, and how it ends.       *)
EXTENDS LaneLedger

-----------------------------------------------------------------------------
\* The compute child.

Executing(w) == proc[w] \in {"alive", "doomed"}
At(w, points) == Executing(w) /\ mem[w].pc \in points
HasItem(w) == mem[w].call # None
ItemOf(w) == mem[w].call[1]
OnJob(w) == HasItem(w) /\ ItemOf(w) \in Job
OnRun(w) == HasItem(w) /\ ItemOf(w) \in Run
Own(w) == mem[w].call

Goto(w, point) == mem' = [mem EXCEPT ![w].pc = point]
GotoWith(w, point, got) == mem' = [mem EXCEPT ![w].pc = point, ![w].got = got]
Release(w) ==
    mem' = [mem EXCEPT ![w] = [@ EXCEPT !.call = None,
              !.pc = IF mem[w].pc = "stopping" THEN "stopped" ELSE "idle"]]

\* runtime.forget: only after the result or the failure is durable.
Forget(w) ==
    outcomes' = [outcomes EXCEPT ![w] = {o \in @ : o[1] # Own(w)}]


\* run_once finds an own drain of 120 s: it opens the circuit, polls a last
\* time and leaves the serve loop.
CheckDrains(w) ==
    /\ At(w, {"idle", "polling"})
    /\ OverdueOf(w) # {}
    /\ open' = OpenCircuitsOf(w)
    /\ Goto(w, "stopping")
    /\ UNCHANGED <<butOpen, broker, quiet, sup, faults>>

StopServing(w) ==
    /\ At(w, {"stopping"})
    /\ Goto(w, "stopped")
    /\ UNCHANGED <<ledger, broker, quiet, sup, faults>>

\* With nothing in hand and no drain, the loop turns to the queues: the run
\* queue first when the last item was a job.
LookForWork(w) ==
    /\ At(w, {"idle"})
    /\ OverdueOf(w) = {}
    /\ \/ mem[w].prefer /\ ({r \in Run : runs[r].status = "queued"} = {} \/ ~LaneFree)
       \/ ~mem[w].prefer
    /\ Goto(w, "claimJob")
    /\ UNCHANGED <<ledger, broker, quiet, sup, faults>>

\* claim_job: nothing to claim; run_once offers the lane to a run.
NoJob(w) ==
    /\ At(w, {"claimJob"})
    /\ Claimable = {} \/ ~LaneFree
    /\ Goto(w, "offerRun")
    /\ UNCHANGED <<ledger, broker, quiet, sup, faults>>

NoRun(w) ==
    /\ At(w, {"offerRun"})
    /\ {r \in Run : runs[r].status = "queued"} = {} \/ ~LaneFree
    /\ Goto(w, "idle")
    /\ UNCHANGED <<ledger, broker, quiet, sup, faults>>

\* The row of a claimed job. Its lease token, the new work_version and a uuid,
\* is never that of another attempt; here the version alone tells them apart.
Claimed(j, w) ==
    [status |-> "running", version |-> jobs[j].version + 1,
     token |-> jobs[j].version + 1, attempts |-> jobs[j].attempts + 1, worker |-> w]

\* claim_job: the candidates met first that are no longer authorised, or have
\* no live subscriber, become unavailable; the first good one is claimed.
ClaimJob(w) ==
    /\ At(w, {"claimJob"})
    /\ LaneFree
    /\ \E refused \in SUBSET Claimable, j \in Claimable :
        /\ j \notin refused
        /\ jobs' = [i \in Job |->
             IF i \in refused THEN [jobs[i] EXCEPT !.status = "unavailable"]
             ELSE IF i = j THEN Claimed(j, w) ELSE jobs[i]]
        /\ mem' = [mem EXCEPT ![w] = [@ EXCEPT !.pc = "admit", !.prefer = TRUE,
                                       !.call = <<j, jobs[j].version + 1>>]]
    /\ UNCHANGED <<butJobs, broker, quiet, sup, faults>>

\* claim_job when every candidate is refused.
RefuseAll(w) ==
    /\ At(w, {"claimJob"})
    /\ LaneFree /\ Claimable # {}
    /\ jobs' = [i \in Job |-> IF i \in Claimable
                              THEN [jobs[i] EXCEPT !.status = "unavailable"]
                              ELSE jobs[i]]
    /\ Goto(w, "offerRun")
    /\ UNCHANGED <<butJobs, broker, quiet, sup, faults>>


\* AssistantService.claim: the oldest queued run, if its guard holds.
ClaimRun(w, r) ==
    /\ At(w, {"offerRun"}) \/ (At(w, {"idle"}) /\ mem[w].prefer /\ OverdueOf(w) = {})
    /\ LaneFree /\ runs[r].status = "queued"
    /\ runs' = [runs EXCEPT ![r] = [@ EXCEPT !.status = "running", !.worker = w]]
    /\ mem' = [mem EXCEPT ![w] = [@ EXCEPT !.pc = "prepare", !.prefer = FALSE,
                                   !.call = <<r, 1>>]]
    /\ UNCHANGED <<butRuns, broker, quiet, sup, faults>>

\* AssistantService.claim: the guard fails inside the claiming transaction.
RefuseRun(w, r) ==
    /\ At(w, {"offerRun"}) \/ (At(w, {"idle"}) /\ mem[w].prefer /\ OverdueOf(w) = {})
    /\ LaneFree /\ runs[r].status = "queued"
    /\ runs' = [runs EXCEPT ![r] = [@ EXCEPT !.status = "unavailable", !.worker = w]]
    /\ Goto(w, IF mem[w].pc = "idle" THEN "claimJob" ELSE "idle")
    /\ UNCHANGED <<butRuns, broker, quiet, sup, faults>>

-----------------------------------------------------------------------------
\* ProviderRuntime: a row reserves capacity before the operation starts, and
\* only the operation's own completion releases it.

\* _reserve and the submission that follows it under the same lock.
Admit(w) ==
    LET c == Own(w) IN
    /\ At(w, {"admit"})
    /\ calls[c].status = "none"
    /\ ProviderOf[c[1]] \notin open
    /\ PermitFree
    /\ calls' = [calls EXCEPT ![c] = [status |-> "running", worker |-> w]]
    /\ futures' = [futures EXCEPT ![w] = @ \cup {c}]
    /\ Goto(w, "waiting")
    /\ UNCHANGED <<butCalls, broker, proc, outcomes, sup, faults>>

\* _reserve refuses: an open circuit, or every permit taken.
Deny(w) ==
    LET c == Own(w) IN
    /\ At(w, {"admit"})
    /\ calls[c].status = "none"
    /\ \/ ProviderOf[c[1]] \in open /\ GotoWith(w, "settle", "circuit_open")
       \/ /\ ProviderOf[c[1]] \notin open
          /\ ~PermitFree
          /\ GotoWith(w, "settle", "busy")
    /\ UNCHANGED <<ledger, broker, quiet, sup, faults>>

\* run_once before any call: the input does not validate (a failed attempt), or
\* this process has no such provider (empty_result, as for an open circuit).
NotSubmitted(w) ==
    /\ At(w, {"admit"}) /\ OnJob(w)
    /\ \E got \in {"invalid", "circuit_open"} : GotoWith(w, "settle", got)
    /\ UNCHANGED <<ledger, broker, quiet, sup, faults>>

\* The operation ends and _completed records it, whoever still waits.
OpDone(w, c, result) ==
    /\ Executing(w) /\ c \in futures[w]
    /\ futures' = [futures EXCEPT ![w] = @ \ {c}]
    /\ calls' = [calls EXCEPT ![c].status = result]
    /\ overdue' = overdue \ {c}
    /\ outcomes' = [outcomes EXCEPT ![w] = @ \cup {<<c, result>>}]
    /\ UNCHANGED <<jobs, runs, open, exits, broker, proc, mem, sup, faults>>

\* The operation ends but the transaction of _completed raises: the future
\* swallows the exception, no outcome is retained and the row keeps its permit.
LostCallback(w, c) ==
    /\ Executing(w) /\ c \in futures[w]
    /\ faults.lost < MaxLostCallbacks
    /\ faults' = [faults EXCEPT !.lost = @ + 1]
    /\ futures' = [futures EXCEPT ![w] = @ \ {c}]
    /\ UNCHANGED <<ledger, broker, proc, mem, outcomes, sup>>

Retained(w) == {o \in outcomes[w] : o[1] = Own(w)}

\* The waiter wakes after the completion callback. A completed call whose value
\* does not validate is a failed attempt; with no outcome it reads "failed".
WaiterReturns(w) ==
    /\ At(w, {"waiting"})
    /\ Own(w) \notin futures[w]
    /\ \E got \in IF Retained(w) = {} THEN {"failed"}
                  ELSE UNION {{o[2]} \cup (IF o[2] = "completed" /\ OnJob(w)
                                           THEN {"invalid"} ELSE {}) : o \in Retained(w)} :
          GotoWith(w, "settle", got)
    /\ UNCHANGED <<ledger, broker, quiet, sup, faults>>

WaiterTimesOut(w) ==
    /\ At(w, {"waiting"})
    /\ Goto(w, "timedOut")
    /\ UNCHANGED <<ledger, broker, quiet, sup, faults>>

\* Mutant of DrainCall: the waiter's timeout releases the permit.
ReleaseCall(w) ==
    /\ At(w, {"timedOut"})
    /\ calls' = [calls EXCEPT ![Own(w)].status =
                   IF @ = "running" THEN "failed" ELSE @]
    /\ Goto(w, "drained")
    /\ UNCHANGED <<butCalls, broker, quiet, sup, faults>>

\* _draining: the call may have completed since the timeout fired.
DrainCall(w) ==
    /\ At(w, {"timedOut"})
    /\ calls' = [calls EXCEPT ![Own(w)].status =
                   IF @ = "running" THEN "draining" ELSE @]
    /\ Goto(w, "drained")
    /\ UNCHANGED <<butCalls, broker, quiet, sup, faults>>

\* 120 s after draining_at.
DrainAges(c) ==
    /\ calls[c].status = "draining" /\ c \notin overdue
    /\ overdue' = overdue \cup {c}
    /\ UNCHANGED <<butOverdue, others>>

\* Mutant of Drained: a timed-out attempt goes back to the queue.
Requeued(j, n) ==
    IF jobs[j].token = n /\ jobs[j].status = "running"
    THEN [jobs EXCEPT ![j].status = "queued"] ELSE jobs

\* mark_draining: fenced by the attempt's token.
Drained(j, n) ==
    IF jobs[j].token = n /\ jobs[j].status = "running"
    THEN [jobs EXCEPT ![j].status = "draining"] ELSE jobs

\* mark_draining of a job, or the same update in AssistantService.execute,
\* which does not look at the run's status.
MarkDraining(w) ==
    /\ At(w, {"drained"})
    /\ IF OnJob(w)
       THEN /\ jobs' = Drained(ItemOf(w), Own(w)[2])
            /\ UNCHANGED runs
       ELSE /\ runs' = [runs EXCEPT ![ItemOf(w)].status = "draining"]
            /\ UNCHANGED jobs
    /\ Goto(w, "polling")
    /\ UNCHANGED <<calls, overdue, open, exits, broker, quiet, sup, faults>>

-----------------------------------------------------------------------------
\* What the compute child writes when an attempt or a run ends.

\* The outcome at hand: the one the waiter was given, or the one a poll finds.
Settling(w, got) ==
    \/ At(w, {"settle"}) /\ got = mem[w].got
    \/ /\ At(w, {"polling", "stopping"})
       /\ \E o \in Retained(w) :
            got = o[2] \/ (o[2] = "completed" /\ got = "invalid" /\ OnJob(w))

\* The row still carries this attempt: every write is fenced by its token.
StillHolds(w) == /\ jobs[ItemOf(w)].status \in Active
                 /\ jobs[ItemOf(w)].token = Own(w)[2]

\* complete_job, then forget. Withdrawn rights turn any result unavailable.
CompleteJob(w) ==
    /\ OnJob(w)
    /\ \E got \in {"completed", "circuit_open"}, status \in Terminal \ {"cancelled"} :
        /\ Settling(w, got)
        /\ got = "circuit_open" => status = "unavailable"
        /\ jobs' = IF StillHolds(w)
                   THEN [jobs EXCEPT ![ItemOf(w)].status = status]
                   ELSE jobs
    /\ Forget(w) /\ Release(w)
    /\ UNCHANGED <<butJobs, broker, proc, futures, sup, faults>>

\* fail_attempt returns silently while the call row is held.
CallSettledAnyway(w) == TRUE                             \* mutant of CallSettled
CallSettled(w) == calls[Own(w)].status \notin Held

\* fail_attempt, then forget.
FailJob(w) ==
    /\ OnJob(w)
    /\ \E got \in {"failed", "invalid"} :
        /\ Settling(w, got)
        /\ jobs' = IF StillHolds(w) /\ CallSettled(w)
                   THEN [jobs EXCEPT ![ItemOf(w)].status =
                           IF got = "failed" /\ Retriable(ItemOf(w))
                           THEN "queued" ELSE "failed"]
                   ELSE jobs
    /\ Forget(w) /\ Release(w)
    /\ UNCHANGED <<butJobs, broker, proc, futures, sup, faults>>

DeferredCharged(j) ==                                    \* mutant of Deferred
    [jobs[j] EXCEPT !.status = "queued", !.token = 0]
Deferred(j) ==
    [jobs[j] EXCEPT !.status = "queued", !.attempts = @ - 1, !.token = 0]

\* defer_unsubmitted: a capacity denial gives the attempt back.
DeferJob(w) ==
    /\ OnJob(w) /\ Settling(w, "busy")
    /\ jobs' = IF /\ calls[Own(w)].status = "none"
                  /\ jobs[ItemOf(w)].status = "running"
                  /\ jobs[ItemOf(w)].token = Own(w)[2]
               THEN [jobs EXCEPT ![ItemOf(w)] = Deferred(ItemOf(w))]
               ELSE jobs
    /\ Release(w)
    /\ UNCHANGED <<butJobs, broker, quiet, sup, faults>>

\* AssistantService.execute, the transaction before each model turn.
PrepareTurn(w) ==
    /\ At(w, {"prepare"})
    /\ runs[ItemOf(w)].status = "running"
    /\ runs' = [runs EXCEPT ![ItemOf(w)].turn = Own(w)[2]]
    /\ Goto(w, "admit")
    /\ UNCHANGED <<butRuns, broker, quiet, sup, faults>>

TurnsLeftOffByOne(w) == Own(w)[2] <= MaxTurns            \* mutant of TurnsLeft
TurnsLeft(w) == Own(w)[2] < MaxTurns

\* Mutant of NextTurn: the next turn keeps the call id of this one.
NextTurnSameCall(w) ==
    /\ OnRun(w) /\ At(w, {"settle"}) /\ mem[w].got = "completed"
    /\ TurnsLeft(w)
    /\ Forget(w)
    /\ Goto(w, "prepare")
    /\ UNCHANGED <<ledger, broker, proc, futures, sup, faults>>

\* The turn asked for tools: record it, forget the call, go round again.
NextTurn(w) ==
    /\ OnRun(w) /\ At(w, {"settle"}) /\ mem[w].got = "completed"
    /\ TurnsLeft(w)
    /\ Forget(w)
    /\ mem' = [mem EXCEPT ![w] = [@ EXCEPT !.pc = "prepare",
                                   !.call = <<ItemOf(w), Own(w)[2] + 1>>]]
    /\ UNCHANGED <<ledger, broker, proc, futures, sup, faults>>

\* _finish: an answer (or the second unsupported tool) completes the run,
\* everything else, and every outcome found by a poll, makes it unavailable.
FinishRun(w) ==
    /\ OnRun(w)
    /\ \E status \in {"completed", "unavailable"} :
        /\ \/ At(w, {"prepare"}) /\ status = "unavailable"
           \/ \E got \in Got :
                /\ Settling(w, got)
                /\ status = "completed" => (got = "completed" /\ At(w, {"settle"}))
        /\ runs' = IF runs[ItemOf(w)].status \in Active
                   THEN [runs EXCEPT ![ItemOf(w)].status = status]
                   ELSE runs
    /\ Forget(w) /\ Release(w)
    /\ UNCHANGED <<butRuns, broker, proc, futures, sup, faults>>

-----------------------------------------------------------------------------
\* How a compute child ends.

Vanish(w) == /\ proc' = [proc EXCEPT ![w] = "dead"]
             /\ mem' = [mem EXCEPT ![w] = Blank]
             /\ futures' = [futures EXCEPT ![w] = {}]
             /\ outcomes' = [outcomes EXCEPT ![w] = {}]

\* A transaction of the loop raises: serve ends, the threads go on.
WorkerRaises(w) ==
    /\ Executing(w) /\ mem[w].pc # "stopped"
    /\ faults.worker < MaxWorkerCrashes
    /\ faults' = [faults EXCEPT !.worker = @ + 1]
    /\ mem' = [mem EXCEPT ![w] = [Blank EXCEPT !.pc = "stopped"]]
    /\ UNCHANGED <<ledger, broker, quiet, sup>>

WorkerDies(w) ==
    /\ Executing(w)
    /\ faults.worker < MaxWorkerCrashes
    /\ faults' = [faults EXCEPT !.worker = @ + 1]
    /\ Vanish(w)
    /\ UNCHANGED <<ledger, broker, sup>>

\* The interpreter leaves when the loop has and no thread still executes.
WorkerLeaves(w) ==
    /\ At(w, {"stopped"}) /\ futures[w] = {}
    /\ Vanish(w)
    /\ UNCHANGED <<ledger, broker, sup, faults>>

\* cgroup.kill takes effect.
KillLands(w) ==
    /\ proc[w] = "doomed"
    /\ Vanish(w)
    /\ UNCHANGED <<ledger, broker, sup, faults>>

\* The launcher went away before it sent the admission byte.
GateCloses(w) ==
    /\ proc[w] = "gated" /\ ~(sup.pc = "admit" /\ w \in sup.todo)
    /\ Vanish(w)
    /\ UNCHANGED <<ledger, broker, sup, faults>>

-----------------------------------------------------------------------------
\* The steps the child's loop takes of its own accord.
WorkerStep(w) ==
    \/ CheckDrains(w) \/ StopServing(w) \/ LookForWork(w) \/ NoJob(w) \/ NoRun(w)
    \/ ClaimJob(w) \/ RefuseAll(w)
    \/ \E r \in Run : ClaimRun(w, r) \/ RefuseRun(w, r)
    \/ Admit(w) \/ Deny(w) \/ NotSubmitted(w)
    \/ WaiterReturns(w) \/ WaiterTimesOut(w) \/ DrainCall(w) \/ MarkDraining(w)
    \/ CompleteJob(w) \/ FailJob(w) \/ DeferJob(w)
    \/ PrepareTurn(w) \/ NextTurn(w) \/ FinishRun(w)

\* What the operations, the threads and the operating system do to it.
Operation(w) ==
    \E c \in CallId : \/ \E result \in {"completed", "failed"} : OpDone(w, c, result)
                      \/ LostCallback(w, c)
ChildEnds(w) == WorkerLeaves(w) \/ KillLands(w) \/ GateCloses(w)
ChildFails(w) == WorkerRaises(w) \/ WorkerDies(w)

=============================================================================
