---------------------------- MODULE ResearchLane ----------------------------
(* The research lane of the member dashboard: members, the compute child, the *)
(* supervisor and the faults between them, and what they must keep.           *)
EXTENDS ComputeChild, Supervisor

Next ==
    \/ Members
    \/ \E w \in Worker : WorkerStep(w) \/ Operation(w) \/ ChildEnds(w) \/ ChildFails(w)
    \/ \E c \in CallId : DrainAges(c)
    \/ SupStep \/ SupCrash \/ SupRaises

Spec == Init /\ [][Next]_vars

\* The loops of the child and of the supervisor keep running, a killed process
\* dies, time passes. No fairness for members, for an operation's completion
\* (a provider may hang) or for a fault.
Fairness ==
    /\ \A w \in Worker : WF_vars(WorkerStep(w)) /\ WF_vars(ChildEnds(w))
    /\ \A c \in CallId : WF_vars(DrainAges(c))
    /\ WF_vars(SupStep)

FairSpec == Spec /\ Fairness

-----------------------------------------------------------------------------
\* Safety. Each property names the code that is meant to keep it.

\* At most one job or assistant run is running or draining, whatever crashed in
\* between (the two lane checks of claim_job and AssistantService.claim).
OneLane == Cardinality(ActiveJobs) + Cardinality(ActiveRuns) <= 1

\* An operation that really executes belongs to the attempt its row still
\* carries: no attempt is retried, failed or answered under a live operation
\* (mark_draining, fail_attempt, confirm_worker_exit, recover_expired_leases).
NoOverlap ==
    \A w \in Worker : \A c \in futures[w] :
        IF c[1] \in Job
        THEN jobs[c[1]].status \in Active /\ jobs[c[1]].token = c[2] /\ jobs[c[1]].worker = w
        ELSE runs[c[1]].status \in Active /\ runs[c[1]].turn = c[2] /\ runs[c[1]].worker = w

\* Every executing operation holds its permit, and the permits are never more
\* than the capacity (_reserve, _completed, _draining, confirm_worker_exit).
PermitHeld ==
    /\ \A w \in Worker : \A c \in futures[w] :
          calls[c].status \in Active /\ calls[c].worker = w
    /\ Cardinality(UNION {futures[w] : w \in Worker}) <= Capacity
    /\ Cardinality(HeldCalls) <= Capacity

\* A second compute child is never started while one may still write
\* (recover_worker_state, WorkerSupervisor.tick, CgroupLauncher.recover).
OneChild ==
    \A v, w \in Worker : {proc[v], proc[w]} \subseteq {"gated", "alive", "doomed"} => v = w

\* Both ledgers record an exit only of a process that is gone, and the web
\* ledger believes it reconciled only if the broker did so (confirm_worker_exit,
\* ExitRegistry.reconcile).
ExitsAreReal ==
    \A w \in Worker : /\ exits[w] # "none" => proc[w] = "dead"
                      /\ tomb[w] = "reconciled" => proc[w] = "dead" /\ backlog[w] = 0
                      /\ exits[w] = "reconciled" => tomb[w] # "registered"

\* The broker forgets a worker only after the web ledger has settled it: a crash
\* between the two commits loses no exit (recover_worker_state, forget).
HandoffKept ==
    \A w \in Worker : proc[w] # "unborn" /\ tomb[w] = "none" => exits[w] = "reconciled"

\* A settled worker owns no permit and no running assistant run, and none of its
\* jobs once a successor is admitted (confirm_worker_exit, recover_expired_leases).
SettledOwner ==
    \A w \in Worker : exits[w] = "reconciled" =>
        /\ \A c \in HeldCalls : calls[c].worker # w
        /\ \A r \in ActiveRuns : runs[r].worker # w
        /\ (\E v \in Worker : proc[v] = "alive") => \A j \in ActiveJobs : jobs[j].worker # w

\* An attempt that asks for admission has no call row yet, so _reserve never
\* meets the row of an earlier attempt (claim_job's token, execute's call id).
FreshAttempt ==
    \A w \in Worker : At(w, {"admit"}) => calls[Own(w)].status = "none"

-----------------------------------------------------------------------------
\* What one step may never do.

\* A terminal job or run keeps its status (the status tests of every update;
\* the drain update in execute has none).
TerminalStable ==
    [][/\ \A j \in Job : jobs[j].status \in Terminal => jobs'[j].status = jobs[j].status
       /\ \A r \in Run : runs[r].status \in Terminal => runs'[r].status = runs[r].status]_vars

\* A job goes back to the queue, or fails, only when no operation of the attempt
\* executes and its call row is settled (fail_attempt, recover_expired_leases).
NoEarlyRetry ==
    [][\A j \in Job :
         jobs[j].status \in Active /\ jobs'[j].status \in {"queued", "failed"}
         => \A n \in Turn : /\ \A w \in Worker : <<j, n>> \notin futures[w]
                            /\ calls[<<j, n>>].status \notin Held]_vars

\* A permit is returned only by the operation's own end or by the exit of its
\* process (_completed, confirm_worker_exit).
PermitReturned ==
    [][\A c \in CallId : calls[c].status \in Held /\ calls'[c].status \notin Held
         => \A w \in Worker : c \notin futures'[w]]_vars

-----------------------------------------------------------------------------
\* Liveness, under FairSpec.

\* Whatever occupies the lane leaves it.
LaneFreed == []<>LaneFree

\* A job that waits is answered: completed, unavailable or failed.
JobServed == \A j \in Job : jobs[j].status = "queued" ~> jobs[j].status \in Terminal

\* A dead child is replaced: a later one is started (while the bound on workers
\* leaves one to start).
ChildReplaced ==
    \A w \in Worker : (proc[w] = "dead" /\ \E v \in Worker : v > w)
                      ~> \E v \in Worker : v > w /\ proc[v] # "unborn"

-----------------------------------------------------------------------------
\* The promise this lane implements.

PhaseOf(status) == CASE status \in Active -> "working"
                     [] status \in Terminal -> "answered"
                     [] status = "queued" -> "waiting"
                     [] OTHER -> "absent"

Shown == [i \in Item |-> PhaseOf(IF i \in Job THEN jobs[i].status ELSE runs[i].status)]
Charges == [j \in Job |-> jobs[j].attempts]

Promise == INSTANCE LanePromise WITH phase <- Shown, spent <- Charges

\* The ledgers, the child, the supervisor and their faults show a member nothing
\* but the steps of LanePromise (every update of web_jobs and assistant_runs).
KeepsPromise == Promise!Spec

=============================================================================
