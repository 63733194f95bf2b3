---------------------------- MODULE Supervisor ------------------------------
(* The supervisor process: its loop, recover_worker_state,                    *)
(* WorkerSupervisor.tick, the launcher, and the broker's exit registry that   *)
(* they call.                                                                 *)
EXTENDS LaneLedger

-----------------------------------------------------------------------------
\* The broker's registry, reached by RPC from the supervisor.

\* ExitRegistry.reconcile: one bounded batch; TRUE once none is left.
ReconcilesAlive(w) == tomb[w] # "none" /\ backlog[w] = 0  \* mutant of Reconciles
Reconciles(w) == tomb[w] # "none" /\ proc[w] = "dead" /\ backlog[w] = 0
BrokerReconcileForgets(w) ==                             \* mutant of BrokerReconcile
    IF Reconciles(w) THEN tomb' = [tomb EXCEPT ![w] = "none"] /\ UNCHANGED backlog
    ELSE UNCHANGED <<tomb, backlog>>
BrokerReconcile(w) ==
    IF tomb[w] = "none" \/ proc[w] # "dead"
    THEN UNCHANGED <<tomb, backlog>>
    ELSE IF backlog[w] > 0
    THEN backlog' = [backlog EXCEPT ![w] = @ - 1] /\ UNCHANGED tomb
    ELSE tomb' = [tomb EXCEPT ![w] = "reconciled"] /\ UNCHANGED backlog

-----------------------------------------------------------------------------
\* The supervisor's transactions on the web ledger.

\* A call row after its worker's exit.
CallAfterExitKeepsDrains(c, w, reconciled) ==            \* mutant of CallAfterExit
    IF calls[c].worker # w \/ calls[c].status \notin {"running", "uncertain"} THEN calls[c]
    ELSE [calls[c] EXCEPT !.status = IF reconciled THEN "failed" ELSE "uncertain"]
CallAfterExitKeepsUncertain(c, w, reconciled) ==         \* mutant of CallAfterExit
    IF calls[c].worker # w \/ calls[c].status \notin Active THEN calls[c]
    ELSE [calls[c] EXCEPT !.status = IF reconciled THEN "failed" ELSE "uncertain"]
CallAfterExit(c, w, reconciled) ==
    IF calls[c].worker # w \/ calls[c].status \notin Held THEN calls[c]
    ELSE [calls[c] EXCEPT !.status = IF reconciled THEN "failed" ELSE "uncertain"]

\* confirm_worker_exit.
ConfirmExit(w, reconciled) ==
    /\ exits' = [exits EXCEPT ![w] = IF reconciled \/ @ = "reconciled"
                                     THEN "reconciled" ELSE "unreconciled"]
    /\ calls' = [c \in CallId |-> CallAfterExit(c, w, reconciled)]
    /\ runs' = [r \in Run |->
         IF reconciled /\ runs[r].worker = w /\ runs[r].status \in Active
         THEN [runs[r] EXCEPT !.status = "unavailable"] ELSE runs[r]]
    /\ overdue' = {c \in overdue : calls[c].worker # w}
    /\ UNCHANGED <<jobs, open>>

\* recover_expired_leases: confirm_worker_exit has expired the lease of every
\* reconciled owner, and no other active job has actual_finished set.
Expired(j) == /\ jobs[j].status \in Active /\ jobs[j].worker # None
              /\ exits[jobs[j].worker] = "reconciled"
RecoveredRunning(j) ==                                   \* mutant of Recovered
    IF Expired(j) /\ jobs[j].status = "running"
    THEN [jobs[j] EXCEPT !.token = 0, !.status = IF Retriable(j) THEN "queued" ELSE "failed"]
    ELSE jobs[j]
RecoveredAlways(j) ==                                    \* mutant of Recovered
    IF Expired(j) THEN [jobs[j] EXCEPT !.token = 0, !.status = "queued"] ELSE jobs[j]
Recovered(j) ==
    IF Expired(j)
    THEN [jobs[j] EXCEPT !.token = 0, !.status = IF Retriable(j) THEN "queued" ELSE "failed"]
    ELSE jobs[j]

RecoverLeases == /\ jobs' = [j \in Job |-> Recovered(j)]
                 /\ UNCHANGED <<butJobs>>

Kill(workers) ==
    proc' = [w \in Worker |-> IF w \in workers /\ proc[w] \in {"gated", "alive"}
                              THEN "doomed" ELSE proc[w]]

SupStart ==
    /\ sup.pc = "down"
    /\ sup' = [Asleep EXCEPT !.pc = "top"]
    /\ UNCHANGED <<ledger, broker, child, faults>>

\* launcher.recover: kill every tree, ask the broker whom it remembers.
RecoverInventory ==
    /\ sup.pc = "top" /\ sup.child = None
    /\ LET known == {w \in Worker : tomb[w] # "none"} IN
       sup' = [sup EXCEPT !.pc = "reconcile", !.list = known, !.todo = known]
    /\ Kill(Worker)
    /\ UNCHANGED <<ledger, broker, mem, futures, outcomes, faults>>

\* One reconcile per remembered worker; the first refusal ends the attempt and
\* the loop sleeps.
RecoverReconcile(w) ==
    /\ sup.pc = "reconcile" /\ w \in sup.todo
    /\ BrokerReconcile(w)
    /\ sup' = [sup EXCEPT !.pc = IF Reconciles(w) THEN "reconcile" ELSE "top",
                          !.todo = @ \ {w}]
    /\ UNCHANGED <<ledger, child, faults>>

RecoverConfirm(w) ==
    /\ sup.pc = "confirm" /\ w \in sup.todo
    /\ ConfirmExit(w, TRUE)
    /\ sup' = [sup EXCEPT !.todo = @ \ {w}]
    /\ UNCHANGED <<broker, child, faults>>

RecoverLeasesStep ==
    /\ sup.pc = "leases"
    /\ RecoverLeases
    /\ sup' = [sup EXCEPT !.pc = "forget", !.todo = sup.list]
    /\ UNCHANGED <<broker, child, faults>>

\* forget: only a reconciled row is deleted; the answer is not looked at.
RecoverForget(w) ==
    /\ sup.pc = "forget" /\ w \in sup.todo
    /\ tomb' = [tomb EXCEPT ![w] = IF @ = "reconciled" THEN "none" ELSE @]
    /\ sup' = [sup EXCEPT !.todo = @ \ {w}]
    /\ UNCHANGED <<ledger, backlog, child, faults>>

\* The ends of the three loops of recover_worker_state.
RecoverNext ==
    /\ sup.todo = {}
    /\ sup' = CASE sup.pc = "reconcile" -> [sup EXCEPT !.pc = "confirm", !.todo = sup.list]
                [] sup.pc = "confirm" -> [sup EXCEPT !.pc = "leases"]
                [] sup.pc = "forget" -> [sup EXCEPT !.pc = "tick", !.blocked = FALSE,
                                                    !.list = {}]
                [] OTHER -> sup
    /\ sup' # sup
    /\ UNCHANGED <<ledger, broker, child, faults>>

\* WorkerSupervisor.tick without a child: the oldest exit not yet reconciled.
TickPickExit ==
    /\ sup.pc = "tick"
    /\ LET owing == {w \in Worker : exits[w] = "unreconciled"} IN
       IF sup.pending = None /\ owing # {}
       THEN \E w \in owing : sup' = [sup EXCEPT !.pc = "settle", !.pending = w,
                                                !.blocked = TRUE]
       ELSE sup' = [sup EXCEPT !.pc = "settle"]
    /\ UNCHANGED <<ledger, broker, child, faults>>

Watching == sup.pc = "top" /\ sup.child # None

\* tick: a drain of 120 s opens the circuit and asks for a new child.
TickStuck ==
    /\ Watching
    /\ OverdueOf(sup.child) # {}
    /\ ~sup.restart \/ ~(OpenCircuitsOf(sup.child) \subseteq open)
    /\ open' = OpenCircuitsOf(sup.child)
    /\ sup' = [sup EXCEPT !.restart = TRUE]
    /\ UNCHANGED <<butOpen, broker, child, faults>>

\* tick: the child is dead.
TickDead ==
    /\ Watching
    /\ proc[sup.child] = "dead"
    /\ ConfirmExit(sup.child, FALSE)
    /\ sup' = [sup EXCEPT !.pc = "settle", !.pending = sup.child, !.child = None,
                          !.restart = FALSE, !.stopAsked = FALSE]
    /\ UNCHANGED <<broker, child, faults>>

\* tick: request_stop first (SIGTERM does not reach the init process of the
\* child's namespace), the kill once stop_timeout has passed.
TickStop ==
    /\ Watching
    /\ proc[sup.child] # "dead" /\ sup.restart
    /\ IF sup.stopAsked
       THEN proc[sup.child] = "alive" /\ Kill({sup.child}) /\ UNCHANGED sup
       ELSE sup' = [sup EXCEPT !.stopAsked = TRUE] /\ UNCHANGED proc
    /\ UNCHANGED <<ledger, broker, mem, futures, outcomes, faults>>

\* tick: one reconcile call for the pending exit. Its reply may be lost, and an
\* error counts as a refusal.
TickReconcile ==
    /\ sup.pc = "settle"
    /\ IF sup.pending = None
       THEN /\ sup' = [sup EXCEPT !.pc = "spawn"]
            /\ UNCHANGED <<broker, faults>>
       ELSE /\ BrokerReconcile(sup.pending)
            /\ \/ /\ sup' = [sup EXCEPT !.pc = "record", !.ok = Reconciles(sup.pending)]
                  /\ UNCHANGED faults
               \/ /\ Reconciles(sup.pending) /\ faults.reply < MaxLostReplies
                  /\ faults' = [faults EXCEPT !.reply = @ + 1]
                  /\ sup' = [sup EXCEPT !.pc = "record", !.ok = FALSE]
    /\ UNCHANGED <<ledger, child>>

TickConfirm ==
    /\ sup.pc = "record"
    /\ ConfirmExit(sup.pending, sup.ok)
    /\ sup' = [sup EXCEPT !.pc = IF sup.ok THEN "tickLeases" ELSE "spawn",
                          !.blocked = ~sup.ok, !.ok = FALSE]
    /\ UNCHANGED <<broker, child, faults>>

TickLeases ==
    /\ sup.pc = "tickLeases"
    /\ RecoverLeases
    /\ sup' = [sup EXCEPT !.pc = "spawn", !.pending = None]
    /\ UNCHANGED <<broker, child, faults>>

\* tick: start a child unless an exit is unreconciled or a call still held.
\* The launcher registers the gated child with the broker, then admits it.
TickSpawn ==
    /\ sup.pc = "spawn"
    /\ LET unsettled == HeldCalls # {} \/ \E w \in Worker : exits[w] = "unreconciled"
           unborn == {w \in Worker : proc[w] = "unborn"} IN
       IF sup.child # None \/ sup.blocked \/ unsettled \/ unborn = {}
       THEN /\ sup' = [sup EXCEPT !.pc = "top",
                                  !.blocked = @ \/ (sup.child = None /\ unsettled)]
            /\ UNCHANGED <<tomb, proc>>
       ELSE \E w \in unborn :
            /\ \A v \in unborn : w <= v
            /\ proc' = [proc EXCEPT ![w] = "gated"]
            /\ tomb' = [tomb EXCEPT ![w] = "registered"]
            /\ sup' = [sup EXCEPT !.pc = "admit", !.todo = {w}]
    /\ UNCHANGED <<ledger, backlog, mem, futures, outcomes, faults>>

TickAdmit(w) ==
    /\ sup.pc = "admit" /\ w \in sup.todo
    /\ proc' = [proc EXCEPT ![w] = "alive"]
    /\ sup' = [sup EXCEPT !.pc = "top", !.child = w, !.todo = {}]
    /\ UNCHANGED <<ledger, broker, mem, futures, outcomes, faults>>

\* The supervisor is killed: its memory is gone, its child lives on.
SupCrash ==
    /\ sup.pc # "down"
    /\ faults.sup < MaxSupCrashes
    /\ faults' = [faults EXCEPT !.sup = @ + 1]
    /\ sup' = Asleep
    /\ UNCHANGED <<ledger, broker, child>>

\* Something in the loop raises: the finally block kills the child.
SupRaises ==
    /\ sup.pc \notin {"down", "unwind"}
    /\ faults.sup < MaxSupCrashes
    /\ faults' = [faults EXCEPT !.sup = @ + 1]
    /\ IF sup.child = None
       THEN sup' = Asleep /\ UNCHANGED proc
       ELSE sup' = [Asleep EXCEPT !.pc = "unwind", !.child = sup.child] /\ Kill({sup.child})
    /\ UNCHANGED <<ledger, broker, mem, futures, outcomes>>

\* Mutant of SupUnwinds: the exit is recorded without looking.
SupUnwindsBlindly ==
    /\ sup.pc = "unwind"
    /\ ConfirmExit(sup.child, FALSE)
    /\ sup' = Asleep
    /\ UNCHANGED <<broker, child, faults>>

\* It waits at most 5 s for the exit, and records the exit it saw.
SupUnwinds ==
    /\ sup.pc = "unwind"
    /\ IF proc[sup.child] = "dead"
       THEN ConfirmExit(sup.child, FALSE)
       ELSE UNCHANGED ledger
    /\ sup' = Asleep
    /\ UNCHANGED <<broker, child, faults>>

-----------------------------------------------------------------------------
Recovery ==
    \/ RecoverInventory \/ RecoverLeasesStep \/ RecoverNext
    \/ \E w \in Worker : RecoverReconcile(w) \/ RecoverConfirm(w) \/ RecoverForget(w)

Tick ==
    \/ TickPickExit \/ TickStuck \/ TickDead \/ TickStop
    \/ TickReconcile \/ TickConfirm \/ TickLeases \/ TickSpawn
    \/ \E w \in Worker : TickAdmit(w)

SupStep == SupStart \/ Recovery \/ Tick \/ SupUnwinds

=============================================================================
