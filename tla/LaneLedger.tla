---------------------------- MODULE LaneLedger ------------------------------
(* The state of the research lane: the durable queue of jobs and assistant   *)
(* runs in the web ledger (jobs.py, assistant.py), the broker's registry of  *)
(* workers (exit_control.py), the compute children (worker.py,               *)
(* provider_runtime.py) and the supervisor's memory (worker.py,              *)
(* operations.py), with what members do to it.                               *)
(*                                                                           *)
(* One action is one durable transaction or one RPC together with the        *)
(* in-memory assignments that follow it, so a crash between two actions is a *)
(* crash at each point where the program can lose memory but not the ledger. *)
(* There is no clock: a delay (not_before, the 120 s of a drain, a lease) is *)
(* an enabled action that may come at any time.                              *)
EXTENDS Naturals, FiniteSets

CONSTANTS Job, Run,          \* web_jobs rows, assistant_runs rows
          Worker,            \* worker identities, in the order they are born
          Provider,
          ProviderOf,        \* the provider a job or a run calls
          None,
          MaxAttempts,       \* 3 in the code
          Capacity,          \* 2 in the code
          MaxTurns,          \* 5 in the code
          MaxVersion         \* bound: claims of one job the model follows

\* Bounds on what the environment may do to one behaviour.
CONSTANTS MaxSupCrashes, MaxWorkerCrashes, MaxLostCallbacks, MaxLostReplies,
          MaxBacklog         \* extra batches of 100 admissions one exit leaves

Item == Job \cup Run
Turn == 1 .. (IF MaxVersion > MaxTurns THEN MaxVersion ELSE MaxTurns)
CallId == Item \X Turn

ASSUME IdentityAssumption ==
    /\ Job \cap Run = {}
    /\ Worker \subseteq Nat
    /\ None \notin Item \cup Worker \cup CallId
    /\ ProviderOf \in [Item -> Provider]

ASSUME BoundAssumption ==
    /\ {MaxAttempts, Capacity, MaxTurns, MaxVersion} \subseteq Nat \ {0}
    /\ {MaxSupCrashes, MaxWorkerCrashes, MaxLostCallbacks, MaxLostReplies,
        MaxBacklog} \subseteq Nat

VARIABLES
    \* the web ledger
    jobs,      \* job -> status, work_version, lease token (0 is NULL), attempts, worker_id
    runs,      \* run -> status, turns prepared so far, worker_id
    calls,     \* provider_calls: call id -> status, worker_id
    overdue,   \* the draining calls whose draining_at is 120 s old
    open,      \* providers whose circuit is open
    exits,     \* worker_exits: worker -> no row, reconciled=0, reconciled=1
    \* the broker's ledger
    tomb,      \* trusted_workers: worker -> no row, registered, reconciled
    backlog,   \* batches of admissions still to settle beyond the first
    \* the compute children
    proc,      \* worker -> the operating system's view of its process tree
    mem,       \* worker -> control point, the call it works on, what it got
    futures,   \* worker -> operations that are really executing
    outcomes,  \* worker -> outcomes retained by its ProviderRuntime
    \* the supervisor, and the faults spent so far
    sup, faults

ledger == <<jobs, runs, calls, overdue, open, exits>>
broker == <<tomb, backlog>>
child  == <<proc, mem, futures, outcomes>>
vars   == <<ledger, broker, child, sup, faults>>

\* What a step that writes one variable leaves alone.
butJobs    == <<runs, calls, overdue, open, exits>>
butRuns    == <<jobs, calls, overdue, open, exits>>
butCalls   == <<jobs, runs, overdue, open, exits>>
butOpen    == <<jobs, runs, calls, overdue, exits>>
butOverdue == <<jobs, runs, calls, open, exits>>
quiet      == <<proc, futures, outcomes>>
others     == <<broker, child, sup, faults>>

Active    == {"running", "draining"}
Held      == {"running", "draining", "uncertain"}
Terminal  == {"completed", "unavailable", "failed", "cancelled"}
JobStatus == {"absent", "queued"} \cup Active \cup Terminal
CallStatus == {"none", "completed", "failed"} \cup Held

WorkerPC == {"idle", "claimJob", "offerRun", "prepare", "admit", "waiting",
             "timedOut", "drained", "settle", "polling", "stopping", "stopped"}
Got == {"completed", "failed", "invalid", "circuit_open", "busy"}
SupPC == {"down", "top", "reconcile", "confirm", "leases", "forget", "tick",
          "settle", "record", "tickLeases", "spawn", "admit", "unwind"}

Blank == [pc |-> "idle", call |-> None, got |-> "failed", prefer |-> TRUE]
Asleep == [pc |-> "down", child |-> None, pending |-> None, blocked |-> FALSE,
           restart |-> FALSE, stopAsked |-> FALSE, ok |-> FALSE,
           list |-> {}, todo |-> {}]

JobRow == [status: JobStatus, version: 0 .. MaxVersion, token: 0 .. MaxVersion,
           attempts: 0 .. MaxAttempts, worker: Worker \cup {None}]
RunRow == [status: JobStatus, turn: 0 .. MaxTurns, worker: Worker \cup {None}]
CallRow == [status: CallStatus, worker: Worker \cup {None}]
Memory == [pc: WorkerPC, call: CallId \cup {None}, got: Got, prefer: BOOLEAN]
SupMemory == [pc: SupPC, child: Worker \cup {None}, pending: Worker \cup {None},
              blocked: BOOLEAN, restart: BOOLEAN, stopAsked: BOOLEAN, ok: BOOLEAN,
              list: SUBSET Worker, todo: SUBSET Worker]
Faults == [sup: 0 .. MaxSupCrashes, worker: 0 .. MaxWorkerCrashes,
           lost: 0 .. MaxLostCallbacks, reply: 0 .. MaxLostReplies]

JobsOK == jobs \in [Job -> JobRow]
RunsOK == runs \in [Run -> RunRow]
CallsOK == calls \in [CallId -> CallRow] /\ overdue \subseteq CallId
ExitsOK == open \subseteq Provider /\ exits \in [Worker -> {"none", "unreconciled", "reconciled"}]
BrokerOK == /\ tomb \in [Worker -> {"none", "registered", "reconciled"}]
            /\ backlog \in [Worker -> 0 .. MaxBacklog]
ProcOK == proc \in [Worker -> {"unborn", "gated", "alive", "doomed", "dead"}]
MemOK == mem \in [Worker -> Memory]
RuntimeOK == /\ futures \in [Worker -> SUBSET CallId]
             /\ outcomes \in [Worker -> SUBSET (CallId \X {"completed", "failed"})]
SupOK == sup \in SupMemory
FaultsOK == faults \in Faults
TypeOK == /\ JobsOK /\ RunsOK /\ CallsOK /\ ExitsOK /\ BrokerOK
          /\ ProcOK /\ MemOK /\ RuntimeOK /\ SupOK /\ FaultsOK

Init ==
    /\ jobs = [j \in Job |-> [status |-> "absent", version |-> 0, token |-> 0,
                              attempts |-> 0, worker |-> None]]
    /\ runs = [r \in Run |-> [status |-> "absent", turn |-> 0, worker |-> None]]
    /\ calls = [c \in CallId |-> [status |-> "none", worker |-> None]]
    /\ overdue = {} /\ open = {}
    /\ exits = [w \in Worker |-> "none"]
    /\ tomb = [w \in Worker |-> "none"]
    /\ backlog \in [Worker -> 0 .. MaxBacklog]
    /\ proc = [w \in Worker |-> "unborn"]
    /\ mem = [w \in Worker |-> Blank]
    /\ futures = [w \in Worker |-> {}]
    /\ outcomes = [w \in Worker |-> {}]
    /\ sup = Asleep
    /\ faults = [sup |-> 0, worker |-> 0, lost |-> 0, reply |-> 0]

-----------------------------------------------------------------------------
\* The lane: one expensive item across every process, draining work included.

ActiveJobs == {j \in Job : jobs[j].status \in Active}
ActiveRuns == {r \in Run : runs[r].status \in Active}
LaneFreeOfRuns == ActiveRuns = {}                        \* mutant of LaneFree
LaneFree   == ActiveJobs = {} /\ ActiveRuns = {}
HeldCalls  == {c \in CallId : calls[c].status \in Held}
PermitFreeOffByOne == Cardinality(HeldCalls) <= Capacity \* mutant of PermitFree
PermitFree == Cardinality(HeldCalls) < Capacity
Retriable(j) == jobs[j].attempts < MaxAttempts
Claimable  == {j \in Job : jobs[j].status = "queued" /\ Retriable(j)
                           /\ jobs[j].version < MaxVersion}

-----------------------------------------------------------------------------
\* A worker's drains of 120 s, and the circuits they open.

OverdueOf(w) == {c \in overdue : calls[c].worker = w /\ calls[c].status = "draining"}
OpenCircuitsOf(w) == open \cup {ProviderOf[c[1]] : c \in OverdueOf(w)}

-----------------------------------------------------------------------------
\* Members.

\* request_research: a section that needs computing becomes a queued job.
Enqueue(j) ==
    /\ jobs[j].status = "absent"
    /\ jobs' = [jobs EXCEPT ![j].status = "queued"]
    /\ UNCHANGED <<butJobs, others>>

\* AssistantService.submit: a question becomes a queued run.
Submit(r) ==
    /\ runs[r].status = "absent"
    /\ runs' = [runs EXCEPT ![r].status = "queued"]
    /\ UNCHANGED <<butRuns, others>>

\* Mutant of DeleteConversation: a finished run drains too.
DeleteAnyConversation(r) ==
    /\ runs[r].status \notin {"absent", "draining"}
    /\ runs' = [runs EXCEPT ![r].status =
                  IF @ = "queued" THEN "cancelled" ELSE "draining"]
    /\ UNCHANGED <<butRuns, others>>

\* delete_conversation: a queued run is cancelled, a running one drains.
DeleteConversation(r) ==
    /\ runs[r].status \in {"queued", "running"}
    /\ runs' = [runs EXCEPT ![r].status =
                  IF @ = "queued" THEN "cancelled" ELSE "draining"]
    /\ UNCHANGED <<butRuns, others>>

Members == \/ \E j \in Job : Enqueue(j)
           \/ \E r \in Run : Submit(r) \/ DeleteConversation(r)

=============================================================================
