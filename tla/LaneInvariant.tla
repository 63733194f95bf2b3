------------------------- MODULE LaneInvariant -------------------------------
(* The inductive invariant of ResearchLane, part by part: what must be true   *)
(* of the ledgers, the children and the supervisor for OneLane, OneChild and  *)
(* ExitsAreReal to survive every step.                                        *)
EXTENDS ResearchLane

-----------------------------------------------------------------------------
\* What a child holds at each control point of its loop.
Empty == {"idle", "claimJob", "offerRun", "stopping", "stopped"}
HoldsCall(w) ==
    /\ mem[w].call # None =>
         mem[w].call \in (Job \X (1 .. MaxVersion)) \cup (Run \X (1 .. MaxTurns))
    /\ mem[w].pc \notin Empty => mem[w].call # None
    /\ mem[w].pc = "prepare" => mem[w].call[1] \in Run

\* A job that is worked on has been charged for it.
Charged(j) == jobs[j].status \in Active => jobs[j].attempts > 0

JobsTyped == JobsOK /\ \A j \in Job : Charged(j)
MemTyped == MemOK /\ \A w \in Worker : HoldsCall(w)
SupTyped == /\ SupOK
            /\ sup.pc = "record" => sup.pending # None
            /\ sup.pc = "unwind" => sup.child # None
Typed == /\ JobsTyped /\ RunsOK /\ CallsOK /\ ExitsOK /\ BrokerOK
         /\ ProcOK /\ MemTyped /\ RuntimeOK /\ SupTyped /\ FaultsOK

\* Where the supervisor is in its loop tells which processes can still live.
Living == {"gated", "alive", "doomed"}
Childless == {"down", "reconcile", "confirm", "leases", "forget", "tick", "settle",
              "record", "tickLeases", "spawn", "admit"}
Settled == {"confirm", "leases", "forget"}

SupKnows ==
    /\ sup.pc \in Childless => sup.child = None
    /\ sup.pc = "reconcile" => \A w \in sup.list \ sup.todo : tomb[w] = "reconciled"
    /\ sup.pc \in {"reconcile"} \cup Settled => sup.todo \subseteq sup.list
    /\ sup.pc \in {"confirm", "leases"} => \A w \in sup.list : tomb[w] = "reconciled"
    /\ sup.pc = "admit" => \A w \in sup.todo : proc[w] = "gated"
    /\ sup.pending # None => proc[sup.pending] = "dead"
    /\ sup.pc = "record" /\ sup.ok => tomb[sup.pending] = "reconciled"

\* A process that lives is registered, and it is the supervisor's child unless
\* the supervisor has yet to find it.
LivingKnown ==
    \A w \in Worker : proc[w] \in Living =>
        /\ tomb[w] = "registered"
        /\ \/ sup.pc \in {"down", "unwind"}
           \/ sup.pc = "top" /\ sup.child \in {None, w}
           \/ sup.pc = "reconcile" /\ w \in sup.todo
           \/ sup.pc = "admit" /\ w \in sup.todo

\* The run a child holds is the one its row gives it, and while it works on the
\* run the row says so.
Working == {"prepare", "admit", "waiting", "timedOut", "drained", "settle", "polling"}
Taken == Active \cup Terminal
Owned(w) ==
    OnRun(w) => /\ Executing(w)
                /\ runs[ItemOf(w)].worker = w
                /\ runs[ItemOf(w)].status \in Taken
                /\ mem[w].pc \in Working => runs[ItemOf(w)].status \in Active
RunOwned == \A w \in Worker : Owned(w)

\* OneLane, element by element.
LaneExclusive ==
    /\ \A i, j \in ActiveJobs : i = j
    /\ \A q, r \in ActiveRuns : q = r
    /\ ActiveJobs = {} \/ ActiveRuns = {}

ExitsKnown == SupKnows /\ ExitsAreReal /\ LivingKnown /\ OneChild

IInv == Typed /\ ExitsKnown /\ RunOwned /\ LaneExclusive

=============================================================================
