----------------------------- MODULE LaneHold --------------------------------
(* The inductive invariant behind the permits, the fences and the hand-over of *)
(* ResearchLane, on top of IInv: what a child's threads, its memory and the    *)
(* rows of both ledgers must say of one another for NoOverlap, PermitHeld,     *)
(* FreshAttempt, SettledOwner and HandoffKept to survive every step.           *)
EXTENDS LaneInvariant

-----------------------------------------------------------------------------
\* The runtime of a child: only a living one executes, what executes has its
\* row, and an outcome is retained only of a call that is settled.
RuntimeKept ==
    \A w \in Worker :
        /\ ~Executing(w) => mem[w] = Blank /\ futures[w] = {} /\ outcomes[w] = {}
        /\ \A c \in futures[w] : calls[c].status \in Active /\ calls[c].worker = w
        /\ \A o \in outcomes[w] : calls[o[1]].status \in {"completed", "failed"}

\* The permits, and whom a held one belongs to.
PermitsKept ==
    /\ IsFiniteSet(HeldCalls) /\ Cardinality(HeldCalls) <= Capacity
    /\ \A w \in Worker : exits[w] = "reconciled" => \A c \in HeldCalls : calls[c].worker # w

\* A held call of a job is the call of the attempt the row carries: the token
\* fences every earlier one.
JobFenced ==
    \A j \in Job, n \in Turn :
        /\ calls[<<j, n>>].status \in Held =>
             /\ jobs[j].status \in Active /\ jobs[j].token = n
             /\ jobs[j].worker = calls[<<j, n>>].worker
        /\ calls[<<j, n>>].status # "none" => n <= jobs[j].version

\* An operation of a run executes for the turn the row carries, and a run that
\* was never claimed has no call.
RunFenced ==
    /\ \A w \in Worker : \A c \in futures[w] :
          c[1] \in Run => /\ runs[c[1]].status \in Active
                          /\ runs[c[1]].turn = c[2]
                          /\ runs[c[1]].worker = w
    /\ \A r \in Run, n \in Turn :
          runs[r].status \in {"absent", "queued"} => calls[<<r, n>>].status = "none"
    /\ \A w \in Worker : exits[w] = "reconciled" => \A r \in ActiveRuns : runs[r].worker # w

\* What a child has in hand at each control point.
Free == {"idle", "claimJob", "offerRun", "prepare", "admit", "settle"}
InHand(w) ==
    /\ mem[w].pc # "stopped" => futures[w] \subseteq {Own(w)}
    /\ mem[w].pc \in Free => futures[w] = {}
    /\ mem[w].pc = "settle" /\ mem[w].got # "failed" => calls[Own(w)].status \notin Held
    /\ mem[w].pc \in {"prepare", "admit"} => calls[Own(w)].status = "none"
    /\ mem[w].pc = "admit" /\ OnJob(w) => /\ jobs[ItemOf(w)].status \in Active
                                          /\ jobs[ItemOf(w)].token = Own(w)[2]
                                          /\ jobs[ItemOf(w)].worker = w
                                          /\ Own(w)[2] <= jobs[ItemOf(w)].version
    /\ mem[w].pc = "admit" /\ OnRun(w) => runs[ItemOf(w)].turn = Own(w)[2]
    /\ OnRun(w) => \A n \in Turn : n > Own(w)[2] => calls[<<ItemOf(w), n>>].status = "none"
HandKept == \A w \in Worker : InHand(w)

\* No job is left with a settled owner once a child may be started, and until
\* the last of the children it was taken from is settled again.
NoneOrphaned ==
    \A w \in Worker : exits[w] = "reconciled" => \A j \in ActiveJobs : jobs[j].worker # w
Swept == {"forget", "tick", "settle", "spawn", "admit"}
Vouched ==
    \/ sup.pc \in Swept
    \/ sup.pc = "record" /\ ~sup.ok
    \/ sup.child # None
    \/ \E w \in Worker : proc[w] \in Living
Cleared == Vouched => NoneOrphaned

\* The hand-over of an exit from the broker's ledger to the web ledger.
HandoverKept ==
    /\ HandoffKept
    /\ sup.pc = "confirm" => \A w \in sup.list \ sup.todo : exits[w] = "reconciled"
    /\ sup.pc \in {"leases", "forget"} => \A w \in sup.list : exits[w] = "reconciled"

HInv == /\ RuntimeKept /\ PermitsKept /\ JobFenced /\ RunFenced /\ HandKept
        /\ Cleared /\ HandoverKept

=============================================================================
