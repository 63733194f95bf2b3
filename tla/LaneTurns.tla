----------------------------- MODULE LaneTurns ------------------------------
(* Whom a compute child passes over: ResearchLane with a history variable    *)
(* that the program does not have and no action of the lane reads.           *)
EXTENDS ResearchLane

VARIABLE passed   \* child -> what it left waiting at its last claim, waiting still

QueuedRuns == {r \in Run : runs[r].status = "queued"}
Rivals(i) == IF i \in Job THEN QueuedRuns ELSE Claimable

\* This step is the claim of i by w (the next turn of a run is none).
Claims(w, i) ==
    /\ mem[w].call = None
    /\ mem'[w].call # None /\ mem'[w].call[1] = i

\* A refused run was the turn of the runs: claim looks at the oldest one only.
Offered(w) == \E r \in Run : RefuseRun(w, r)

Watch ==
    passed' = [w \in Worker |->
        (QueuedRuns \cup Claimable)' \cap
            IF \E i \in Item : Claims(w, i)
            THEN UNION {Rivals(i) : i \in {k \in Item : Claims(w, k)}}
            ELSE IF Offered(w) THEN {} ELSE passed[w]]

TurnsSpec ==
    /\ Init /\ passed = [w \in Worker |-> {}]
    /\ [][Next /\ Watch]_<<vars, passed>>

FairTurnsSpec == TurnsSpec /\ Fairness


=============================================================================
