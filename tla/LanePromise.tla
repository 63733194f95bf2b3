---------------------------- MODULE LanePromise ----------------------------
(* What the research lane promises a member, without processes, ledgers or  *)
(* faults: a job waits, is worked on alone, at most MaxAttempts times, and  *)
(* is answered once; an assistant run is worked on at most once.            *)
EXTENDS Naturals

CONSTANTS Job, Run, MaxAttempts

VARIABLES phase,    \* item -> absent, waiting, working, answered
          spent     \* job -> attempts charged to it

Item == Job \cup Run
Phase == {"absent", "waiting", "working", "answered"}

PromiseTypeOK == /\ phase \in [Item -> Phase]
                 /\ spent \in [Job -> 0 .. MaxAttempts]

Init == /\ phase = [i \in Item |-> "absent"]
        /\ spent = [j \in Job |-> 0]

Idle == \A i \in Item : phase[i] # "working"
Waiting(items) == \A i \in items : phase[i] = "waiting"
Moved(items, to) == [i \in Item |-> IF i \in items THEN to ELSE phase[i]]

Ask(i) == /\ phase[i] = "absent"
          /\ phase' = Moved({i}, "waiting")
          /\ UNCHANGED spent

\* Answered without work: a refused candidate, a withdrawn question.
Refuse(items) == /\ items # {} /\ Waiting(items)
                 /\ phase' = Moved(items, "answered")
                 /\ UNCHANGED spent

\* The lane takes one job, and drops the ones it met first and had to refuse.
StartJob(j, refused) ==
    /\ Idle /\ Waiting(refused \cup {j}) /\ j \notin refused
    /\ spent[j] < MaxAttempts
    /\ phase' = [Moved(refused, "answered") EXCEPT ![j] = "working"]
    /\ spent' = [spent EXCEPT ![j] = @ + 1]

StartRun(r) == /\ Idle /\ Waiting({r})
               /\ phase' = Moved({r}, "working")
               /\ UNCHANGED spent

\* Back to the queue: the attempt was spent and another is left, or no work was
\* admitted and the attempt is given back.
Retry(j) == /\ phase[j] = "working" /\ spent[j] < MaxAttempts
            /\ phase' = Moved({j}, "waiting")
            /\ UNCHANGED spent

GiveBack(j) == /\ phase[j] = "working"
               /\ phase' = Moved({j}, "waiting")
               /\ spent' = [spent EXCEPT ![j] = @ - 1]

Answer(i) == /\ phase[i] = "working"
             /\ phase' = Moved({i}, "answered")
             /\ UNCHANGED spent

Next == \/ \E i \in Item : Ask(i) \/ Answer(i)
        \/ \E items \in SUBSET Item : Refuse(items)
        \/ \E j \in Job, refused \in SUBSET Job : StartJob(j, refused)
        \/ \E r \in Run : StartRun(r)
        \/ \E j \in Job : Retry(j) \/ GiveBack(j)

Spec == Init /\ [][Next]_<<phase, spent>>

=============================================================================
