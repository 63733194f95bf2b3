---------------------------- MODULE AlertDelivery ----------------------------
(* Delivery of one session's alerts (alert_delivery.py) over the append-only  *)
(* event store (event_store.py), and the recovery of interrupted deliveries   *)
(* (session_recovery.py).                                                     *)
(*                                                                            *)
(* A session process recovers first and delivers afterwards; deliveries of    *)
(* different intents interleave at every await. Each store call may fail, and *)
(* the process may die between any two of them.                               *)
EXTENDS Naturals, FiniteSets

CONSTANTS Intent,
          Expires,     \* intent -> expiry of its candidate
          Invalid,     \* intents whose ACTIONABLE candidate is not mechanically valid
          None

\* Bounds of one behaviour.
CONSTANTS MaxTime, MaxCrashes, MaxFailures

Time == 0 .. MaxTime
Statuses == {"CONFIRMED_DELIVERED", "FAILED", "UNKNOWN", "REJECTED_BEFORE_SEND"}
Actions == {"COMPLETE", "UNCERTAIN_NO_RESEND", "EXPIRED_NO_SEND", "RETRY"}

ASSUME DeliveryAssumption ==
    /\ Expires \in [Intent -> Nat \ {0}]
    /\ Invalid \subseteq Intent
    /\ None \notin Intent \cup Statuses \cup Actions
    /\ {MaxTime, MaxCrashes, MaxFailures} \subseteq Nat

VARIABLES
    now,
    intents,    \* stored DELIVERY_INTENT envelopes
    started,    \* intent -> its stored ":started" facts
    final,      \* intent -> the status of its ":result" fact, or None
    acked,      \* intents with a human acknowledgment
    phase,      \* "down", "up", "recovering", "open"
    task,       \* intent -> where its delivery or its recovery stands
    plan,       \* resume's classification of the stored intents
    posted,     \* intent -> complete messages that reached the channel
    spent       \* crashes and failed store calls so far

store == <<intents, started, final, acked>>
process == <<phase, task, plan>>
deliveryVars == <<now, store, process, posted, spent>>

Steps == {"idle", "intent", "reject", "start", "send", "result"}
Idle == [step |-> "idle", at |-> 0, receipt |-> None]

DeliveryTypeOK ==
    /\ now \in Time
    /\ intents \subseteq Intent /\ acked \subseteq Intent
    /\ started \in [Intent -> SUBSET {"started", "recovery"}]
    /\ final \in [Intent -> Statuses \cup {None}]
    /\ phase \in {"down", "up", "recovering", "open"}
    /\ task \in [Intent -> [step: Steps, at: Time, receipt: Statuses \cup {None}]]
    /\ plan \in [Intent -> Actions \cup {None}]
    /\ posted \in [Intent -> Nat]
    /\ spent \in [crashes: 0 .. MaxCrashes, failures: 0 .. MaxFailures]

DeliveryInit ==
    /\ now = 0
    /\ intents = {} /\ acked = {}
    /\ started = [i \in Intent |-> {}]
    /\ final = [i \in Intent |-> None]
    /\ phase = "up"
    /\ task = [i \in Intent |-> Idle]
    /\ plan = [i \in Intent |-> None]
    /\ posted = [i \in Intent |-> 0]
    /\ spent = [crashes |-> 0, failures |-> 0]

-----------------------------------------------------------------------------
\* The store: one transaction per call, which commits or raises.

\* candidate_is_expired: equality is expired.
Expired(i, at) == at >= Expires[i]

Go(i, step) == task' = [task EXCEPT ![i].step = step]

\* A call raises and its effects are rolled back. A delivery ends with the
\* exception; a recovery ends whole, whatever its other intents needed.
Raise(i) ==
    /\ spent.failures < MaxFailures
    /\ spent' = [spent EXCEPT !.failures = @ + 1]
    /\ task' = [j \in Intent |-> IF j = i \/ phase = "recovering" THEN Idle ELSE task[j]]
    /\ phase' = IF phase = "recovering" THEN "up" ELSE phase
    /\ plan' = [j \in Intent |-> None]
    /\ UNCHANGED store

\* The fact is stored and the caller goes on.
Saved(i, step) ==
    /\ Go(i, step)
    /\ UNCHANGED <<intents, acked, phase, plan, spent>>

\* save_result of a ":result" fact; identical retries add nothing, another
\* status under the same id conflicts and raises.
Settle(i, status) ==
    \/ /\ final[i] \in {None, status}
       /\ final' = [final EXCEPT ![i] = status]
       /\ task' = [task EXCEPT ![i] = Idle]
       /\ plan' = [plan EXCEPT ![i] = None]
       /\ UNCHANGED <<intents, started, acked, phase, spent>>
    \/ Raise(i)

-----------------------------------------------------------------------------
\* deliver_candidate.

\* The arguments are checked, the time and the expiry are fixed.
Deliver(i) ==
    /\ phase = "open" /\ task[i] = Idle
    /\ task' = [task EXCEPT ![i] = [step |-> "intent", at |-> now, receipt |-> None]]
    /\ UNCHANGED <<now, store, phase, plan, posted, spent>>

\* save_intent, refused for an intent that is already stored; then the branch
\* between rejecting and sending.
SaveIntent(i) ==
    /\ task[i].step = "intent"
    /\ \/ /\ i \notin intents
          /\ intents' = intents \cup {i}
          /\ Go(i, IF Expired(i, task[i].at) \/ i \in Invalid THEN "reject" ELSE "start")
          /\ UNCHANGED <<started, final, acked, phase, plan, spent>>
       \/ /\ i \in intents
          /\ task' = [task EXCEPT ![i] = Idle]
          /\ UNCHANGED <<store, phase, plan, spent>>
       \/ Raise(i)
    /\ UNCHANGED <<now, posted>>

Reject(i) ==
    /\ task[i].step = "reject"
    /\ Settle(i, "REJECTED_BEFORE_SEND")
    /\ UNCHANGED <<now, posted>>

\* The SEND_STARTED fact is durable before the sink is called. A recovery
\* numbers its own by the attempts it counted.
StartSend(i) ==
    /\ task[i].step = "start"
    /\ \/ /\ started' = [started EXCEPT ![i] = @ \cup {IF phase = "recovering" THEN "recovery" ELSE "started"}]
          /\ UNCHANGED final
          /\ Saved(i, "send")
       \/ Raise(i)
    /\ UNCHANGED <<now, posted>>

\* The transport may post the message and confirm, post it and lose the answer
\* (an exception, a malformed or ill-timed receipt), or not post it.
Send(i) ==
    /\ task[i].step = "send"
    /\ \E receipt \in Statuses, arrived \in {0, 1} :
        /\ receipt = "CONFIRMED_DELIVERED" => arrived = 1
        /\ receipt \in {"FAILED", "REJECTED_BEFORE_SEND"} => arrived = 0
        /\ posted' = [posted EXCEPT ![i] = @ + arrived]
        /\ task' = [task EXCEPT ![i].step = "result", ![i].receipt = receipt]
    /\ UNCHANGED <<now, store, phase, plan, spent>>

\* A result that cannot be stored is a DeliveryPersistenceError.
SaveResult(i) ==
    /\ task[i].step = "result"
    /\ Settle(i, task[i].receipt)
    /\ UNCHANGED <<now, posted>>

\* record_acknowledgment: a record of its own, once a final fact is stored.
Acknowledge(i) ==
    /\ phase # "down" /\ final[i] # None
    /\ acked' = acked \cup {i}
    /\ UNCHANGED <<now, intents, started, final, process, posted, spent>>

-----------------------------------------------------------------------------
\* resume.

\* Mutant of Classify: attempts of the recovery itself are not counted.
ClassifyFirst(i, at) ==
    IF final[i] # None THEN "COMPLETE"
    ELSE IF "started" \in started[i] THEN "UNCERTAIN_NO_RESEND"
    ELSE IF Expired(i, at) THEN "EXPIRED_NO_SEND" ELSE "RETRY"
Classify(i, at) ==
    IF final[i] # None THEN "COMPLETE"
    ELSE IF started[i] # {} THEN "UNCERTAIN_NO_RESEND"
    ELSE IF Expired(i, at) THEN "EXPIRED_NO_SEND" ELSE "RETRY"

\* plan: every stored intent, at one time; no delivery is under way.
Plan ==
    /\ phase \in {"up", "open"} /\ \A i \in Intent : task[i] = Idle
    /\ phase' = "recovering"
    /\ plan' = [i \in Intent |-> IF i \in intents THEN Classify(i, now) ELSE None]
    /\ task' = [i \in Intent |-> [Idle EXCEPT !.at = IF i \in intents THEN now ELSE 0]]
    /\ UNCHANGED <<now, store, posted, spent>>

\* The intents are taken one at a time.
Turn(i) == /\ phase = "recovering" /\ plan[i] # None
           /\ \A j \in Intent : task[j].step = "idle"
Done(i) == /\ task' = [task EXCEPT ![i] = Idle]
           /\ plan' = [plan EXCEPT ![i] = None]

SkipComplete(i) ==
    /\ Turn(i) /\ plan[i] = "COMPLETE"
    /\ Done(i)
    /\ UNCHANGED <<now, store, phase, posted, spent>>

CloseRejected(i) ==                                      \* mutant of CloseUncertain
    /\ Turn(i) /\ plan[i] = "UNCERTAIN_NO_RESEND"
    /\ Settle(i, "REJECTED_BEFORE_SEND")
    /\ UNCHANGED <<now, posted>>
CloseUncertain(i) ==
    /\ Turn(i) /\ plan[i] = "UNCERTAIN_NO_RESEND"
    /\ Settle(i, "UNKNOWN")
    /\ UNCHANGED <<now, posted>>

\* Mutant of CloseExpired: the intent is passed over.
LeaveExpired(i) ==
    /\ Turn(i) /\ plan[i] = "EXPIRED_NO_SEND"
    /\ Done(i)
    /\ UNCHANGED <<now, store, phase, posted, spent>>

CloseExpired(i) ==
    /\ Turn(i) /\ plan[i] = "EXPIRED_NO_SEND"
    /\ Settle(i, "REJECTED_BEFORE_SEND")
    /\ UNCHANGED <<now, posted>>

\* The sending part is StartSend, Send and SaveResult.
Retry(i) ==
    /\ Turn(i) /\ plan[i] = "RETRY"
    /\ Go(i, "start")
    /\ UNCHANGED <<now, store, phase, plan, posted, spent>>

Resumed ==
    /\ phase = "recovering" /\ \A i \in Intent : plan[i] = None
    /\ phase' = "open"
    /\ UNCHANGED <<now, store, task, plan, posted, spent>>

-----------------------------------------------------------------------------
\* The process and the clock.

Crash ==
    /\ phase # "down" /\ spent.crashes < MaxCrashes
    /\ spent' = [spent EXCEPT !.crashes = @ + 1]
    /\ phase' = "down"
    /\ task' = [i \in Intent |-> Idle]
    /\ plan' = [i \in Intent |-> None]
    /\ UNCHANGED <<now, store, posted>>

Restart ==
    /\ phase = "down" /\ phase' = "up"
    /\ UNCHANGED <<now, store, task, plan, posted, spent>>

Tick == /\ now < MaxTime
        /\ now' = now + 1
        /\ UNCHANGED <<store, process, posted, spent>>

DeliveryNext ==
    \/ \E i \in Intent :
        \/ Deliver(i) \/ SaveIntent(i) \/ Reject(i)
        \/ StartSend(i) \/ Send(i) \/ SaveResult(i) \/ Acknowledge(i)
        \/ SkipComplete(i) \/ CloseUncertain(i) \/ CloseExpired(i) \/ Retry(i)
    \/ Plan \/ Resumed \/ Crash \/ Restart \/ Tick

DeliverySpec == DeliveryInit /\ [][DeliveryNext]_deliveryVars

-----------------------------------------------------------------------------
\* One intent reaches the channel at most once, whatever crashed, failed or was
\* recovered (SEND_STARTED before the send, UNCERTAIN_NO_RESEND after it), and
\* never by a delivery or recovery begun at its expiry or later.
PostedOnce ==
    \A i \in Intent :
        /\ posted[i] <= 1
        /\ task[i].step = "send" => task[i].at < Expires[i]

\* What the final fact claims is what happened to the message: a rejected or
\* failed intent was not posted, a confirmed one was (_close, deliver_candidate).
FinalIsTrue ==
    \A i \in Intent :
        /\ final[i] \in {"REJECTED_BEFORE_SEND", "FAILED"} => posted[i] = 0
        /\ final[i] = "CONFIRMED_DELIVERED" => posted[i] = 1

\* A recovery that returns leaves no stored intent open: each was complete, was
\* closed, or was sent and closed (resume's loop over its plan).
RecoveredIsClosed ==
    [][Resumed => \A i \in intents : final[i] # None]_deliveryVars

\* An actionable candidate that is not mechanically valid is recorded but never
\* sent (test_invalid_actionable_is_recorded_but_never_sent).
InvalidNeverSent == \A i \in Invalid : posted[i] = 0

=============================================================================
