----------------------------- MODULE AlertProofs -----------------------------
(* Alert delivery, for every set of intents, every expiry, and any number of   *)
(* crashes and failed calls. The properties are inductive together with where  *)
(* each intent's delivery or recovery stands: what it has found out, and what  *)
(* it may still do.                                                            *)
EXTENDS AlertDelivery, TLAPS

\* A status is not refuted by what reached the channel.
Truth(status, messages) ==
    /\ status \in {"REJECTED_BEFORE_SEND", "FAILED"} => messages = 0
    /\ status = "CONFIRMED_DELIVERED" => messages = 1

\* The stored facts of an intent and the channel: SEND_STARTED precedes the message.
Facts(i) ==
    /\ posted[i] \in {0, 1}
    /\ posted[i] = 1 => started[i] # {}
    /\ started[i] # {} => i \in intents
    /\ final[i] # None => i \in intents /\ Truth(final[i], posted[i])

\* What a delivery knows at each of its steps.
Stage(i) ==
    /\ task[i].step \in {"reject", "start"} => i \in intents /\ started[i] = {} /\ final[i] = None
    /\ task[i].step \in {"start", "send"} => task[i].at < Expires[i]
    /\ task[i].step = "send" => started[i] # {} /\ final[i] = None /\ posted[i] = 0
    /\ task[i].step = "result" => /\ started[i] # {} /\ final[i] = None
                                  /\ task[i].receipt \in Statuses
                                  /\ Truth(task[i].receipt, posted[i])

\* A plan stays true of its intent until the intent's turn is over.
Planned(i) ==
    /\ plan[i] = None /\ i \in intents => final[i] # None
    /\ plan[i] # None => i \in intents
    /\ plan[i] = "COMPLETE" => final[i] # None
    /\ plan[i] = "UNCERTAIN_NO_RESEND" => started[i] # {} /\ final[i] = None
    /\ plan[i] = "EXPIRED_NO_SEND" => started[i] = {} /\ final[i] = None
    /\ plan[i] = "RETRY" /\ task[i].step = "idle" =>
          started[i] = {} /\ final[i] = None /\ task[i].at < Expires[i]
    /\ task[i].step # "idle" => plan[i] = "RETRY" /\ task[i].step \in {"start", "send", "result"}

Phased(i) ==
    /\ phase # "recovering" => plan[i] = None
    /\ phase \in {"up", "down"} => task[i] = Idle
    /\ phase = "recovering" => Planned(i)

IntentInv(i) == Facts(i) /\ Stage(i) /\ Phased(i)
DInv == DeliveryTypeOK /\ \A i \in Intent : IntentInv(i)

-----------------------------------------------------------------------------

LEMMA Values ==
    /\ None \notin Statuses /\ None \notin Actions
    /\ \A i \in Intent : Expires[i] \in Nat /\ Expires[i] # 0
    /\ MaxTime \in Nat /\ MaxCrashes \in Nat /\ MaxFailures \in Nat
    /\ Idle.step = "idle" /\ Idle.at = 0 /\ Idle.receipt = None
    /\ Idle \in [step: Steps, at: Time, receipt: Statuses \cup {None}]
<1>1. None \notin Statuses /\ None \notin Actions
  BY DeliveryAssumption
<1>2. \A i \in Intent : Expires[i] \in Nat /\ Expires[i] # 0
  BY DeliveryAssumption
<1>3. MaxTime \in Nat /\ MaxCrashes \in Nat /\ MaxFailures \in Nat
  BY DeliveryAssumption
<1>4. 0 \in Time
  BY <1>3 DEF Time
<1>5. /\ Idle.step = "idle" /\ Idle.at = 0 /\ Idle.receipt = None
      /\ Idle \in [step: Steps, at: Time, receipt: Statuses \cup {None}]
  BY <1>4 DEF Idle, Steps
<1>6. QED
  BY <1>1, <1>2, <1>3, <1>5

LEMMA Typed ==
    ASSUME DInv, NEW i \in Intent
    PROVE  /\ task \in [Intent -> [step: Steps, at: Time, receipt: Statuses \cup {None}]]
           /\ task[i] \in [step: Steps, at: Time, receipt: Statuses \cup {None}]
           /\ task[i].at \in Nat /\ task[i].step \in Steps
           /\ started[i] \subseteq {"started", "recovery"}
           /\ final[i] \in Statuses \cup {None} /\ plan[i] \in Actions \cup {None}
           /\ posted[i] \in Nat /\ now \in Nat
           /\ IntentInv(i)
BY Values DEF DInv, DeliveryTypeOK, Time

\* An intent of which a step changes nothing.
Kept(i) ==
    /\ (i \in intents)' = (i \in intents)
    /\ started'[i] = started[i] /\ final'[i] = final[i] /\ posted'[i] = posted[i]
    /\ task'[i] = task[i] /\ plan'[i] = plan[i] /\ phase' = phase

LEMMA KeptKeeps ==
    ASSUME NEW i \in Intent, IntentInv(i), Kept(i)
    PROVE  IntentInv(i)'
BY DEF IntentInv, Kept, Facts, Stage, Phased, Planned, Truth

\* The task of an intent goes on to a step.
LEMMA GoesOn ==
    ASSUME DInv, NEW i \in Intent, NEW step \in Steps, Go(i, step)
    PROVE  /\ task' \in [Intent -> [step: Steps, at: Time, receipt: Statuses \cup {None}]]
           /\ task'[i].step = step /\ task'[i].at = task[i].at /\ task'[i].receipt = task[i].receipt
           /\ \A j \in Intent \ {i} : task'[j] = task[j]
<1>1. task' = [task EXCEPT ![i].step = step]
  BY DEF Go
<1>2. task'[i] = [task[i] EXCEPT !.step = step]
  BY <1>1, Typed
<1>3. \A j \in Intent \ {i} : task'[j] = task[j]
  BY <1>1, Typed
<1>4. /\ task'[i] \in [step: Steps, at: Time, receipt: Statuses \cup {None}]
      /\ task'[i].step = step /\ task'[i].at = task[i].at /\ task'[i].receipt = task[i].receipt
  BY <1>2, Typed
<1>5. task' \in [Intent -> [step: Steps, at: Time, receipt: Statuses \cup {None}]]
  BY <1>1, <1>3, <1>4, Typed
<1>6. QED
  BY <1>3, <1>4, <1>5

\* A call that raises ends what it was made for, and a recovery as a whole.
LEMMA RaiseKeeps ==
    ASSUME DInv, NEW i \in Intent, Raise(i), UNCHANGED <<now, posted>>
    PROVE  DInv'
<1>1. /\ spent.failures < MaxFailures /\ spent' = [spent EXCEPT !.failures = spent.failures + 1]
      /\ UNCHANGED <<intents, started, final, acked, now, posted>>
      /\ plan' = [j \in Intent |-> None]
      /\ task' = [j \in Intent |-> IF j = i \/ phase = "recovering" THEN Idle ELSE task[j]]
      /\ phase' = IF phase = "recovering" THEN "up" ELSE phase
  BY DEF Raise, store
<1>2. spent' \in [crashes: 0 .. MaxCrashes, failures: 0 .. MaxFailures]
  BY <1>1, Values DEF DInv, DeliveryTypeOK
<1>3. task' \in [Intent -> [step: Steps, at: Time, receipt: Statuses \cup {None}]]
  BY <1>1, Typed, Values
<1>4. DeliveryTypeOK'
  BY <1>1, <1>2, <1>3 DEF DInv, DeliveryTypeOK
<1>5. ASSUME NEW j \in Intent PROVE IntentInv(j)'
  <2>1. Facts(j)' /\ plan'[j] = None /\ phase' # "recovering"
    BY <1>1, Typed DEF IntentInv, Facts, Truth
  <2>2. CASE j = i \/ phase = "recovering"
    <3>1. task'[j] = Idle
      BY <1>1, <2>2
    <3>2. QED
      BY <2>1, <3>1, Values DEF IntentInv, Stage, Phased
  <2>3. CASE ~(j = i \/ phase = "recovering")
    <3>1. task'[j] = task[j] /\ phase' = phase
      BY <1>1, <2>3
    <3>2. QED
      BY <1>1, <2>1, <3>1, Typed DEF IntentInv, Stage, Phased, Truth
  <2>4. QED
    BY <2>2, <2>3
<1>6. QED
  BY <1>4, <1>5 DEF DInv

\* A true status closes an intent that is open.
LEMMA SettleKeeps ==
    ASSUME DInv, NEW i \in Intent, NEW status \in Statuses, Settle(i, status),
           UNCHANGED <<now, posted>>,
           i \in intents, Truth(status, posted[i])
    PROVE  DInv'
<1>1. CASE Raise(i)
  BY <1>1, RaiseKeeps
<1>2. CASE /\ final' = [final EXCEPT ![i] = status]
           /\ task' = [task EXCEPT ![i] = Idle]
           /\ plan' = [plan EXCEPT ![i] = None]
           /\ UNCHANGED <<intents, started, acked, phase, spent>>
  <2>1. DeliveryTypeOK'
    BY <1>2, Typed, Values DEF DInv, DeliveryTypeOK
  <2>2. ASSUME NEW j \in Intent \ {i} PROVE IntentInv(j)'
    <3>1. Kept(j)
      BY <1>2, Typed DEF Kept, DInv, DeliveryTypeOK
    <3>2. QED
      BY <3>1, KeptKeeps, Typed
  <2>3. final'[i] = status /\ task'[i] = Idle /\ plan'[i] = None /\ posted'[i] = posted[i]
        /\ started'[i] = started[i] /\ phase' = phase
    BY <1>2, Typed DEF DInv, DeliveryTypeOK
  <2>4. status # None /\ intents' = intents
    BY <1>2, Values
  <2>5. Facts(i)'
    BY <2>3, <2>4, Typed DEF IntentInv, Facts
  <2>6. Stage(i)'
    BY <2>3, Values DEF Stage
  <2>7. Phased(i)'
    BY <2>3, <2>4, Typed, Values DEF IntentInv, Phased, Planned, Actions
  <2>8. QED
    BY <2>1, <2>2, <2>5, <2>6, <2>7 DEF DInv, IntentInv
<1>3. QED
  BY <1>1, <1>2 DEF Settle

-----------------------------------------------------------------------------
\* The steps of a delivery.

LEMMA DeliverKeeps ==
    ASSUME DInv, NEW i \in Intent, Deliver(i)
    PROVE  DInv'
<1>1. /\ phase = "open" /\ task' = [task EXCEPT ![i] = [step |-> "intent", at |-> now, receipt |-> None]]
      /\ UNCHANGED <<now, intents, started, final, acked, phase, plan, posted, spent>>
  BY DEF Deliver, store
<1>2. DeliveryTypeOK'
  BY <1>1, Typed DEF DInv, DeliveryTypeOK, Steps
<1>3. ASSUME NEW j \in Intent \ {i} PROVE IntentInv(j)'
  BY <1>1, Typed, KeptKeeps DEF Kept
<1>4. task'[i].step = "intent" /\ plan'[i] = plan[i] /\ phase' = "open"
  BY <1>1, Typed
<1>5. Facts(i)' /\ plan[i] = None
  BY <1>1, Typed DEF IntentInv, Facts, Phased, Truth
<1>6. IntentInv(i)'
  BY <1>4, <1>5 DEF IntentInv, Stage, Phased
<1>7. QED
  BY <1>2, <1>3, <1>6 DEF DInv

\* An intent is stored once, with nothing known of it but that it was planned.
LEMMA SaveIntentKeeps ==
    ASSUME DInv, NEW i \in Intent, SaveIntent(i)
    PROVE  DInv'
<1>1. task[i].step = "intent" /\ UNCHANGED <<now, posted>>
  BY DEF SaveIntent
<1>2. phase \notin {"up", "down", "recovering"} /\ plan[i] = None
  BY <1>1, Typed, Values DEF IntentInv, Phased, Planned
<1>3. CASE /\ i \notin intents
           /\ intents' = intents \cup {i}
           /\ Go(i, IF Expired(i, task[i].at) \/ i \in Invalid THEN "reject" ELSE "start")
           /\ UNCHANGED <<started, final, acked, phase, plan, spent>>
  <2> DEFINE step == IF Expired(i, task[i].at) \/ i \in Invalid THEN "reject" ELSE "start"
  <2>1. step \in Steps /\ step \in {"reject", "start"}
    BY DEF Steps
  <2>2. step = "start" => task[i].at < Expires[i]
    BY Typed, Values DEF Expired
  <2> HIDE DEF step
  <2>3. /\ task' \in [Intent -> [step: Steps, at: Time, receipt: Statuses \cup {None}]]
        /\ task'[i].step = step /\ task'[i].at = task[i].at
        /\ \A j \in Intent \ {i} : task'[j] = task[j]
    BY <1>3, <2>1, GoesOn DEF step
  <2>4. DeliveryTypeOK'
    BY <1>1, <1>3, <2>3 DEF DInv, DeliveryTypeOK
  <2>5. ASSUME NEW j \in Intent \ {i} PROVE IntentInv(j)'
    BY <1>1, <1>3, <2>3, Typed, KeptKeeps DEF Kept
  <2>6. started[i] = {} /\ final[i] = None /\ posted[i] = 0
    BY <1>3, Typed DEF IntentInv, Facts
  <2>7. /\ started'[i] = {} /\ final'[i] = None /\ posted'[i] = 0 /\ i \in intents'
        /\ plan'[i] = None /\ phase' = phase
    BY <1>1, <1>2, <1>3, <2>6
  <2>8. IntentInv(i)'
    BY <1>2, <2>1, <2>2, <2>3, <2>7 DEF IntentInv, Facts, Stage, Phased
  <2>9. QED
    BY <2>4, <2>5, <2>8 DEF DInv
<1>4. CASE /\ task' = [task EXCEPT ![i] = Idle]
           /\ UNCHANGED <<store, phase, plan, spent>>
  <2>1. UNCHANGED <<intents, started, final, acked, phase, plan, spent>>
    BY <1>4 DEF store
  <2>2. DeliveryTypeOK'
    BY <1>1, <1>4, <2>1, Typed, Values DEF DInv, DeliveryTypeOK
  <2>3. ASSUME NEW j \in Intent \ {i} PROVE IntentInv(j)'
    BY <1>1, <1>4, <2>1, Typed, KeptKeeps DEF Kept
  <2>4. task'[i] = Idle
    BY <1>4, Typed
  <2>5. IntentInv(i)'
    BY <1>1, <1>2, <2>1, <2>4, Typed, Values DEF IntentInv, Facts, Stage, Phased, Truth
  <2>6. QED
    BY <2>2, <2>3, <2>5 DEF DInv
<1>5. QED
  BY <1>1, <1>3, <1>4, RaiseKeeps DEF SaveIntent

LEMMA RejectKeeps ==
    ASSUME DInv, NEW i \in Intent, Reject(i)
    PROVE  DInv'
<1>1. /\ task[i].step = "reject" /\ Settle(i, "REJECTED_BEFORE_SEND")
      /\ UNCHANGED <<now, posted>>
  BY DEF Reject
<1>2. i \in intents /\ posted[i] = 0
  BY <1>1, Typed DEF IntentInv, Facts, Stage
<1>3. "REJECTED_BEFORE_SEND" \in Statuses /\ Truth("REJECTED_BEFORE_SEND", posted[i])
  BY <1>2 DEF Statuses, Truth
<1>4. QED
  BY <1>1, <1>2, <1>3, SettleKeeps

LEMMA StartSendKeeps ==
    ASSUME DInv, NEW i \in Intent, StartSend(i)
    PROVE  DInv'
<1>1. task[i].step = "start" /\ UNCHANGED <<now, posted>>
  BY DEF StartSend
<1>2. CASE Raise(i)
  BY <1>1, <1>2, RaiseKeeps
<1>3. ASSUME NEW fact \in {"started", "recovery"},
             started' = [started EXCEPT ![i] = started[i] \cup {fact}],
             UNCHANGED final, Saved(i, "send")
      PROVE  DInv'
  <2>1. Go(i, "send") /\ UNCHANGED <<intents, acked, phase, plan, spent>>
    BY <1>3 DEF Saved
  <2>2. "send" \in Steps
    BY DEF Steps
  <2>3. /\ task' \in [Intent -> [step: Steps, at: Time, receipt: Statuses \cup {None}]]
        /\ task'[i].step = "send" /\ task'[i].at = task[i].at
        /\ \A j \in Intent \ {i} : task'[j] = task[j]
    BY <2>1, <2>2, GoesOn
  <2>4. /\ started' \in [Intent -> SUBSET {"started", "recovery"}] /\ started'[i] # {}
        /\ \A j \in Intent \ {i} : started'[j] = started[j]
    BY <1>3, Typed DEF DInv, DeliveryTypeOK
  <2>5. DeliveryTypeOK'
    BY <1>1, <1>3, <2>1, <2>3, <2>4 DEF DInv, DeliveryTypeOK
  <2>6. ASSUME NEW j \in Intent \ {i} PROVE IntentInv(j)'
    BY <1>1, <1>3, <2>1, <2>3, <2>4, Typed, KeptKeeps DEF Kept
  <2>7. i \in intents /\ final[i] = None /\ posted[i] = 0 /\ task[i].at < Expires[i]
    BY <1>1, Typed DEF IntentInv, Facts, Stage
  <2>8. /\ i \in intents' /\ final'[i] = None /\ posted'[i] = 0 /\ plan'[i] = plan[i] /\ phase' = phase
    BY <1>1, <1>3, <2>1, <2>7
  <2>9. Facts(i)' /\ Stage(i)'
    BY <2>3, <2>4, <2>7, <2>8 DEF Facts, Stage
  <2>10. phase \notin {"up", "down"} /\ Phased(i)
    BY <1>1, Typed, Values DEF IntentInv, Phased
  <2>11. Phased(i)'
    BY <1>1, <2>3, <2>4, <2>8, <2>10, Values DEF Phased, Planned, Actions
  <2>12. QED
    BY <2>5, <2>6, <2>9, <2>11 DEF DInv, IntentInv
<1>4. CASE /\ started' = [started EXCEPT ![i] = @ \cup {IF phase = "recovering" THEN "recovery" ELSE "started"}]
           /\ UNCHANGED final
           /\ Saved(i, "send")
  BY <1>3, <1>4
<1>5. QED
  BY <1>2, <1>4 DEF StartSend

\* The one step that posts: its intent was never posted, and is not final.
LEMMA SendKeeps ==
    ASSUME DInv, NEW i \in Intent, Send(i)
    PROVE  DInv'
<1>1. PICK receipt \in Statuses, arrived \in {0, 1} :
        /\ receipt = "CONFIRMED_DELIVERED" => arrived = 1
        /\ receipt \in {"FAILED", "REJECTED_BEFORE_SEND"} => arrived = 0
        /\ posted' = [posted EXCEPT ![i] = posted[i] + arrived]
        /\ task' = [task EXCEPT ![i].step = "result", ![i].receipt = receipt]
  BY DEF Send
<1>2. task[i].step = "send" /\ UNCHANGED <<now, intents, started, final, acked, phase, plan, spent>>
  BY DEF Send, store
<1>3. started[i] # {} /\ final[i] = None /\ posted[i] = 0 /\ i \in intents
  BY <1>2, Typed DEF IntentInv, Stage, Facts
<1>4. /\ posted'[i] = arrived /\ posted' \in [Intent -> Nat]
      /\ \A j \in Intent \ {i} : posted'[j] = posted[j]
  BY <1>1, <1>3 DEF DInv, DeliveryTypeOK
<1>5. task'[i] = [task[i] EXCEPT !.step = "result", !.receipt = receipt]
  BY <1>1, Typed
<1>6. /\ task'[i] \in [step: Steps, at: Time, receipt: Statuses \cup {None}]
      /\ task'[i].step = "result" /\ task'[i].at = task[i].at /\ task'[i].receipt = receipt
  BY <1>5, Typed DEF Steps
<1>7. /\ task' \in [Intent -> [step: Steps, at: Time, receipt: Statuses \cup {None}]]
      /\ \A j \in Intent \ {i} : task'[j] = task[j]
  BY <1>1, <1>6, Typed
<1>8. DeliveryTypeOK'
  BY <1>2, <1>4, <1>7 DEF DInv, DeliveryTypeOK
<1>9. ASSUME NEW j \in Intent \ {i} PROVE IntentInv(j)'
  BY <1>2, <1>4, <1>7, Typed, KeptKeeps DEF Kept
<1>10. Truth(receipt, arrived)
  BY <1>1 DEF Truth
<1>11. Facts(i)' /\ Stage(i)'
  BY <1>2, <1>3, <1>4, <1>6, <1>10 DEF Facts, Stage
<1>12. phase \notin {"up", "down"} /\ Phased(i)
  BY <1>2, Typed, Values DEF IntentInv, Phased
<1>13. Phased(i)'
  BY <1>2, <1>3, <1>6, <1>12, Values DEF Phased, Planned, Actions
<1>14. QED
  BY <1>8, <1>9, <1>11, <1>13 DEF DInv, IntentInv

LEMMA SaveResultKeeps ==
    ASSUME DInv, NEW i \in Intent, SaveResult(i)
    PROVE  DInv'
<1>1. /\ task[i].step = "result" /\ Settle(i, task[i].receipt)
      /\ UNCHANGED <<now, posted>>
  BY DEF SaveResult
<1>2. i \in intents /\ task[i].receipt \in Statuses /\ Truth(task[i].receipt, posted[i])
  BY <1>1, Typed DEF IntentInv, Facts, Stage
<1>3. QED
  BY <1>1, <1>2, SettleKeeps

LEMMA AcknowledgeKeeps ==
    ASSUME DInv, NEW i \in Intent, Acknowledge(i)
    PROVE  DInv'
<1>1. /\ acked' = acked \cup {i}
      /\ UNCHANGED <<now, intents, started, final, phase, task, plan, posted, spent>>
  BY DEF Acknowledge, process
<1>2. DeliveryTypeOK'
  BY <1>1 DEF DInv, DeliveryTypeOK
<1>3. ASSUME NEW j \in Intent PROVE IntentInv(j)'
  BY <1>1, Typed, KeptKeeps DEF Kept
<1>4. QED
  BY <1>2, <1>3 DEF DInv

-----------------------------------------------------------------------------
\* The steps of a recovery.

\* The classification of a stored intent is the truth about it.
LEMMA PlanKeeps ==
    ASSUME DInv, Plan
    PROVE  DInv'
<1>1. /\ \A i \in Intent : task[i] = Idle
      /\ phase' = "recovering"
      /\ plan' = [i \in Intent |-> IF i \in intents THEN Classify(i, now) ELSE None]
      /\ task' = [i \in Intent |-> [Idle EXCEPT !.at = IF i \in intents THEN now ELSE 0]]
      /\ UNCHANGED <<now, intents, started, final, acked, posted, spent>>
  BY DEF Plan, store
<1>2. ASSUME NEW i \in Intent
      PROVE  /\ Classify(i, now) \in Actions
             /\ Classify(i, now) = "COMPLETE" => final[i] # None
             /\ Classify(i, now) = "UNCERTAIN_NO_RESEND" => started[i] # {} /\ final[i] = None
             /\ Classify(i, now) = "EXPIRED_NO_SEND" => started[i] = {} /\ final[i] = None
             /\ Classify(i, now) = "RETRY" => started[i] = {} /\ final[i] = None /\ now < Expires[i]
  BY Typed, Values DEF Classify, Expired, Actions
<1>3. now \in Time /\ 0 \in Time
  BY Values DEF DInv, DeliveryTypeOK, Time
<1>4. ASSUME NEW i \in Intent
      PROVE  /\ task'[i] \in [step: Steps, at: Time, receipt: Statuses \cup {None}]
             /\ task'[i].step = "idle" /\ i \in intents => task'[i].at = now
             /\ task'[i].step = "idle"
  BY <1>1, <1>3 DEF Idle, Steps
<1>5. task' \in [Intent -> [step: Steps, at: Time, receipt: Statuses \cup {None}]]
  BY <1>1, <1>4
<1>6. plan' \in [Intent -> Actions \cup {None}]
  BY <1>1, <1>2
<1>7. DeliveryTypeOK'
  BY <1>1, <1>5, <1>6 DEF DInv, DeliveryTypeOK
<1>8. ASSUME NEW i \in Intent PROVE IntentInv(i)'
  <2>1. Facts(i)'
    BY <1>1, Typed DEF IntentInv, Facts, Truth
  <2>2. Stage(i)'
    BY <1>4 DEF Stage
  <2>3. CASE i \in intents
    <3>1. plan'[i] = Classify(i, now) /\ plan'[i] # None
      BY <1>1, <1>2, <2>3, Values
    <3>2. Phased(i)'
      BY <1>1, <1>2, <1>4, <2>3, <3>1 DEF Phased, Planned
    <3>3. QED
      BY <2>1, <2>2, <3>2 DEF IntentInv
  <2>4. CASE i \notin intents
    <3>1. plan'[i] = None /\ i \notin intents'
      BY <1>1, <2>4
    <3>2. Phased(i)'
      BY <1>1, <1>4, <3>1, Values DEF Phased, Planned, Actions
    <3>3. QED
      BY <2>1, <2>2, <3>2 DEF IntentInv
  <2>5. QED
    BY <2>3, <2>4
<1>9. QED
  BY <1>7, <1>8 DEF DInv

LEMMA SkipCompleteKeeps ==
    ASSUME DInv, NEW i \in Intent, SkipComplete(i)
    PROVE  DInv'
<1>1. /\ phase = "recovering" /\ plan[i] = "COMPLETE"
      /\ task' = [task EXCEPT ![i] = Idle] /\ plan' = [plan EXCEPT ![i] = None]
      /\ UNCHANGED <<now, intents, started, final, acked, phase, posted, spent>>
  BY DEF SkipComplete, Turn, Done, store
<1>2. final[i] # None
  BY <1>1, Typed DEF IntentInv, Phased, Planned
<1>3. DeliveryTypeOK'
  BY <1>1, Typed, Values DEF DInv, DeliveryTypeOK
<1>4. ASSUME NEW j \in Intent \ {i} PROVE IntentInv(j)'
  <2>1. plan'[j] = plan[j] /\ task'[j] = task[j]
    BY <1>1, Typed
  <2>2. QED
    BY <1>1, <2>1, Typed, KeptKeeps DEF Kept
<1>5. task'[i] = Idle /\ plan'[i] = None
  BY <1>1, Typed DEF DInv, DeliveryTypeOK
<1>6. Facts(i)' /\ Stage(i)'
  BY <1>1, <1>5, Typed, Values DEF IntentInv, Facts, Stage, Truth
<1>7. Phased(i)'
  BY <1>1, <1>2, <1>5, Values DEF Phased, Planned, Actions
<1>8. QED
  BY <1>3, <1>4, <1>6, <1>7 DEF DInv, IntentInv

LEMMA CloseUncertainKeeps ==
    ASSUME DInv, NEW i \in Intent, CloseUncertain(i)
    PROVE  DInv'
<1>1. /\ phase = "recovering" /\ plan[i] = "UNCERTAIN_NO_RESEND"
      /\ Settle(i, "UNKNOWN") /\ UNCHANGED <<now, posted>>
  BY DEF CloseUncertain, Turn
<1>2. i \in intents
  BY <1>1, Typed, Values DEF IntentInv, Phased, Planned, Actions
<1>3. "UNKNOWN" \in Statuses /\ Truth("UNKNOWN", posted[i])
  BY DEF Statuses, Truth
<1>4. QED
  BY <1>1, <1>2, <1>3, SettleKeeps

\* No SEND_STARTED fact, so no message.
LEMMA CloseExpiredKeeps ==
    ASSUME DInv, NEW i \in Intent, CloseExpired(i)
    PROVE  DInv'
<1>1. /\ phase = "recovering" /\ plan[i] = "EXPIRED_NO_SEND"
      /\ Settle(i, "REJECTED_BEFORE_SEND") /\ UNCHANGED <<now, posted>>
  BY DEF CloseExpired, Turn
<1>2. i \in intents /\ started[i] = {}
  BY <1>1, Typed, Values DEF IntentInv, Phased, Planned, Actions
<1>3. posted[i] = 0
  BY <1>2, Typed DEF IntentInv, Facts
<1>4. "REJECTED_BEFORE_SEND" \in Statuses /\ Truth("REJECTED_BEFORE_SEND", posted[i])
  BY <1>3 DEF Statuses, Truth
<1>5. QED
  BY <1>1, <1>2, <1>4, SettleKeeps

LEMMA RetryKeeps ==
    ASSUME DInv, NEW i \in Intent, Retry(i)
    PROVE  DInv'
<1>1. /\ phase = "recovering" /\ plan[i] = "RETRY" /\ task[i].step = "idle" /\ Go(i, "start")
      /\ UNCHANGED <<now, intents, started, final, acked, phase, plan, posted, spent>>
  BY DEF Retry, Turn, store
<1>2. i \in intents /\ started[i] = {} /\ final[i] = None /\ task[i].at < Expires[i]
  BY <1>1, Typed, Values DEF IntentInv, Phased, Planned, Actions
<1>3. "start" \in Steps
  BY DEF Steps
<1>4. /\ task' \in [Intent -> [step: Steps, at: Time, receipt: Statuses \cup {None}]]
      /\ task'[i].step = "start" /\ task'[i].at = task[i].at
      /\ \A j \in Intent \ {i} : task'[j] = task[j]
  BY <1>1, <1>3, GoesOn
<1>5. DeliveryTypeOK'
  BY <1>1, <1>4 DEF DInv, DeliveryTypeOK
<1>6. ASSUME NEW j \in Intent \ {i} PROVE IntentInv(j)'
  BY <1>1, <1>4, Typed, KeptKeeps DEF Kept
<1>7. Facts(i)' /\ Stage(i)'
  BY <1>1, <1>2, <1>4, Typed DEF IntentInv, Facts, Stage, Truth
<1>8. Phased(i)'
  BY <1>1, <1>2, <1>4, Values DEF Phased, Planned, Actions
<1>9. QED
  BY <1>5, <1>6, <1>7, <1>8 DEF DInv, IntentInv

\* With nothing left of the plan no delivery or recovery is under way.
LEMMA ResumedKeeps ==
    ASSUME DInv, Resumed
    PROVE  DInv' /\ \A i \in intents : final[i] # None
<1>1. /\ phase = "recovering" /\ phase' = "open" /\ \A i \in Intent : plan[i] = None
      /\ UNCHANGED <<now, intents, started, final, acked, task, plan, posted, spent>>
  BY DEF Resumed, store
<1>2. DeliveryTypeOK'
  BY <1>1 DEF DInv, DeliveryTypeOK
<1>3. ASSUME NEW i \in Intent
      PROVE  IntentInv(i)' /\ (i \in intents => final[i] # None)
  BY <1>1, Typed DEF IntentInv, Facts, Stage, Phased, Planned, Truth
<1>4. intents \subseteq Intent
  BY DEF DInv, DeliveryTypeOK
<1>5. QED
  BY <1>2, <1>3, <1>4 DEF DInv

-----------------------------------------------------------------------------
\* The process and the clock.

LEMMA CrashKeeps ==
    ASSUME DInv, Crash
    PROVE  DInv'
<1>1. /\ spent.crashes < MaxCrashes /\ spent' = [spent EXCEPT !.crashes = spent.crashes + 1]
      /\ phase' = "down" /\ task' = [i \in Intent |-> Idle] /\ plan' = [i \in Intent |-> None]
      /\ UNCHANGED <<now, intents, started, final, acked, posted>>
  BY DEF Crash, store
<1>2. spent' \in [crashes: 0 .. MaxCrashes, failures: 0 .. MaxFailures]
  BY <1>1, Values DEF DInv, DeliveryTypeOK
<1>3. DeliveryTypeOK'
  BY <1>1, <1>2, Values DEF DInv, DeliveryTypeOK
<1>4. ASSUME NEW i \in Intent PROVE IntentInv(i)'
  BY <1>1, Typed, Values DEF IntentInv, Facts, Stage, Phased, Truth
<1>5. QED
  BY <1>3, <1>4 DEF DInv

LEMMA RestartKeeps ==
    ASSUME DInv, Restart
    PROVE  DInv'
<1>1. /\ phase = "down" /\ phase' = "up"
      /\ UNCHANGED <<now, intents, started, final, acked, task, plan, posted, spent>>
  BY DEF Restart, store
<1>2. DeliveryTypeOK'
  BY <1>1 DEF DInv, DeliveryTypeOK
<1>3. ASSUME NEW i \in Intent PROVE IntentInv(i)'
  BY <1>1, Typed DEF IntentInv, Facts, Stage, Phased, Truth
<1>4. QED
  BY <1>2, <1>3 DEF DInv

LEMMA TickKeeps ==
    ASSUME DInv, Tick
    PROVE  DInv'
<1>1. /\ now < MaxTime /\ now' = now + 1
      /\ UNCHANGED <<intents, started, final, acked, phase, task, plan, posted, spent>>
  BY DEF Tick, store, process
<1>2. now' \in Time
  BY <1>1, Values DEF DInv, DeliveryTypeOK, Time
<1>3. DeliveryTypeOK'
  BY <1>1, <1>2 DEF DInv, DeliveryTypeOK
<1>4. ASSUME NEW i \in Intent PROVE IntentInv(i)'
  BY <1>1, Typed, KeptKeeps DEF Kept
<1>5. QED
  BY <1>3, <1>4 DEF DInv

-----------------------------------------------------------------------------

LEMMA InitHolds ==
    ASSUME DeliveryInit
    PROVE  DInv
<1>1. 0 \in Time /\ 0 \in 0 .. MaxCrashes /\ 0 \in 0 .. MaxFailures
  BY Values DEF Time
<1>2. DeliveryTypeOK
  BY <1>1, Values DEF DeliveryInit, DeliveryTypeOK
<1>3. ASSUME NEW i \in Intent PROVE IntentInv(i)
  BY Values DEF DeliveryInit, IntentInv, Facts, Stage, Phased
<1>4. QED
  BY <1>2, <1>3 DEF DInv

LEMMA NextKeeps ==
    ASSUME DInv, [DeliveryNext]_deliveryVars
    PROVE  DInv'
<1>1. ASSUME NEW i \in Intent,
             \/ Deliver(i) \/ SaveIntent(i) \/ Reject(i)
             \/ StartSend(i) \/ Send(i) \/ SaveResult(i) \/ Acknowledge(i)
             \/ SkipComplete(i) \/ CloseUncertain(i) \/ CloseExpired(i) \/ Retry(i)
      PROVE  DInv'
  BY <1>1, DeliverKeeps, SaveIntentKeeps, RejectKeeps, StartSendKeeps, SendKeeps, SaveResultKeeps,
     AcknowledgeKeeps, SkipCompleteKeeps, CloseUncertainKeeps, CloseExpiredKeeps, RetryKeeps
<1>2. ASSUME Plan \/ Resumed \/ Crash \/ Restart \/ Tick
      PROVE  DInv'
  BY <1>2, PlanKeeps, ResumedKeeps, CrashKeeps, RestartKeeps, TickKeeps
<1>3. CASE UNCHANGED deliveryVars
  <2>1. UNCHANGED <<now, intents, started, final, acked, phase, task, plan, posted, spent>>
    BY <1>3 DEF deliveryVars, store, process
  <2>2. DeliveryTypeOK'
    BY <2>1 DEF DInv, DeliveryTypeOK
  <2>3. ASSUME NEW i \in Intent PROVE IntentInv(i)'
    BY <2>1, Typed, KeptKeeps DEF Kept
  <2>4. QED
    BY <2>2, <2>3 DEF DInv
<1>4. QED
  BY <1>1, <1>2, <1>3 DEF DeliveryNext

\* What a delivery or a recovery has found out about its intent stays true until
\* it acts on it (deliver_candidate, resume and _close over EventStore).
THEOREM DeliveryInvariant == DeliverySpec => []DInv
<1>1. DeliveryInit => DInv
  BY InitHolds
<1>2. DInv /\ [DeliveryNext]_deliveryVars => DInv'
  BY NextKeeps
<1>3. QED
  BY <1>1, <1>2, PTL DEF DeliverySpec

\* Every state has its type.
THEOREM DeliveryTypes == DeliverySpec => []DeliveryTypeOK
<1>1. DInv => DeliveryTypeOK
  BY DEF DInv
<1>2. QED
  BY <1>1, DeliveryInvariant, PTL

\* One intent reaches the channel at most once, whatever crashes, fails or is
\* recovered, and is never sent by a delivery begun at its expiry or later.
THEOREM PostedAtMostOnce == DeliverySpec => []PostedOnce
<1>1. DInv => PostedOnce
  BY DEF DInv, IntentInv, Facts, Stage, PostedOnce
<1>2. QED
  BY <1>1, DeliveryInvariant, PTL

\* The status that closes an intent agrees with what reached the channel.
THEOREM FinalIsAlwaysTrue == DeliverySpec => []FinalIsTrue
<1>1. ASSUME DInv, NEW i \in Intent
      PROVE  /\ final[i] \in {"REJECTED_BEFORE_SEND", "FAILED"} => posted[i] = 0
             /\ final[i] = "CONFIRMED_DELIVERED" => posted[i] = 1
  <2>1. Facts(i)
    BY <1>1, Typed DEF IntentInv
  <2>2. "REJECTED_BEFORE_SEND" # None /\ "FAILED" # None /\ "CONFIRMED_DELIVERED" # None
    BY Values DEF Statuses
  <2>3. QED
    BY <2>1, <2>2 DEF Facts, Truth
<1>2. DInv => FinalIsTrue
  BY <1>1 DEF FinalIsTrue
<1>3. QED
  BY <1>2, DeliveryInvariant, PTL

\* A recovery that returns leaves no stored intent without its final fact.
THEOREM RecoveryCloses == DeliverySpec => RecoveredIsClosed
<1>1. DInv /\ [DeliveryNext]_deliveryVars
        => [Resumed => \A i \in intents : final[i] # None]_deliveryVars
  BY ResumedKeeps
<1>2. QED
  BY <1>1, DeliveryInvariant, PTL DEF DeliverySpec, RecoveredIsClosed

=============================================================================
