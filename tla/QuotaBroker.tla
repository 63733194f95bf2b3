---------------------------- MODULE QuotaBroker ------------------------------
(* The quota broker (quota_broker.py): admission of provider requests by two  *)
(* callers over shared scopes, its budget clients (provider_budget.py), and   *)
(* the exit registry that settles the admissions of a dead compute child      *)
(* (exit_control.py).                                                         *)
(*                                                                            *)
(* The budget socket is served by one thread, the control socket by another:  *)
(* a reserve reads the clock and asks the registry about its owner in one     *)
(* transaction and decides in a later one. Every request charges one unit.    *)
EXTENDS Naturals, FiniteSets

CONSTANTS Bot, Web,        \* processes of the bot; compute children
          Attempt,         \* attempt ids, each minted by one process
          OwnerOf,
          Scope, ScopesOf, \* the scopes an attempt's endpoint is mapped to
          Allocation,      \* caller -> scope -> units a window may hold
          MaxConcurrency,  \* scope -> unfinished admissions at once
          Window, RetryAfter,
          Batch,           \* 100 rows in the code
          None

\* Bounds of one behaviour.
CONSTANTS MaxTime, MaxLost, MaxRestarts

Process == Bot \cup Web
Caller == {"bot", "dashboard"}
CallerOf(a) == IF OwnerOf[a] \in Bot THEN "bot" ELSE "dashboard"
Time == 0 .. MaxTime

ASSUME ProcessAssumption ==
    /\ Bot \cap Web = {}
    /\ OwnerOf \in [Attempt -> Process]
    /\ ScopesOf \in [Attempt -> SUBSET Scope]
    /\ None \notin Attempt \cup Web \cup Nat

ASSUME LimitAssumption ==
    /\ IsFiniteSet(Attempt) /\ IsFiniteSet(Scope)
    /\ Allocation \in [Caller -> [Scope -> Nat]]
    /\ MaxConcurrency \in [Scope -> Nat]
    /\ {Window, RetryAfter, Batch} \subseteq Nat \ {0}
    /\ {MaxTime, MaxLost, MaxRestarts} \subseteq Nat

VARIABLES
    now,
    admitted,    \* quota_attempts: attempt -> when it was admitted, or None
    unfinished,  \* provider_admissions: attempt -> scopes whose finished_at is NULL
    noted,       \* the attempts with an outcome on some row
    hold,        \* provider_cooldowns: scope -> not_before
    tomb,        \* trusted_workers: child -> no row, registered, reconciled, forgotten
    server,      \* the reserve that passed the owner check, and the clock it read
    settling,    \* the child whose exit is between its batch and the pending check
    alive,
    call,        \* attempt -> where its client is
    spent        \* faults so far

quotaLedger == <<admitted, unfinished, noted, hold>>
registry == <<tomb, settling>>
quotaVars == <<now, quotaLedger, registry, server, alive, call, spent>>

Free == [attempt |-> None, at |-> 0]
CallState == {"new", "asking", "unanswered", "granted", "denied", "sent", "throttled", "done"}
InFlight == {a \in Attempt : call[a] \in {"sent", "throttled"} /\ OwnerOf[a] \in alive}

ClockOK == now \in Time /\ server \in [attempt: Attempt \cup {None}, at: Time]
RowsOK == /\ admitted \in [Attempt -> Time \cup {None}]
          /\ unfinished \in [Attempt -> SUBSET Scope]
          /\ noted \subseteq Attempt
          /\ hold \in [Scope -> 0 .. MaxTime + RetryAfter]
RegistryOK == /\ tomb \in [Web -> {"unknown", "registered", "reconciled", "forgotten"}]
              /\ settling \in Web \cup {None}
ClientsOK == /\ alive \subseteq Process
             /\ call \in [Attempt -> CallState]
             /\ spent \in [lost: 0 .. MaxLost, restarts: 0 .. MaxRestarts]
QuotaTypeOK == ClockOK /\ RowsOK /\ RegistryOK /\ ClientsOK

QuotaInit ==
    /\ now = 0
    /\ admitted = [a \in Attempt |-> None]
    /\ unfinished = [a \in Attempt |-> {}]
    /\ noted = {}
    /\ hold = [s \in Scope |-> 0]
    /\ tomb = [w \in Web |-> "unknown"] /\ settling = None
    /\ server = Free
    /\ alive = Bot
    /\ call = [a \in Attempt |-> "new"]
    /\ spent = [lost |-> 0, restarts |-> 0]

-----------------------------------------------------------------------------
\* What the admission transaction reads.

Admitted == {a \in Attempt : admitted[a] # None}
Charged(caller, s, t) ==
    {a \in Admitted : CallerOf(a) = caller /\ s \in ScopesOf[a] /\ admitted[a] + Window > t}
Open(s) == {a \in Attempt : s \in unfinished[a]}

FitsOffByOne(a, t) ==                                    \* mutant of Fits
    \A s \in ScopesOf[a] : Cardinality(Charged(CallerOf(a), s, t)) <= Allocation[CallerOf(a)][s]
Fits(a, t) ==
    \A s \in ScopesOf[a] : Cardinality(Charged(CallerOf(a), s, t)) + 1 <= Allocation[CallerOf(a)][s]
Idle(a) == \A s \in ScopesOf[a] : Cardinality(Open(s)) < MaxConcurrency[s]
Cooled(a, t) == \A s \in ScopesOf[a] : hold[s] <= t

\* A repeated reserve returns its permit only while it could not have been used
\* under another count: nothing noted on it, nothing settled, its window open.
Renewable(a, t) == /\ a \notin noted
                   /\ unfinished[a] = ScopesOf[a]
                   /\ admitted[a] + Window > t

-----------------------------------------------------------------------------
\* Clients. A reply may be lost on its way, or find its reader dead.

Answer(a, reply) ==
    \/ call' = [call EXCEPT ![a] = reply] /\ UNCHANGED spent
    \/ /\ spent.lost < MaxLost
       /\ spent' = [spent EXCEPT !.lost = @ + 1]
       /\ call' = [call EXCEPT ![a] = "unanswered"]

\* A first reserve, or the same one again after a lost reply.
Ask(a) ==
    /\ call[a] \in {"new", "unanswered"} /\ OwnerOf[a] \in alive
    /\ call' = [call EXCEPT ![a] = "asking"]
    /\ UNCHANGED <<now, quotaLedger, registry, server, alive, spent>>

Send(a) ==
    /\ call[a] = "granted" /\ OwnerOf[a] \in alive
    /\ call' = [call EXCEPT ![a] = "sent"]
    /\ UNCHANGED <<now, quotaLedger, registry, server, alive, spent>>

-----------------------------------------------------------------------------
\* The budget thread: reserve in two transactions, finish in one.

KnownOwner(a) == OwnerOf[a] \in Web => tomb[OwnerOf[a]] = "registered"

\* The peer's identity, the clock and dashboard_owner_allowed.
TakeReserve(a) ==
    /\ server = Free /\ call[a] = "asking"
    /\ OwnerOf[a] \in alive
    /\ IF KnownOwner(a)
       THEN server' = [attempt |-> a, at |-> now] /\ UNCHANGED <<call, spent>>
       ELSE Answer(a, "denied") /\ UNCHANGED server
    /\ UNCHANGED <<now, quotaLedger, registry, alive>>

Reserving(a) == server.attempt = a /\ server' = Free

\* Mutant of Renew: the repeated reserve forgets the hold.
RenewAnyway(a) ==
    /\ Reserving(a) /\ admitted[a] # None
    /\ Answer(a, IF Renewable(a, server.at) THEN "granted" ELSE "denied")
    /\ UNCHANGED <<now, quotaLedger, registry, alive>>

\* reserve: the attempt was admitted before.
Renew(a) ==
    /\ Reserving(a) /\ admitted[a] # None
    /\ Answer(a, IF Renewable(a, server.at) /\ Cooled(a, server.at) THEN "granted" ELSE "denied")
    /\ UNCHANGED <<now, quotaLedger, registry, alive>>

\* reserve: a new attempt that every scope can take.
Admit(a) ==
    /\ Reserving(a) /\ admitted[a] = None
    /\ Fits(a, server.at) /\ Idle(a) /\ Cooled(a, server.at)
    /\ admitted' = [admitted EXCEPT ![a] = server.at]
    /\ unfinished' = [unfinished EXCEPT ![a] = ScopesOf[a]]
    /\ Answer(a, "granted")
    /\ UNCHANGED <<now, noted, hold, registry, alive>>

\* reserve: a scope is full, busy or cooling down.
Defer(a) ==
    /\ Reserving(a) /\ admitted[a] = None
    /\ ~(Fits(a, server.at) /\ Idle(a) /\ Cooled(a, server.at))
    /\ Answer(a, "denied")
    /\ UNCHANGED <<now, quotaLedger, registry, alive>>

HeldOnTop(s) == hold[s] + RetryAfter                     \* mutant of Held
Held(s) == IF hold[s] > now + RetryAfter THEN hold[s] ELSE now + RetryAfter
Throttles == {"429", "429_uncertain"}
Uncertain == {"uncertain", "429_uncertain"}

\* finish: ignored once every row of the attempt is finished.
FinishReleases(a, outcome) ==                            \* mutant of Finish
    /\ hold' = [s \in Scope |-> IF outcome \in Throttles /\ s \in ScopesOf[a] THEN Held(s) ELSE hold[s]]
    /\ unfinished' = [unfinished EXCEPT ![a] = {}]
    /\ noted' = noted \cup {a}
Finish(a, outcome) ==
    IF unfinished[a] = {} THEN UNCHANGED <<hold, unfinished, noted>>
    ELSE /\ hold' = [s \in Scope |-> IF outcome \in Throttles /\ s \in ScopesOf[a]
                                     THEN Held(s) ELSE hold[s]]
         /\ unfinished' = IF outcome \in Uncertain THEN unfinished
                          ELSE [unfinished EXCEPT ![a] = {}]
         /\ noted' = noted \cup {a}

\* A finish that never reaches the broker changes nothing: the client gives up.
Report(a, outcome) ==
    \/ server = Free /\ Finish(a, outcome) /\ UNCHANGED spent
    \/ /\ spent.lost < MaxLost
       /\ spent' = [spent EXCEPT !.lost = @ + 1]
       /\ UNCHANGED <<hold, unfinished, noted>>

\* The headers say 429: hold the scope before the body is read.
SeeThrottle(a) ==
    /\ call[a] = "sent" /\ OwnerOf[a] \in alive
    /\ Report(a, "429_uncertain")
    /\ call' = [call EXCEPT ![a] = "throttled"]
    /\ UNCHANGED <<now, admitted, registry, server, alive>>

\* The request ends, or its transport raises.
EndRequest(a) ==
    /\ call[a] \in {"sent", "throttled"} /\ OwnerOf[a] \in alive
    /\ \E outcome \in IF call[a] = "throttled" THEN Throttles
                      ELSE {"completed", "failed", "uncertain"} \cup Throttles :
          Report(a, outcome)
    /\ call' = [call EXCEPT ![a] = "done"]
    /\ UNCHANGED <<now, admitted, registry, server, alive>>

-----------------------------------------------------------------------------
\* Compute children and the control thread.

\* Registered while gated, then admitted; its predecessor is settled.
Start(w) ==
    /\ tomb[w] = "unknown" /\ Web \cap alive = {}
    /\ \A v \in Web : tomb[v] # "registered"
    /\ alive' = alive \cup {w}
    /\ tomb' = [tomb EXCEPT ![w] = "registered"]
    /\ UNCHANGED <<now, quotaLedger, settling, server, call, spent>>

Die(p) ==
    /\ p \in alive
    /\ alive' = alive \ {p}
    /\ UNCHANGED <<now, quotaLedger, registry, server, call, spent>>

Rows(w) == {row \in Attempt \X Scope : OwnerOf[row[1]] = w /\ row[2] \in unfinished[row[1]]}
Exited(w) == tomb[w] \in {"registered", "reconciled"} /\ w \notin alive

\* reconcile_exited: at most Batch rows of a dead child, in any order.
SettleBatch(w) ==
    /\ settling = None /\ Exited(w)
    /\ \E batch \in SUBSET Rows(w) :
        /\ Cardinality(batch) = Batch \/ (Cardinality(batch) < Batch /\ batch = Rows(w))
        /\ unfinished' = [a \in Attempt |-> {s \in unfinished[a] : <<a, s>> \notin batch}]
        /\ noted' = noted \cup {row[1] : row \in batch}
    /\ settling' = w
    /\ UNCHANGED <<now, admitted, hold, tomb, server, alive, call, spent>>

\* The pending check that closes the registry row.
Settled(w) ==
    /\ settling = w /\ settling' = None
    /\ tomb' = IF Rows(w) = {} THEN [tomb EXCEPT ![w] = "reconciled"] ELSE tomb
    /\ UNCHANGED <<now, quotaLedger, server, alive, call, spent>>

ForgetExit(w) ==
    /\ settling = None /\ tomb[w] = "reconciled"
    /\ tomb' = [tomb EXCEPT ![w] = "forgotten"]
    /\ UNCHANGED <<now, quotaLedger, settling, server, alive, call, spent>>

\* The broker is restarted: what its two threads had in hand is gone.
Restart ==
    /\ spent.restarts < MaxRestarts
    /\ spent' = [spent EXCEPT !.restarts = @ + 1]
    /\ server' = Free /\ settling' = None
    /\ call' = [a \in Attempt |-> IF call[a] = "asking" THEN "unanswered" ELSE call[a]]
    /\ UNCHANGED <<now, quotaLedger, tomb, alive>>

Tick == /\ now < MaxTime
        /\ now' = now + 1
        /\ UNCHANGED <<quotaLedger, registry, server, alive, call, spent>>

QuotaNext ==
    \/ \E a \in Attempt : \/ Ask(a) \/ Send(a) \/ TakeReserve(a)
                          \/ Renew(a) \/ Admit(a) \/ Defer(a)
                          \/ SeeThrottle(a) \/ EndRequest(a)
    \/ \E w \in Web : Start(w) \/ SettleBatch(w) \/ Settled(w) \/ ForgetExit(w)
    \/ \E p \in Process : Die(p)
    \/ Restart \/ Tick

QuotaSpec == QuotaInit /\ [][QuotaNext]_quotaVars

-----------------------------------------------------------------------------
\* At every instant the admissions of a caller in the last window fit its
\* allocation, whatever was retried, settled or lost (reserve's rolling sum).
WithinAllocation ==
    \A caller \in Caller, s \in Scope :
        Cardinality(Charged(caller, s, now)) <= Allocation[caller][s]

\* The requests really under way in a scope never exceed its concurrency: no
\* row is released under a living request (finish, reconcile_exited).
RealConcurrency ==
    \A s \in Scope : Cardinality({a \in InFlight : s \in ScopesOf[a]}) <= MaxConcurrency[s]

\* No permit is handed out, or handed out again, for a scope that another
\* caller's 429 holds (the two cooldown tests of reserve).
HoldRespected ==
    [][\A a \in Attempt : call[a] = "asking" /\ call'[a] = "granted"
          => \A s \in ScopesOf[a] : hold[s] <= now]_quotaVars

\* A child whose row says reconciled has no admission left to settle
\* (ExitRegistry.reconcile's pending check).
SettledHoldsNothing ==
    \A w \in Web : tomb[w] \in {"reconciled", "forgotten"} => Rows(w) = {}

=============================================================================
