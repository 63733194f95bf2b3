----------------------------- MODULE QuotaProofs -----------------------------
(* The quota broker, for any number of processes, attempts and scopes, every   *)
(* allocation and concurrency, and any number of lost replies and restarts.    *)
(* The two limits are counts of rows; what ties them to the requests really    *)
(* under way is that a living client with a permit has all its rows open.      *)
EXTENDS QuotaBroker, FiniteSetTheorems, TLAPS

\* A client that may still use its permit.
Used(a) == call[a] \in {"granted", "sent", "throttled"} /\ OwnerOf[a] \in alive

Room == \A s \in Scope : Cardinality(Open(s)) <= MaxConcurrency[s]
Permits == \A a \in Attempt : Used(a) => unfinished[a] = ScopesOf[a]
\* The attempt in the budget thread's hands is still being asked for.
Serving == server.attempt # None => call[server.attempt] = "asking"
\* A child that was never registered has never asked for anything.
Unborn ==
    /\ \A w \in Web : tomb[w] = "unknown" => w \notin alive
    /\ \A a \in Attempt : OwnerOf[a] \in Web /\ tomb[OwnerOf[a]] = "unknown" => call[a] = "new"

QInv ==
    /\ QuotaTypeOK /\ server.at <= now
    /\ WithinAllocation /\ Room
    /\ Permits /\ Serving /\ Unborn

-----------------------------------------------------------------------------

LEMMA Values ==
    /\ \A t \in Time : t \in Nat
    /\ 0 \in Time /\ MaxTime \in Nat /\ RetryAfter \in Nat /\ Window \in Nat
    /\ None \notin Attempt /\ None \notin Nat /\ None \notin Web
    /\ \A a \in Attempt : OwnerOf[a] \in Process /\ ScopesOf[a] \subseteq Scope /\ CallerOf(a) \in Caller
    /\ \A s \in Scope : MaxConcurrency[s] \in Nat
    /\ \A caller \in Caller, s \in Scope : Allocation[caller][s] \in Nat
<1>1. MaxTime \in Nat /\ RetryAfter \in Nat /\ Window \in Nat
  BY LimitAssumption
<1>2. 0 \in Time /\ \A t \in Time : t \in Nat
  BY <1>1 DEF Time
<1>3. None \notin Attempt /\ None \notin Nat /\ None \notin Web
  BY ProcessAssumption
<1>4. \A a \in Attempt : OwnerOf[a] \in Process /\ ScopesOf[a] \subseteq Scope /\ CallerOf(a) \in Caller
  BY ProcessAssumption DEF CallerOf, Caller
<1>5. \A s \in Scope : MaxConcurrency[s] \in Nat
  BY LimitAssumption
<1>6. \A caller \in Caller, s \in Scope : Allocation[caller][s] \in Nat
  BY LimitAssumption
<1>7. QED
  BY <1>1, <1>2, <1>3, <1>4, <1>5, <1>6

LEMMA Typed ==
    ASSUME QuotaTypeOK
    PROVE  /\ now \in Nat /\ server.at \in Nat /\ server.at \in Time
           /\ server.attempt \in Attempt \cup {None}
           /\ \A a \in Attempt : /\ admitted[a] # None => admitted[a] \in Nat
                                 /\ unfinished[a] \subseteq Scope /\ call[a] \in CallState
           /\ \A s \in Scope : hold[s] \in Nat
BY Values DEF QuotaTypeOK, ClockOK, RowsOK, ClientsOK

\* Sets of attempts are finite; a part of one has no more members.
LEMMA Count ==
    ASSUME NEW S \in SUBSET Attempt, NEW T \in SUBSET S
    PROVE  Cardinality(T) <= Cardinality(S) /\ Cardinality(S) \in Nat /\ Cardinality(T) \in Nat
<1>1. IsFiniteSet(Attempt)
  BY LimitAssumption
<1>2. IsFiniteSet(S)
  BY <1>1, FS_Subset
<1>3. IsFiniteSet(T) /\ Cardinality(T) <= Cardinality(S)
  BY <1>2, FS_Subset
<1>4. QED
  BY <1>2, <1>3, FS_CardinalityType

\* One more attempt adds one at most.
LEMMA CountOneMore ==
    ASSUME NEW S \in SUBSET Attempt, NEW T \in SUBSET Attempt, NEW a \in Attempt,
           T \subseteq S \cup {a}
    PROVE  /\ Cardinality(T) <= Cardinality(S) + 1
           /\ Cardinality(S) \in Nat /\ Cardinality(T) \in Nat
<1>1. IsFiniteSet(S)
  BY LimitAssumption, FS_Subset
<1>2. Cardinality(S \cup {a}) = IF a \in S THEN Cardinality(S) ELSE Cardinality(S) + 1
  BY <1>1, FS_AddElement
<1>3. Cardinality(T) <= Cardinality(S \cup {a}) /\ Cardinality(T) \in Nat
  <2>1. S \cup {a} \in SUBSET Attempt
    OBVIOUS
  <2>2. QED
    BY <2>1, Count
<1>4. Cardinality(S) \in Nat
  BY Count
<1>5. QED
  BY <1>2, <1>3, <1>4

\* The window's sums only fall while nothing is admitted.
LEMMA AllocationStays ==
    ASSUME QuotaTypeOK, WithinAllocation, UNCHANGED admitted, now' \in Nat, now' >= now
    PROVE  WithinAllocation'
<1>1. ASSUME NEW caller \in Caller, NEW s \in Scope
      PROVE  Cardinality(Charged(caller, s, now))' <= Allocation[caller][s]
  <2>1. Charged(caller, s, now)' \subseteq Charged(caller, s, now)
    BY Typed, Values DEF Charged, Admitted
  <2>2. Charged(caller, s, now) \in SUBSET Attempt
    BY DEF Charged, Admitted
  <2>3. Cardinality(Charged(caller, s, now)') <= Cardinality(Charged(caller, s, now))
        /\ Cardinality(Charged(caller, s, now)') \in Nat /\ Cardinality(Charged(caller, s, now)) \in Nat
    BY <2>1, <2>2, Count
  <2>4. Cardinality(Charged(caller, s, now)) <= Allocation[caller][s]
    BY DEF WithinAllocation
  <2>5. QED
    BY <2>3, <2>4, Values
<1>2. QED
  BY <1>1 DEF WithinAllocation

\* Rows that are finished make room.
LEMMA RoomStays ==
    ASSUME Room, \A a \in Attempt : unfinished'[a] \subseteq unfinished[a]
    PROVE  Room'
<1>1. ASSUME NEW s \in Scope
      PROVE  Cardinality(Open(s))' <= MaxConcurrency[s]
  <2>1. Open(s)' \subseteq Open(s) /\ Open(s) \in SUBSET Attempt
    BY DEF Open
  <2>2. Cardinality(Open(s)') <= Cardinality(Open(s))
        /\ Cardinality(Open(s)') \in Nat /\ Cardinality(Open(s)) \in Nat
    BY <2>1, Count
  <2>3. Cardinality(Open(s)) <= MaxConcurrency[s]
    BY DEF Room
  <2>4. QED
    BY <2>2, <2>3, Values
<1>2. QED
  BY <1>1 DEF Room

\* What a step keeps that admits nothing and reads no clock.
LEMMA LimitsStay ==
    ASSUME QInv, UNCHANGED <<now, admitted>>,
           \A a \in Attempt : unfinished'[a] \subseteq unfinished[a],
           server' \in {server, Free}
    PROVE  WithinAllocation' /\ Room' /\ server'.at <= now'
<1>1. WithinAllocation'
  BY AllocationStays, Typed DEF QInv
<1>2. Room'
  BY RoomStays DEF QInv
<1>3. server'.at <= now'
  BY Typed DEF QInv, Free
<1>4. QED
  BY <1>1, <1>2, <1>3

LEMMA UnbornStays ==
    ASSUME QInv, UNCHANGED tomb, alive' \subseteq alive,
           \A a \in Attempt : call[a] = "new" => call'[a] = "new" \/ OwnerOf[a] \in alive
    PROVE  Unborn'
BY DEF QInv, Unborn

\* A reply reaches its client, or the client does not hear.
LEMMA Answered ==
    ASSUME QuotaTypeOK, NEW a \in Attempt, NEW reply \in CallState, Answer(a, reply)
    PROVE  /\ call' \in [Attempt -> CallState] /\ call'[a] \in {reply, "unanswered"}
           /\ \A x \in Attempt \ {a} : call'[x] = call[x]
           /\ spent' \in [lost: 0 .. MaxLost, restarts: 0 .. MaxRestarts]
<1>1. /\ call \in [Attempt -> CallState]
      /\ spent \in [lost: 0 .. MaxLost, restarts: 0 .. MaxRestarts]
      /\ MaxLost \in Nat
  BY LimitAssumption DEF QuotaTypeOK, ClientsOK
<1>2. CASE call' = [call EXCEPT ![a] = reply] /\ UNCHANGED spent
  BY <1>1, <1>2
<1>3. CASE /\ spent.lost < MaxLost
           /\ spent' = [spent EXCEPT !.lost = spent.lost + 1]
           /\ call' = [call EXCEPT ![a] = "unanswered"]
  BY <1>1, <1>3 DEF CallState
<1>4. QED
  BY <1>2, <1>3 DEF Answer

-----------------------------------------------------------------------------
\* The clients.

LEMMA AskKeeps ==
    ASSUME QInv, NEW a \in Attempt, Ask(a)
    PROVE  QInv'
<1>1. /\ call' = [call EXCEPT ![a] = "asking"]
      /\ UNCHANGED <<now, admitted, unfinished, noted, hold, tomb, settling, server, alive, spent>>
  BY DEF Ask, quotaLedger, registry
<1>2. WithinAllocation' /\ Room' /\ server'.at <= now'
  BY <1>1, LimitsStay
<1>3. call' \in [Attempt -> CallState]
  BY <1>1 DEF QInv, QuotaTypeOK, ClientsOK, CallState
<1>4. QuotaTypeOK'
  BY <1>1, <1>3 DEF QInv, QuotaTypeOK, ClockOK, RowsOK, RegistryOK, ClientsOK
<1>5. Permits'
  BY <1>1 DEF QInv, QuotaTypeOK, ClientsOK, Permits, Used
<1>6. Serving'
  BY <1>1, Typed DEF QInv, QuotaTypeOK, ClientsOK, Serving
<1>7. Unborn'
  BY <1>1, UnbornStays DEF Ask, QInv, QuotaTypeOK, ClientsOK
<1>8. QED
  BY <1>2, <1>4, <1>5, <1>6, <1>7 DEF QInv

LEMMA SendKeeps ==
    ASSUME QInv, NEW a \in Attempt, Send(a)
    PROVE  QInv'
<1>1. /\ call[a] = "granted" /\ call' = [call EXCEPT ![a] = "sent"]
      /\ UNCHANGED <<now, admitted, unfinished, noted, hold, tomb, settling, server, alive, spent>>
  BY DEF Send, quotaLedger, registry
<1>2. WithinAllocation' /\ Room' /\ server'.at <= now'
  BY <1>1, LimitsStay
<1>3. call' \in [Attempt -> CallState]
  BY <1>1 DEF QInv, QuotaTypeOK, ClientsOK, CallState
<1>4. QuotaTypeOK'
  BY <1>1, <1>3 DEF QInv, QuotaTypeOK, ClockOK, RowsOK, RegistryOK, ClientsOK
<1>5. Permits'
  BY <1>1 DEF QInv, QuotaTypeOK, ClientsOK, Permits, Used
<1>6. Serving'
  BY <1>1, Typed DEF QInv, QuotaTypeOK, ClientsOK, Serving
<1>7. Unborn'
  BY <1>1, UnbornStays DEF Send, QInv, QuotaTypeOK, ClientsOK
<1>8. QED
  BY <1>2, <1>4, <1>5, <1>6, <1>7 DEF QInv

\* A finish releases rows of its own attempt and of no other.
LEMMA Reported ==
    ASSUME QInv, NEW a \in Attempt, NEW outcome, Report(a, outcome)
    PROVE  /\ unfinished' \in [Attempt -> SUBSET Scope]
           /\ noted' \subseteq Attempt
           /\ hold' \in [Scope -> 0 .. MaxTime + RetryAfter]
           /\ spent' \in [lost: 0 .. MaxLost, restarts: 0 .. MaxRestarts]
           /\ \A x \in Attempt : unfinished'[x] \subseteq unfinished[x]
           /\ \A x \in Attempt \ {a} : unfinished'[x] = unfinished[x]
           /\ outcome \in Uncertain => unfinished' = unfinished
<1>1. /\ unfinished \in [Attempt -> SUBSET Scope] /\ noted \subseteq Attempt
      /\ hold \in [Scope -> 0 .. MaxTime + RetryAfter]
      /\ spent \in [lost: 0 .. MaxLost, restarts: 0 .. MaxRestarts] /\ MaxLost \in Nat
  BY LimitAssumption DEF QInv, QuotaTypeOK, RowsOK, ClientsOK
<1>2. ASSUME NEW s \in Scope PROVE Held(s) \in 0 .. MaxTime + RetryAfter
  BY <1>1, Values DEF Held, QInv, QuotaTypeOK, ClockOK, Time
<1>3. CASE Finish(a, outcome) /\ UNCHANGED spent
  <2>1. CASE unfinished[a] = {}
    BY <1>1, <1>3, <2>1 DEF Finish
  <2>2. CASE unfinished[a] # {}
    <3>1. /\ hold' = [s \in Scope |-> IF outcome \in Throttles /\ s \in ScopesOf[a]
                                      THEN Held(s) ELSE hold[s]]
          /\ unfinished' = IF outcome \in Uncertain THEN unfinished
                           ELSE [unfinished EXCEPT ![a] = {}]
          /\ noted' = noted \cup {a} /\ UNCHANGED spent
      BY <1>3, <2>2 DEF Finish
    <3>2. hold' \in [Scope -> 0 .. MaxTime + RetryAfter]
      BY <1>1, <1>2, <3>1
    <3>3. /\ unfinished' \in [Attempt -> SUBSET Scope]
          /\ \A x \in Attempt : unfinished'[x] \subseteq unfinished[x]
          /\ \A x \in Attempt \ {a} : unfinished'[x] = unfinished[x]
          /\ outcome \in Uncertain => unfinished' = unfinished
      BY <1>1, <3>1
    <3>4. QED
      BY <1>1, <3>1, <3>2, <3>3
  <2>3. QED
    BY <2>1, <2>2
<1>4. CASE /\ spent.lost < MaxLost
           /\ spent' = [spent EXCEPT !.lost = spent.lost + 1]
           /\ UNCHANGED <<hold, unfinished, noted>>
  BY <1>1, <1>4
<1>5. QED
  BY <1>3, <1>4 DEF Report

LEMMA SeeThrottleKeeps ==
    ASSUME QInv, NEW a \in Attempt, SeeThrottle(a)
    PROVE  QInv'
<1>1. /\ call[a] = "sent" /\ Report(a, "429_uncertain")
      /\ call' = [call EXCEPT ![a] = "throttled"]
      /\ UNCHANGED <<now, admitted, tomb, settling, server, alive>>
  BY DEF SeeThrottle, registry
<1>2. "429_uncertain" \in Uncertain
  BY DEF Uncertain
<1>3. /\ unfinished' = unfinished /\ unfinished' \in [Attempt -> SUBSET Scope]
      /\ noted' \subseteq Attempt /\ hold' \in [Scope -> 0 .. MaxTime + RetryAfter]
      /\ spent' \in [lost: 0 .. MaxLost, restarts: 0 .. MaxRestarts]
  BY <1>1, <1>2, Reported
<1>4. WithinAllocation' /\ Room' /\ server'.at <= now'
  BY <1>1, <1>3, LimitsStay
<1>5. call' \in [Attempt -> CallState]
  BY <1>1 DEF QInv, QuotaTypeOK, ClientsOK, CallState
<1>6. QuotaTypeOK'
  BY <1>1, <1>3, <1>5 DEF QInv, QuotaTypeOK, ClockOK, RowsOK, RegistryOK, ClientsOK
<1>7. Permits'
  BY <1>1, <1>3 DEF QInv, QuotaTypeOK, ClientsOK, Permits, Used
<1>8. Serving'
  BY <1>1, Typed DEF QInv, QuotaTypeOK, ClientsOK, Serving
<1>9. Unborn'
  BY <1>1, UnbornStays DEF SeeThrottle, QInv, QuotaTypeOK, ClientsOK
<1>10. QED
  BY <1>4, <1>6, <1>7, <1>8, <1>9 DEF QInv

LEMMA EndRequestKeeps ==
    ASSUME QInv, NEW a \in Attempt, EndRequest(a)
    PROVE  QInv'
<1>1. PICK outcome : Report(a, outcome)
  BY DEF EndRequest
<1>2. /\ call' = [call EXCEPT ![a] = "done"]
      /\ UNCHANGED <<now, admitted, tomb, settling, server, alive>>
  BY DEF EndRequest, registry
<1>3. /\ unfinished' \in [Attempt -> SUBSET Scope]
      /\ noted' \subseteq Attempt /\ hold' \in [Scope -> 0 .. MaxTime + RetryAfter]
      /\ spent' \in [lost: 0 .. MaxLost, restarts: 0 .. MaxRestarts]
      /\ \A x \in Attempt : unfinished'[x] \subseteq unfinished[x]
      /\ \A x \in Attempt \ {a} : unfinished'[x] = unfinished[x]
  BY <1>1, Reported
<1>4. WithinAllocation' /\ Room' /\ server'.at <= now'
  BY <1>2, <1>3, LimitsStay
<1>5. call' \in [Attempt -> CallState]
  BY <1>2 DEF QInv, QuotaTypeOK, ClientsOK, CallState
<1>6. QuotaTypeOK'
  BY <1>2, <1>3, <1>5 DEF QInv, QuotaTypeOK, ClockOK, RowsOK, RegistryOK, ClientsOK
<1>7. Permits'
  BY <1>2, <1>3 DEF QInv, QuotaTypeOK, ClientsOK, Permits, Used
<1>8. Serving'
  BY <1>2, Typed DEF EndRequest, QInv, QuotaTypeOK, ClientsOK, Serving
<1>9. Unborn'
  BY <1>2, UnbornStays DEF EndRequest, QInv, QuotaTypeOK, ClientsOK
<1>10. QED
  BY <1>4, <1>6, <1>7, <1>8, <1>9 DEF QInv

-----------------------------------------------------------------------------
\* The budget thread.

LEMMA TakeReserveKeeps ==
    ASSUME QInv, NEW a \in Attempt, TakeReserve(a)
    PROVE  QInv'
<1>1. UNCHANGED <<now, admitted, unfinished, noted, hold, tomb, settling, alive>>
  BY DEF TakeReserve, quotaLedger, registry
<1>2. WithinAllocation' /\ Room'
  BY <1>1, AllocationStays, RoomStays, Typed DEF QInv
<1>3. server = Free /\ call[a] = "asking"
  BY DEF TakeReserve
<1>4. CASE server' = [attempt |-> a, at |-> now] /\ UNCHANGED <<call, spent>>
  <2>1. server'.at <= now' /\ ClockOK'
    BY <1>1, <1>4, Typed DEF QInv, QuotaTypeOK, ClockOK
  <2>2. QuotaTypeOK'
    BY <1>1, <1>4, <2>1 DEF QInv, QuotaTypeOK, RowsOK, RegistryOK, ClientsOK
  <2>3. Permits'
    BY <1>1, <1>4 DEF QInv, Permits, Used
  <2>4. Serving' /\ Unborn'
    BY <1>1, <1>3, <1>4, UnbornStays DEF QInv, Serving
  <2>5. QED
    BY <1>2, <2>1, <2>2, <2>3, <2>4 DEF QInv
<1>5. CASE Answer(a, "denied") /\ UNCHANGED server
  <2>1. /\ call' \in [Attempt -> CallState] /\ call'[a] \in {"denied", "unanswered"}
        /\ \A x \in Attempt \ {a} : call'[x] = call[x]
        /\ spent' \in [lost: 0 .. MaxLost, restarts: 0 .. MaxRestarts]
    BY <1>5, Answered DEF QInv, CallState
  <2>2. QuotaTypeOK'
    BY <1>1, <1>5, <2>1 DEF QInv, QuotaTypeOK, ClockOK, RowsOK, RegistryOK, ClientsOK
  <2>3. Permits'
    BY <1>1, <2>1 DEF QInv, Permits, Used
  <2>4. Serving'
    BY <1>3, <1>5 DEF Serving, Free
  <2>5. Unborn'
    BY <1>1, <1>3, <2>1, UnbornStays
  <2>6. QED
    BY <1>1, <1>2, <1>5, <2>2, <2>3, <2>4, <2>5 DEF QInv
<1>6. QED
  BY <1>4, <1>5 DEF TakeReserve

\* A reply of the reserve's second transaction to an attempt that changes no row.
LEMMA ReplyKeeps ==
    ASSUME QInv, NEW a \in Attempt, NEW reply \in CallState, Reserving(a), Answer(a, reply),
           UNCHANGED <<now, quotaLedger, registry, alive>>,
           reply \in {"granted", "sent", "throttled"} => unfinished[a] = ScopesOf[a]
    PROVE  QInv'
<1>1. /\ server' = Free
      /\ UNCHANGED <<now, admitted, unfinished, noted, hold, tomb, settling, alive>>
  BY DEF Reserving, quotaLedger, registry
<1>2. WithinAllocation' /\ Room' /\ server'.at <= now'
  BY <1>1, LimitsStay
<1>3. /\ call' \in [Attempt -> CallState] /\ call'[a] \in {reply, "unanswered"}
      /\ \A x \in Attempt \ {a} : call'[x] = call[x]
      /\ spent' \in [lost: 0 .. MaxLost, restarts: 0 .. MaxRestarts]
  BY Answered DEF QInv
<1>4. ClockOK'
  BY <1>1, Values DEF QInv, QuotaTypeOK, ClockOK, Free
<1>5. QuotaTypeOK'
  BY <1>1, <1>3, <1>4 DEF QInv, QuotaTypeOK, RowsOK, RegistryOK, ClientsOK
<1>6. Permits'
  BY <1>1, <1>3 DEF QInv, Permits, Used
<1>7. Serving'
  BY <1>1 DEF Serving, Free
<1>8. call[a] = "asking"
  BY Values DEF Reserving, QInv, Serving
<1>9. Unborn'
  BY <1>1, <1>3, <1>8, UnbornStays
<1>10. QED
  BY <1>2, <1>5, <1>6, <1>7, <1>9 DEF QInv

LEMMA RenewKeeps ==
    ASSUME QInv, NEW a \in Attempt, Renew(a)
    PROVE  QInv'
<1>1. CASE Renewable(a, server.at) /\ Cooled(a, server.at)
  BY <1>1, ReplyKeeps DEF Renew, Renewable, CallState
<1>2. CASE ~(Renewable(a, server.at) /\ Cooled(a, server.at))
  BY <1>2, ReplyKeeps DEF Renew, CallState
<1>3. QED
  BY <1>1, <1>2

LEMMA DeferKeeps ==
    ASSUME QInv, NEW a \in Attempt, Defer(a)
    PROVE  QInv'
BY ReplyKeeps DEF Defer, CallState

\* The one step that charges a window and opens rows: the sums it read, at an
\* earlier time, bound those of now.
LEMMA AdmitKeeps ==
    ASSUME QInv, NEW a \in Attempt, Admit(a)
    PROVE  QInv'
<1>1. /\ server' = Free /\ admitted[a] = None /\ Fits(a, server.at) /\ Idle(a)
      /\ admitted' = [admitted EXCEPT ![a] = server.at]
      /\ unfinished' = [unfinished EXCEPT ![a] = ScopesOf[a]]
      /\ Answer(a, "granted")
      /\ UNCHANGED <<now, noted, hold, tomb, settling, alive>>
  BY DEF Admit, Reserving, registry
<1>2. /\ server.at \in Time /\ server.at \in Nat /\ now \in Nat /\ server.at <= now
      /\ admitted \in [Attempt -> Time \cup {None}] /\ unfinished \in [Attempt -> SUBSET Scope]
      /\ ScopesOf[a] \subseteq Scope
  BY Typed, Values DEF QInv, QuotaTypeOK, RowsOK
<1>3. /\ admitted' \in [Attempt -> Time \cup {None}] /\ admitted'[a] = server.at
      /\ \A x \in Attempt \ {a} : admitted'[x] = admitted[x]
  BY <1>1, <1>2
<1>4. /\ unfinished' \in [Attempt -> SUBSET Scope] /\ unfinished'[a] = ScopesOf[a]
      /\ \A x \in Attempt \ {a} : unfinished'[x] = unfinished[x]
  BY <1>1, <1>2
<1>5. /\ call' \in [Attempt -> CallState]
      /\ \A x \in Attempt \ {a} : call'[x] = call[x]
      /\ spent' \in [lost: 0 .. MaxLost, restarts: 0 .. MaxRestarts]
  BY <1>1, Answered DEF QInv, CallState
<1>6. ClockOK' /\ server'.at <= now'
  BY <1>1, <1>2, Values DEF QInv, QuotaTypeOK, ClockOK, Free
<1>7. QuotaTypeOK'
  BY <1>1, <1>3, <1>4, <1>5, <1>6 DEF QInv, QuotaTypeOK, RowsOK, RegistryOK, ClientsOK
<1>8. Permits'
  BY <1>1, <1>4, <1>5 DEF QInv, Permits, Used
<1>9. ASSUME NEW caller \in Caller, NEW s \in Scope
      PROVE  Cardinality(Charged(caller, s, now))' <= Allocation[caller][s]
  <2> DEFINE read == Charged(caller, s, server.at)
             after == Charged(caller, s, now)'
  <2>1. read \in SUBSET Attempt /\ after \in SUBSET Attempt
    BY DEF Charged, Admitted
  <2>2. ASSUME NEW x \in after, x # a PROVE x \in Charged(caller, s, now) /\ x \in read
    <3>1. /\ x \in Attempt /\ admitted'[x] = admitted[x] /\ admitted[x] # None
          /\ CallerOf(x) = caller /\ s \in ScopesOf[x] /\ admitted[x] + Window > now
      BY <1>1, <1>3, <2>2 DEF Charged, Admitted, CallerOf
    <3>2. admitted[x] \in Nat
      BY <3>1, Typed DEF QInv
    <3>3. admitted[x] + Window > server.at
      BY <1>2, <3>1, <3>2, Values
    <3>4. QED
      BY <3>1, <3>3 DEF Charged, Admitted
  <2>3. CASE a \in after
    <3>1. caller = CallerOf(a) /\ s \in ScopesOf[a]
      BY <2>3 DEF Charged, CallerOf
    <3>2. Cardinality(read) + 1 <= Allocation[caller][s]
      BY <1>1, <3>1 DEF Fits
    <3>3. after \subseteq read \cup {a}
      BY <2>2
    <3>4. Cardinality(after) <= Cardinality(read) + 1 /\ Cardinality(read) \in Nat /\ Cardinality(after) \in Nat
      BY <2>1, <3>3, CountOneMore
    <3>5. QED
      BY <3>2, <3>4, Values
  <2>4. CASE a \notin after
    <3>1. after \subseteq Charged(caller, s, now) /\ Charged(caller, s, now) \in SUBSET Attempt
      BY <2>2, <2>4 DEF Charged, Admitted
    <3>2. Cardinality(after) <= Cardinality(Charged(caller, s, now))
          /\ Cardinality(after) \in Nat /\ Cardinality(Charged(caller, s, now)) \in Nat
      BY <3>1, Count
    <3>3. Cardinality(Charged(caller, s, now)) <= Allocation[caller][s]
      BY DEF QInv, WithinAllocation
    <3>4. QED
      BY <3>2, <3>3, Values
  <2>5. QED
    BY <2>3, <2>4
<1>10. ASSUME NEW s \in Scope
       PROVE  Cardinality(Open(s))' <= MaxConcurrency[s]
  <2>1. Open(s) \in SUBSET Attempt /\ Open(s)' \in SUBSET Attempt
    BY DEF Open
  <2>2. CASE s \in ScopesOf[a]
    <3>1. Cardinality(Open(s)) < MaxConcurrency[s]
      BY <1>1, <2>2 DEF Idle
    <3>2. Open(s)' \subseteq Open(s) \cup {a}
      BY <1>4 DEF Open
    <3>3. Cardinality(Open(s)') <= Cardinality(Open(s)) + 1
          /\ Cardinality(Open(s)) \in Nat /\ Cardinality(Open(s)') \in Nat
      BY <2>1, <3>2, CountOneMore
    <3>4. QED
      BY <3>1, <3>3, Values
  <2>3. CASE s \notin ScopesOf[a]
    <3>1. Open(s)' \subseteq Open(s)
      BY <1>4, <2>3 DEF Open
    <3>2. Cardinality(Open(s)') <= Cardinality(Open(s))
          /\ Cardinality(Open(s)) \in Nat /\ Cardinality(Open(s)') \in Nat
      BY <2>1, <3>1, Count
    <3>3. Cardinality(Open(s)) <= MaxConcurrency[s]
      BY DEF QInv, Room
    <3>4. QED
      BY <3>2, <3>3, Values
  <2>4. QED
    BY <2>2, <2>3
<1>11. WithinAllocation' /\ Room'
  BY <1>9, <1>10 DEF WithinAllocation, Room
<1>12. Serving'
  BY <1>1 DEF Serving, Free
<1>13. call[a] = "asking"
  BY Values DEF Admit, Reserving, QInv, Serving
<1>14. Unborn'
  BY <1>1, <1>5, <1>13, UnbornStays
<1>15. QED
  BY <1>6, <1>7, <1>8, <1>11, <1>12, <1>14 DEF QInv

-----------------------------------------------------------------------------
\* Compute children, the control thread, and faults.

LEMMA StartKeeps ==
    ASSUME QInv, NEW w \in Web, Start(w)
    PROVE  QInv'
<1>1. /\ tomb[w] = "unknown" /\ alive' = alive \cup {w}
      /\ tomb' = [tomb EXCEPT ![w] = "registered"]
      /\ UNCHANGED <<now, admitted, unfinished, noted, hold, settling, server, call, spent>>
  BY DEF Start, quotaLedger
<1>2. WithinAllocation' /\ Room' /\ server'.at <= now'
  BY <1>1, LimitsStay
<1>3. tomb' \in [Web -> {"unknown", "registered", "reconciled", "forgotten"}] /\ alive' \subseteq Process
  BY <1>1 DEF QInv, QuotaTypeOK, RegistryOK, ClientsOK, Process
<1>4. QuotaTypeOK'
  BY <1>1, <1>3 DEF QInv, QuotaTypeOK, ClockOK, RowsOK, RegistryOK, ClientsOK
<1>5. Permits'
  BY <1>1 DEF QInv, Permits, Used, Unborn
<1>6. Serving' /\ Unborn'
  BY <1>1 DEF QInv, QuotaTypeOK, RegistryOK, Serving, Unborn
<1>7. QED
  BY <1>2, <1>4, <1>5, <1>6 DEF QInv

LEMMA DieKeeps ==
    ASSUME QInv, NEW p \in Process, Die(p)
    PROVE  QInv'
<1>1. /\ alive' = alive \ {p}
      /\ UNCHANGED <<now, admitted, unfinished, noted, hold, tomb, settling, server, call, spent>>
  BY DEF Die, quotaLedger, registry
<1>2. WithinAllocation' /\ Room' /\ server'.at <= now'
  BY <1>1, LimitsStay
<1>3. QuotaTypeOK'
  BY <1>1 DEF QInv, QuotaTypeOK, ClockOK, RowsOK, RegistryOK, ClientsOK
<1>4. Permits' /\ Serving' /\ Unborn'
  BY <1>1 DEF QInv, Permits, Used, Serving, Unborn
<1>5. QED
  BY <1>2, <1>3, <1>4 DEF QInv

\* Only a dead child's rows are settled.
LEMMA SettleBatchKeeps ==
    ASSUME QInv, NEW w \in Web, SettleBatch(w)
    PROVE  QInv'
<1>1. PICK batch \in SUBSET Rows(w) :
        /\ unfinished' = [a \in Attempt |-> {s \in unfinished[a] : <<a, s>> \notin batch}]
        /\ noted' = noted \cup {row[1] : row \in batch}
  BY DEF SettleBatch
<1>2. /\ w \notin alive /\ settling' = w
      /\ UNCHANGED <<now, admitted, hold, tomb, server, alive, call, spent>>
  BY DEF SettleBatch, Exited
<1>3. \A a \in Attempt : unfinished'[a] \subseteq unfinished[a]
  BY <1>1
<1>4. WithinAllocation' /\ Room' /\ server'.at <= now'
  BY <1>2, <1>3, LimitsStay
<1>5. ASSUME NEW a \in Attempt, OwnerOf[a] # w
      PROVE  unfinished'[a] = unfinished[a]
  <2>1. ASSUME NEW s, s \in unfinished[a] PROVE <<a, s>> \notin batch
    BY <1>5, <2>1 DEF Rows
  <2>2. QED
    BY <1>1, <2>1
<1>6. noted' \subseteq Attempt
  <2>1. \A row \in batch : row[1] \in Attempt
    BY DEF Rows
  <2>2. QED
    BY <1>1, <2>1 DEF QInv, QuotaTypeOK, RowsOK
<1>7. unfinished' \in [Attempt -> SUBSET Scope]
  BY <1>1 DEF QInv, QuotaTypeOK, RowsOK
<1>8. QuotaTypeOK'
  BY <1>2, <1>6, <1>7 DEF QInv, QuotaTypeOK, ClockOK, RowsOK, RegistryOK, ClientsOK
<1>9. Permits'
  BY <1>2, <1>5 DEF QInv, Permits, Used
<1>10. Serving' /\ Unborn'
  BY <1>2 DEF QInv, Serving, Unborn
<1>11. QED
  BY <1>4, <1>8, <1>9, <1>10 DEF QInv

LEMMA RegistryKeeps ==
    ASSUME QInv, NEW w \in Web, Settled(w) \/ ForgetExit(w)
    PROVE  QInv'
<1>1. UNCHANGED <<now, admitted, unfinished, noted, hold, server, alive, call, spent>>
  BY DEF Settled, ForgetExit, quotaLedger
<1>2. /\ settling' \in Web \cup {None}
      /\ tomb' \in [Web -> {"unknown", "registered", "reconciled", "forgotten"}]
      /\ \A v \in Web : tomb'[v] = "unknown" => tomb[v] = "unknown"
  BY DEF Settled, ForgetExit, QInv, QuotaTypeOK, RegistryOK
<1>3. WithinAllocation' /\ Room' /\ server'.at <= now'
  BY <1>1, LimitsStay
<1>4. QuotaTypeOK'
  BY <1>1, <1>2 DEF QInv, QuotaTypeOK, ClockOK, RowsOK, RegistryOK, ClientsOK
<1>5. Permits' /\ Serving' /\ Unborn'
  BY <1>1, <1>2 DEF QInv, Permits, Used, Serving, Unborn
<1>6. QED
  BY <1>3, <1>4, <1>5 DEF QInv

LEMMA RestartKeeps ==
    ASSUME QInv, Restart
    PROVE  QInv'
<1>1. /\ spent.restarts < MaxRestarts /\ spent' = [spent EXCEPT !.restarts = spent.restarts + 1]
      /\ server' = Free /\ settling' = None
      /\ call' = [a \in Attempt |-> IF call[a] = "asking" THEN "unanswered" ELSE call[a]]
      /\ UNCHANGED <<now, admitted, unfinished, noted, hold, tomb, alive>>
  BY DEF Restart, quotaLedger
<1>2. spent' \in [lost: 0 .. MaxLost, restarts: 0 .. MaxRestarts]
  BY <1>1, LimitAssumption DEF QInv, QuotaTypeOK, ClientsOK
<1>3. call' \in [Attempt -> CallState]
  BY <1>1 DEF QInv, QuotaTypeOK, ClientsOK, CallState
<1>4. ClockOK' /\ RegistryOK'
  BY <1>1, Values DEF QInv, QuotaTypeOK, ClockOK, RegistryOK, Free
<1>5. QuotaTypeOK'
  BY <1>1, <1>2, <1>3, <1>4 DEF QInv, QuotaTypeOK, RowsOK, ClientsOK
<1>6. WithinAllocation' /\ Room' /\ server'.at <= now'
  BY <1>1, LimitsStay
<1>7. Permits' /\ Serving'
  BY <1>1 DEF QInv, Permits, Used, Serving, Free
<1>8. Unborn'
  BY <1>1, UnbornStays
<1>9. QED
  BY <1>5, <1>6, <1>7, <1>8 DEF QInv

LEMMA TickKeeps ==
    ASSUME QInv, Tick
    PROVE  QInv'
<1>1. /\ now < MaxTime /\ now' = now + 1
      /\ UNCHANGED <<admitted, unfinished, noted, hold, tomb, settling, server, alive, call, spent>>
  BY DEF Tick, quotaLedger, registry
<1>2. now \in Nat /\ now' \in Time /\ now' >= now /\ now' \in Nat
  BY <1>1, Values, Typed DEF QInv, Time
<1>3. WithinAllocation'
  BY <1>1, <1>2, AllocationStays DEF QInv
<1>4. Room'
  BY <1>1, RoomStays DEF QInv
<1>5. server'.at <= now'
  BY <1>1, <1>2, Typed DEF QInv
<1>6. QuotaTypeOK'
  BY <1>1, <1>2 DEF QInv, QuotaTypeOK, ClockOK, RowsOK, RegistryOK, ClientsOK
<1>7. Permits' /\ Serving' /\ Unborn'
  BY <1>1 DEF QInv, Permits, Used, Serving, Unborn
<1>8. QED
  BY <1>3, <1>4, <1>5, <1>6, <1>7 DEF QInv

-----------------------------------------------------------------------------

LEMMA InitHolds ==
    ASSUME QuotaInit
    PROVE  QInv
<1>1. MaxLost \in Nat /\ MaxRestarts \in Nat /\ MaxTime \in Nat /\ RetryAfter \in Nat
  BY LimitAssumption
<1>2. /\ now = 0 /\ admitted = [a \in Attempt |-> None] /\ unfinished = [a \in Attempt |-> {}]
      /\ noted = {} /\ hold = [s \in Scope |-> 0]
      /\ tomb = [w \in Web |-> "unknown"] /\ settling = None /\ server = Free /\ alive = Bot
      /\ call = [a \in Attempt |-> "new"] /\ spent = [lost |-> 0, restarts |-> 0]
  BY DEF QuotaInit
<1>3. server.at = 0 /\ server.attempt = None /\ ClockOK
  BY <1>2, Values DEF ClockOK, Free
<1>4. 0 \in 0 .. MaxTime + RetryAfter
  BY <1>1
<1>5. RowsOK
  BY <1>2, <1>4 DEF RowsOK
<1>6. RegistryOK
  BY <1>2 DEF RegistryOK
<1>7. ClientsOK
  BY <1>1, <1>2 DEF ClientsOK, Process, CallState
<1>8. Cardinality({}) = 0
  BY FS_EmptySet
<1>9. ASSUME NEW s \in Scope
      PROVE  /\ Open(s) = {} /\ MaxConcurrency[s] \in Nat
             /\ \A caller \in Caller : Charged(caller, s, now) = {} /\ Allocation[caller][s] \in Nat
  BY <1>2, Values DEF Open, Charged, Admitted
<1>10. WithinAllocation /\ Room
  <2>1. ASSUME NEW s \in Scope PROVE Cardinality(Open(s)) <= MaxConcurrency[s]
    BY <1>8, <1>9
  <2>2. ASSUME NEW s \in Scope, NEW caller \in Caller
        PROVE  Cardinality(Charged(caller, s, now)) <= Allocation[caller][s]
    BY <1>8, <1>9
  <2>3. QED
    BY <2>1, <2>2 DEF WithinAllocation, Room
<1>11. Permits /\ Serving
  BY <1>2, <1>3 DEF Permits, Used, Serving
<1>12. Unborn
  BY <1>2, ProcessAssumption DEF Unborn
<1>13. QED
  BY <1>2, <1>3, <1>5, <1>6, <1>7, <1>10, <1>11, <1>12 DEF QInv, QuotaTypeOK

LEMMA NextKeeps ==
    ASSUME QInv, [QuotaNext]_quotaVars
    PROVE  QInv'
<1>1. ASSUME NEW a \in Attempt,
             \/ Ask(a) \/ Send(a) \/ TakeReserve(a) \/ Renew(a) \/ Admit(a) \/ Defer(a)
             \/ SeeThrottle(a) \/ EndRequest(a)
      PROVE  QInv'
  BY <1>1, AskKeeps, SendKeeps, TakeReserveKeeps, RenewKeeps, AdmitKeeps, DeferKeeps,
     SeeThrottleKeeps, EndRequestKeeps
<1>2. ASSUME NEW w \in Web, Start(w) \/ SettleBatch(w) \/ Settled(w) \/ ForgetExit(w)
      PROVE  QInv'
  BY <1>2, StartKeeps, SettleBatchKeeps, RegistryKeeps
<1>3. ASSUME NEW p \in Process, Die(p)
      PROVE  QInv'
  BY <1>3, DieKeeps
<1>4. CASE Restart \/ Tick
  BY <1>4, RestartKeeps, TickKeeps
<1>5. CASE UNCHANGED quotaVars
  <2>1. UNCHANGED <<now, admitted, unfinished, noted, hold, tomb, settling, server, alive, call, spent>>
    BY <1>5 DEF quotaVars, quotaLedger, registry
  <2>2. WithinAllocation' /\ Room' /\ server'.at <= now'
    BY <2>1, LimitsStay
  <2>3. QuotaTypeOK'
    BY <2>1 DEF QInv, QuotaTypeOK, ClockOK, RowsOK, RegistryOK, ClientsOK
  <2>4. Permits' /\ Serving' /\ Unborn'
    BY <2>1 DEF QInv, Permits, Used, Serving, Unborn
  <2>5. QED
    BY <2>2, <2>3, <2>4 DEF QInv
<1>6. QED
  BY <1>1, <1>2, <1>3, <1>4, <1>5 DEF QuotaNext

\* The counts of the admission transaction bound the requests under way
\* (reserve, finish, reconcile_exited, dashboard_owner_allowed).
THEOREM QuotaInvariant == QuotaSpec => []QInv
<1>1. QuotaInit => QInv
  BY InitHolds
<1>2. QInv /\ [QuotaNext]_quotaVars => QInv'
  BY NextKeeps
<1>3. QED
  BY <1>1, <1>2, PTL DEF QuotaSpec

\* Every state has its type.
THEOREM QuotaTypes == QuotaSpec => []QuotaTypeOK
<1>1. QInv => QuotaTypeOK
  BY DEF QInv
<1>2. QED
  BY <1>1, QuotaInvariant, PTL

\* A caller's admissions of the last window fit its allocation in every scope,
\* though each is decided on a clock read in an earlier transaction.
THEOREM AlwaysWithinAllocation == QuotaSpec => []WithinAllocation
<1>1. QInv => WithinAllocation
  BY DEF QInv
<1>2. QED
  BY <1>1, QuotaInvariant, PTL

\* No more requests are under way in a scope than it allows at once, whichever
\* replies and finishes are lost and whichever processes die.
THEOREM ConcurrencyIsReal == QuotaSpec => []RealConcurrency
<1>1. ASSUME QInv, NEW s \in Scope
      PROVE  Cardinality({a \in InFlight : s \in ScopesOf[a]}) <= MaxConcurrency[s]
  <2> DEFINE under == {a \in InFlight : s \in ScopesOf[a]}
  <2>1. under \subseteq Open(s) /\ Open(s) \in SUBSET Attempt
    BY <1>1 DEF QInv, Permits, Used, InFlight, Open
  <2>2. /\ Cardinality(under) <= Cardinality(Open(s))
        /\ Cardinality(under) \in Nat /\ Cardinality(Open(s)) \in Nat
    BY <2>1, Count
  <2>3. Cardinality(Open(s)) <= MaxConcurrency[s]
    BY <1>1 DEF QInv, Room
  <2>4. QED
    BY <2>2, <2>3, Values
<1>2. QInv => RealConcurrency
  BY <1>1 DEF RealConcurrency
<1>3. QED
  BY <1>2, QuotaInvariant, PTL

\* No step answers "granted" for a scope that is still held at that instant.
LEMMA GrantsRespectHolds ==
    ASSUME QInv, [QuotaNext]_quotaVars,
           NEW a \in Attempt, call[a] = "asking", call'[a] = "granted", NEW s \in ScopesOf[a]
    PROVE  hold[s] <= now
<1>1. ASSUME NEW x \in Attempt, Renew(x) \/ Admit(x)
      PROVE  hold[s] <= now
  <2>1. Answer(x, "granted") \/ Answer(x, "denied")
    BY <1>1 DEF Renew, Admit
  <2>2. x = a
    BY <2>1, Answered DEF QInv, CallState
  <2>3. Answer(a, "denied") => FALSE
    BY Answered DEF QInv, CallState
  <2>4. Cooled(a, server.at)
    BY <1>1, <2>2, <2>3 DEF Renew, Admit
  <2>5. hold[s] <= server.at /\ s \in Scope
    BY <2>4, Values DEF Cooled
  <2>6. QED
    BY <2>5, Typed DEF QInv
<1>2. ASSUME NEW x \in Attempt, TakeReserve(x) \/ Defer(x)
      PROVE  FALSE
  <2>1. Answer(x, "denied") \/ UNCHANGED call
    BY <1>2 DEF TakeReserve, Defer
  <2>2. QED
    BY <2>1, Answered DEF QInv, CallState
<1>3. ASSUME NEW x \in Attempt, Ask(x) \/ Send(x) \/ SeeThrottle(x) \/ EndRequest(x)
      PROVE  FALSE
  <2>1. \E state \in {"asking", "sent", "throttled", "done"} : call' = [call EXCEPT ![x] = state]
    BY <1>3 DEF Ask, Send, SeeThrottle, EndRequest
  <2>2. call \in [Attempt -> CallState]
    BY DEF QInv, QuotaTypeOK, ClientsOK
  <2>3. QED
    BY <2>1, <2>2
<1>4. ASSUME UNCHANGED call
      PROVE  FALSE
  BY <1>4
<1>5. ASSUME Restart
      PROVE  FALSE
  BY <1>5 DEF Restart
<1>6. QED
  BY <1>1, <1>2, <1>3, <1>4, <1>5
     DEF QuotaNext, quotaVars, Start, SettleBatch, Settled, ForgetExit, Die, Tick

\* A permit is never handed out, or handed out again, against a cooldown.
THEOREM HoldIsRespected == QuotaSpec => HoldRespected
<1>1. QInv /\ [QuotaNext]_quotaVars
        => [\A a \in Attempt : call[a] = "asking" /\ call'[a] = "granted"
              => \A s \in ScopesOf[a] : hold[s] <= now]_quotaVars
  BY GrantsRespectHolds
<1>2. QED
  BY <1>1, QuotaInvariant, PTL DEF QuotaSpec, HoldRespected

=============================================================================
