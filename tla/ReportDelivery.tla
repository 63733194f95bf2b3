--------------------------- MODULE ReportDelivery ----------------------------
(* What members get of shared research (jobs.py, history.py): requests and     *)
(* their sections, subscriptions to the jobs that compute them, results, and   *)
(* the versions of the reports. Which process works on a job, and when a lease *)
(* ends, is in ResearchLane: here the holder of the lane completes, fails,     *)
(* defers or loses the job at any time.                                        *)
(*                                                                             *)
(* Each action is one BEGIN IMMEDIATE transaction. Its steps are functions of  *)
(* the tables, in the order of the code.                                       *)
EXTENDS Rights, Sequences, FiniteSets

CONSTANTS Section,       \* a sequence of features
          AllFeatures,   \* the sections that compute over all enabled ones (analysis)
          Provider,      \* the source of all sections
          Request, NoJob,
          MaxJobs,       \* bound: rows of web_jobs in one behaviour
          MaxAttempts,   \* 3 in the code
          MaxWithdrawals \* bound: changes of rights, deleted reports and ended
                         \* sessions in one behaviour

Job == 1 .. MaxJobs
Names == {Section[i] : i \in DOMAIN Section}

ASSUME ReportAssumption ==
    /\ Section \in Seq(Feature) /\ AllFeatures \subseteq Names
    /\ Provider \in Source
    /\ NoJob \notin Nat
    /\ MaxAttempts \in Nat \ {0}
    /\ {MaxJobs, MaxWithdrawals} \subseteq Nat

\* desk.jobs      sequence of web_jobs: section, feature mask, policy stamp,
\*                status, attempts, whether not_before was ever set
\* desk.policy    the policy version the deployed providers declare
\* desk.requests  research_requests: absent, live or deleted; its session ends
\* desk.sections  request_sections: request -> name -> status, job, result (the
\*                job it is of), absent names being disabled at the request
\* desk.subs      job_subscribers that are not deleted
\* desk.results   jobs with a row in market_results; desk.cache points to some
\* desk.reports   the current report_versions row: number, finalized, content
VARIABLE desk

Active == {"running", "draining"}
Pending == {"queued"} \cup Active
Waiting == {"queued", "running"}
NoSection == [status |-> "absent", job |-> NoJob, result |-> NoJob]

DeskInit ==
    desk = [jobs |-> <<>>, policy |-> 0,
            requests |-> [q \in Request |-> [state |-> "absent", session |-> TRUE]],
            sections |-> [q \in Request |-> [n \in Names |-> NoSection]],
            subs |-> {}, results |-> {}, cache |-> {},
            reports |-> [q \in Request |-> [version |-> 0, final |-> FALSE, shown |-> {}]]]

-----------------------------------------------------------------------------
\* Who may have what.

\* _authorized_owner: the request lives and its session is still its member's.
Owner(d, q) == d.requests[q].state = "live" /\ d.requests[q].session

\* _authorized_subscriber: and the job's features are as they were. They were
\* enabled then, so the tests of require_features follow.
Subscriber(d, j, q) == Owner(d, q) /\ MaskCurrent(d.jobs[j].mask)

SubscribersOf(d, j) == {q \in Request : <<j, q>> \in d.subs}

\* The rights to what a job gives: its stamp is the policy version of its lineage,
\* as no job is queued under another than the newest.
MayShow(policy) == Allowed(Provider, policy, {"display", "retain"})

\* _read_result, the live fence.
Readable(d, r) == MaskCurrent(d.jobs[r].mask) /\ MayShow(d.jobs[r].stamp)

\* _prepare: the features a section depends on, and the identity of its job.
Depends(n) == IF n \in AllFeatures THEN Names ELSE {n}
Prepared(d, n) == Enabled({n}) /\ MayShow(d.policy)
Key(n) == [section |-> n, mask |-> [f \in Depends(n) |-> features[f]],
           stamp |-> grants[Provider].row]
KeyOf(job) == [section |-> job.section, mask |-> job.mask, stamp |-> job.stamp]

-----------------------------------------------------------------------------
\* Versions of a report.

\* _snapshot: nothing for an owner who lost the right, and no version without
\* content before the last section has settled.
Snapshot(d, q) ==
    LET mine == d.sections[q]
        shown == {n \in Names : mine[n].result # NoJob /\ Readable(d, mine[n].result)}
        final == \A n \in Names : mine[n].status \notin Waiting
    IN  IF ~Owner(d, q) \/ (shown = {} /\ ~final) THEN d
        ELSE [d EXCEPT !.reports[q] = [version |-> d.reports[q].version + 1,
                                       final |-> final, shown |-> shown]]

\* A snapshot for each of some requests: their order does not matter.
SnapshotAll(d, requests) ==
    [d EXCEPT !.reports = [q \in Request |->
        IF q \in requests THEN Snapshot(d, q).reports[q] ELSE d.reports[q]]]

\* Rows of request_sections, and UPDATE request_sections ... WHERE job_id=j.
Every == Request \X Names
WithoutResult == {r \in Every : desk.sections[r[1]][r[2]].result = NoJob}
StillQueued == {r \in Every : desk.sections[r[1]][r[2]].status = "queued"}

SetSections(d, j, status, rows) ==
    [d EXCEPT !.sections = [q \in Request |-> [n \in Names |->
        LET s == d.sections[q][n]
        IN  IF s.job = j /\ <<q, n>> \in rows THEN [s EXCEPT !.status = status] ELSE s]]]

-----------------------------------------------------------------------------
\* Requests.

\* The section n of a request: cached, joined to a pending job, a new job, or
\* unavailable. fresh: the sections whose cached result has not run out.
Place(d, q, n, fresh) ==
    LET cached == {j \in d.cache : KeyOf(d.jobs[j]) = Key(n)}
        joined == {j \in DOMAIN d.jobs : KeyOf(d.jobs[j]) = Key(n) /\ d.jobs[j].status \in Pending}
        added == Len(d.jobs) + 1
        put(e, status, j, r) ==
            [e EXCEPT !.sections[q][n] = [status |-> status, job |-> j, result |-> r]]
        row == [section |-> n, mask |-> Key(n).mask, stamp |-> Key(n).stamp,
                status |-> "queued", attempts |-> 0, delayed |-> FALSE]
    IN  IF ~features[n].on THEN d
        ELSE IF ~Prepared(d, n) THEN put(d, "unavailable", NoJob, NoJob)
        ELSE IF n \in fresh /\ cached # {}
             THEN put(d, "completed", NoJob, CHOOSE j \in cached : TRUE)
        ELSE IF joined # {}
             THEN LET j == CHOOSE j \in joined : TRUE
                      s == d.jobs[j].status
                  IN  put([d EXCEPT !.subs = d.subs \cup {<<j, q>>}],
                          IF s = "draining" THEN "unavailable" ELSE s, j, NoJob)
        ELSE put([d EXCEPT !.jobs = Append(d.jobs, row), !.subs = d.subs \cup {<<added, q>>}],
                 "queued", added, NoJob)

\* The loop over the sections.
Placed(d0, q, fresh) ==
    LET placed[i \in 0 .. Len(Section)] ==
            IF i = 0 THEN d0 ELSE Place(placed[i - 1], q, Section[i], fresh)
    IN  placed

\* request_research, refresh being fresh = {}.
RequestResearch(q, fresh) ==
    LET d == Placed([desk EXCEPT !.requests[q].state = "live"], q, fresh)[Len(Section)]
    IN  /\ desk.requests[q] = [state |-> "absent", session |-> TRUE]
        /\ Len(d.jobs) <= MaxJobs
        /\ desk' = Snapshot(d, q)
        /\ UNCHANGED rights

-----------------------------------------------------------------------------
\* The lane.

\* Mutant of Refuse: the sections are left as they are.
RefuseSilently(d, j) ==
    LET r == [d EXCEPT !.jobs[j].status = "unavailable",
                       !.subs = {s \in d.subs : s[1] # j}]
    IN  SnapshotAll(r, {q \in SubscribersOf(d, j) : Owner(d, q)})

\* claim_job gives up a candidate: the job, its sections and subscriptions end.
Refuse(d, j) ==
    LET r == SetSections([d EXCEPT !.jobs[j].status = "unavailable",
                                   !.subs = {s \in d.subs : s[1] # j}],
                         j, "unavailable", Every)
    IN  SnapshotAll(r, {q \in SubscribersOf(d, j) : Owner(d, q)})

RefuseIf(d, j, refused) == IF j \in refused THEN Refuse(d, j) ELSE d

\* A candidate still has the rights and the identity it was queued with, and
\* somebody to work for.
Claimable(d, j) ==
    LET job == d.jobs[j]
    IN  /\ \E q \in SubscribersOf(d, j) : Subscriber(d, j, q)
        /\ Prepared(d, job.section) /\ KeyOf(job) = Key(job.section)

\* The loop over the candidates that may not run.
Dropped(d0, refused) ==
    LET dropped[i \in 0 .. MaxJobs] ==
            IF i = 0 THEN d0 ELSE RefuseIf(dropped[i - 1], i, refused)
    IN  dropped

\* claim_job: the queue in its order, up to the first candidate that may run.
\* late: the delayed jobs whose time has come.
ClaimJob(late) ==
    LET due == {j \in DOMAIN desk.jobs : /\ desk.jobs[j].status = "queued"
                                         /\ desk.jobs[j].attempts < MaxAttempts
                                         /\ ~desk.jobs[j].delayed \/ j \in late}
        good == {j \in due : Claimable(desk, j)}
        next == IF good = {} THEN MaxJobs + 1 ELSE CHOOSE j \in good : \A k \in good : j <= k
        d == Dropped(desk, {j \in due : j < next})[MaxJobs]
    IN  /\ due # {}
        /\ \A j \in DOMAIN desk.jobs : desk.jobs[j].status \notin Active
        /\ desk' = IF good = {} THEN d
                   ELSE SetSections([d EXCEPT !.jobs[next].status = "running",
                                              !.jobs[next].attempts = d.jobs[next].attempts + 1],
                                    next, "running", StillQueued)
        /\ UNCHANGED rights

\* mark_draining
MarkDraining(j) ==
    /\ desk.jobs[j].status = "running"
    /\ desk' = SetSections([desk EXCEPT !.jobs[j].status = "draining"], j, "unavailable", Every)
    /\ UNCHANGED rights

\* What a completed job leaves of a subscription: its section gets the outcome,
\* or nothing if the subscriber lost the right to it.
\* Mutant of Entitled: whoever subscribed gets the result.
EverySubscriber(d, j) == SubscribersOf(d, j)

Entitled(d, j) == {q \in SubscribersOf(d, j) : Subscriber(d, j, q)}

\* Mutant of Informed: only those who got the outcome get a version.
OnlyEntitled(d, j) == Entitled(d, j)

Informed(d, j) == {q \in SubscribersOf(d, j) : Owner(d, q)}

\* complete_job with the outcome of the provider.
CompleteJob(j, outcome) ==
    LET entitled == Entitled(desk, j)
        lost == SubscribersOf(desk, j) \ entitled
        status == IF MayShow(desk.jobs[j].stamp) /\ \E q \in SubscribersOf(desk, j) : Subscriber(desk, j, q)
                  THEN outcome ELSE "unavailable"
        stored == status = "completed"
        same == {k \in desk.cache : KeyOf(desk.jobs[k]) = KeyOf(desk.jobs[j])}
        d == [desk EXCEPT
                !.jobs[j].status = status,
                !.results = IF stored THEN desk.results \cup {j} ELSE desk.results,
                !.cache = IF stored THEN (desk.cache \ same) \cup {j} ELSE desk.cache,
                !.subs = desk.subs \ {<<j, q>> : q \in lost},
                !.sections = [q \in Request |-> [n \in Names |->
                    IF desk.sections[q][n].job # j THEN desk.sections[q][n]
                    ELSE IF q \in entitled
                    THEN [status |-> status, job |-> j, result |-> IF stored THEN j ELSE NoJob]
                    ELSE IF q \in lost
                    THEN [status |-> "unavailable", job |-> j, result |-> NoJob]
                    ELSE desk.sections[q][n]]]]
    IN  /\ desk.jobs[j].status \in Active
        /\ desk' = SnapshotAll(d, Informed(desk, j))
        /\ UNCHANGED rights

\* fail_attempt and recover_expired_leases: once more, or the end. A job that has
\* a result is no longer active, so the recovery never finds one to complete.
Settle(j, retry) ==
    LET again == retry /\ desk.jobs[j].attempts < MaxAttempts
        status == IF again THEN "queued" ELSE "failed"
        d == SetSections([desk EXCEPT !.jobs[j].status = status, !.jobs[j].delayed = TRUE],
                         j, status, WithoutResult)
    IN  /\ desk.jobs[j].status \in Active
        /\ desk' = IF again THEN d
                   ELSE SnapshotAll(d, {q \in SubscribersOf(desk, j) : Subscriber(desk, j, q)})
        /\ UNCHANGED rights

FailAttempt(j, retryable) == Settle(j, retryable)
RecoverLease(j) == Settle(j, TRUE)

\* defer_unsubmitted: a denied permit gives the attempt back.
Defer(j) ==
    /\ desk.jobs[j].status = "running"
    /\ desk' = SetSections([desk EXCEPT !.jobs[j].status = "queued",
                                        !.jobs[j].attempts = desk.jobs[j].attempts - 1,
                                        !.jobs[j].delayed = TRUE],
                           j, "queued", WithoutResult)
    /\ UNCHANGED rights

-----------------------------------------------------------------------------
\* Rights withdrawn.

Withdrawals == Changes + Cardinality({q \in Request : desk.requests[q].state = "deleted"})
                       + Cardinality({q \in Request : ~desk.requests[q].session})

\* HistoryService.delete_report, directly or through the denial journal.
DeleteReport(q) ==
    /\ Withdrawals < MaxWithdrawals
    /\ desk.requests[q].state = "live"
    /\ desk' = [desk EXCEPT !.requests[q].state = "deleted",
                            !.subs = {s \in desk.subs : s[2] # q}]
    /\ UNCHANGED rights

\* The session is revoked, or its member suspended.
EndSession(q) ==
    /\ Withdrawals < MaxWithdrawals
    /\ desk.requests[q].session
    /\ desk' = [desk EXCEPT !.requests[q].session = FALSE]
    /\ UNCHANGED rights

\* Reports have no marks: the right to a trace is the same to them.
DeskRights ==
    /\ Withdrawals < MaxWithdrawals
    /\ \/ \E f \in Names : Switch(f)
       \/ \E uses \in {g \in Grant : "trace" \in g} : Record(Provider, uses)
    /\ UNCHANGED desk

\* New settings make the processes declare the newest policy version.
Deploy ==
    /\ desk.policy # grants[Provider].row
    /\ desk' = [desk EXCEPT !.policy = grants[Provider].row]
    /\ UNCHANGED rights

DeskNext ==
    \/ \E q \in Request : \/ \E fresh \in SUBSET Names : RequestResearch(q, fresh)
                          \/ DeleteReport(q) \/ EndSession(q)
    \/ \E late \in SUBSET DOMAIN desk.jobs : ClaimJob(late)
    \/ \E j \in DOMAIN desk.jobs :
          \/ MarkDraining(j) \/ RecoverLease(j) \/ Defer(j)
          \/ \E outcome \in {"completed", "unavailable", "failed"} : CompleteJob(j, outcome)
          \/ \E retryable \in BOOLEAN : FailAttempt(j, retryable)
    \/ DeskRights
    \/ Deploy

DeskSpec == RightsInit /\ DeskInit /\ [][DeskNext]_<<rights, desk>>

-----------------------------------------------------------------------------
\* Properties.

Terminal == {"completed", "unavailable", "failed"}

\* Types; a subscription, a result and the cache name a job that has what they need.
DeskTypeOK ==
    /\ \A j \in DOMAIN desk.jobs :
          /\ j \in Job /\ desk.jobs[j].section \in Names
          /\ desk.jobs[j].status \in Pending \cup Terminal
          /\ desk.jobs[j].attempts \in 0 .. MaxAttempts
    /\ desk.subs \subseteq (DOMAIN desk.jobs) \X Request
    /\ desk.cache \subseteq desk.results
    /\ desk.results = {j \in DOMAIN desk.jobs : desk.jobs[j].status = "completed"}
    /\ \A q \in Request, n \in Names : LET e == desk.sections[q][n] IN
          /\ e.status \in Waiting \cup Terminal \cup {"absent"}
          /\ e.job # NoJob => desk.jobs[e.job].section = n
          /\ e.result # NoJob => e.result \in desk.results

\* What a section says is where its job stands, through joins, drains, retries,
\* deferrals and refusals; and no section waits for a job that will not tell it.
SectionFollowsJob ==
    \A q \in Request, n \in Names : LET e == desk.sections[q][n] IN
        desk.requests[q].state = "live" =>
            /\ e.status \in Waiting => <<e.job, q>> \in desk.subs
            /\ e.job # NoJob /\ <<e.job, q>> \in desk.subs =>
                  LET status == desk.jobs[e.job].status
                  IN  /\ e.status = (IF status = "draining" THEN "unavailable" ELSE status)
                      /\ status = "completed" => e.result = e.job

\* Whoever lost the session or deleted the report gets no result and no version
\* any more, and no result is attached under features that have changed since
\* it was asked for, whatever happens to them while the job runs.
WithdrawnGetsNothing ==
    [][\A q \in Request :
         /\ desk'.reports[q] # desk.reports[q] => Owner(desk', q)
         /\ \A n \in Names : LET r == desk'.sections[q][n].result IN
               r # NoJob /\ r # desk.sections[q][n].result =>
                   Owner(desk', q) /\ Readable(desk', r)]_desk

\* When the last job of a request has ended its owner has a finalized version,
\* also when the results were refused. Only a job that failed after its features
\* changed leaves none: fail_attempt informs subscribers, not owners.
FinishedReportIsFinal ==
    \A q \in Request :
        /\ Owner(desk, q)
        /\ \A n \in Names : LET j == desk.sections[q][n].job IN
              j # NoJob => /\ desk.jobs[j].status \in Terminal
                           /\ desk.jobs[j].status = "failed" => MaskCurrent(desk.jobs[j].mask)
        => desk.reports[q].version > 0 /\ desk.reports[q].final

=============================================================================
