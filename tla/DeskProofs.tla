----------------------------- MODULE DeskProofs ------------------------------
(* The reports of ReportDelivery, for every number of requests, sections,      *)
(* jobs and changes of rights: a section says where its job stands, whoever    *)
(* lost a right gets nothing, and a report ends when its last job does.        *)
EXTENDS ReportDelivery, SequenceTheorems, WellFoundedInduction, TLAPS

FeatureRow == [on: BOOLEAN, version: Nat]
Mask == UNION {[F -> FeatureRow] : F \in SUBSET Feature}
JobRow == [section: Names, mask: Mask, stamp: Nat, status: Pending \cup Terminal,
           attempts: 0 .. MaxAttempts, delayed: BOOLEAN]
RequestRow == [state: {"absent", "live", "deleted"}, session: BOOLEAN]
SectionRow == [status: Waiting \cup Terminal \cup {"absent"},
               job: Nat \cup {NoJob}, result: Nat \cup {NoJob}]
ReportRow == [version: Nat, final: BOOLEAN, shown: SUBSET Names]

Tables == [jobs: Seq(JobRow), policy: Nat, requests: [Request -> RequestRow],
           sections: [Request -> [Names -> SectionRow]], subs: SUBSET (Nat \X Request),
           results: SUBSET Nat, cache: SUBSET Nat, reports: [Request -> ReportRow]]

RightsTyped == /\ features \in [Feature -> FeatureRow]
               /\ grants \in [Source -> [row: Nat, uses: SUBSET Uses]]
               /\ authority \in [journal: BOOLEAN, withheld: BOOLEAN]

\* Features only move on: no mask is ahead of them, so one that is behind stays so.
NotAhead(mask) == \A f \in DOMAIN mask : mask[f].version <= features[f].version
MasksBehind == \A j \in DOMAIN desk.jobs : NotAhead(desk.jobs[j].mask)

\* What the rows of the tables say of one another.
Linked(d) ==
    /\ d.subs \subseteq (DOMAIN d.jobs) \X Request
    /\ d.cache \subseteq d.results
    /\ d.results = {j \in DOMAIN d.jobs : d.jobs[j].status = "completed"}
    /\ \A j \in DOMAIN d.jobs : d.jobs[j].status \in Active => d.jobs[j].attempts # 0

\* What a section says of a job, in the words of a section.
Said(status) == IF status = "draining" THEN "unavailable" ELSE status

\* A section that waits is subscribed to its job; one whose job is under way is
\* still subscribed and has no result; a subscribed one says where the job stands.
SectionOK(d, q, n) ==
    LET e == d.sections[q][n]
        mine == e.job # NoJob /\ <<e.job, q>> \in d.subs
        live == d.requests[q].state = "live"
    IN  /\ e.job # NoJob => e.job \in DOMAIN d.jobs /\ d.jobs[e.job].section = n
        /\ e.result # NoJob => e.result \in d.results /\ e.job \in {NoJob, e.result}
        /\ d.requests[q].state = "absent" => e = NoSection
        /\ live /\ e.job # NoJob /\ d.jobs[e.job].status \in Pending => mine
        /\ live /\ e.status \in Waiting => mine
        /\ live /\ mine => /\ e.status = Said(d.jobs[e.job].status)
                           /\ d.jobs[e.job].status = "completed" => e.result = e.job
SectionsOK(d) == \A q \in Request, n \in Names : SectionOK(d, q, n)

\* FinishedReportIsFinal, of one request.
Ended(d, q) ==
    /\ Owner(d, q)
    /\ \A n \in Names : LET j == d.sections[q][n].job IN
          j # NoJob => /\ d.jobs[j].status \in Terminal
                       /\ d.jobs[j].status = "failed" => MaskCurrent(d.jobs[j].mask)
Final(d, q) == Ended(d, q) => d.reports[q].version > 0 /\ d.reports[q].final

DeskOK(d) == d \in Tables /\ Linked(d) /\ SectionsOK(d)
DeskInv == /\ RightsTyped /\ MasksBehind /\ DeskOK(desk) /\ Len(desk.jobs) <= MaxJobs
           /\ \A q \in Request : Final(desk, q)

-----------------------------------------------------------------------------
\* Counting up: what a loop's index reaches.

LEMMA LeastNumber ==
    ASSUME NEW T \in SUBSET Nat, T # {} PROVE \E x \in T : \A y \in T : x <= y
<1>1. IsWellFoundedOn(OpToRel(<, Nat), Nat)
  BY NatLessThanWellFounded
<1>2. PICK x \in T : \A y \in T : ~(<<y, x>> \in OpToRel(<, Nat))
  BY <1>1, WFMin
<1>3. \A y \in T : ~(y < x)
  BY <1>2 DEF OpToRel
<1>. QED  BY <1>3

LEMMA CountUp ==
    ASSUME NEW N \in Nat, NEW S, 0 \in S, \A n \in 0 .. N : n \in S /\ n < N => n + 1 \in S
    PROVE  \A n \in 0 .. N : n \in S
<1>. DEFINE T == {n \in 0 .. N : n \notin S}
<1>1. SUFFICES ASSUME T # {} PROVE FALSE
  OBVIOUS
<1>2. T \in SUBSET Nat
  OBVIOUS
<1>3. PICK x \in T : \A y \in T : x <= y
  BY <1>1, <1>2, LeastNumber
<1>4. x # 0 /\ x - 1 \in 0 .. N /\ x - 1 \notin T
  BY <1>3
<1>. QED  BY <1>3, <1>4

\* The loops are defined by recursion: the functions they name exist.
IsDropped(f, m, d0, refused) ==
    f = [i \in 0 .. m |-> IF i = 0 THEN d0 ELSE RefuseIf(f[i - 1], i, refused)]
IsPlaced(f, m, d0, q, fresh) ==
    f = [i \in 0 .. m |-> IF i = 0 THEN d0 ELSE Place(f[i - 1], q, Section[i], fresh)]

LEMMA DroppedUnfolds ==
    ASSUME NEW d0, NEW refused
    PROVE  /\ Dropped(d0, refused)[0] = d0
           /\ \A i \in 1 .. MaxJobs : Dropped(d0, refused)[i] =
                RefuseIf(Dropped(d0, refused)[i - 1], i, refused)
<1>. DEFINE S == {m \in 0 .. MaxJobs : \E f : IsDropped(f, m, d0, refused)}
            run == Dropped(d0, refused)
<1>1. MaxJobs \in Nat
  BY ReportAssumption
<1>2. 0 \in S
  <2>1. IsDropped([i \in 0 .. 0 |-> d0], 0, d0, refused)
    BY DEF IsDropped
  <2>. QED  BY <1>1, <2>1
<1>3. ASSUME NEW m \in 0 .. MaxJobs, m \in S, m < MaxJobs PROVE m + 1 \in S
  <2>1. PICK f : IsDropped(f, m, d0, refused)
    BY <1>3
  <2>. DEFINE g == [i \in 0 .. m + 1 |-> IF i <= m THEN f[i] ELSE RefuseIf(f[i - 1], i, refused)]
  <2>2. \A i \in 0 .. m + 1 : i # 0 => i - 1 \in 0 .. m /\ g[i - 1] = f[i - 1]
    BY <1>1
  <2>3. \A i \in 0 .. m : f[i] = IF i = 0 THEN d0 ELSE RefuseIf(f[i - 1], i, refused)
    BY <2>1 DEF IsDropped
  <2>4. \A i \in 0 .. m + 1 : g[i] = IF i = 0 THEN d0 ELSE RefuseIf(g[i - 1], i, refused)
    <3>. SUFFICES ASSUME NEW i \in 0 .. m + 1
                  PROVE  g[i] = IF i = 0 THEN d0 ELSE RefuseIf(g[i - 1], i, refused)
      OBVIOUS
    <3>1. CASE i \in 0 .. m
      BY <2>2, <2>3, <3>1
    <3>2. CASE i = m + 1
      BY <1>1, <2>2, <3>2
    <3>. QED  BY <1>1, <3>1, <3>2
  <2>5. g = [i \in 0 .. m + 1 |-> g[i]]
    OBVIOUS
  <2>. HIDE DEF g
  <2>6. IsDropped(g, m + 1, d0, refused)
    BY <2>4, <2>5 DEF IsDropped
  <2>. QED  BY <1>1, <1>3, <2>6
<1>4. MaxJobs \in S
  <2>. DEFINE N == MaxJobs
  <2>1. \A n \in 0 .. N : n \in S /\ n < N => n + 1 \in S
    BY <1>3
  <2>2. N \in Nat /\ 0 \in S
    BY <1>1, <1>2
  <2>. HIDE DEF S, N
  <2>3. N \in S
    BY <2>1, <2>2, CountUp
  <2>. QED  BY <2>3 DEF N
<1>5. run = CHOOSE f : IsDropped(f, MaxJobs, d0, refused)
  BY DEF Dropped, IsDropped
<1>6. IsDropped(run, MaxJobs, d0, refused)
  <2>. HIDE DEF run
  <2>. QED  BY <1>4, <1>5
<1>. HIDE DEF run
<1>7. /\ run[0] = d0
      /\ \A i \in 1 .. MaxJobs : run[i] = RefuseIf(run[i - 1], i, refused)
  BY <1>1, <1>6 DEF IsDropped
<1>. QED  BY <1>7 DEF run

LEMMA PlacedUnfolds ==
    ASSUME NEW d0, NEW q, NEW fresh
    PROVE  /\ Placed(d0, q, fresh)[0] = d0
           /\ \A i \in 1 .. Len(Section) : Placed(d0, q, fresh)[i] =
                Place(Placed(d0, q, fresh)[i - 1], q, Section[i], fresh)
<1>. DEFINE S == {m \in 0 .. Len(Section) : \E f : IsPlaced(f, m, d0, q, fresh)}
            run == Placed(d0, q, fresh)
<1>1. Len(Section) \in Nat
  BY ReportAssumption, LenProperties
<1>2. 0 \in S
  <2>1. IsPlaced([i \in 0 .. 0 |-> d0], 0, d0, q, fresh)
    BY DEF IsPlaced
  <2>. QED  BY <1>1, <2>1
<1>3. ASSUME NEW m \in 0 .. Len(Section), m \in S, m < Len(Section) PROVE m + 1 \in S
  <2>1. PICK f : IsPlaced(f, m, d0, q, fresh)
    BY <1>3
  <2>. DEFINE g == [i \in 0 .. m + 1 |-> IF i <= m THEN f[i] ELSE Place(f[i - 1], q, Section[i], fresh)]
  <2>2. \A i \in 0 .. m + 1 : i # 0 => i - 1 \in 0 .. m /\ g[i - 1] = f[i - 1]
    BY <1>1
  <2>3. \A i \in 0 .. m : f[i] = IF i = 0 THEN d0 ELSE Place(f[i - 1], q, Section[i], fresh)
    BY <2>1 DEF IsPlaced
  <2>4. \A i \in 0 .. m + 1 : g[i] = IF i = 0 THEN d0 ELSE Place(g[i - 1], q, Section[i], fresh)
    <3>. SUFFICES ASSUME NEW i \in 0 .. m + 1
                  PROVE  g[i] = IF i = 0 THEN d0 ELSE Place(g[i - 1], q, Section[i], fresh)
      OBVIOUS
    <3>1. CASE i \in 0 .. m
      BY <2>2, <2>3, <3>1
    <3>2. CASE i = m + 1
      BY <1>1, <2>2, <3>2
    <3>. QED  BY <1>1, <3>1, <3>2
  <2>5. g = [i \in 0 .. m + 1 |-> g[i]]
    OBVIOUS
  <2>. HIDE DEF g
  <2>6. IsPlaced(g, m + 1, d0, q, fresh)
    BY <2>4, <2>5 DEF IsPlaced
  <2>. QED  BY <1>1, <1>3, <2>6
<1>4. Len(Section) \in S
  <2>. DEFINE N == Len(Section)
  <2>1. \A n \in 0 .. N : n \in S /\ n < N => n + 1 \in S
    BY <1>3
  <2>2. N \in Nat /\ 0 \in S
    BY <1>1, <1>2
  <2>. HIDE DEF S, N
  <2>3. N \in S
    BY <2>1, <2>2, CountUp
  <2>. QED  BY <2>3 DEF N
<1>5. run = CHOOSE f : IsPlaced(f, Len(Section), d0, q, fresh)
  BY DEF Placed, IsPlaced
<1>6. IsPlaced(run, Len(Section), d0, q, fresh)
  <2>. HIDE DEF run
  <2>. QED  BY <1>4, <1>5
<1>. HIDE DEF run
<1>7. /\ run[0] = d0
      /\ \A i \in 1 .. Len(Section) : run[i] = Place(run[i - 1], q, Section[i], fresh)
  BY <1>1, <1>6 DEF IsPlaced
<1>. QED  BY <1>7 DEF run

-----------------------------------------------------------------------------
\* Tables and their fields.

LEMMA SectionNames ==
    /\ NoJob \notin Nat /\ Len(Section) \in Nat /\ MaxJobs \in Nat /\ MaxAttempts \in Nat \ {0}
    /\ \A i \in 1 .. Len(Section) : Section[i] \in Names
    /\ Names \subseteq Feature /\ AllFeatures \subseteq Names
<1>1. Len(Section) \in Nat /\ DOMAIN Section = 1 .. Len(Section)
  BY ReportAssumption, LenProperties
<1>2. \A i \in 1 .. Len(Section) : Section[i] \in Feature
  BY ReportAssumption, ElementOfSeq
<1>. QED  BY <1>1, <1>2, ReportAssumption DEF Names

LEMMA TableFields ==
    ASSUME NEW d \in Tables
    PROVE  /\ d.jobs \in Seq(JobRow) /\ Len(d.jobs) \in Nat /\ DOMAIN d.jobs = 1 .. Len(d.jobs)
           /\ \A j \in DOMAIN d.jobs : j \in Nat /\ d.jobs[j] \in JobRow
           /\ d.policy \in Nat /\ d.requests \in [Request -> RequestRow]
           /\ d.sections \in [Request -> [Names -> SectionRow]]
           /\ \A q \in Request, n \in Names : d.sections[q][n] \in SectionRow
           /\ d.subs \subseteq Nat \X Request /\ d.results \subseteq Nat /\ d.cache \subseteq Nat
           /\ d.reports \in [Request -> ReportRow]
<1>1. d.jobs \in Seq(JobRow)
  BY DEF Tables
<1>2. Len(d.jobs) \in Nat /\ DOMAIN d.jobs = 1 .. Len(d.jobs)
  BY <1>1, LenProperties
<1>3. \A j \in DOMAIN d.jobs : j \in Nat /\ d.jobs[j] \in JobRow
  BY <1>1, <1>2, ElementOfSeq
<1>4. /\ d.policy \in Nat /\ d.requests \in [Request -> RequestRow]
      /\ d.sections \in [Request -> [Names -> SectionRow]]
      /\ d.subs \subseteq Nat \X Request /\ d.results \subseteq Nat /\ d.cache \subseteq Nat
      /\ d.reports \in [Request -> ReportRow]
  BY DEF Tables
<1>5. \A q \in Request, n \in Names : d.sections[q][n] \in SectionRow
  BY <1>4
<1>. QED  BY <1>1, <1>2, <1>3, <1>4, <1>5

\* A write of one row of web_jobs.
LEMMA JobWritten ==
    ASSUME NEW jobs \in Seq(JobRow), NEW j \in DOMAIN jobs, NEW row \in JobRow
    PROVE  /\ [jobs EXCEPT ![j] = row] \in Seq(JobRow)
           /\ DOMAIN [jobs EXCEPT ![j] = row] = DOMAIN jobs
           /\ [jobs EXCEPT ![j] = row][j] = row
           /\ \A i \in DOMAIN jobs : i # j => [jobs EXCEPT ![j] = row][i] = jobs[i]
BY LenProperties, ExceptSeq

\* What a step that works on job j leaves alone.
OnlyJob(d, e, j) ==
    /\ e \in Tables /\ DOMAIN e.jobs = DOMAIN d.jobs
    /\ \A i \in DOMAIN d.jobs : i # j => e.jobs[i] = d.jobs[i]
    /\ e.jobs[j].section = d.jobs[j].section /\ e.jobs[j].mask = d.jobs[j].mask
    /\ e.jobs[j].stamp = d.jobs[j].stamp
    /\ e.requests = d.requests /\ e.policy = d.policy

LEMMA SectionsSet ==
    ASSUME NEW d \in Tables, NEW j, NEW rows,
           NEW status \in Waiting \cup Terminal \cup {"absent"}
    PROVE  LET e == SetSections(d, j, status, rows) IN
           /\ e \in Tables /\ e.jobs = d.jobs /\ e.policy = d.policy /\ e.requests = d.requests
           /\ e.subs = d.subs /\ e.results = d.results /\ e.cache = d.cache /\ e.reports = d.reports
           /\ \A q \in Request, n \in Names : LET s == d.sections[q][n] IN
                e.sections[q][n] = IF s.job = j /\ <<q, n>> \in rows
                                   THEN [status |-> status, job |-> s.job, result |-> s.result]
                                   ELSE s
<1>. DEFINE e == SetSections(d, j, status, rows)
            Row(q, n) == LET s == d.sections[q][n]
                         IN  IF s.job = j /\ <<q, n>> \in rows THEN [s EXCEPT !.status = status] ELSE s
            new == [q \in Request |-> [n \in Names |-> Row(q, n)]]
<1>1. e = [d EXCEPT !.sections = new]
  BY DEF SetSections
<1>2. ASSUME NEW q \in Request, NEW n \in Names
      PROVE  LET s == d.sections[q][n] IN
             /\ Row(q, n) \in SectionRow
             /\ Row(q, n) = IF s.job = j /\ <<q, n>> \in rows
                            THEN [status |-> status, job |-> s.job, result |-> s.result] ELSE s
  <2>. DEFINE s == d.sections[q][n]
  <2>1. s \in SectionRow
    BY TableFields
  <2>2. /\ [s EXCEPT !.status = status] = [status |-> status, job |-> s.job, result |-> s.result]
        /\ [s EXCEPT !.status = status] \in SectionRow
    BY <2>1 DEF SectionRow
  <2>. HIDE DEF s
  <2>3. Row(q, n) = IF s.job = j /\ <<q, n>> \in rows THEN [s EXCEPT !.status = status] ELSE s
    BY DEF s
  <2>. HIDE DEF Row
  <2>4. /\ Row(q, n) \in SectionRow
        /\ Row(q, n) = IF s.job = j /\ <<q, n>> \in rows
                       THEN [status |-> status, job |-> s.job, result |-> s.result] ELSE s
    BY <2>1, <2>2, <2>3
  <2>. QED  BY <2>4 DEF s
<1>. HIDE DEF Row
<1>3. new \in [Request -> [Names -> SectionRow]]
  BY <1>2
<1>4. \A q \in Request, n \in Names : LET s == d.sections[q][n] IN
        new[q][n] = IF s.job = j /\ <<q, n>> \in rows
                    THEN [status |-> status, job |-> s.job, result |-> s.result] ELSE s
  BY <1>2
<1>. HIDE DEF new
<1>5. /\ e \in Tables /\ e.jobs = d.jobs /\ e.policy = d.policy /\ e.requests = d.requests
      /\ e.subs = d.subs /\ e.results = d.results /\ e.cache = d.cache /\ e.reports = d.reports
      /\ e.sections = new
  BY <1>1, <1>3 DEF Tables
<1>. QED  BY <1>4, <1>5

-----------------------------------------------------------------------------
\* Snapshots.

LEMMA SnapshotReports ==
    ASSUME NEW d \in Tables, NEW q \in Request
    PROVE  LET e == Snapshot(d, q)
               final == \A n \in Names : d.sections[q][n].status \notin Waiting
           IN  /\ e.reports[q] \in ReportRow
               /\ e.reports[q] # d.reports[q] => Owner(d, q)
               /\ Owner(d, q) /\ final => e.reports[q].version > 0 /\ e.reports[q].final
<1>. DEFINE mine == d.sections[q]
            shown == {n \in Names : mine[n].result # NoJob /\ Readable(d, mine[n].result)}
            final == \A n \in Names : mine[n].status \notin Waiting
            row == [version |-> d.reports[q].version + 1, final |-> final, shown |-> shown]
<1>1. Snapshot(d, q) = IF ~Owner(d, q) \/ (shown = {} /\ ~final) THEN d
                       ELSE [d EXCEPT !.reports[q] = row]
  BY DEF Snapshot
<1>2. d.reports \in [Request -> ReportRow] /\ d.reports[q].version \in Nat
  BY TableFields DEF ReportRow
<1>3. row \in ReportRow
  BY <1>2 DEF ReportRow
<1>4. row.version > 0 /\ row.final = final
  BY <1>2
<1>. HIDE DEF row, shown
<1>5. [d EXCEPT !.reports[q] = row].reports[q] = row
  BY <1>2 DEF Tables
<1>6. CASE ~Owner(d, q) \/ (shown = {} /\ ~final)
  BY <1>1, <1>2, <1>6
<1>7. CASE ~(~Owner(d, q) \/ (shown = {} /\ ~final))
  BY <1>1, <1>3, <1>4, <1>5, <1>7
<1>. QED  BY <1>6, <1>7

LEMMA SnapshotsTaken ==
    ASSUME NEW d \in Tables, NEW requests
    PROVE  LET e == SnapshotAll(d, requests) IN
           /\ e \in Tables /\ e.jobs = d.jobs /\ e.policy = d.policy /\ e.requests = d.requests
           /\ e.subs = d.subs /\ e.results = d.results /\ e.cache = d.cache
           /\ e.sections = d.sections
           /\ \A q \in Request :
                /\ e.reports[q] # d.reports[q] => q \in requests /\ Owner(d, q)
                /\ q \in requests /\ Owner(d, q)
                   /\ (\A n \in Names : d.sections[q][n].status \notin Waiting)
                   => e.reports[q].version > 0 /\ e.reports[q].final
<1>. DEFINE new == [q \in Request |->
                      IF q \in requests THEN Snapshot(d, q).reports[q] ELSE d.reports[q]]
<1>1. new \in [Request -> ReportRow]
  BY SnapshotReports, TableFields
<1>2. \A q \in Request :
        /\ new[q] # d.reports[q] => q \in requests /\ Owner(d, q)
        /\ q \in requests /\ Owner(d, q)
           /\ (\A n \in Names : d.sections[q][n].status \notin Waiting)
           => new[q].version > 0 /\ new[q].final
  BY SnapshotReports
<1>3. SnapshotAll(d, requests) = [d EXCEPT !.reports = new]
  BY DEF SnapshotAll
<1>. HIDE DEF new
<1>. QED  BY <1>1, <1>2, <1>3 DEF Tables

\* One snapshot is a snapshot for one request.
LEMMA SnapshotOfOne ==
    ASSUME NEW d \in Tables, NEW q \in Request
    PROVE  Snapshot(d, q) = SnapshotAll(d, {q})
<1>. DEFINE one == Snapshot(d, q)
            new == [p \in Request |-> IF p \in {q} THEN one.reports[p] ELSE d.reports[p]]
<1>1. one = d \/ \E row : one = [d EXCEPT !.reports[q] = row]
  BY DEF Snapshot
<1>2. SnapshotAll(d, {q}) = [d EXCEPT !.reports = new]
  BY DEF SnapshotAll
<1>3. CASE one = d
  <2>1. new = d.reports
    BY <1>3, TableFields
  <2>. QED  BY <1>2, <1>3, <2>1 DEF Tables
<1>4. ASSUME NEW row, one = [d EXCEPT !.reports[q] = row] PROVE one = SnapshotAll(d, {q})
  <2>1. one.reports = [d.reports EXCEPT ![q] = row]
    BY <1>4 DEF Tables
  <2>2. new = [d.reports EXCEPT ![q] = row]
    BY <2>1, TableFields
  <2>. QED  BY <1>2, <1>4, <2>2
<1>. QED  BY <1>1, <1>3, <1>4

\* When every job of a request has ended none of its sections waits.
LEMMA EndedIsSettled ==
    ASSUME NEW d, DeskOK(d), NEW q \in Request, Ended(d, q)
    PROVE  \A n \in Names : d.sections[q][n].status \notin Waiting
<1>. SUFFICES ASSUME NEW n \in Names, d.sections[q][n].status \in Waiting PROVE FALSE
  OBVIOUS
<1>. DEFINE s == d.sections[q][n]
<1>1. SectionOK(d, q, n) /\ d.requests[q].state = "live"
  BY DEF DeskOK, SectionsOK, Ended, Owner
<1>2. s.job # NoJob /\ <<s.job, q>> \in d.subs /\ s.status = Said(d.jobs[s.job].status)
  BY <1>1 DEF SectionOK
<1>3. d.jobs[s.job].status \in Terminal
  BY <1>2 DEF Ended
<1>. QED  BY <1>2, <1>3 DEF Said, Waiting, Terminal

\* The rows of the sections fit whatever else of the tables changes.
LEMMA SameSections ==
    ASSUME NEW d, SectionsOK(d), NEW e, e.jobs = d.jobs, e.requests = d.requests,
           e.sections = d.sections, e.results = d.results, e.subs = d.subs
    PROVE  SectionsOK(e)
<1>. SUFFICES ASSUME NEW q \in Request, NEW n \in Names PROVE SectionOK(e, q, n)
  BY DEF SectionsOK
<1>1. SectionOK(d, q, n)
  BY DEF SectionsOK
<1>. QED  BY <1>1 DEF SectionOK

LEMMA SnapshotsKeep ==
    ASSUME NEW d, DeskOK(d), NEW requests
    PROVE  LET e == SnapshotAll(d, requests) IN
           /\ DeskOK(e)
           /\ \A q \in Request : /\ q \in requests \/ Final(d, q) => Final(e, q)
                                 /\ e.reports[q] # d.reports[q] => Owner(e, q)
<1>. DEFINE e == SnapshotAll(d, requests)
<1>1. /\ e \in Tables /\ e.jobs = d.jobs /\ e.policy = d.policy /\ e.requests = d.requests
      /\ e.subs = d.subs /\ e.results = d.results /\ e.cache = d.cache
      /\ e.sections = d.sections
      /\ \A q \in Request :
           /\ e.reports[q] # d.reports[q] => q \in requests /\ Owner(d, q)
           /\ q \in requests /\ Owner(d, q)
              /\ (\A n \in Names : d.sections[q][n].status \notin Waiting)
              => e.reports[q].version > 0 /\ e.reports[q].final
  BY SnapshotsTaken DEF DeskOK
<1>. HIDE DEF e
<1>2. Linked(e)
  BY <1>1 DEF DeskOK, Linked
<1>3. SectionsOK(e)
  BY <1>1, SameSections DEF DeskOK
<1>4. \A q \in Request : Owner(e, q) = Owner(d, q) /\ Ended(e, q) = Ended(d, q)
  BY <1>1 DEF Owner, Ended
<1>5. ASSUME NEW q \in Request, q \in requests, Ended(e, q)
      PROVE  e.reports[q].version > 0 /\ e.reports[q].final
  BY <1>1, <1>4, <1>5, EndedIsSettled DEF Ended
<1>6. ASSUME NEW q \in Request, q \notin requests, Final(d, q)
      PROVE  Final(e, q)
  BY <1>1, <1>4, <1>6 DEF Final
<1>7. \A q \in Request : q \in requests \/ Final(d, q) => Final(e, q)
  BY <1>5, <1>6 DEF Final
<1>8. DeskOK(e) /\ \A q \in Request : e.reports[q] # d.reports[q] => Owner(e, q)
  BY <1>1, <1>2, <1>3, <1>4 DEF DeskOK
<1>. QED  BY <1>7, <1>8 DEF e

-----------------------------------------------------------------------------
\* A job goes on: every action of the lane writes one job that is pending, the
\* sections that name it, and what depends on its end.

Moved(d, e, j) ==
    LET job == e.jobs[j] IN
    /\ j \in DOMAIN d.jobs /\ d.jobs[j].status \in Pending
    /\ OnlyJob(d, e, j)
    /\ job.status \in Active => job.attempts # 0
    /\ e.subs \subseteq d.subs /\ \A s \in d.subs : s[1] # j => s \in e.subs
    /\ job.status \in Pending => e.subs = d.subs
    /\ e.results = IF job.status = "completed" THEN d.results \cup {j} ELSE d.results
    /\ e.cache \subseteq e.results
    /\ \A q \in Request, n \in Names :
         LET s == d.sections[q][n]
             t == e.sections[q][n]
         IN  IF s.job # j THEN t = s
             ELSE /\ t.job = j
                  /\ t.result = IF job.status = "completed" /\ <<j, q>> \in e.subs
                                THEN j ELSE NoJob
                  /\ d.requests[q].state = "live" =>
                       IF <<j, q>> \in e.subs THEN t.status = Said(job.status)
                       ELSE t.status \notin Waiting
    /\ e.reports = d.reports

LEMMA MovedLinks ==
    ASSUME NEW d, DeskOK(d), NEW e, NEW j, Moved(d, e, j) PROVE Linked(e)
<1>1. /\ j \in DOMAIN d.jobs /\ d.jobs[j].status \in Pending /\ DOMAIN e.jobs = DOMAIN d.jobs
      /\ \A i \in DOMAIN d.jobs : i # j => e.jobs[i] = d.jobs[i]
      /\ e.jobs[j].status \in Active => e.jobs[j].attempts # 0
      /\ e.subs \subseteq d.subs /\ e.cache \subseteq e.results
      /\ e.results = IF e.jobs[j].status = "completed" THEN d.results \cup {j} ELSE d.results
  BY DEF Moved, OnlyJob
<1>2. Linked(d)
  BY DEF DeskOK
<1>3. e.subs \subseteq (DOMAIN e.jobs) \X Request
  BY <1>1, <1>2 DEF Linked
<1>4. e.results = {i \in DOMAIN e.jobs : e.jobs[i].status = "completed"}
  <2>1. d.results = {i \in DOMAIN d.jobs : d.jobs[i].status = "completed"} /\ j \notin d.results
    BY <1>1, <1>2 DEF Linked, Pending, Active
  <2>. QED  BY <1>1, <2>1
<1>5. \A i \in DOMAIN e.jobs : e.jobs[i].status \in Active => e.jobs[i].attempts # 0
  BY <1>1, <1>2 DEF Linked
<1>. QED  BY <1>1, <1>3, <1>4, <1>5 DEF Linked

LEMMA MovedSections ==
    ASSUME NEW d, DeskOK(d), NEW e, NEW j, Moved(d, e, j) PROVE SectionsOK(e)
<1>. SUFFICES ASSUME NEW q \in Request, NEW n \in Names PROVE SectionOK(e, q, n)
  BY DEF SectionsOK
<1>. DEFINE s == d.sections[q][n]
            t == e.sections[q][n]
            job == e.jobs[j]
<1>1. /\ j \in DOMAIN d.jobs /\ d.jobs[j].status \in Pending /\ DOMAIN e.jobs = DOMAIN d.jobs
      /\ \A i \in DOMAIN d.jobs : i # j => e.jobs[i] = d.jobs[i]
      /\ job.section = d.jobs[j].section /\ e.requests = d.requests
      /\ e.subs \subseteq d.subs /\ \A x \in d.subs : x[1] # j => x \in e.subs
      /\ job.status \in Pending => e.subs = d.subs
      /\ e.results = IF job.status = "completed" THEN d.results \cup {j} ELSE d.results
  BY DEF Moved, OnlyJob
<1>2. SectionOK(d, q, n) /\ Linked(d)
  BY DEF DeskOK, SectionsOK
<1>3. j \in Nat /\ j # NoJob
  BY <1>1, TableFields, SectionNames DEF DeskOK
<1>4. CASE s.job # j
  <2>1. t = s
    BY <1>4 DEF Moved
  <2>2. <<s.job, q>> \in e.subs <=> <<s.job, q>> \in d.subs
    BY <1>1, <1>4
  <2>3. s.job # NoJob => s.job \in DOMAIN d.jobs /\ e.jobs[s.job] = d.jobs[s.job]
    BY <1>1, <1>2, <1>4 DEF SectionOK
  <2>. QED  BY <1>1, <1>2, <2>1, <2>2, <2>3 DEF SectionOK
<1>5. CASE s.job = j
  <2>1. /\ t.job = j
        /\ t.result = IF job.status = "completed" /\ <<j, q>> \in e.subs THEN j ELSE NoJob
        /\ d.requests[q].state = "live" =>
             IF <<j, q>> \in e.subs THEN t.status = Said(job.status) ELSE t.status \notin Waiting
    BY <1>5 DEF Moved
  <2>2. d.requests[q].state # "absent"
    BY <1>2, <1>3, <1>5 DEF SectionOK, NoSection
  <2>3. d.requests[q].state = "live" => <<j, q>> \in d.subs
    BY <1>1, <1>2, <1>3, <1>5 DEF SectionOK
  <2>4. d.jobs[j].section = n
    BY <1>2, <1>3, <1>5 DEF SectionOK
  <2>. QED  BY <1>1, <1>3, <2>1, <2>2, <2>3, <2>4 DEF SectionOK
<1>. QED  BY <1>4, <1>5

LEMMA MovedEnds ==
    ASSUME NEW d, DeskOK(d), NEW e, NEW j, Moved(d, e, j), NEW q \in Request,
           Ended(e, q), ~Ended(d, q)
    PROVE  /\ <<j, q>> \in d.subs /\ Owner(d, q) /\ e.jobs[j].status \in Terminal
           /\ e.jobs[j].status = "failed" => MaskCurrent(d.jobs[j].mask)
<1>1. /\ j \in DOMAIN d.jobs /\ d.jobs[j].status \in Pending
      /\ \A i \in DOMAIN d.jobs : i # j => e.jobs[i] = d.jobs[i]
      /\ e.jobs[j].mask = d.jobs[j].mask /\ e.requests = d.requests
  BY DEF Moved, OnlyJob
<1>2. \A n \in Names : e.sections[q][n].job = d.sections[q][n].job
  BY DEF Moved
<1>3. Owner(d, q) /\ d.requests[q].state = "live"
  BY <1>1 DEF Ended, Owner
<1>4. j # NoJob
  BY <1>1, TableFields, SectionNames DEF DeskOK
<1>5. ASSUME \A n \in Names : d.sections[q][n].job # j PROVE FALSE
  <2>1. \A n \in Names : d.sections[q][n].job # NoJob =>
          d.sections[q][n].job \in DOMAIN d.jobs /\ e.jobs[d.sections[q][n].job] = d.jobs[d.sections[q][n].job]
    BY <1>1, <1>5 DEF DeskOK, SectionsOK, SectionOK
  <2>. QED  BY <1>2, <1>3, <2>1 DEF Ended
<1>6. PICK n \in Names : d.sections[q][n].job = j
  BY <1>5
<1>7. <<j, q>> \in d.subs
  BY <1>1, <1>3, <1>4, <1>6 DEF DeskOK, SectionsOK, SectionOK
<1>. QED  BY <1>1, <1>2, <1>3, <1>4, <1>6, <1>7 DEF Ended

\* What jobs are about never changes.
SameJobs(d, f) ==
    /\ f.requests = d.requests /\ DOMAIN f.jobs = DOMAIN d.jobs
    /\ \A k \in DOMAIN d.jobs : /\ f.jobs[k].section = d.jobs[k].section
                               /\ f.jobs[k].mask = d.jobs[k].mask
                               /\ f.jobs[k].stamp = d.jobs[k].stamp

\* Only owners get a version, or a result they may read.
Given(d, f, q) ==
    /\ f.reports[q] # d.reports[q] => Owner(f, q)
    /\ \A n \in Names : LET r == f.sections[q][n].result IN
          r # NoJob /\ r # d.sections[q][n].result => Owner(f, q) /\ Readable(f, r)

\* The invariant of the reports goes on.
Kept(d, f) == /\ DeskOK(f) /\ SameJobs(d, f)
              /\ \A q \in Request : Final(f, q) /\ Given(d, f, q)

LEMMA MovedJobs ==
    ASSUME NEW d, NEW e, NEW j, Moved(d, e, j) PROVE SameJobs(d, e)
BY DEF Moved, OnlyJob, SameJobs

LEMMA MovedFits ==
    ASSUME NEW d, DeskOK(d), NEW e, NEW j, Moved(d, e, j)
    PROVE  DeskOK(e) /\ SameJobs(d, e) /\ e \in Tables
<1>1. e \in Tables
  BY DEF Moved, OnlyJob
<1>2. Linked(e)
  BY MovedLinks
<1>3. SectionsOK(e)
  BY MovedSections
<1>4. SameJobs(d, e)
  BY MovedJobs
<1>. QED  BY <1>1, <1>2, <1>3, <1>4 DEF DeskOK

LEMMA MovedGives ==
    ASSUME NEW d, DeskOK(d), NEW e, NEW j, Moved(d, e, j),
           e.jobs[j].status = "completed" =>
              \A q \in Request : <<j, q>> \in e.subs => Owner(d, q) /\ Readable(d, j)
    PROVE  \A q \in Request : Given(d, e, q)
<1>. SUFFICES ASSUME NEW q \in Request PROVE Given(d, e, q)
  OBVIOUS
<1>1. e.reports = d.reports /\ e.requests = d.requests
  BY DEF Moved, OnlyJob
<1>2. j \in DOMAIN d.jobs /\ e.jobs[j].mask = d.jobs[j].mask /\ e.jobs[j].stamp = d.jobs[j].stamp
  BY DEF Moved, OnlyJob
<1>3. ASSUME NEW n \in Names, e.sections[q][n].result # NoJob,
             e.sections[q][n].result # d.sections[q][n].result
      PROVE  Owner(e, q) /\ Readable(e, e.sections[q][n].result)
  <2>1. /\ d.sections[q][n].job = j
        /\ e.sections[q][n].result = IF e.jobs[j].status = "completed" /\ <<j, q>> \in e.subs
                                     THEN j ELSE NoJob
    BY <1>3 DEF Moved
  <2>2. e.jobs[j].status = "completed" /\ <<j, q>> \in e.subs /\ e.sections[q][n].result = j
    BY <1>3, <2>1
  <2>3. Owner(d, q) /\ Readable(d, j)
    BY <2>2
  <2>. QED  BY <1>1, <1>2, <2>2, <2>3 DEF Owner, Readable
<1>. QED  BY <1>1, <1>3 DEF Given

\* The invariant of the reports goes on if whoever the end concerns is told.
LEMMA MovedKeeps ==
    ASSUME NEW d, DeskOK(d), \A q \in Request : Final(d, q),
           NEW e, NEW j, Moved(d, e, j), NEW told,
           \A q \in Request :
              /\ <<j, q>> \in d.subs /\ Owner(d, q) /\ e.jobs[j].status \in Terminal
              /\ e.jobs[j].status = "failed" => MaskCurrent(d.jobs[j].mask)
              => q \in told,
           e.jobs[j].status = "completed" =>
              \A q \in Request : <<j, q>> \in e.subs => Owner(d, q) /\ Readable(d, j)
    PROVE  Kept(d, SnapshotAll(e, told))
<1>1. DeskOK(e) /\ SameJobs(d, e) /\ e \in Tables
  BY MovedFits
<1>2. e.reports = d.reports
  BY DEF Moved
<1>3. \A q \in Request : q \in told \/ Final(e, q)
  BY <1>2, MovedEnds DEF Final
<1>4. PICK f : f = SnapshotAll(e, told)
  OBVIOUS
<1>5. DeskOK(f) /\ \A q \in Request : Final(f, q) /\ (f.reports[q] # e.reports[q] => Owner(f, q))
  BY <1>1, <1>3, <1>4, SnapshotsKeep
<1>6. f.jobs = e.jobs /\ f.requests = e.requests /\ f.sections = e.sections
  BY <1>1, <1>4, SnapshotsTaken
<1>7. \A q \in Request : Given(d, e, q)
  BY MovedGives
<1>8. \A q \in Request : Given(d, f, q)
  BY <1>2, <1>5, <1>6, <1>7 DEF Given, Owner, Readable
<1>9. SameJobs(d, f)
  BY <1>1, <1>6 DEF SameJobs
<1>. QED  BY <1>4, <1>5, <1>8, <1>9 DEF Kept

\* A step that ends no job tells nobody.
LEMMA MovedOn ==
    ASSUME NEW d, DeskOK(d), \A q \in Request : Final(d, q),
           NEW e, NEW j, Moved(d, e, j), e.jobs[j].status \notin Terminal
    PROVE  Kept(d, e)
<1>1. DeskOK(e) /\ SameJobs(d, e) /\ e \in Tables
  BY MovedFits
<1>2. \A q \in Request : Final(e, q)
  BY MovedEnds DEF Final, Moved
<1>3. \A q \in Request : Given(d, e, q)
  BY MovedGives DEF Terminal
<1>. QED  BY <1>1, <1>2, <1>3 DEF Kept

\* A section of a job that is under way has no result yet.
LEMMA PendingHasNone ==
    ASSUME NEW d, DeskOK(d), NEW j \in DOMAIN d.jobs, d.jobs[j].status \in Pending,
           NEW q \in Request, NEW n \in Names, d.sections[q][n].job = j
    PROVE  d.sections[q][n].result = NoJob
<1>1. SectionOK(d, q, n) /\ Linked(d) /\ j # NoJob
  BY TableFields, SectionNames DEF DeskOK, SectionsOK
<1>2. j \notin d.results
  BY <1>1 DEF Linked, Pending, Active
<1>. QED  BY <1>1, <1>2 DEF SectionOK

\* The sections of a job follow it: every step of the lane but a completion.
LEMMA SetMoves ==
    ASSUME NEW d, DeskOK(d), NEW j \in DOMAIN d.jobs, d.jobs[j].status \in Pending,
           NEW e, OnlyJob(d, e, j), e.sections = d.sections, e.results = d.results,
           e.cache = d.cache, e.reports = d.reports,
           e.jobs[j].status # "completed",
           e.jobs[j].status \in Active => e.jobs[j].attempts # 0,
           e.subs \subseteq d.subs, \A s \in d.subs : s[1] # j => s \in e.subs,
           e.jobs[j].status \in Pending => e.subs = d.subs,
           NEW rows,
           \A q \in Request, n \in Names :
              d.sections[q][n].job = j /\ d.requests[q].state = "live" => <<q, n>> \in rows
    PROVE  Moved(d, SetSections(e, j, Said(e.jobs[j].status), rows), j)
<1>. DEFINE status == e.jobs[j].status
            said == Said(status)
            f == SetSections(e, j, said, rows)
<1>1. e \in Tables /\ DOMAIN e.jobs = DOMAIN d.jobs
  BY DEF OnlyJob
<1>2. status \in Pending \cup Terminal
  BY <1>1, TableFields DEF JobRow
<1>3. /\ said \in Waiting \cup Terminal \cup {"absent"}
      /\ status \notin Pending => said \notin Waiting
  BY <1>2 DEF Said, Pending, Active, Waiting, Terminal
<1>4. /\ f \in Tables /\ f.jobs = e.jobs /\ f.policy = e.policy /\ f.requests = e.requests
      /\ f.subs = e.subs /\ f.results = e.results /\ f.cache = e.cache /\ f.reports = e.reports
      /\ \A q \in Request, n \in Names : LET s == e.sections[q][n] IN
           f.sections[q][n] = IF s.job = j /\ <<q, n>> \in rows
                              THEN [status |-> said, job |-> s.job, result |-> s.result]
                              ELSE s
  <2>. HIDE DEF said
  <2>. QED  BY <1>1, <1>3, SectionsSet
<1>. HIDE DEF f
<1>5. OnlyJob(d, f, j)
  BY <1>4 DEF OnlyJob
<1>6. Linked(d) /\ d \in Tables
  BY DEF DeskOK
<1>7. ASSUME NEW q \in Request, NEW n \in Names, d.sections[q][n].job = j
      PROVE  LET t == f.sections[q][n] IN
             /\ t.job = j /\ t.result = NoJob
             /\ d.requests[q].state = "live" => t.status = said
  <2>. DEFINE s == d.sections[q][n]
              t == f.sections[q][n]
  <2>2. s.result = NoJob
    BY <1>7, PendingHasNone
  <2>3. t = IF <<q, n>> \in rows THEN [status |-> said, job |-> j, result |-> NoJob] ELSE s
    BY <1>4, <1>7, <2>2
  <2>. HIDE DEF said
  <2>. QED  BY <1>7, <2>2, <2>3
<1>8. \A q \in Request, n \in Names :
        LET s == d.sections[q][n]
            t == f.sections[q][n]
        IN  IF s.job # j THEN t = s
            ELSE /\ t.job = j
                 /\ t.result = IF status = "completed" /\ <<j, q>> \in f.subs THEN j ELSE NoJob
                 /\ d.requests[q].state = "live" =>
                      IF <<j, q>> \in f.subs THEN t.status = said ELSE t.status \notin Waiting
  <2>. SUFFICES ASSUME NEW q \in Request, NEW n \in Names
                PROVE  LET s == d.sections[q][n]
                           t == f.sections[q][n]
                       IN  IF s.job # j THEN t = s
                           ELSE /\ t.job = j
                                /\ t.result = NoJob
                                /\ d.requests[q].state = "live" =>
                                     IF <<j, q>> \in f.subs THEN t.status = said
                                     ELSE t.status \notin Waiting
    OBVIOUS
  <2>1. CASE d.sections[q][n].job # j
    <3>. HIDE DEF said
    <3>1. e.sections[q][n] = d.sections[q][n]
      OBVIOUS
    <3>2. f.sections[q][n] = IF e.sections[q][n].job = j /\ <<q, n>> \in rows
                             THEN [status |-> said, job |-> e.sections[q][n].job,
                                   result |-> e.sections[q][n].result]
                             ELSE e.sections[q][n]
      BY <1>4
    <3>3. f.sections[q][n] = d.sections[q][n]
      BY <2>1, <3>1, <3>2
    <3>. QED  BY <2>1, <3>3
  <2>2. CASE d.sections[q][n].job = j
    <3>1. d.requests[q].state = "live" /\ <<j, q>> \notin f.subs => said \notin Waiting
      <4>1. d.requests[q].state = "live" => <<j, q>> \in d.subs
        <5>1. SectionOK(d, q, n)
          BY DEF DeskOK, SectionsOK
        <5>2. j # NoJob
          BY <1>6, TableFields, SectionNames
        <5>. QED  BY <2>2, <5>1, <5>2 DEF SectionOK
      <4>. QED  BY <1>3, <1>4, <4>1
    <3>. HIDE DEF said
    <3>. QED  BY <1>7, <2>2, <3>1
  <2>. QED  BY <2>1, <2>2
<1>9. f.cache \subseteq f.results /\ f.results = d.results
  BY <1>4, <1>6 DEF Linked
<1>10. Moved(d, f, j)
  <2>1. f.jobs[j].status = status /\ Said(f.jobs[j].status) = said /\ f.jobs[j].attempts = e.jobs[j].attempts
    BY <1>4
  <2>2. f.subs = e.subs /\ f.results = e.results /\ f.reports = e.reports
    BY <1>4
  <2>. HIDE DEF said, status
  <2>. QED  BY <1>5, <1>8, <1>9, <2>1, <2>2 DEF Moved, status
<1>. QED  BY <1>10 DEF f

-----------------------------------------------------------------------------
\* The steps of the lane.

Aside(d, e) == /\ e.sections = d.sections /\ e.subs = d.subs /\ e.results = d.results
               /\ e.cache = d.cache /\ e.reports = d.reports

\* A row of web_jobs with another status and number of attempts.
Rewritten(r, x, status, attempts) ==
    /\ x \in JobRow /\ x.status = status /\ x.attempts = attempts
    /\ x.section = r.section /\ x.mask = r.mask /\ x.stamp = r.stamp

RowAt(d, e, j, x) == e = [d EXCEPT !.jobs = [d.jobs EXCEPT ![j] = x]]

Now(d, j, status, attempts) == d.jobs[j].status = status /\ d.jobs[j].attempts = attempts

LEMMA RowPut ==
    ASSUME NEW d \in Tables, NEW j \in DOMAIN d.jobs, NEW status, NEW attempts,
           NEW x, Rewritten(d.jobs[j], x, status, attempts),
           NEW e, RowAt(d, e, j, x)
    PROVE  /\ OnlyJob(d, e, j) /\ Aside(d, e)
           /\ Now(e, j, status, attempts)
<1>. DEFINE jobs == [d.jobs EXCEPT ![j] = x]
<1>1. /\ jobs \in Seq(JobRow) /\ DOMAIN jobs = DOMAIN d.jobs /\ jobs[j] = x
      /\ \A i \in DOMAIN d.jobs : i # j => jobs[i] = d.jobs[i]
  BY TableFields, JobWritten DEF Rewritten
<1>. HIDE DEF jobs
<1>2. e = [d EXCEPT !.jobs = jobs]
  BY DEF jobs, RowAt
<1>3. /\ e \in Tables /\ e.jobs = jobs /\ e.requests = d.requests /\ e.policy = d.policy
      /\ Aside(d, e)
  BY <1>1, <1>2 DEF Tables, Aside
<1>. QED  BY <1>1, <1>3 DEF OnlyJob, Rewritten, Now

LEMMA RowWritten ==
    ASSUME NEW r \in JobRow, NEW status \in Pending \cup Terminal, NEW attempts \in 0 .. MaxAttempts
    PROVE  /\ Rewritten(r, [r EXCEPT !.status = status], status, r.attempts)
           /\ Rewritten(r, [r EXCEPT !.status = status, !.attempts = attempts], status, attempts)
           /\ Rewritten(r, [r EXCEPT !.status = status, !.delayed = TRUE], status, r.attempts)
           /\ Rewritten(r, [r EXCEPT !.status = status, !.attempts = attempts, !.delayed = TRUE],
                        status, attempts)
<1>1. PICK r1 : r1 = [r EXCEPT !.status = status]
  OBVIOUS
<1>2. Rewritten(r, r1, status, r.attempts)
  BY <1>1 DEF JobRow, Rewritten
<1>3. PICK r2 : r2 = [r1 EXCEPT !.attempts = attempts]
  OBVIOUS
<1>4. Rewritten(r, r2, status, attempts)
  BY <1>2, <1>3 DEF JobRow, Rewritten
<1>5. ASSUME NEW x \in JobRow, NEW a, Rewritten(r, x, status, a), NEW b \in BOOLEAN
      PROVE  Rewritten(r, [x EXCEPT !.delayed = b], status, a)
  BY <1>5 DEF JobRow, Rewritten
<1>6. /\ Rewritten(r, [r1 EXCEPT !.delayed = TRUE], status, r.attempts)
      /\ Rewritten(r, [r2 EXCEPT !.delayed = TRUE], status, attempts)
  <2>1. TRUE \in BOOLEAN /\ r1 \in JobRow /\ r2 \in JobRow
    BY <1>2, <1>4 DEF Rewritten
  <2>. QED  BY <1>2, <1>4, <1>5, <2>1, Zenon
<1>7. /\ [r EXCEPT !.status = status, !.attempts = attempts] = r2
      /\ [r EXCEPT !.status = status, !.delayed = TRUE] = [r1 EXCEPT !.delayed = TRUE]
      /\ [r EXCEPT !.status = status, !.attempts = attempts, !.delayed = TRUE]
           = [r2 EXCEPT !.delayed = TRUE]
  BY <1>1, <1>3
<1>. QED  BY <1>1, <1>2, <1>4, <1>6, <1>7

\* The writes of the code: a status, with an attempt, or with a later time.
WithStatus(d, j, status) == [d EXCEPT !.jobs[j].status = status]
WithAttempts(d, j, status, attempts) ==
    [d EXCEPT !.jobs[j].status = status, !.jobs[j].attempts = attempts]
WithDelay(d, j, status) == [d EXCEPT !.jobs[j].status = status, !.jobs[j].delayed = TRUE]
WithBoth(d, j, status, attempts) ==
    [d EXCEPT !.jobs[j].status = status, !.jobs[j].attempts = attempts, !.jobs[j].delayed = TRUE]

LEMMA StatusPut ==
    ASSUME NEW d \in Tables, NEW j \in DOMAIN d.jobs, NEW status \in Pending \cup Terminal,
           NEW e, e = WithStatus(d, j, status)
    PROVE  /\ OnlyJob(d, e, j) /\ Aside(d, e)
           /\ Now(e, j, status, d.jobs[j].attempts)
<1>1. PICK r : r = d.jobs[j]
  OBVIOUS
<1>2. PICK x : x = [r EXCEPT !.status = status]
  OBVIOUS
<1>3. RowAt(d, e, j, x)
  BY <1>1, <1>2 DEF Tables, RowAt, WithStatus
<1>4. r \in JobRow /\ r.attempts \in 0 .. MaxAttempts
  BY <1>1, TableFields DEF JobRow
<1>5. Rewritten(r, x, status, r.attempts)
  BY <1>2, <1>4, RowWritten
<1>. QED  BY <1>1, <1>3, <1>5, RowPut

LEMMA AttemptPut ==
    ASSUME NEW d \in Tables, NEW j \in DOMAIN d.jobs, NEW status \in Pending \cup Terminal,
           NEW attempts \in 0 .. MaxAttempts,
           NEW e, e = WithAttempts(d, j, status, attempts)
    PROVE  /\ OnlyJob(d, e, j) /\ Aside(d, e)
           /\ Now(e, j, status, attempts)
<1>1. PICK r : r = d.jobs[j]
  OBVIOUS
<1>2. PICK x : x = [r EXCEPT !.status = status, !.attempts = attempts]
  OBVIOUS
<1>3. RowAt(d, e, j, x)
  BY <1>1, <1>2 DEF Tables, RowAt, WithAttempts
<1>4. r \in JobRow /\ r.attempts \in 0 .. MaxAttempts
  BY <1>1, TableFields DEF JobRow
<1>5. Rewritten(r, x, status, attempts)
  BY <1>2, <1>4, RowWritten
<1>. QED  BY <1>1, <1>3, <1>5, RowPut

LEMMA DelayPut ==
    ASSUME NEW d \in Tables, NEW j \in DOMAIN d.jobs, NEW status \in Pending \cup Terminal,
           NEW e, e = WithDelay(d, j, status)
    PROVE  /\ OnlyJob(d, e, j) /\ Aside(d, e)
           /\ Now(e, j, status, d.jobs[j].attempts)
<1>1. PICK r : r = d.jobs[j]
  OBVIOUS
<1>2. PICK x : x = [r EXCEPT !.status = status, !.delayed = TRUE]
  OBVIOUS
<1>3. RowAt(d, e, j, x)
  BY <1>1, <1>2 DEF Tables, RowAt, WithDelay
<1>4. r \in JobRow /\ r.attempts \in 0 .. MaxAttempts
  BY <1>1, TableFields DEF JobRow
<1>5. Rewritten(r, x, status, r.attempts)
  BY <1>2, <1>4, RowWritten
<1>. QED  BY <1>1, <1>3, <1>5, RowPut

LEMMA DeferPut ==
    ASSUME NEW d \in Tables, NEW j \in DOMAIN d.jobs, NEW status \in Pending \cup Terminal,
           NEW attempts \in 0 .. MaxAttempts,
           NEW e, e = WithBoth(d, j, status, attempts)
    PROVE  /\ OnlyJob(d, e, j) /\ Aside(d, e)
           /\ Now(e, j, status, attempts)
<1>1. PICK r : r = d.jobs[j]
  OBVIOUS
<1>2. PICK x : x = [r EXCEPT !.status = status, !.attempts = attempts, !.delayed = TRUE]
  OBVIOUS
<1>3. RowAt(d, e, j, x)
  BY <1>1, <1>2 DEF Tables, RowAt, WithBoth
<1>4. r \in JobRow /\ r.attempts \in 0 .. MaxAttempts
  BY <1>1, TableFields DEF JobRow
<1>5. Rewritten(r, x, status, attempts)
  BY <1>2, <1>4, RowWritten
<1>. QED  BY <1>1, <1>3, <1>5, RowPut

LEMMA DrainingMoves ==
    ASSUME DeskInv, NEW j \in DOMAIN desk.jobs, MarkDraining(j)
    PROVE  Moved(desk, desk', j) /\ desk'.jobs[j].status = "draining"
<1>1. desk \in Tables /\ desk.jobs[j] \in JobRow /\ desk.jobs[j].status = "running"
  BY TableFields DEF DeskInv, DeskOK, MarkDraining
<1>2. desk.jobs[j].attempts # 0
  BY <1>1 DEF DeskInv, DeskOK, Linked, Active
<1>3. PICK e : e = WithStatus(desk, j, "draining")
  OBVIOUS
<1>4. /\ OnlyJob(desk, e, j) /\ Aside(desk, e)
      /\ e.jobs[j].status = "draining" /\ e.jobs[j].attempts # 0
  BY <1>1, <1>2, <1>3, StatusPut DEF Pending, Active, Now
<1>5. Moved(desk, SetSections(e, j, Said(e.jobs[j].status), Every), j)
  BY <1>1, <1>4, SetMoves DEF DeskInv, Aside, Pending, Active, Every
<1>6. desk' = SetSections(e, j, "unavailable", Every)
  BY <1>3 DEF MarkDraining, WithStatus
<1>7. SetSections(e, j, Said(e.jobs[j].status), Every).jobs = e.jobs
  BY <1>4, SectionsSet DEF OnlyJob, Said, Terminal
<1>. QED  BY <1>4, <1>5, <1>6, <1>7 DEF Said

\* A candidate that may not run is given up: its subscribers are told.
LEMMA RefuseKeeps ==
    ASSUME NEW d, DeskOK(d), \A q \in Request : Final(d, q),
           NEW j \in DOMAIN d.jobs, d.jobs[j].status = "queued"
    PROVE  LET f == Refuse(d, j) IN
           /\ Kept(d, f) /\ OnlyJob(d, f, j)
           /\ \A q \in Request, n \in Names :
                /\ f.sections[q][n].job = d.sections[q][n].job
                /\ d.sections[q][n].job # j => f.sections[q][n] = d.sections[q][n]
<1>. DEFINE others == {s \in d.subs : s[1] # j}
            told == {q \in SubscribersOf(d, j) : Owner(d, q)}
<1>1. d \in Tables
  BY DEF DeskOK
<1>2. PICK e1 : e1 = WithStatus(d, j, "unavailable")
  OBVIOUS
<1>3. OnlyJob(d, e1, j) /\ Aside(d, e1) /\ e1.jobs[j].status = "unavailable"
  BY <1>1, <1>2, StatusPut DEF Terminal, Now
<1>4. PICK e : e = [e1 EXCEPT !.subs = others]
  OBVIOUS
<1>5. /\ OnlyJob(d, e, j) /\ e.jobs = e1.jobs /\ e.subs = others /\ e.sections = d.sections
      /\ e.results = d.results /\ e.cache = d.cache /\ e.reports = d.reports
  <2>1. others \subseteq Nat \X Request
    BY <1>1, TableFields
  <2>. HIDE DEF others
  <2>. QED  BY <1>3, <1>4, <2>1 DEF OnlyJob, Aside, Tables
<1>6. PICK f : f = SetSections(e, j, "unavailable", Every)
  OBVIOUS
<1>7. Moved(d, f, j)
  <2>1. e.jobs[j].status = "unavailable" /\ Said("unavailable") = "unavailable"
    BY <1>3, <1>5 DEF Said
  <2>2. e.subs \subseteq d.subs /\ \A s \in d.subs : s[1] # j => s \in e.subs
    BY <1>5
  <2>3. Moved(d, SetSections(e, j, Said(e.jobs[j].status), Every), j)
    BY <1>5, <2>1, <2>2, SetMoves DEF Pending, Active, Every
  <2>. QED  BY <1>6, <2>1, <2>3
<1>8. f.jobs = e.jobs
  BY <1>5, <1>6, SectionsSet DEF OnlyJob, Terminal
<1>9. Refuse(d, j) = SnapshotAll(f, told)
  BY <1>2, <1>4, <1>6 DEF Refuse, WithStatus
<1>10. PICK g : g = SnapshotAll(f, told)
  OBVIOUS
<1>11. f.jobs[j].status = "unavailable"
  BY <1>3, <1>5, <1>8
<1>12. Kept(d, g)
  <2>1. \A q \in Request : <<j, q>> \in d.subs /\ Owner(d, q) => q \in told
    BY DEF SubscribersOf
  <2>. HIDE DEF told
  <2>. QED  BY <1>7, <1>10, <1>11, <2>1, MovedKeeps
<1>13. /\ g \in Tables /\ g.jobs = f.jobs /\ g.policy = f.policy /\ g.requests = f.requests
       /\ g.sections = f.sections
  <2>. HIDE DEF told
  <2>. QED  BY <1>7, <1>10, SnapshotsTaken DEF Moved, OnlyJob
<1>14. OnlyJob(d, g, j)
  BY <1>7, <1>13 DEF Moved, OnlyJob
<1>15. \A q \in Request, n \in Names :
         /\ g.sections[q][n].job = d.sections[q][n].job
         /\ d.sections[q][n].job # j => g.sections[q][n] = d.sections[q][n]
  BY <1>7, <1>13 DEF Moved
<1>. HIDE DEF told
<1>. QED  BY <1>9, <1>10, <1>12, <1>14, <1>15

LEMMA SettleKeeps ==
    ASSUME DeskInv, NEW j \in DOMAIN desk.jobs, NEW retry \in BOOLEAN, Settle(j, retry)
    PROVE  Kept(desk, desk')
<1>. DEFINE again == retry /\ desk.jobs[j].attempts < MaxAttempts
            told == {q \in SubscribersOf(desk, j) : Subscriber(desk, j, q)}
<1>1. PICK status : status = IF again THEN "queued" ELSE "failed"
  OBVIOUS
<1>2. PICK e : e = WithDelay(desk, j, status)
  OBVIOUS
<1>3. PICK f : f = SetSections(e, j, status, WithoutResult)
  OBVIOUS
<1>4. /\ desk \in Tables /\ DeskOK(desk) /\ \A q \in Request : Final(desk, q)
      /\ desk.jobs[j].status \in Pending /\ desk.jobs[j].status \in Active
  BY DEF DeskInv, DeskOK, Settle, Pending
<1>5. status \in Pending \cup Terminal /\ status \notin Active /\ status # "completed"
  BY <1>1 DEF Pending, Active, Terminal
<1>6. OnlyJob(desk, e, j) /\ Aside(desk, e) /\ e.jobs[j].status = status
  BY <1>2, <1>4, <1>5, DelayPut DEF Now
<1>7. Said(e.jobs[j].status) = status
  BY <1>1, <1>6 DEF Said
<1>8. \A q \in Request, n \in Names : desk.sections[q][n].job = j => <<q, n>> \in WithoutResult
  BY <1>4, PendingHasNone DEF WithoutResult, Every
<1>9. Moved(desk, f, j)
  <2>1. Moved(desk, SetSections(e, j, Said(e.jobs[j].status), WithoutResult), j)
    BY <1>4, <1>5, <1>6, <1>8, SetMoves DEF Aside
  <2>. QED  BY <1>3, <1>7, <2>1
<1>10. f.jobs = e.jobs /\ f.reports = desk.reports
  BY <1>3, <1>5, <1>6, <1>7, SectionsSet DEF OnlyJob, Aside, Waiting, Pending, Active
<1>11. CASE again
  <2>1. desk' = f
    BY <1>1, <1>2, <1>3, <1>11 DEF Settle, WithDelay
  <2>2. f.jobs[j].status \notin Terminal
    BY <1>1, <1>6, <1>10, <1>11 DEF Terminal
  <2>. QED  BY <1>4, <1>9, <2>1, <2>2, MovedOn
<1>12. CASE ~again
  <2>1. desk' = SnapshotAll(f, told)
    BY <1>1, <1>2, <1>3, <1>12 DEF Settle, WithDelay
  <2>2. f.jobs[j].status = "failed"
    BY <1>1, <1>6, <1>10, <1>12
  <2>3. \A q \in Request : <<j, q>> \in desk.subs /\ Owner(desk, q) /\ MaskCurrent(desk.jobs[j].mask)
          => q \in told
    BY DEF SubscribersOf, Subscriber
  <2>. HIDE DEF told
  <2>4. Kept(desk, SnapshotAll(f, told))
    BY <1>4, <1>9, <2>2, <2>3, MovedKeeps
  <2>. QED  BY <2>1, <2>4
<1>. QED  BY <1>11, <1>12

LEMMA DeferKeeps ==
    ASSUME DeskInv, NEW j \in DOMAIN desk.jobs, Defer(j)
    PROVE  Kept(desk, desk')
<1>1. /\ desk \in Tables /\ DeskOK(desk) /\ \A q \in Request : Final(desk, q)
      /\ desk.jobs[j].status \in Pending /\ desk.jobs[j].status \in Active
  BY DEF DeskInv, DeskOK, Defer, Pending, Active
<1>2. PICK attempts : attempts = desk.jobs[j].attempts - 1
  OBVIOUS
<1>3. attempts \in 0 .. MaxAttempts
  <2>1. desk.jobs[j].attempts # 0 /\ desk.jobs[j].attempts \in 0 .. MaxAttempts
    BY <1>1, TableFields DEF DeskOK, Linked, JobRow
  <2>. QED  BY <1>2, <2>1, SectionNames
<1>4. PICK e : e = WithBoth(desk, j, "queued", attempts)
  OBVIOUS
<1>5. OnlyJob(desk, e, j) /\ Aside(desk, e) /\ e.jobs[j].status = "queued"
  BY <1>1, <1>3, <1>4, DeferPut DEF Now, Pending
<1>6. PICK f : f = SetSections(e, j, "queued", WithoutResult)
  OBVIOUS
<1>7. desk' = f
  BY <1>2, <1>4, <1>6 DEF Defer, WithBoth
<1>8. \A q \in Request, n \in Names : desk.sections[q][n].job = j => <<q, n>> \in WithoutResult
  BY <1>1, PendingHasNone DEF WithoutResult, Every
<1>9. Moved(desk, f, j)
  <2>1. Moved(desk, SetSections(e, j, Said(e.jobs[j].status), WithoutResult), j)
    BY <1>1, <1>5, <1>8, SetMoves DEF Aside, Active
  <2>. QED  BY <1>5, <1>6, <2>1 DEF Said
<1>10. f.jobs = e.jobs /\ f.reports = desk.reports
  BY <1>5, <1>6, SectionsSet DEF OnlyJob, Aside, Waiting
<1>. QED  BY <1>1, <1>5, <1>7, <1>9, <1>10, MovedOn DEF Terminal

LEMMA DrainingKeeps ==
    ASSUME DeskInv, NEW j \in DOMAIN desk.jobs, MarkDraining(j)
    PROVE  Kept(desk, desk')
<1>1. Moved(desk, desk', j) /\ desk'.jobs[j].status \notin Terminal
  BY DrainingMoves DEF Terminal
<1>2. PICK f : f = desk'
  OBVIOUS
<1>. QED  BY <1>1, <1>2, MovedOn DEF DeskInv

\* A completion: the entitled get the outcome, the others nothing.
LEMMA CompleteKeeps ==
    ASSUME DeskInv, NEW j \in DOMAIN desk.jobs, NEW outcome \in Terminal, CompleteJob(j, outcome)
    PROVE  Kept(desk, desk')
<1>. DEFINE entitled == Entitled(desk, j)
            lost == SubscribersOf(desk, j) \ entitled
            same == {k \in desk.cache : KeyOf(desk.jobs[k]) = KeyOf(desk.jobs[j])}
            told == Informed(desk, j)
<1>1. PICK status : status =
         IF MayShow(desk.jobs[j].stamp) /\ \E q \in SubscribersOf(desk, j) : Subscriber(desk, j, q)
         THEN outcome ELSE "unavailable"
  OBVIOUS
<1>. DEFINE stored == status = "completed"
            results == IF stored THEN desk.results \cup {j} ELSE desk.results
            cache == IF stored THEN (desk.cache \ same) \cup {j} ELSE desk.cache
            subs == desk.subs \ {<<j, q>> : q \in lost}
            RowOf(q, n) ==
               IF desk.sections[q][n].job # j THEN desk.sections[q][n]
               ELSE IF q \in entitled
               THEN [status |-> status, job |-> j, result |-> IF stored THEN j ELSE NoJob]
               ELSE IF q \in lost
               THEN [status |-> "unavailable", job |-> j, result |-> NoJob]
               ELSE desk.sections[q][n]
            sections == [q \in Request |-> [n \in Names |-> RowOf(q, n)]]
<1>2. /\ desk \in Tables /\ DeskOK(desk) /\ \A q \in Request : Final(desk, q)
      /\ desk.jobs[j].status \in Pending /\ Linked(desk)
  BY DEF DeskInv, DeskOK, CompleteJob, Pending
<1>3. status \in Terminal /\ Said(status) = status
  BY <1>1 DEF Terminal, Said
<1>4. PICK e1 : e1 = WithStatus(desk, j, status)
  OBVIOUS
<1>5. OnlyJob(desk, e1, j) /\ Aside(desk, e1) /\ e1.jobs[j].status = status
  BY <1>2, <1>3, <1>4, StatusPut DEF Now
<1>6. PICK e : e = [e1 EXCEPT !.results = results, !.cache = cache, !.subs = subs,
                              !.sections = sections]
  OBVIOUS
<1>7. desk' = SnapshotAll(e, told)
  BY <1>1, <1>4, <1>6 DEF CompleteJob, WithStatus
<1>8. j \in Nat /\ j # NoJob
  BY <1>2, TableFields, SectionNames
<1>9. ASSUME NEW q \in Request, NEW n \in Names
      PROVE  LET s == desk.sections[q][n]
                 t == RowOf(q, n)
             IN  /\ t \in SectionRow
                 /\ IF s.job # j THEN t = s
                    ELSE /\ t.job = j
                         /\ t.result = IF status = "completed" /\ <<j, q>> \in subs THEN j ELSE NoJob
                         /\ desk.requests[q].state = "live" =>
                              IF <<j, q>> \in subs THEN t.status = status
                              ELSE t.status \notin Waiting
  <2>. DEFINE s == desk.sections[q][n]
              t == RowOf(q, n)
  <2>1. s \in SectionRow
    BY <1>2, TableFields
  <2>2. <<j, q>> \in subs <=> q \in entitled
    BY DEF SubscribersOf, Entitled
  <2>3. s.job = j => s.result = NoJob /\ (desk.requests[q].state = "live" => <<j, q>> \in desk.subs)
    <3>1. SectionOK(desk, q, n)
      BY <1>2 DEF DeskOK, SectionsOK
    <3>2. s.job = j => s.result = NoJob
      BY <1>2, PendingHasNone
    <3>. QED  BY <1>2, <1>8, <3>1, <3>2 DEF SectionOK
  <2>4. q \notin lost /\ q \notin entitled => <<j, q>> \notin desk.subs
    BY DEF SubscribersOf
  <2>. HIDE DEF subs, entitled, lost
  <2>5. CASE s.job # j
    BY <2>1, <2>5
  <2>6. CASE s.job = j /\ q \in entitled
    BY <1>3, <1>8, <2>2, <2>6 DEF SectionRow
  <2>7. CASE s.job = j /\ q \notin entitled /\ q \in lost
    BY <1>8, <2>2, <2>7 DEF SectionRow, Terminal, Waiting
  <2>8. CASE s.job = j /\ q \notin entitled /\ q \notin lost
    BY <1>8, <2>1, <2>2, <2>3, <2>4, <2>8
  <2>. QED  BY <2>5, <2>6, <2>7, <2>8
<1>10. /\ sections \in [Request -> [Names -> SectionRow]]
       /\ \A q \in Request, n \in Names : sections[q][n] = RowOf(q, n)
  <2>. HIDE DEF RowOf
  <2>. QED  BY <1>9
<1>11. results \in SUBSET Nat /\ cache \in SUBSET Nat /\ subs \in SUBSET (Nat \X Request)
  BY <1>2, <1>8, TableFields
<1>12. cache \subseteq results
  BY <1>2 DEF Linked
<1>13. subs \subseteq desk.subs /\ \A s \in desk.subs : s[1] # j => s \in subs
  OBVIOUS
<1>14. results = IF status = "completed" THEN desk.results \cup {j} ELSE desk.results
  OBVIOUS
<1>15. \A q \in Request : <<j, q>> \in desk.subs /\ Owner(desk, q) => q \in told
  BY DEF Informed, SubscribersOf
<1>. HIDE DEF sections, results, cache, subs, told, RowOf
<1>16. /\ OnlyJob(desk, e, j) /\ e.jobs = e1.jobs /\ e.sections = sections /\ e.results = results
       /\ e.cache = cache /\ e.subs = subs /\ e.reports = desk.reports
  BY <1>5, <1>6, <1>10, <1>11 DEF OnlyJob, Aside, Tables
<1>17. Moved(desk, e, j)
  <2>1. e.jobs[j].status = status /\ status \notin Pending /\ status \notin Active
    BY <1>3, <1>5, <1>16 DEF Pending, Active, Terminal
  <2>2. \A q \in Request, n \in Names :
          LET s == desk.sections[q][n]
              t == e.sections[q][n]
          IN  IF s.job # j THEN t = s
              ELSE /\ t.job = j
                   /\ t.result = IF e.jobs[j].status = "completed" /\ <<j, q>> \in e.subs THEN j ELSE NoJob
                   /\ desk.requests[q].state = "live" =>
                        IF <<j, q>> \in e.subs THEN t.status = Said(e.jobs[j].status)
                        ELSE t.status \notin Waiting
    BY <1>3, <1>9, <1>10, <1>16, <2>1
  <2>. QED  BY <1>2, <1>12, <1>13, <1>14, <1>16, <2>1, <2>2 DEF Moved
<1>18. e.jobs[j].status = "completed" =>
          \A q \in Request : <<j, q>> \in e.subs => Owner(desk, q) /\ Readable(desk, j)
  <2>1. e.jobs[j].status = status
    BY <1>5, <1>16
  <2>2. status = "completed" => MayShow(desk.jobs[j].stamp)
    BY <1>1
  <2>3. \A q \in Request : <<j, q>> \in e.subs => Subscriber(desk, j, q)
    BY <1>16 DEF subs, Entitled, SubscribersOf
  <2>. QED  BY <2>1, <2>2, <2>3 DEF Subscriber, Readable
<1>19. Kept(desk, SnapshotAll(e, told))
  BY <1>2, <1>15, <1>17, <1>18, MovedKeeps
<1>. QED  BY <1>7, <1>19

\* Steps that keep the invariant follow one another.
LEMMA KeptOn ==
    ASSUME NEW d, NEW e, NEW f, Kept(d, e), Kept(e, f) PROVE Kept(d, f)
<1>1. SameJobs(d, f)
  BY DEF Kept, SameJobs
<1>2. ASSUME NEW q \in Request PROVE Given(d, f, q)
  <2>1. Given(d, e, q) /\ Given(e, f, q) /\ SameJobs(e, f)
    BY DEF Kept
  <2>2. Owner(e, q) => Owner(f, q)
    BY <2>1 DEF SameJobs, Owner
  <2>3. ASSUME NEW n \in Names, f.sections[q][n].result = e.sections[q][n].result,
               f.sections[q][n].result # NoJob, Readable(e, f.sections[q][n].result)
        PROVE  Readable(f, f.sections[q][n].result)
    <3>1. f.sections[q][n].result \in DOMAIN e.jobs
      <4>1. e.sections[q][n].result \in e.results /\ e.results \subseteq DOMAIN e.jobs
        BY <2>3 DEF Kept, DeskOK, SectionsOK, SectionOK, Linked
      <4>. QED  BY <2>3, <4>1
    <3>. QED  BY <2>1, <2>3, <3>1 DEF SameJobs, Readable
  <2>. QED  BY <2>1, <2>2, <2>3 DEF Given
<1>. QED  BY <1>1, <1>2 DEF Kept

\* The state of claim_job's loop after the first i jobs.
Passed(d, e, i, refused) ==
    /\ Kept(d, e)
    /\ \A k \in DOMAIN d.jobs : k > i \/ k \notin refused => e.jobs[k] = d.jobs[k]
    /\ \A q \in Request, n \in Names : LET k == d.sections[q][n].job IN
         /\ e.sections[q][n].job = k
         /\ k \notin refused => e.sections[q][n] = d.sections[q][n]

LEMMA RefusedPass ==
    ASSUME NEW d, DeskOK(d), \A q \in Request : Final(d, q),
           NEW refused, \A k \in refused : k \in DOMAIN d.jobs /\ d.jobs[k].status = "queued"
    PROVE  Passed(d, Dropped(d, refused)[MaxJobs], MaxJobs, refused)
<1>. DEFINE run == Dropped(d, refused)
            S == {i \in 0 .. MaxJobs : Passed(d, run[i], i, refused)}
<1>1. /\ run[0] = d
      /\ \A i \in 1 .. MaxJobs : run[i] = RefuseIf(run[i - 1], i, refused)
  BY DroppedUnfolds
<1>. HIDE DEF run
<1>2. MaxJobs \in Nat
  BY SectionNames
<1>3. 0 \in S
  BY <1>1, <1>2 DEF Passed, Kept, SameJobs, Given
<1>4. ASSUME NEW i \in 0 .. MaxJobs, i \in S, i < MaxJobs PROVE i + 1 \in S
  <2>1. PICK e : e = run[i]
    OBVIOUS
  <2>2. PICK k : k = i + 1
    OBVIOUS
  <2>3. run[k] = RefuseIf(e, k, refused) /\ k \in 1 .. MaxJobs
    BY <1>1, <1>2, <1>4, <2>1, <2>2
  <2>4. Passed(d, e, i, refused)
    BY <1>4, <2>1
  <2>5. \A x \in DOMAIN d.jobs : x \in Nat
    BY TableFields DEF DeskOK
  <2>6. CASE k \notin refused
    <3>1. run[k] = e
      BY <2>3, <2>6 DEF RefuseIf
    <3>2. \A x \in DOMAIN d.jobs : x > k \/ x \notin refused => x > i \/ x \notin refused
      BY <2>2, <2>5
    <3>3. Passed(d, e, k, refused)
      BY <2>4, <3>2 DEF Passed
    <3>. QED  BY <2>2, <2>3, <3>1, <3>3
  <2>7. CASE k \in refused
    <3>1. PICK f : f = Refuse(e, k)
      OBVIOUS
    <3>2. k \in DOMAIN d.jobs /\ k > i /\ d.jobs[k].status = "queued"
      BY <2>2, <2>7, <1>4
    <3>3. DeskOK(e) /\ (\A q \in Request : Final(e, q)) /\ DOMAIN e.jobs = DOMAIN d.jobs
      BY <2>4 DEF Passed, Kept, SameJobs
    <3>4. e.jobs[k].status = "queued"
      BY <2>4, <3>2 DEF Passed
    <3>5. /\ Kept(e, f) /\ OnlyJob(e, f, k)
          /\ \A q \in Request, n \in Names :
               /\ f.sections[q][n].job = e.sections[q][n].job
               /\ e.sections[q][n].job # k => f.sections[q][n] = e.sections[q][n]
      BY <3>1, <3>2, <3>3, <3>4, RefuseKeeps
    <3>6. Kept(d, f)
      BY <2>4, <3>5, KeptOn DEF Passed
    <3>7. ASSUME NEW x \in DOMAIN d.jobs, x > k \/ x \notin refused
          PROVE  f.jobs[x] = d.jobs[x]
      <4>1. x # k /\ (x > i \/ x \notin refused)
        BY <2>2, <2>5, <2>7, <3>7
      <4>2. e.jobs[x] = d.jobs[x]
        BY <2>4, <4>1 DEF Passed
      <4>. QED  BY <3>3, <3>5, <4>1, <4>2 DEF OnlyJob
    <3>8. \A q \in Request, n \in Names : LET y == d.sections[q][n].job IN
            /\ f.sections[q][n].job = y
            /\ y \notin refused => f.sections[q][n] = d.sections[q][n]
      BY <2>4, <2>7, <3>5 DEF Passed
    <3>9. Passed(d, f, k, refused)
      BY <3>6, <3>7, <3>8 DEF Passed
    <3>10. run[k] = f
      BY <2>3, <2>7, <3>1 DEF RefuseIf
    <3>. QED  BY <2>2, <2>3, <3>9, <3>10
  <2>. QED  BY <2>6, <2>7
<1>5. MaxJobs \in S
  <2>. DEFINE N == MaxJobs
  <2>1. \A n \in 0 .. N : n \in S /\ n < N => n + 1 \in S
    BY <1>4
  <2>2. N \in Nat /\ 0 \in S
    BY <1>2, <1>3
  <2>. HIDE DEF S, N
  <2>3. N \in S
    BY <2>1, <2>2, CountUp
  <2>. QED  BY <2>3 DEF N
<1>. QED  BY <1>5 DEF run

LEMMA ClaimKeeps ==
    ASSUME DeskInv, NEW late, ClaimJob(late)
    PROVE  Kept(desk, desk')
<1>. DEFINE due == {j \in DOMAIN desk.jobs : /\ desk.jobs[j].status = "queued"
                                             /\ desk.jobs[j].attempts < MaxAttempts
                                             /\ ~desk.jobs[j].delayed \/ j \in late}
            good == {j \in due : Claimable(desk, j)}
            next == IF good = {} THEN MaxJobs + 1 ELSE CHOOSE j \in good : \A k \in good : j <= k
            refused == {j \in due : j < next}
            d == Dropped(desk, refused)[MaxJobs]
<1>1. desk' = IF good = {} THEN d
              ELSE SetSections([d EXCEPT !.jobs[next].status = "running",
                                         !.jobs[next].attempts = d.jobs[next].attempts + 1],
                               next, "running", StillQueued)
  BY DEF ClaimJob
<1>2. DeskOK(desk) /\ \A q \in Request : Final(desk, q)
  BY DEF DeskInv
<1>3. /\ good \subseteq due
      /\ \A k \in due : /\ k \in Nat /\ k \in DOMAIN desk.jobs
                        /\ desk.jobs[k].status = "queued"
                        /\ desk.jobs[k].attempts < MaxAttempts
  BY <1>2, TableFields DEF DeskOK
<1>4. good # {} => next \in good
  <2>. HIDE DEF good
  <2>1. good \in SUBSET Nat
    BY <1>3
  <2>. QED  BY <2>1, LeastNumber
<1>. HIDE DEF due, good, next
<1>5. Passed(desk, d, MaxJobs, refused)
  <2>1. \A k \in refused : k \in DOMAIN desk.jobs /\ desk.jobs[k].status = "queued"
    BY <1>3
  <2>. HIDE DEF refused
  <2>. QED  BY <1>2, <2>1, RefusedPass
<1>. HIDE DEF d
<1>6. CASE good = {}
  BY <1>1, <1>5, <1>6 DEF Passed
<1>7. CASE good # {}
  <2>1. PICK j : j = next
    OBVIOUS
  <2>2. /\ j \in DOMAIN desk.jobs /\ j \notin refused /\ desk.jobs[j].status = "queued"
        /\ desk.jobs[j].attempts < MaxAttempts /\ j \in Nat
    BY <1>3, <1>4, <1>7, <2>1
  <2>3. /\ DeskOK(d) /\ \A q \in Request : Final(d, q)
        /\ d \in Tables /\ j \in DOMAIN d.jobs /\ d.jobs[j] = desk.jobs[j]
        /\ d.requests = desk.requests
    BY <1>5, <2>2 DEF Passed, Kept, SameJobs, DeskOK
  <2>4. PICK attempts : attempts = d.jobs[j].attempts + 1
    OBVIOUS
  <2>5. attempts \in 0 .. MaxAttempts /\ attempts # 0
    <3>1. d.jobs[j].attempts \in 0 .. MaxAttempts
      BY <2>3, TableFields DEF JobRow
    <3>. QED  BY <2>2, <2>3, <2>4, <3>1, SectionNames
  <2>6. PICK e : e = WithAttempts(d, j, "running", attempts)
    OBVIOUS
  <2>7. /\ OnlyJob(d, e, j) /\ Aside(d, e)
        /\ e.jobs[j].status = "running" /\ e.jobs[j].attempts # 0
    BY <2>3, <2>5, <2>6, AttemptPut DEF Now, Pending, Active
  <2>8. PICK f : f = SetSections(e, j, "running", StillQueued)
    OBVIOUS
  <2>9. desk' = f
    BY <1>1, <1>7, <2>1, <2>4, <2>6, <2>8 DEF WithAttempts
  <2>10. ASSUME NEW q \in Request, NEW n \in Names, d.sections[q][n].job = j,
                d.requests[q].state = "live"
         PROVE  <<q, n>> \in StillQueued
    <3>1. desk.sections[q][n].job = j /\ j # NoJob
      BY <1>5, <2>2, <2>10, SectionNames DEF Passed
    <3>2. SectionOK(desk, q, n)
      BY <1>2 DEF DeskOK, SectionsOK
    <3>3. desk.sections[q][n].status = Said("queued")
      BY <2>2, <2>3, <2>10, <3>1, <3>2 DEF SectionOK, Pending
    <3>. QED  BY <3>3 DEF StillQueued, Every, Said
  <2>11. Moved(d, f, j)
    <3>1. Moved(d, SetSections(e, j, Said(e.jobs[j].status), StillQueued), j)
      <4>1. /\ e.sections = d.sections /\ e.results = d.results /\ e.cache = d.cache
            /\ e.reports = d.reports /\ e.subs = d.subs
        BY <2>7 DEF Aside
      <4>2. d.jobs[j].status \in Pending /\ e.jobs[j].status # "completed"
        BY <2>2, <2>3, <2>7 DEF Pending
      <4>3. /\ DeskOK(d) /\ j \in DOMAIN d.jobs /\ OnlyJob(d, e, j) /\ e.jobs[j].attempts # 0
            /\ e.subs \subseteq d.subs /\ \A s \in d.subs : s[1] # j => s \in e.subs
        BY <2>3, <2>7, <4>1
      <4>4. \A q \in Request, n \in Names :
               d.sections[q][n].job = j /\ d.requests[q].state = "live" => <<q, n>> \in StillQueued
        BY <2>10
      <4>. QED  BY <4>1, <4>2, <4>3, <4>4, SetMoves
    <3>. QED  BY <2>7, <2>8, <3>1 DEF Said
  <2>12. f.jobs[j].status \notin Terminal
    BY <2>7, <2>8, SectionsSet DEF OnlyJob, Waiting, Terminal
  <2>13. Kept(d, f)
    BY <2>3, <2>11, <2>12, MovedOn
  <2>. QED  BY <1>5, <2>9, <2>13, KeptOn DEF Passed
<1>. QED  BY <1>6, <1>7

-----------------------------------------------------------------------------
\* A request is placed, one section after the other.

\* What placing sections of request q leaves of the tables.
Placing(d, e, q) ==
    /\ DeskOK(e) /\ e.requests = d.requests /\ e.reports = d.reports
    /\ DOMAIN d.jobs \subseteq DOMAIN e.jobs /\ \A k \in DOMAIN d.jobs : e.jobs[k] = d.jobs[k]
    /\ \A k \in DOMAIN e.jobs : k \notin DOMAIN d.jobs => NotAhead(e.jobs[k].mask)
    /\ \A p \in Request : p # q => e.sections[p] = d.sections[p]
    /\ \A n \in Names : LET r == e.sections[q][n].result IN
         r # NoJob /\ r # d.sections[q][n].result => Readable(e, r)

WithSection(g, q, n, row) == [g EXCEPT !.sections[q][n] = row]

LEMMA SectionPut ==
    ASSUME NEW g \in Tables, NEW q \in Request, NEW n \in Names, NEW row \in SectionRow,
           NEW e, e = WithSection(g, q, n, row)
    PROVE  /\ e \in Tables /\ e.jobs = g.jobs /\ e.policy = g.policy /\ e.requests = g.requests
           /\ e.subs = g.subs /\ e.results = g.results /\ e.cache = g.cache /\ e.reports = g.reports
           /\ \A p \in Request : p # q => e.sections[p] = g.sections[p]
           /\ \A m \in Names : e.sections[q][m] = IF m = n THEN row ELSE g.sections[q][m]
<1>1. PICK all : all = [g.sections EXCEPT ![q] = [g.sections[q] EXCEPT ![n] = row]]
  OBVIOUS
<1>2. e = [g EXCEPT !.sections = all]
  BY <1>1 DEF Tables, WithSection
<1>3. g.sections \in [Request -> [Names -> SectionRow]]
  BY TableFields
<1>4. /\ all \in [Request -> [Names -> SectionRow]]
      /\ \A p \in Request : p # q => all[p] = g.sections[p]
      /\ \A m \in Names : all[q][m] = IF m = n THEN row ELSE g.sections[q][m]
  BY <1>1, <1>3
<1>5. /\ e \in Tables /\ e.jobs = g.jobs /\ e.policy = g.policy /\ e.requests = g.requests
      /\ e.subs = g.subs /\ e.results = g.results /\ e.cache = g.cache /\ e.reports = g.reports
      /\ e.sections = all
  BY <1>2, <1>4 DEF Tables
<1>. QED  BY <1>4, <1>5

\* A row of a section fits the tables g.
Fits(g, q, n, row) ==
    /\ row \in SectionRow
    /\ IF row.job = NoJob THEN row.status \notin Waiting
       ELSE /\ row.job \in DOMAIN g.jobs /\ g.jobs[row.job].section = n
            /\ <<row.job, q>> \in g.subs
            /\ row.status = Said(g.jobs[row.job].status)
            /\ g.jobs[row.job].status # "completed"
    /\ row.result # NoJob => /\ row.result \in g.results /\ row.job = NoJob
                             /\ Readable(g, row.result)

\* The tables g are those of d with subscriptions of q, and the job it is for.
Grown(d, g, q, n) ==
    /\ g \in Tables /\ Linked(g)
    /\ g.requests = d.requests /\ g.reports = d.reports /\ g.sections = d.sections
    /\ g.results = d.results
    /\ DOMAIN d.jobs \subseteq DOMAIN g.jobs /\ \A k \in DOMAIN d.jobs : g.jobs[k] = d.jobs[k]
    /\ \A k \in DOMAIN g.jobs : k \notin DOMAIN d.jobs => NotAhead(g.jobs[k].mask)
    /\ d.subs \subseteq g.subs
    /\ \A s \in g.subs : s \in d.subs \/ (s[2] = q /\ g.jobs[s[1]].section = n)

LEMMA PutPlaces ==
    ASSUME NEW d, DeskOK(d), NEW q \in Request, d.requests[q].state = "live", NEW n \in Names,
           NEW g, Grown(d, g, q, n), NEW row, Fits(g, q, n, row)
    PROVE  Placing(d, WithSection(g, q, n, row), q)
<1>1. PICK e : e = WithSection(g, q, n, row)
  OBVIOUS
<1>2. /\ e \in Tables /\ e.jobs = g.jobs /\ e.policy = g.policy /\ e.requests = g.requests
      /\ e.subs = g.subs /\ e.results = g.results /\ e.cache = g.cache /\ e.reports = g.reports
      /\ \A p \in Request : p # q => e.sections[p] = g.sections[p]
      /\ \A m \in Names : e.sections[q][m] = IF m = n THEN row ELSE g.sections[q][m]
  BY <1>1, SectionPut DEF Grown, Fits
<1>3. Linked(e)
  BY <1>2 DEF Grown, Linked
<1>4. ASSUME NEW p \in Request, NEW m \in Names PROVE SectionOK(e, p, m)
  <2>1. CASE p = q /\ m = n
    <3>1. e.sections[p][m] = row /\ e.requests[p].state = "live"
      BY <1>2, <2>1 DEF Grown
    <3>. QED  BY <1>2, <2>1, <3>1 DEF Fits, SectionOK
  <2>2. CASE ~(p = q /\ m = n)
    <3>1. PICK t : t = d.sections[p][m]
      OBVIOUS
    <3>2. e.sections[p][m] = t
      BY <1>2, <2>2, <3>1 DEF Grown
    <3>3. SectionOK(d, p, m)
      BY DEF DeskOK, SectionsOK
    <3>4. t.job # NoJob => /\ t.job \in DOMAIN d.jobs /\ d.jobs[t.job].section = m
                           /\ e.jobs[t.job] = d.jobs[t.job] /\ t.job \in DOMAIN e.jobs
      BY <1>2, <3>1, <3>3 DEF SectionOK, Grown
    <3>5. t.job # NoJob => (<<t.job, p>> \in e.subs <=> <<t.job, p>> \in d.subs)
      <4>1. SUFFICES ASSUME t.job # NoJob, <<t.job, p>> \in e.subs, <<t.job, p>> \notin d.subs
                     PROVE  FALSE
        BY <1>2 DEF Grown
      <4>2. p = q /\ g.jobs[t.job].section = n
        BY <1>2, <4>1 DEF Grown
      <4>. QED  BY <1>2, <2>2, <3>4, <4>1, <4>2
    <3>6. e.requests[p] = d.requests[p] /\ e.results = d.results
      BY <1>2 DEF Grown
    <3>. QED  BY <3>1, <3>2, <3>3, <3>4, <3>5, <3>6 DEF SectionOK
  <2>. QED  BY <2>1, <2>2
<1>5. DeskOK(e)
  BY <1>2, <1>3, <1>4 DEF DeskOK, SectionsOK
<1>6. \A m \in Names : LET r == e.sections[q][m].result IN
        r # NoJob /\ r # d.sections[q][m].result => Readable(e, r)
  BY <1>2 DEF Fits, Grown, Readable
<1>. QED  BY <1>1, <1>2, <1>5, <1>6 DEF Placing, Grown

\* A job for section n, as it is queued.
NewJob(n) == [section |-> n, mask |-> Key(n).mask, stamp |-> Key(n).stamp,
              status |-> "queued", attempts |-> 0, delayed |-> FALSE]

LEMMA NewJobTyped ==
    ASSUME RightsTyped, NEW n \in Names
    PROVE  /\ NewJob(n) \in JobRow /\ NewJob(n).section = n /\ NewJob(n).status = "queued"
           /\ NotAhead(NewJob(n).mask)
<1>. DEFINE mask == [f \in Depends(n) |-> features[f]]
<1>1. Depends(n) \in SUBSET Feature
  BY SectionNames DEF Depends
<1>2. mask \in [Depends(n) -> FeatureRow] /\ NotAhead(mask)
  BY <1>1 DEF RightsTyped, NotAhead, FeatureRow
<1>3. mask \in Mask
  BY <1>1, <1>2 DEF Mask
<1>4. grants[Provider].row \in Nat
  BY ReportAssumption DEF RightsTyped
<1>5. Key(n).mask = mask /\ Key(n).stamp = grants[Provider].row
  BY DEF Key
<1>. HIDE DEF mask
<1>6. NewJob(n).mask = mask /\ NewJob(n).section = n /\ NewJob(n).status = "queued"
  BY <1>5 DEF NewJob
<1>7. NewJob(n) \in JobRow
  BY <1>3, <1>4, <1>5, SectionNames DEF NewJob, JobRow, Pending
<1>. QED  BY <1>2, <1>6, <1>7

LEMMA PlaceKeeps ==
    ASSUME RightsTyped, NEW d, DeskOK(d), NEW q \in Request, d.requests[q].state = "live",
           NEW n \in Names, NEW fresh
    PROVE  Placing(d, Place(d, q, n, fresh), q)
<1>. DEFINE cached == {j \in d.cache : KeyOf(d.jobs[j]) = Key(n)}
            joined == {j \in DOMAIN d.jobs : KeyOf(d.jobs[j]) = Key(n) /\ d.jobs[j].status \in Pending}
            added == Len(d.jobs) + 1
            put(e, status, j, r) ==
               WithSection(e, q, n, [status |-> status, job |-> j, result |-> r])
            pick == CHOOSE j \in joined : TRUE
            old == CHOOSE j \in cached : TRUE
            s == d.jobs[pick].status
<1>1. Place(d, q, n, fresh) =
        IF ~features[n].on THEN d
        ELSE IF ~Prepared(d, n) THEN put(d, "unavailable", NoJob, NoJob)
        ELSE IF n \in fresh /\ cached # {} THEN put(d, "completed", NoJob, old)
        ELSE IF joined # {}
             THEN put([d EXCEPT !.subs = d.subs \cup {<<pick, q>>}],
                      IF s = "draining" THEN "unavailable" ELSE s, pick, NoJob)
        ELSE put([d EXCEPT !.jobs = Append(d.jobs, NewJob(n)), !.subs = d.subs \cup {<<added, q>>}],
                 "queued", added, NoJob)
  BY DEF Place, WithSection, NewJob
<1>2. d \in Tables /\ Linked(d)
  BY DEF DeskOK
<1>3. NoJob \notin Nat
  BY SectionNames
<1>4. Placing(d, d, q)
  BY DEF Placing
<1>5. Grown(d, d, q, n)
  BY <1>2 DEF Grown
<1>6. Placing(d, put(d, "unavailable", NoJob, NoJob), q)
  <2>1. Fits(d, q, n, [status |-> "unavailable", job |-> NoJob, result |-> NoJob])
    BY DEF Fits, SectionRow, Waiting, Terminal
  <2>. QED  BY <1>5, <2>1, PutPlaces
<1>7. ASSUME Prepared(d, n), cached # {} PROVE Placing(d, put(d, "completed", NoJob, old), q)
  <2>1. PICK r : r = old
    OBVIOUS
  <2>2. r \in d.cache /\ KeyOf(d.jobs[r]) = Key(n)
    BY <1>7, <2>1
  <2>3. r \in d.results /\ r \in Nat
    BY <1>2, <2>2, TableFields DEF Linked
  <2>4. /\ d.jobs[r].mask = [f \in Depends(n) |-> features[f]]
        /\ d.jobs[r].stamp = grants[Provider].row
    BY <2>2 DEF KeyOf, Key
  <2>5. Readable(d, r)
    BY <1>7, <2>4 DEF Readable, MaskCurrent, Prepared, MayShow, Allowed
  <2>6. Fits(d, q, n, [status |-> "completed", job |-> NoJob, result |-> r])
    BY <2>3, <2>5 DEF Fits, SectionRow, Waiting, Terminal
  <2>. QED  BY <1>5, <2>1, <2>6, PutPlaces
<1>8. ASSUME joined # {}
      PROVE  Placing(d, put([d EXCEPT !.subs = d.subs \cup {<<pick, q>>}],
                            IF s = "draining" THEN "unavailable" ELSE s, pick, NoJob), q)
  <2>1. PICK j : j = pick
    OBVIOUS
  <2>2. j \in DOMAIN d.jobs /\ KeyOf(d.jobs[j]) = Key(n) /\ d.jobs[j].status \in Pending
    BY <1>8, <2>1
  <2>3. d.jobs[j].section = n /\ j \in Nat
    BY <1>2, <2>2, TableFields DEF KeyOf, Key
  <2>4. PICK g : g = [d EXCEPT !.subs = d.subs \cup {<<j, q>>}]
    OBVIOUS
  <2>5. d.subs \cup {<<j, q>>} \in SUBSET (Nat \X Request)
    BY <1>2, <2>3, TableFields
  <2>6. /\ g \in Tables /\ g.jobs = d.jobs /\ g.policy = d.policy /\ g.requests = d.requests
        /\ g.subs = d.subs \cup {<<j, q>>} /\ g.results = d.results /\ g.cache = d.cache
        /\ g.reports = d.reports /\ g.sections = d.sections
    BY <1>2, <2>4, <2>5 DEF Tables
  <2>7. Linked(g)
    BY <1>2, <2>2, <2>6 DEF Linked
  <2>8. Grown(d, g, q, n)
    BY <2>3, <2>6, <2>7 DEF Grown
  <2>9. PICK said : said = Said(d.jobs[j].status)
    OBVIOUS
  <2>10. Fits(g, q, n, [status |-> said, job |-> j, result |-> NoJob])
    BY <1>3, <2>2, <2>3, <2>6, <2>9 DEF Fits, SectionRow, Said, Pending, Active, Waiting, Terminal
  <2>11. Placing(d, WithSection(g, q, n, [status |-> said, job |-> j, result |-> NoJob]), q)
    BY <2>8, <2>10, PutPlaces
  <2>12. said = IF s = "draining" THEN "unavailable" ELSE s
    BY <2>1, <2>9 DEF Said
  <2>. QED  BY <2>1, <2>4, <2>11, <2>12
<1>9. Placing(d, put([d EXCEPT !.jobs = Append(d.jobs, NewJob(n)),
                               !.subs = d.subs \cup {<<added, q>>}],
                     "queued", added, NoJob), q)
  <2>1. PICK j : j = added
    OBVIOUS
  <2>2. PICK jobs : jobs = Append(d.jobs, NewJob(n))
    OBVIOUS
  <2>3. /\ d.jobs \in Seq(JobRow) /\ Len(d.jobs) \in Nat /\ DOMAIN d.jobs = 1 .. Len(d.jobs)
        /\ NewJob(n) \in JobRow
    BY <1>2, TableFields, NewJobTyped
  <2>4. /\ jobs \in Seq(JobRow) /\ DOMAIN jobs = 1 .. j /\ jobs[j] = NewJob(n)
        /\ \A k \in DOMAIN d.jobs : jobs[k] = d.jobs[k]
    BY <2>1, <2>2, <2>3, AppendProperties
  <2>5. j \in Nat /\ j \notin DOMAIN d.jobs /\ DOMAIN jobs = DOMAIN d.jobs \cup {j}
    BY <2>1, <2>3, <2>4
  <2>6. PICK g : g = [d EXCEPT !.jobs = jobs, !.subs = d.subs \cup {<<j, q>>}]
    OBVIOUS
  <2>7. d.subs \cup {<<j, q>>} \in SUBSET (Nat \X Request)
    BY <1>2, <2>5, TableFields
  <2>8. /\ g \in Tables /\ g.jobs = jobs /\ g.policy = d.policy /\ g.requests = d.requests
        /\ g.subs = d.subs \cup {<<j, q>>} /\ g.results = d.results /\ g.cache = d.cache
        /\ g.reports = d.reports /\ g.sections = d.sections
    BY <1>2, <2>4, <2>6, <2>7 DEF Tables
  <2>9. /\ jobs[j].status = "queued" /\ jobs[j].section = n /\ NotAhead(jobs[j].mask)
    BY <2>4, NewJobTyped
  <2>10. Linked(g)
    <3>1. g.results = {k \in DOMAIN g.jobs : g.jobs[k].status = "completed"}
      BY <1>2, <2>4, <2>5, <2>8, <2>9 DEF Linked
    <3>2. g.subs \subseteq (DOMAIN g.jobs) \X Request
      BY <1>2, <2>5, <2>8 DEF Linked
    <3>3. ASSUME NEW k \in DOMAIN g.jobs, g.jobs[k].status \in Active
          PROVE  g.jobs[k].attempts # 0
      <4>1. k \in DOMAIN d.jobs
        BY <2>5, <2>8, <2>9, <3>3 DEF Active
      <4>2. g.jobs[k] = d.jobs[k]
        BY <2>4, <2>8, <4>1
      <4>. QED  BY <1>2, <3>3, <4>1, <4>2 DEF Linked
    <3>. QED  BY <1>2, <2>8, <3>1, <3>2, <3>3 DEF Linked
  <2>11. Grown(d, g, q, n)
    <3>1. \A k \in DOMAIN g.jobs : k \notin DOMAIN d.jobs => NotAhead(g.jobs[k].mask)
      BY <2>5, <2>8, <2>9
    <3>2. \A x \in g.subs : x \in d.subs \/ (x[2] = q /\ g.jobs[x[1]].section = n)
      BY <2>8, <2>9
    <3>3. DOMAIN d.jobs \subseteq DOMAIN g.jobs /\ \A k \in DOMAIN d.jobs : g.jobs[k] = d.jobs[k]
      BY <2>4, <2>5, <2>8
    <3>. QED  BY <2>8, <2>10, <3>1, <3>2, <3>3 DEF Grown
  <2>12. Fits(g, q, n, [status |-> "queued", job |-> j, result |-> NoJob])
    BY <1>3, <2>5, <2>8, <2>9 DEF Fits, SectionRow, Said, Waiting
  <2>. QED  BY <2>1, <2>2, <2>6, <2>11, <2>12, PutPlaces
<1>. HIDE DEF cached, joined, added, put, pick, old, s
<1>. QED  BY <1>1, <1>4, <1>6, <1>7, <1>8, <1>9

LEMMA PlacingOn ==
    ASSUME NEW d, DeskOK(d), NEW e, NEW f, NEW q \in Request, Placing(d, e, q), Placing(e, f, q)
    PROVE  Placing(d, f, q)
<1>1. /\ DeskOK(f) /\ f.requests = d.requests /\ f.reports = d.reports
      /\ DOMAIN d.jobs \subseteq DOMAIN f.jobs /\ \A k \in DOMAIN d.jobs : f.jobs[k] = d.jobs[k]
      /\ \A p \in Request : p # q => f.sections[p] = d.sections[p]
  BY DEF Placing
<1>2. ASSUME NEW k \in DOMAIN f.jobs, k \notin DOMAIN d.jobs PROVE NotAhead(f.jobs[k].mask)
  <2>1. CASE k \in DOMAIN e.jobs
    <3>1. f.jobs[k] = e.jobs[k] /\ NotAhead(e.jobs[k].mask)
      BY <1>2, <2>1 DEF Placing
    <3>. QED  BY <3>1
  <2>2. CASE k \notin DOMAIN e.jobs
    BY <1>2, <2>2 DEF Placing
  <2>. QED  BY <2>1, <2>2
<1>3. ASSUME NEW n \in Names, f.sections[q][n].result # NoJob,
             f.sections[q][n].result # d.sections[q][n].result
      PROVE  Readable(f, f.sections[q][n].result)
  <2>1. PICK r : r = f.sections[q][n].result
    OBVIOUS
  <2>2. CASE r # e.sections[q][n].result
    BY <1>3, <2>1, <2>2 DEF Placing
  <2>3. CASE r = e.sections[q][n].result
    <3>1. Readable(e, r)
      BY <1>3, <2>1, <2>3 DEF Placing
    <3>2. r \in DOMAIN e.jobs
      <4>1. SectionOK(e, q, n) /\ Linked(e)
        BY DEF Placing, DeskOK, SectionsOK
      <4>2. r \in e.results
        BY <1>3, <2>1, <2>3, <4>1 DEF SectionOK
      <4>. QED  BY <4>1, <4>2 DEF Linked
    <3>3. f.jobs[r] = e.jobs[r]
      BY <3>2 DEF Placing
    <3>. QED  BY <2>1, <3>1, <3>3 DEF Readable
  <2>. QED  BY <2>2, <2>3
<1>. QED  BY <1>1, <1>2, <1>3 DEF Placing

LEMMA PlacedKeeps ==
    ASSUME RightsTyped, NEW d, DeskOK(d), NEW q \in Request, d.requests[q].state = "live", NEW fresh
    PROVE  Placing(d, Placed(d, q, fresh)[Len(Section)], q)
<1>. DEFINE run == Placed(d, q, fresh)
            S == {i \in 0 .. Len(Section) : Placing(d, run[i], q)}
<1>1. /\ run[0] = d
      /\ \A i \in 1 .. Len(Section) : run[i] = Place(run[i - 1], q, Section[i], fresh)
  BY PlacedUnfolds
<1>. HIDE DEF run
<1>2. Len(Section) \in Nat /\ \A i \in 1 .. Len(Section) : Section[i] \in Names
  BY SectionNames
<1>3. 0 \in S
  BY <1>1, <1>2 DEF Placing
<1>4. ASSUME NEW i \in 0 .. Len(Section), i \in S, i < Len(Section) PROVE i + 1 \in S
  <2>1. PICK e : e = run[i]
    OBVIOUS
  <2>2. PICK k : k = i + 1
    OBVIOUS
  <2>3. k \in 1 .. Len(Section) /\ run[k] = Place(e, q, Section[k], fresh) /\ Section[k] \in Names
    BY <1>1, <1>2, <1>4, <2>1, <2>2
  <2>4. Placing(d, e, q) /\ DeskOK(e) /\ e.requests[q].state = "live"
    BY <1>4, <2>1 DEF Placing
  <2>5. Placing(e, run[k], q)
    BY <2>3, <2>4, PlaceKeeps
  <2>6. Placing(d, run[k], q)
    BY <2>4, <2>5, PlacingOn
  <2>. QED  BY <2>2, <2>3, <2>6
<1>5. Len(Section) \in S
  <2>. DEFINE N == Len(Section)
  <2>1. \A n \in 0 .. N : n \in S /\ n < N => n + 1 \in S
    BY <1>4
  <2>2. N \in Nat /\ 0 \in S
    BY <1>2, <1>3
  <2>. HIDE DEF S, N
  <2>3. N \in S
    BY <2>1, <2>2, CountUp
  <2>. QED  BY <2>3 DEF N
<1>. QED  BY <1>5 DEF run

\* What a step that changes no right leaves.
Goes(d, f) == /\ DeskOK(f) /\ Len(f.jobs) <= MaxJobs
              /\ \A k \in DOMAIN f.jobs : NotAhead(f.jobs[k].mask)
              /\ \A q \in Request : Final(f, q) /\ Given(d, f, q)

LEMMA RequestGoes ==
    ASSUME DeskInv, NEW q \in Request, NEW fresh, RequestResearch(q, fresh)
    PROVE  Goes(desk, desk')
<1>. DEFINE begun == [desk EXCEPT !.requests[q].state = "live"]
<1>1. PICK d0 : d0 = begun
  OBVIOUS
<1>2. PICK d : d = Placed(d0, q, fresh)[Len(Section)]
  OBVIOUS
<1>3. desk.requests[q] = [state |-> "absent", session |-> TRUE] /\ desk' = Snapshot(d, q)
  BY <1>1, <1>2 DEF RequestResearch
<1>4. DeskOK(desk) /\ desk \in Tables /\ RightsTyped
  BY DEF DeskInv, DeskOK
<1>5. PICK requests : requests = [desk.requests EXCEPT ![q] = [state |-> "live", session |-> TRUE]]
  OBVIOUS
<1>6. /\ requests \in [Request -> RequestRow] /\ requests[q] = [state |-> "live", session |-> TRUE]
      /\ \A p \in Request : p # q => requests[p] = desk.requests[p]
  BY <1>4, <1>5, TableFields DEF RequestRow
<1>7. d0 = [desk EXCEPT !.requests = requests]
  <2>1. PICK x : x = desk.requests[q]
    OBVIOUS
  <2>2. \A b : x = [state |-> "absent", session |-> b] =>
          [x EXCEPT !.state = "live"] = [state |-> "live", session |-> b]
    OBVIOUS
  <2>3. [x EXCEPT !.state = "live"] = [state |-> "live", session |-> TRUE]
    BY <1>3, <2>1, <2>2
  <2>4. d0 = [desk EXCEPT !.requests = [desk.requests EXCEPT ![q] = [x EXCEPT !.state = "live"]]]
    BY <1>1, <1>4, <2>1 DEF Tables
  <2>. QED  BY <1>5, <2>3, <2>4
<1>8. /\ d0 \in Tables /\ d0.jobs = desk.jobs /\ d0.policy = desk.policy /\ d0.requests = requests
      /\ d0.subs = desk.subs /\ d0.results = desk.results /\ d0.cache = desk.cache
      /\ d0.reports = desk.reports /\ d0.sections = desk.sections
  BY <1>4, <1>6, <1>7 DEF Tables
<1>9. DeskOK(d0)
  <2>1. Linked(d0)
    BY <1>4, <1>8 DEF DeskOK, Linked
  <2>2. ASSUME NEW p \in Request, NEW n \in Names PROVE SectionOK(d0, p, n)
    <3>1. SectionOK(desk, p, n)
      BY <1>4 DEF DeskOK, SectionsOK
    <3>2. CASE p # q
      BY <1>6, <1>8, <3>1, <3>2 DEF SectionOK
    <3>3. CASE p = q
      <4>1. d0.sections[p][n] = NoSection /\ d0.requests[p].state = "live"
        <5>1. desk.sections[p][n] = NoSection
          BY <1>3, <3>1, <3>3 DEF SectionOK
        <5>. QED  BY <1>6, <1>8, <3>3, <5>1
      <4>. QED  BY <4>1 DEF SectionOK, NoSection, Waiting
    <3>. QED  BY <3>2, <3>3
  <2>. QED  BY <1>8, <2>1, <2>2 DEF DeskOK, SectionsOK
<1>10. Placing(d0, d, q)
  BY <1>2, <1>4, <1>6, <1>8, <1>9, PlacedKeeps
<1>11. DeskOK(d) /\ d \in Tables
  BY <1>10 DEF Placing, DeskOK
<1>12. PICK f : f = SnapshotAll(d, {q})
  OBVIOUS
<1>13. desk' = f
  BY <1>3, <1>11, <1>12, SnapshotOfOne
<1>14. /\ DeskOK(f)
       /\ \A p \in Request : /\ p \in {q} \/ Final(d, p) => Final(f, p)
                             /\ f.reports[p] # d.reports[p] => Owner(f, p)
  BY <1>11, <1>12, SnapshotsKeep
<1>15. f.jobs = d.jobs /\ f.requests = d.requests /\ f.sections = d.sections
  BY <1>11, <1>12, SnapshotsTaken
<1>16. ASSUME NEW p \in Request, p # q PROVE Final(d, p)
  <2>1. /\ d.sections[p] = desk.sections[p] /\ d.reports = desk.reports
        /\ d.requests[p] = desk.requests[p]
    BY <1>6, <1>8, <1>10, <1>16 DEF Placing
  <2>2. \A n \in Names : LET j == desk.sections[p][n].job IN
          j # NoJob => d.jobs[j] = desk.jobs[j]
    <3>1. \A n \in Names : LET j == desk.sections[p][n].job IN j # NoJob => j \in DOMAIN desk.jobs
      BY <1>4 DEF DeskOK, SectionsOK, SectionOK
    <3>. QED  BY <1>8, <1>10, <3>1 DEF Placing
  <2>3. Ended(d, p) => Ended(desk, p)
    BY <2>1, <2>2 DEF Ended, Owner
  <2>4. Final(desk, p)
    BY DEF DeskInv
  <2>. QED  BY <2>1, <2>3, <2>4 DEF Final
<1>17. \A p \in Request : Final(f, p)
  BY <1>14, <1>16
<1>18. ASSUME NEW p \in Request PROVE Given(desk, f, p)
  <2>1. d.reports = desk.reports
    BY <1>8, <1>10 DEF Placing
  <2>2. CASE p # q
    BY <1>8, <1>10, <1>14, <1>15, <2>1, <2>2 DEF Given, Placing
  <2>3. CASE p = q
    <3>1. Owner(f, q)
      BY <1>6, <1>8, <1>10, <1>15 DEF Placing, Owner
    <3>2. \A n \in Names : LET r == d.sections[q][n].result IN
            r # NoJob /\ r # desk.sections[q][n].result => Readable(f, r)
      BY <1>8, <1>10, <1>15 DEF Placing, Readable
    <3>. QED  BY <1>15, <2>3, <3>1, <3>2 DEF Given
  <2>. QED  BY <2>2, <2>3
<1>19. \A k \in DOMAIN f.jobs : NotAhead(f.jobs[k].mask)
  <2>1. \A k \in DOMAIN desk.jobs : d.jobs[k] = desk.jobs[k] /\ NotAhead(desk.jobs[k].mask)
    BY <1>8, <1>10 DEF Placing, DeskInv, MasksBehind
  <2>. QED  BY <1>8, <1>10, <1>15, <2>1 DEF Placing
<1>20. Len(f.jobs) <= MaxJobs
  BY <1>1, <1>2, <1>15 DEF RequestResearch
<1>. QED  BY <1>13, <1>14, <1>17, <1>18, <1>19, <1>20 DEF Goes

LEMMA KeptGoes ==
    ASSUME DeskInv, NEW f, Kept(desk, f) PROVE Goes(desk, f)
<1>1. \A k \in DOMAIN f.jobs : NotAhead(f.jobs[k].mask)
  BY DEF DeskInv, MasksBehind, Kept, SameJobs
<1>2. Len(f.jobs) <= MaxJobs
  <2>1. DOMAIN f.jobs = DOMAIN desk.jobs /\ f \in Tables /\ desk \in Tables
    BY DEF DeskInv, Kept, SameJobs, DeskOK
  <2>2. Len(f.jobs) = Len(desk.jobs)
    BY <2>1, TableFields
  <2>. QED  BY <2>2 DEF DeskInv
<1>. QED  BY <1>1, <1>2 DEF Kept, Goes

-----------------------------------------------------------------------------
\* Rights withdrawn.

\* A request whose owner loses it: nothing is given, and nothing is owed.
LEMMA LossGoes ==
    ASSUME DeskInv, NEW q \in Request, NEW e \in Tables,
           e.jobs = desk.jobs, e.results = desk.results, e.cache = desk.cache,
           e.reports = desk.reports, e.sections = desk.sections,
           \A p \in Request : p # q => e.requests[p] = desk.requests[p],
           ~Owner(e, q),
           \/ e.requests[q].state = desk.requests[q].state /\ e.subs = desk.subs
           \/ e.requests[q].state = "deleted" /\ e.subs = {s \in desk.subs : s[2] # q}
    PROVE  Goes(desk, e)
<1>1. DeskOK(desk) /\ \A p \in Request : Final(desk, p)
  BY DEF DeskInv
<1>2. Linked(e)
  BY <1>1 DEF DeskOK, Linked
<1>3. ASSUME NEW p \in Request, NEW n \in Names PROVE SectionOK(e, p, n)
  <2>1. SectionOK(desk, p, n)
    BY <1>1 DEF DeskOK, SectionsOK
  <2>2. CASE p # q
    <3>1. \A j : <<j, p>> \in e.subs <=> <<j, p>> \in desk.subs
      BY <2>2
    <3>. QED  BY <2>1, <2>2, <3>1 DEF SectionOK
  <2>3. CASE p = q /\ e.requests[q].state = desk.requests[q].state /\ e.subs = desk.subs
    BY <2>1, <2>3 DEF SectionOK
  <2>4. CASE p = q /\ e.requests[q].state = "deleted"
    BY <2>1, <2>4 DEF SectionOK
  <2>. QED  BY <2>2, <2>3, <2>4
<1>4. DeskOK(e)
  BY <1>2, <1>3 DEF DeskOK, SectionsOK
<1>5. ASSUME NEW p \in Request PROVE Final(e, p) /\ Given(desk, e, p)
  <2>1. Final(e, p)
    <3>1. CASE p = q
      BY <3>1 DEF Final, Ended
    <3>2. CASE p # q
      <4>1. Owner(e, p) = Owner(desk, p)
        BY <3>2 DEF Owner
      <4>2. Ended(e, p) = Ended(desk, p)
        BY <4>1 DEF Ended
      <4>. QED  BY <1>1, <4>2 DEF Final
    <3>. QED  BY <3>1, <3>2
  <2>. QED  BY <2>1 DEF Given
<1>6. \A k \in DOMAIN e.jobs : NotAhead(e.jobs[k].mask)
  BY DEF DeskInv, MasksBehind
<1>. QED  BY <1>4, <1>5, <1>6 DEF Goes, DeskInv

WithRequest(d, q, row, subs) ==
    [d EXCEPT !.requests = [d.requests EXCEPT ![q] = row], !.subs = subs]

LEMMA RequestPut ==
    ASSUME NEW d \in Tables, NEW q \in Request, NEW row \in RequestRow, NEW subs, subs \subseteq d.subs,
           NEW e, e = WithRequest(d, q, row, subs)
    PROVE  /\ e \in Tables /\ e.jobs = d.jobs /\ e.results = d.results /\ e.cache = d.cache
           /\ e.reports = d.reports /\ e.sections = d.sections /\ e.subs = subs
           /\ e.requests[q] = row /\ \A p \in Request : p # q => e.requests[p] = d.requests[p]
<1>1. PICK requests : requests = [d.requests EXCEPT ![q] = row]
  OBVIOUS
<1>2. /\ requests \in [Request -> RequestRow] /\ requests[q] = row
      /\ \A p \in Request : p # q => requests[p] = d.requests[p]
  BY <1>1, TableFields
<1>3. subs \in SUBSET (Nat \X Request)
  BY TableFields
<1>4. e = [d EXCEPT !.requests = requests, !.subs = subs]
  BY <1>1 DEF WithRequest
<1>5. /\ e \in Tables /\ e.jobs = d.jobs /\ e.results = d.results /\ e.cache = d.cache
      /\ e.reports = d.reports /\ e.sections = d.sections /\ e.subs = subs /\ e.requests = requests
  BY <1>2, <1>3, <1>4 DEF Tables
<1>. QED  BY <1>2, <1>5

LEMMA DeleteGoes ==
    ASSUME DeskInv, NEW q \in Request, DeleteReport(q) PROVE Goes(desk, desk')
<1>1. desk \in Tables /\ desk.requests[q] \in RequestRow
  BY TableFields DEF DeskInv, DeskOK
<1>2. PICK x : x = desk.requests[q]
  OBVIOUS
<1>3. PICK row : row = [x EXCEPT !.state = "deleted"]
  OBVIOUS
<1>4. row \in RequestRow /\ row.state = "deleted"
  BY <1>1, <1>2, <1>3 DEF RequestRow
<1>5. PICK subs : subs = {s \in desk.subs : s[2] # q}
  OBVIOUS
<1>6. PICK e : e = WithRequest(desk, q, row, subs)
  OBVIOUS
<1>7. desk' = e
  BY <1>1, <1>2, <1>3, <1>5, <1>6 DEF DeleteReport, Tables, WithRequest
<1>8. /\ e \in Tables /\ e.jobs = desk.jobs /\ e.results = desk.results /\ e.cache = desk.cache
      /\ e.reports = desk.reports /\ e.sections = desk.sections /\ e.subs = subs
      /\ e.requests[q] = row /\ \A p \in Request : p # q => e.requests[p] = desk.requests[p]
  <2>1. subs \subseteq desk.subs
    BY <1>5
  <2>. QED  BY <1>1, <1>4, <1>6, <2>1, RequestPut
<1>9. Goes(desk, e)
  BY <1>4, <1>5, <1>8, LossGoes DEF Owner
<1>. QED  BY <1>7, <1>9

LEMMA EndGoes ==
    ASSUME DeskInv, NEW q \in Request, EndSession(q) PROVE Goes(desk, desk')
<1>1. desk \in Tables /\ desk.requests[q] \in RequestRow
  BY TableFields DEF DeskInv, DeskOK
<1>2. PICK x : x = desk.requests[q]
  OBVIOUS
<1>3. PICK row : row = [x EXCEPT !.session = FALSE]
  OBVIOUS
<1>4. row \in RequestRow /\ row.state = x.state /\ ~row.session
  <2>1. ASSUME NEW b \in BOOLEAN, NEW y, y = [x EXCEPT !.session = b]
        PROVE  y \in RequestRow /\ y.state = x.state /\ y.session = b
    BY <1>1, <1>2, <2>1 DEF RequestRow
  <2>2. row \in RequestRow /\ row.state = x.state /\ row.session = FALSE
    BY <1>3, <2>1
  <2>. QED  BY <2>2
<1>5. PICK e : e = WithRequest(desk, q, row, desk.subs)
  OBVIOUS
<1>6. desk' = e
  BY <1>1, <1>2, <1>3, <1>5 DEF EndSession, Tables, WithRequest
<1>7. /\ e \in Tables /\ e.jobs = desk.jobs /\ e.results = desk.results /\ e.cache = desk.cache
      /\ e.reports = desk.reports /\ e.sections = desk.sections /\ e.subs = desk.subs
      /\ e.requests[q] = row /\ \A p \in Request : p # q => e.requests[p] = desk.requests[p]
  BY <1>1, <1>4, <1>5, RequestPut
<1>8. Goes(desk, e)
  BY <1>2, <1>4, <1>7, LossGoes DEF Owner
<1>. QED  BY <1>6, <1>8

LEMMA DeployGoes ==
    ASSUME DeskInv, Deploy PROVE Goes(desk, desk')
<1>1. PICK row : row = grants[Provider].row
  OBVIOUS
<1>2. row \in Nat
  BY <1>1, ReportAssumption DEF DeskInv, RightsTyped
<1>3. PICK e : e = [desk EXCEPT !.policy = row]
  OBVIOUS
<1>4. desk' = e
  BY <1>1, <1>3 DEF Deploy
<1>5. /\ e \in Tables /\ e.jobs = desk.jobs /\ e.results = desk.results /\ e.cache = desk.cache
      /\ e.reports = desk.reports /\ e.sections = desk.sections /\ e.subs = desk.subs
      /\ e.requests = desk.requests
  BY <1>2, <1>3 DEF DeskInv, DeskOK, Tables
<1>6. DeskOK(e)
  <2>1. Linked(e)
    BY <1>5 DEF DeskInv, DeskOK, Linked
  <2>2. SectionsOK(e)
    BY <1>5, SameSections DEF DeskInv, DeskOK
  <2>. QED  BY <1>5, <2>1, <2>2 DEF DeskOK
<1>7. \A q \in Request : Final(e, q) /\ Given(desk, e, q)
  BY <1>5 DEF DeskInv, Final, Ended, Owner, Given
<1>8. \A k \in DOMAIN e.jobs : NotAhead(e.jobs[k].mask)
  BY <1>5 DEF DeskInv, MasksBehind
<1>9. Len(e.jobs) <= MaxJobs
  BY <1>5 DEF DeskInv
<1>. QED  BY <1>4, <1>6, <1>7, <1>8, <1>9 DEF Goes

LEMMA GoesOn ==
    ASSUME DeskInv, UNCHANGED rights, Goes(desk, desk') PROVE DeskInv'
<1>1. features' = features /\ grants' = grants /\ authority' = authority
  BY DEF rights
<1>2. RightsTyped'
  BY <1>1 DEF DeskInv, RightsTyped
<1>3. MasksBehind'
  BY <1>1 DEF Goes, MasksBehind, NotAhead
<1>4. DeskOK(desk)'
  BY DEF Goes
<1>5. \A q \in Request : Final(desk, q)'
  BY <1>1 DEF Goes, Final, Ended, Owner, MaskCurrent
<1>6. (Len(desk.jobs) <= MaxJobs)'
  BY DEF Goes
<1>. QED  BY <1>2, <1>3, <1>4, <1>5, <1>6 DEF DeskInv

\* Switched features leave the masks behind where they were: what was withdrawn
\* is not given back by a second switch.
LEMMA RightsGo ==
    ASSUME DeskInv, DeskRights PROVE DeskInv' /\ \A q \in Request : Given(desk, desk', q)
<1>1. desk' = desk /\ RightsTyped
  BY DEF DeskRights, DeskInv
<1>2. \A q \in Request : Given(desk, desk', q)
  BY <1>1 DEF Given
<1>3. CASE \E f \in Names : Switch(f)
  <2>1. PICK f \in Names : Switch(f)
    BY <1>3
  <2>2. /\ f \in Feature /\ features \in [Feature -> FeatureRow]
        /\ features' = [features EXCEPT ![f] =
                          [on |-> ~features[f].on, version |-> features[f].version + 1]]
        /\ grants' = grants /\ authority' = authority
    BY <1>1, <2>1, SectionNames DEF Switch, RightsTyped
  <2>3. /\ features[f].version \in Nat
        /\ features'[f].version = features[f].version + 1
        /\ \A g \in Feature : g # f => features'[g] = features[g]
    BY <2>2 DEF FeatureRow
  <2>4. features' \in [Feature -> FeatureRow]
    <3>1. PICK row : row = [on |-> ~features[f].on, version |-> features[f].version + 1]
      OBVIOUS
    <3>2. row \in FeatureRow
      BY <2>3, <3>1 DEF FeatureRow
    <3>. QED  BY <2>2, <3>1, <3>2
  <2>5. ASSUME NEW mask \in Mask, NotAhead(mask)
        PROVE  NotAhead(mask)' /\ (MaskCurrent(mask)' => MaskCurrent(mask))
    <3>1. PICK F \in SUBSET Feature : mask \in [F -> FeatureRow]
      BY DEF Mask
    <3>2. ASSUME NEW g \in F PROVE mask[g].version <= features'[g].version
      <4>1. mask[g].version \in Nat /\ features[g].version \in Nat /\ mask[g].version <= features[g].version
        BY <2>2, <2>5, <3>1 DEF NotAhead, FeatureRow
      <4>. QED  BY <2>3, <4>1
    <3>3. ASSUME f \in F PROVE mask[f] # features'[f]
      <4>1. mask[f].version \in Nat /\ mask[f].version <= features[f].version
        BY <2>5, <3>1, <3>3 DEF NotAhead, FeatureRow
      <4>. QED  BY <2>3, <4>1
    <3>4. NotAhead(mask)'
      BY <3>1, <3>2 DEF NotAhead
    <3>5. MaskCurrent(mask)' => MaskCurrent(mask)
      BY <2>3, <3>1, <3>3 DEF MaskCurrent
    <3>. QED  BY <3>4, <3>5
  <2>6. \A j \in DOMAIN desk.jobs : desk.jobs[j].mask \in Mask /\ NotAhead(desk.jobs[j].mask)
    BY TableFields DEF DeskInv, DeskOK, MasksBehind, JobRow
  <2>7. MasksBehind'
    BY <1>1, <2>5, <2>6 DEF MasksBehind
  <2>8. \A q \in Request : Final(desk, q)'
    <3>1. SUFFICES ASSUME NEW q \in Request, Ended(desk, q)' PROVE Ended(desk, q)
      BY <1>1 DEF DeskInv, Final
    <3>2. Owner(desk, q)
      BY <1>1, <3>1 DEF Ended, Owner
    <3>3. ASSUME NEW n \in Names, desk.sections[q][n].job # NoJob
          PROVE  LET j == desk.sections[q][n].job IN
                 /\ desk.jobs[j].status \in Terminal
                 /\ desk.jobs[j].status = "failed" => MaskCurrent(desk.jobs[j].mask)
      <4>1. PICK j : j = desk.sections[q][n].job
        OBVIOUS
      <4>2. j \in DOMAIN desk.jobs
        BY <3>3, <4>1 DEF DeskInv, DeskOK, SectionsOK, SectionOK
      <4>3. PICK mask : mask = desk.jobs[j].mask
        OBVIOUS
      <4>4. /\ desk.jobs[j].status \in Terminal
            /\ desk.jobs[j].status = "failed" => MaskCurrent(mask)'
        BY <1>1, <3>1, <3>3, <4>1, <4>3 DEF Ended, MaskCurrent
      <4>5. MaskCurrent(mask)' => MaskCurrent(mask)
        BY <2>5, <2>6, <4>2, <4>3
      <4>. QED  BY <4>1, <4>3, <4>4, <4>5
    <3>. QED  BY <3>2, <3>3 DEF Ended
  <2>9. RightsTyped'
    BY <1>1, <2>2, <2>4 DEF RightsTyped
  <2>10. (DeskOK(desk) /\ Len(desk.jobs) <= MaxJobs)'
    BY <1>1 DEF DeskInv
  <2>. QED  BY <1>2, <2>7, <2>8, <2>9, <2>10 DEF DeskInv
<1>4. CASE \E uses \in {g \in Grant : "trace" \in g} : Record(Provider, uses)
  <2>1. PICK uses \in Grant : Record(Provider, uses)
    BY <1>4
  <2>2. features' = features
    BY <2>1 DEF Record
  <2>3. RightsTyped'
    <3>1. uses \in SUBSET Uses /\ Provider \in Source
      BY RightsAssumption, ReportAssumption
    <3>2. grants' = [grants EXCEPT ![Provider] = [row |-> grants[Provider].row + 1, uses |-> uses]]
      BY <2>1 DEF Record
    <3>3. grants' \in [Source -> [row: Nat, uses: SUBSET Uses]]
      BY <1>1, <3>1, <3>2 DEF RightsTyped
    <3>4. authority' \in [journal: BOOLEAN, withheld: BOOLEAN]
      BY <1>1, <2>1 DEF Record, RightsTyped
    <3>. QED  BY <1>1, <2>2, <3>3, <3>4 DEF RightsTyped
  <2>4. MasksBehind'
    BY <1>1, <2>2 DEF DeskInv, MasksBehind, NotAhead
  <2>5. \A q \in Request : Final(desk, q)'
    BY <1>1, <2>2 DEF DeskInv, Final, Ended, Owner, MaskCurrent
  <2>6. (DeskOK(desk) /\ Len(desk.jobs) <= MaxJobs)'
    BY <1>1 DEF DeskInv
  <2>. QED  BY <1>2, <2>3, <2>4, <2>5, <2>6 DEF DeskInv
<1>. QED  BY <1>3, <1>4 DEF DeskRights

-----------------------------------------------------------------------------
\* The theorems.

LEMMA DeskStarts == RightsInit /\ DeskInit => DeskInv
<1>. SUFFICES ASSUME RightsInit, DeskInit PROVE DeskInv
  OBVIOUS
<1>1. RightsTyped
  BY DEF RightsInit, RightsTyped, FeatureRow
<1>. DEFINE requests == [q \in Request |-> [state |-> "absent", session |-> TRUE]]
            sections == [q \in Request |-> [n \in Names |-> NoSection]]
            reports == [q \in Request |-> [version |-> 0, final |-> FALSE, shown |-> {}]]
<1>2. desk = [jobs |-> <<>>, policy |-> 0, requests |-> requests, sections |-> sections,
              subs |-> {}, results |-> {}, cache |-> {}, reports |-> reports]
  BY DEF DeskInit
<1>3. <<>> \in Seq(JobRow) /\ Len(<<>>) = 0 /\ DOMAIN <<>> = {}
  BY EmptySeq
<1>4. requests \in [Request -> RequestRow] /\ \A q \in Request : requests[q].state = "absent"
  BY DEF RequestRow
<1>5. /\ sections \in [Request -> [Names -> SectionRow]]
      /\ \A q \in Request, n \in Names : sections[q][n] = NoSection
  <2>1. NoSection \in SectionRow
    BY DEF NoSection, SectionRow
  <2>. QED  BY <2>1
<1>6. reports \in [Request -> ReportRow]
  BY DEF ReportRow
<1>. HIDE DEF requests, sections, reports
<1>7. desk \in Tables
  BY <1>2, <1>3, <1>4, <1>5, <1>6 DEF Tables
<1>8. DOMAIN desk.jobs = {} /\ Len(desk.jobs) <= MaxJobs
  BY <1>2, <1>3, SectionNames
<1>9. Linked(desk)
  BY <1>2, <1>8 DEF Linked
<1>10. SectionsOK(desk)
  BY <1>2, <1>4, <1>5 DEF SectionsOK, SectionOK, NoSection, Waiting
<1>11. \A q \in Request : Final(desk, q)
  BY <1>2, <1>4 DEF Final, Ended, Owner
<1>12. MasksBehind
  BY <1>8 DEF MasksBehind
<1>. QED  BY <1>1, <1>7, <1>8, <1>9, <1>10, <1>11, <1>12 DEF DeskInv, DeskOK

LEMMA DeskSteps ==
    DeskInv /\ [DeskNext]_<<rights, desk>>
    => DeskInv' /\ (desk' # desk => \A q \in Request : Given(desk, desk', q))
<1>. SUFFICES ASSUME DeskInv, [DeskNext]_<<rights, desk>>
              PROVE  DeskInv' /\ (desk' # desk => \A q \in Request : Given(desk, desk', q))
  OBVIOUS
<1>1. ASSUME Goes(desk, desk'), UNCHANGED rights
      PROVE  DeskInv' /\ \A q \in Request : Given(desk, desk', q)
  BY <1>1, GoesOn DEF Goes
<1>2. ASSUME NEW q \in Request, NEW fresh, RequestResearch(q, fresh)
      PROVE  DeskInv' /\ \A p \in Request : Given(desk, desk', p)
  BY <1>1, <1>2, RequestGoes DEF RequestResearch
<1>3. ASSUME NEW q \in Request, DeleteReport(q)
      PROVE  DeskInv' /\ \A p \in Request : Given(desk, desk', p)
  BY <1>1, <1>3, DeleteGoes DEF DeleteReport
<1>4. ASSUME NEW q \in Request, EndSession(q)
      PROVE  DeskInv' /\ \A p \in Request : Given(desk, desk', p)
  BY <1>1, <1>4, EndGoes DEF EndSession
<1>5. ASSUME NEW late, ClaimJob(late)
      PROVE  DeskInv' /\ \A p \in Request : Given(desk, desk', p)
  <2>1. Goes(desk, desk') /\ UNCHANGED rights
    BY <1>5, ClaimKeeps, KeptGoes DEF ClaimJob
  <2>. QED  BY <1>1, <2>1
<1>6. ASSUME NEW j \in DOMAIN desk.jobs, MarkDraining(j)
      PROVE  DeskInv' /\ \A p \in Request : Given(desk, desk', p)
  BY <1>1, <1>6, DrainingKeeps, KeptGoes DEF MarkDraining
<1>7. ASSUME NEW j \in DOMAIN desk.jobs, NEW retry \in BOOLEAN, Settle(j, retry)
      PROVE  DeskInv' /\ \A p \in Request : Given(desk, desk', p)
  <2>1. Kept(desk, desk') /\ UNCHANGED rights
    BY <1>7, SettleKeeps DEF Settle
  <2>. QED  BY <1>1, <2>1, KeptGoes
<1>8. ASSUME NEW j \in DOMAIN desk.jobs, Defer(j)
      PROVE  DeskInv' /\ \A p \in Request : Given(desk, desk', p)
  BY <1>1, <1>8, DeferKeeps, KeptGoes DEF Defer
<1>9. ASSUME NEW j \in DOMAIN desk.jobs, NEW outcome \in {"completed", "unavailable", "failed"},
             CompleteJob(j, outcome)
      PROVE  DeskInv' /\ \A p \in Request : Given(desk, desk', p)
  <2>1. Kept(desk, desk') /\ UNCHANGED rights
    BY <1>9, CompleteKeeps DEF CompleteJob, Terminal
  <2>. QED  BY <1>1, <2>1, KeptGoes
<1>10. CASE DeskRights
  BY <1>10, RightsGo
<1>11. CASE Deploy
  BY <1>1, <1>11, DeployGoes DEF Deploy
<1>12. CASE UNCHANGED <<rights, desk>>
  <2>1. /\ features' = features /\ grants' = grants /\ authority' = authority /\ desk' = desk
    BY <1>12 DEF rights
  <2>2. DeskInv'
    BY <2>1 DEF DeskInv, RightsTyped, MasksBehind, NotAhead, Final, Ended, Owner, MaskCurrent
  <2>. QED  BY <2>1, <2>2
<1>. QED
  <2>1. CASE DeskNext
    <3>1. CASE \E q \in Request : \/ \E fresh \in SUBSET Names : RequestResearch(q, fresh)
                                  \/ DeleteReport(q) \/ EndSession(q)
      BY <3>1, <1>2, <1>3, <1>4
    <3>2. CASE \E late \in SUBSET DOMAIN desk.jobs : ClaimJob(late)
      BY <3>2, <1>5
    <3>3. CASE \E j \in DOMAIN desk.jobs :
                 \/ MarkDraining(j) \/ RecoverLease(j) \/ Defer(j)
                 \/ \E outcome \in {"completed", "unavailable", "failed"} : CompleteJob(j, outcome)
                 \/ \E retryable \in BOOLEAN : FailAttempt(j, retryable)
      <4>1. \A j \in DOMAIN desk.jobs : RecoverLease(j) => Settle(j, TRUE)
        BY DEF RecoverLease
      <4>2. \A j \in DOMAIN desk.jobs, retry \in BOOLEAN : FailAttempt(j, retry) => Settle(j, retry)
        BY DEF FailAttempt
      <4>3. TRUE \in BOOLEAN
        OBVIOUS
      <4>. QED  BY <3>3, <4>1, <4>2, <4>3, <1>6, <1>7, <1>8, <1>9, Zenon
    <3>. QED  BY <2>1, <3>1, <3>2, <3>3, <1>10, <1>11 DEF DeskNext
  <2>. QED  BY <2>1, <1>12

\* The rows of the tables fit together in every state.
THEOREM DeskAlwaysFits == DeskSpec => []DeskInv
<1>1. RightsInit /\ DeskInit => DeskInv
  BY DeskStarts
<1>2. DeskInv /\ [DeskNext]_<<rights, desk>> => DeskInv'
  BY DeskSteps
<1>. QED  BY <1>1, <1>2, PTL DEF DeskSpec

\* A row names a job, a request or a result that exists and has what it needs,
\* after any sequence of requests, attempts, deletions and switches.
THEOREM DeskTypesAlways == DeskSpec => []DeskTypeOK
<1>1. DeskInv => DeskTypeOK
  <2>. SUFFICES ASSUME DeskInv PROVE DeskTypeOK
    OBVIOUS
  <2>1. desk \in Tables /\ Linked(desk) /\ Len(desk.jobs) <= MaxJobs
    BY DEF DeskInv, DeskOK
  <2>2. ASSUME NEW j \in DOMAIN desk.jobs
        PROVE  /\ j \in Job /\ desk.jobs[j].section \in Names
               /\ desk.jobs[j].status \in Pending \cup Terminal
               /\ desk.jobs[j].attempts \in 0 .. MaxAttempts
    <3>1. desk.jobs[j] \in JobRow /\ j \in 1 .. Len(desk.jobs) /\ Len(desk.jobs) \in Nat
      BY <2>1, TableFields
    <3>2. j \in Job
      BY <2>1, <3>1, SectionNames DEF Job
    <3>. QED  BY <3>1, <3>2 DEF JobRow
  <2>3. ASSUME NEW q \in Request, NEW n \in Names
        PROVE  LET e == desk.sections[q][n] IN
               /\ e.status \in Waiting \cup Terminal \cup {"absent"}
               /\ e.job # NoJob => desk.jobs[e.job].section = n
               /\ e.result # NoJob => e.result \in desk.results
    <3>1. SectionOK(desk, q, n) /\ desk.sections[q][n] \in SectionRow
      BY <2>1, TableFields DEF DeskInv, DeskOK, SectionsOK
    <3>. QED  BY <3>1 DEF SectionOK, SectionRow
  <2>. QED  BY <2>1, <2>2, <2>3 DEF Linked, DeskTypeOK
<1>. QED  BY <1>1, DeskAlwaysFits, PTL

\* What a member reads in a section is where its job stands, and a section that
\* waits is subscribed to its job: joins, retries, deferrals, drains and refusals
\* by claim_job keep the rows of request_sections and web_jobs in step.
THEOREM SectionsFollowAlways == DeskSpec => []SectionFollowsJob
<1>1. DeskInv => SectionFollowsJob
  <2>. SUFFICES ASSUME DeskInv, NEW q \in Request, NEW n \in Names, desk.requests[q].state = "live"
                PROVE  LET e == desk.sections[q][n] IN
                       /\ e.status \in Waiting => <<e.job, q>> \in desk.subs
                       /\ e.job # NoJob /\ <<e.job, q>> \in desk.subs =>
                             LET status == desk.jobs[e.job].status
                             IN  /\ e.status = (IF status = "draining" THEN "unavailable" ELSE status)
                                 /\ status = "completed" => e.result = e.job
    BY DEF SectionFollowsJob
  <2>1. SectionOK(desk, q, n)
    BY DEF DeskInv, DeskOK, SectionsOK
  <2>. QED  BY <2>1 DEF SectionOK, Said
<1>. QED  BY <1>1, DeskAlwaysFits, PTL

\* When the last job of a request has ended its owner has a finalized version, by
\* whichever of completion, refusal, failure or expiry it ended, unless a job
\* failed after the features changed (fail_attempt).
THEOREM ReportsEndAlways == DeskSpec => []FinishedReportIsFinal
<1>1. DeskInv => FinishedReportIsFinal
  BY DEF DeskInv, Final, Ended, FinishedReportIsFinal
<1>. QED  BY <1>1, DeskAlwaysFits, PTL

\* No step attaches a result, or writes a version, for an owner whose session or
\* report is gone, and no result is attached under features or a policy that have
\* changed: every transaction reads the rights again.
THEOREM WithdrawnAlways == DeskSpec => WithdrawnGetsNothing
<1>. DEFINE OnlyEntitledGet ==
              \A q \in Request :
                /\ desk'.reports[q] # desk.reports[q] => Owner(desk', q)
                /\ \A n \in Names : LET r == desk'.sections[q][n].result IN
                      r # NoJob /\ r # desk.sections[q][n].result =>
                          Owner(desk', q) /\ Readable(desk', r)
<1>1. DeskInv /\ [DeskNext]_<<rights, desk>> => [OnlyEntitledGet]_desk
  BY DeskSteps DEF Given
<1>. QED  BY <1>1, DeskAlwaysFits, PTL DEF DeskSpec, WithdrawnGetsNothing

=============================================================================
