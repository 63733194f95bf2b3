------------------------------ MODULE FeedLog --------------------------------
(* The publication feed (publication.py): revisions of cards, the log of their *)
(* visibility, the turns of the publisher and the browsers that follow the log *)
(* by cursor (use-feed.ts).                                                    *)
(*                                                                             *)
(* Each action is one BEGIN IMMEDIATE transaction; its steps are functions     *)
(* from the tables to the tables, composed in the order of the code.           *)
EXTENDS Rights, FiniteSets, SequencesExt

CONSTANTS Card,          \* card ids, in their order
          Version,       \* content versions: the lineage is part of a version
          Pub,           \* the revisions the sources bring: card and version
          SourceOf,      \* version -> the source of its lineage
          PolicyOf,      \* version -> the policy version it came under
          Client, FeedFeature, None,
          HeadLimit,     \* heads one turn looks at (100 in the code)
          PageLimit,     \* records of a page (50 in the code)
          Loaded,        \* the revisions the first turns have projected
          MaxEvents      \* bound: source records read, revisions that grow old,
                         \* retractions and changes of rights in one behaviour

Open == 0                \* the end of an open interval

ASSUME FeedAssumption ==
    /\ Card \subseteq Nat \ {0}
    /\ Pub \subseteq Card \X Version
    /\ SourceOf \in [Version -> Source] /\ PolicyOf \in [Version -> Nat]
    /\ FeedFeature \in Feature
    /\ None \notin Pub
    /\ {HeadLimit, PageLimit} \subseteq Nat \ {0}
    /\ Loaded \in Seq(Pub)
    /\ MaxEvents \in Nat

VARIABLES
    feed,      \* the tables of the feed
    clients,   \* client -> its cursor and the cards it shows
    aged,      \* revisions whose observation is older than 90 days
    told,      \* history: cards explicitly retracted
    read       \* source records read so far

feedVars == <<feed, clients, aged, told, read>>

\* masked: the cards a page refused to show under the rights of its moment.
NoCursor == [mode |-> "none", high |-> 0, after |-> 0, key |-> 0, version |-> 0,
             view |-> [c \in Card |-> None], masked |-> {}]

\* The tables of a new store.
NewFeed == [rows |-> {}, retracted |-> {},
            head |-> [c \in Card |-> [pub |-> None, active |-> FALSE, blocked |-> FALSE]],
            spans |-> {}, log |-> {}, high |-> 0, floor |-> 0,
            marked |-> [c \in Card |-> {}], refs |-> {},
            latch |-> FALSE, cursor |-> 0]

Spent == read + Changes + Cardinality(aged) + Cardinality(told)

Greater(x, y) == IF x > y THEN x ELSE y

\* The first of a set of numbers, at most limit of them (ORDER BY ... LIMIT).
FirstOf(keys, limit) == {x \in keys : Cardinality({y \in keys : y <= x}) <= limit}

-----------------------------------------------------------------------------
\* One visibility writer.

\* Mutant of Closed: the interval of the revision before stays open.
ClosedIfHidden(f, c, seq, active) ==
    IF active THEN f.spans
    ELSE {IF s.pub[1] = c /\ s.end = Open THEN [s EXCEPT !.end = seq] ELSE s : s \in f.spans}

Closed(f, c, seq, active) ==
    {IF s.pub[1] = c /\ s.end = Open THEN [s EXCEPT !.end = seq] ELSE s : s \in f.spans}

\* transition: a change that changes nothing is not logged.
Transition(f, p, active) ==
    LET c == p[1]
        seq == f.high + 1
        spans == Closed(f, c, seq, active)
    IN  IF f.head[c].active = active /\ (active => f.head[c].pub = p)
        THEN f
        ELSE [f EXCEPT
                !.high = seq,
                !.log = f.log \cup {[pub |-> p, at |-> seq, up |-> active]},
                !.head[c] = [pub |-> p, active |-> active, blocked |-> f.head[c].blocked],
                !.spans = IF active
                          THEN spans \cup {[pub |-> p, start |-> seq, end |-> Open]}
                          ELSE spans]

-----------------------------------------------------------------------------
\* What must stay hidden, and what may be shown.

\* Mutants of Latched: lost coverage is forgotten.
NotLatched(f) == f

\* The last resort when a mark may not be kept: every card is hidden.
Latched(f) == [f EXCEPT !.latch = TRUE]

\* _retain_marker into publication_retractions.
KeepMark(f, c, sources) ==
    LET all == f.marked[c] \cup sources
    IN  IF f.latch THEN f
        ELSE IF all # {} /\ TraceAllowed(all)
             THEN [f EXCEPT !.marked[c] = all]
             ELSE [Latched(f) EXCEPT !.marked[c] = {}]

\* _retain_marker into publication_evidence_refs.
KeepReference(f, p) ==
    IF f.latch THEN f
    ELSE IF TraceAllowed({SourceOf[p[2]]})
         THEN [f EXCEPT !.refs = f.refs \cup {p}]
         ELSE [Latched(f) EXCEPT !.refs = f.refs \ {p}]

\* Publisher._retracted; no caller in the repository passes a clearance.
Retracted(f, c) ==
    f.marked[c] # {} \/ (\E p \in f.retracted : p[1] = c) \/ f.latch

Granted(p, uses) == Allowed(SourceOf[p[2]], PolicyOf[p[2]], uses)

Permitted(p) == Enabled({FeedFeature}) /\ Granted(p, {"display", "retain"})

\* Publisher._load with feed_guard.
Load(f, p) ==
    /\ p \in f.rows \ (f.retracted \cup aged)
    /\ ~Retracted(f, p[1])
    /\ Permitted(p)

\* The tests of Publisher._save.
CanSave(f, p) == p \notin aged /\ ~Retracted(f, p[1]) /\ Permitted(p)

Save(f, p) ==
    LET t == Transition([f EXCEPT !.rows = f.rows \cup {p}], p, TRUE)
    IN  [t EXCEPT !.head[p[1]].blocked = FALSE]

\* _block_authority: valid is the version the source row still proves, or None.
Block(f, c, valid) ==
    IF f.head[c].pub = None THEN f
    ELSE [Transition(f, f.head[c].pub, FALSE) EXCEPT
            !.head[c].blocked = (f.head[c].pub[2] # valid)]

-----------------------------------------------------------------------------
\* The publisher's turn.

\* One source row: <<c, v>> with trusted lineage, or <<c, None>> without.
Project(f, r) ==
    LET h == f.head[r[1]]
    IN  IF r[2] = None THEN Block(f, r[1], None)
        ELSE IF h.pub = r /\ h.active /\ ~h.blocked THEN f
        ELSE IF CanSave(f, r) THEN Save(f, r)
        ELSE Block(f, r[1], r[2])

\* The heads a turn looks at: the first ones after the cursor, in card order.
Heads(f) == FirstOf({c \in Card : c > f.cursor /\ f.head[c].pub # None}, HeadLimit)

Reconcile(f, c) ==
    LET h == f.head[c]
    IN  Transition(f, h.pub, ~h.blocked /\ Load(f, h.pub))

\* Mutant of NextCursor: every turn begins with the first head.
NoRotation(cursor, heads, last) == 0

\* A turn that ends early goes on where it stopped; a full page may have a next one.
NextCursor(cursor, heads, last) ==
    IF last > 0 /\ ((\E c \in heads : c > last) \/ Cardinality(heads) = HeadLimit) THEN last
    ELSE IF last = 0 /\ heads # {} THEN cursor
    ELSE 0

\* The heads up to the card last, reconciled in their order.
Rotate(f, heads, last) ==
    LET after[c \in 0 .. last] ==
            IF c = 0 THEN f
            ELSE IF c \in heads THEN Reconcile(after[c - 1], c) ELSE after[c - 1]
    IN  [after[last] EXCEPT !.cursor = NextCursor(f.cursor, heads, last)]

\* A turn that has made f of the tables reconciles heads until its deadline; a
\* late one may get to none.
Turn(f, late) ==
    /\ UNCHANGED <<rights, clients, aged, told>>
    /\ LET heads == Heads(f) IN \E last \in heads \cup {0} :
         /\ late \/ last > 0 \/ heads = {}
         /\ feed' = Rotate(f, heads, last)

\* sync_publications, with at most one source row.
SyncTurn ==
    \/ Turn(feed, TRUE) /\ UNCHANGED read
    \/ /\ Spent < MaxEvents
       /\ \E r \in Pub \cup (Card \X {None}) : Turn(Project(feed, r), TRUE)
       /\ read' = read + 1

-----------------------------------------------------------------------------
\* Deletions. Every cursor before what they remove must end.

\* Mutant of Floor: old cursors go on.
FloorStays(f, seqs) == f

\* advance_log_floor
Floor(f, seqs) ==
    IF seqs = {} THEN f ELSE [f EXCEPT !.floor = Greater(f.floor, Max(seqs))]

\* purge_publication, and the deletion of the row with what refers to it.
Purge(f, p) ==
    LET k == KeepReference(f, p)
        t == IF k.head[p[1]].pub = p /\ k.head[p[1]].active
             THEN Transition(k, p, FALSE) ELSE k
        mine == {s \in t.spans : s.pub = p}
    IN  [Floor(t, {IF s.end = Open THEN s.start ELSE s.end : s \in mine}) EXCEPT
            !.rows = t.rows \ {p},
            !.retracted = t.retracted \ {p},
            !.spans = t.spans \ mine,
            !.head[p[1]].pub = IF t.head[p[1]].pub = p THEN None ELSE t.head[p[1]].pub]

\* _cleanup, a transaction of its own after a turn: what is older than seven days
\* at sequence k, of the log and of the closed intervals, and one aged revision.
Cleanup(k, old) ==
    LET changes == {e \in feed.log : e.at <= k}
        closed == {s \in feed.spans : s.end # Open /\ s.end <= k}
        f == [Floor(Floor(feed, {e.at : e \in changes}), {s.end : s \in closed}) EXCEPT
                !.log = feed.log \ changes, !.spans = feed.spans \ closed]
    IN  /\ old # None \/ f # feed
        /\ feed' = IF old = None THEN f ELSE Purge(f, old)
        /\ UNCHANGED <<rights, clients, aged, told, read>>

CleanupAny == \E k \in {0} \cup {e.at : e \in feed.log} \cup {s.end : s \in feed.spans} :
                 \E old \in (feed.rows \cap aged) \cup {None} : Cleanup(k, old)

\* What SourcePolicy.purge looks for in each table, and how it deletes one row.
Unretained(p) == ~Granted(p, {"retain"})

PurgeChange(f) ==
    {f} \cup {[Floor(f, {e.at}) EXCEPT !.log = f.log \ {e}] :
                 e \in {x \in f.log : x.up /\ Unretained(x.pub)}}

PurgeRow(f) == {f} \cup {Purge(f, p) : p \in {q \in f.rows : Unretained(q)}}

PurgeMark(f) ==
    {f} \cup {[Latched(f) EXCEPT !.marked[c] = {}] :
                 c \in {d \in Card : ~TraceAllowed(f.marked[d])}}

PurgeReference(f) ==
    {f} \cup {[Latched(f) EXCEPT !.refs = f.refs \ {p}] :
                 p \in {q \in f.refs : ~TraceAllowed({SourceOf[q[2]]})}}

\* SourcePolicy.purge with a limit of one row of each table.
PolicyPurge ==
    /\ \E f \in PurgeChange(feed) : \E g \in PurgeRow(f) : \E h \in PurgeMark(g) :
          \E i \in PurgeReference(h) \ {feed} : feed' = i
    /\ UNCHANGED <<rights, clients, aged, told, read>>

-----------------------------------------------------------------------------
\* Withdrawals.

\* Publisher.retract. With a journal the reconcile that ends the transaction
\* latches the feed and withholds every source.
Retract(c) ==
    LET rows == {p \in feed.rows : p[1] = c}
        refs == {p \in feed.refs : p[1] = c}
        m == KeepMark(feed, c, {SourceOf[p[2]] : p \in rows \cup refs})
        r == [m EXCEPT !.retracted = m.retracted \cup rows]
        t == IF r.head[c].pub = None THEN r ELSE Transition(r, r.head[c].pub, FALSE)
    IN  /\ Spent < MaxEvents /\ c \notin told
        /\ feed' = IF authority.journal THEN Latched(t) ELSE t
        /\ authority' = [authority EXCEPT !.withheld =
                            authority.withheld \/ authority.journal]
        /\ told' = told \cup {c}
        /\ UNCHANGED <<features, grants, clients, aged, read>>

\* A change of rights, with what its journal entry does to the feed.
FeedRights ==
    /\ Spent < MaxEvents
    /\ \/ Switch(FeedFeature) /\ UNCHANGED feed
       \/ \E s \in Source, uses \in Grant :
             /\ Record(s, uses)
             /\ feed' = IF authority.journal /\ Denial(uses) THEN Latched(feed) ELSE feed
    /\ UNCHANGED <<clients, aged, told, read>>

\* Ninety days pass.
Age(p) ==
    /\ Spent < MaxEvents
    /\ p \in feed.rows \ aged
    /\ aged' = aged \cup {p}
    /\ UNCHANGED <<rights, feed, clients, told, read>>

-----------------------------------------------------------------------------
\* A browser.

Position(k) == IF k.mode = "snapshot" THEN k.high ELSE k.after

Covers(s, at) == s.start <= at /\ (s.end = Open \/ s.end > at)

\* read_feed accepts the cursor: it is of this version and still covered.
Accepted(k) ==
    /\ k.version = features[FeedFeature].version
    /\ feed.floor <= Position(k) /\ Position(k) <= feed.high

\* _record: the revision p of card c, or a deletion.
Shown(c, p) ==
    IF p = None \/ feed.head[c].blocked \/ ~Load(feed, p) THEN None ELSE p

\* The browser's handling of a page: of each card its last record, a revision, or
\* None if the row is a deletion or its interval is gone.
Receive(k, record) ==
    LET got == DOMAIN record
        lacks == {c \in got : record[c] # None /\ Shown(c, record[c]) = None}
    IN  [k EXCEPT !.view = [c \in Card |-> IF c \in got THEN Shown(c, record[c]) ELSE k.view[c]],
                  !.masked = (k.masked \ got) \cup lacks]

\* A page of the snapshot at high: the intervals that cover it, by card.
SnapshotPage(k) ==
    LET found == {s \in feed.spans : s.pub[1] > k.key /\ Covers(s, k.high)}
        cards == {s.pub[1] : s \in found}
        page == FirstOf(cards, PageLimit)
        got == Receive(k, [c \in page |-> (CHOOSE s \in found : s.pub[1] = c).pub])
    IN  IF page # cards
        THEN [got EXCEPT !.key = Max(page)]
        ELSE [got EXCEPT !.mode = "delta", !.after = k.high, !.key = 0, !.high = 0]

\* The revision a row of the log stands for, by the interval that starts at it.
RevisionAt(e) ==
    IF e.up /\ \E s \in feed.spans : s.start = e.at
    THEN (CHOOSE s \in feed.spans : s.start = e.at).pub ELSE None

\* A page of the changes after the cursor, in the order of the log.
DeltaPage(k) ==
    LET seqs == {e.at : e \in {x \in feed.log : x.at > k.after}}
        page == FirstOf(seqs, PageLimit)
        changes == {e \in feed.log : e.at \in page}
        newest(c) == CHOOSE e \in changes :
                        e.pub[1] = c /\ \A d \in changes : d.pub[1] = c => d.at <= e.at
        got == Receive(k, [c \in {e.pub[1] : e \in changes} |-> RevisionAt(newest(c))])
    IN  [got EXCEPT !.after = IF page # seqs THEN Max(page) ELSE feed.high]

\* read_feed, and the browser's handling of the page it gets.
ReadFeed(b) ==
    /\ features[FeedFeature].on
    /\ LET k == IF clients[b].mode = "none"
                THEN [NoCursor EXCEPT !.mode = "snapshot", !.high = feed.high,
                                      !.version = features[FeedFeature].version]
                ELSE clients[b]
       IN  /\ Accepted(k)
           /\ clients' = [clients EXCEPT ![b] =
                             IF k.mode = "snapshot" THEN SnapshotPage(k) ELSE DeltaPage(k)]
    /\ UNCHANGED <<rights, feed, aged, told, read>>

\* Any error, also a cursor that is refused or a page that is lost: start again.
Forget(b) ==
    /\ clients[b].mode # "none"
    /\ clients' = [clients EXCEPT ![b] = NoCursor]
    /\ UNCHANGED <<rights, feed, aged, told, read>>

-----------------------------------------------------------------------------

\* A store into which the first turns have projected some revisions.
FeedInit ==
    /\ aged = {} /\ told = {} /\ read = 0
    /\ feed = LET after[i \in 0 .. Len(Loaded)] ==
                     IF i = 0 THEN NewFeed ELSE Project(after[i - 1], Loaded[i])
              IN  after[Len(Loaded)]
    /\ clients = [b \in Client |-> NoCursor]

TablesNext ==
    \/ SyncTurn
    \/ CleanupAny
    \/ PolicyPurge
    \/ \E c \in Card : Retract(c)
    \/ FeedRights
    \/ \E p \in Pub : Age(p)

BrowserNext == \E b \in Client : ReadFeed(b) \/ Forget(b)

FeedSpec == RightsInit /\ FeedInit /\ [][TablesNext \/ BrowserNext]_<<rights, feedVars>>

-----------------------------------------------------------------------------
\* Properties.

\* Types; a card has at most one open interval, exactly while its head is active.
FeedTypeOK ==
    /\ RightsTypeOK
    /\ feed.rows \cup feed.retracted \cup feed.refs \cup aged \subseteq Pub
    /\ feed.head \in [Card -> [pub: Pub \cup {None}, active: BOOLEAN, blocked: BOOLEAN]]
    /\ feed.floor <= feed.high /\ told \subseteq Card
    /\ \A c \in Card : {s.pub : s \in {x \in feed.spans : x.pub[1] = c /\ x.end = Open}}
                         = IF feed.head[c].active THEN {feed.head[c].pub} ELSE {}

\* What a browser with an accepted cursor shows is what was visible at the
\* cursor, through any pages, deletions, purges and retractions in between; a
\* card it lacks was refused to it when its page was read.
FeedIsExact ==
    \A b \in Client : LET k == clients[b] IN
        k.mode # "none" /\ Accepted(k) =>
            \A c \in Card : k.mode = "delta" \/ c <= k.key =>
                LET visible == {s.pub : s \in {x \in feed.spans :
                                                x.pub[1] = c /\ Covers(x, Position(k))}}
                IN  IF k.view[c] # None THEN k.view[c] \in visible
                    ELSE visible = {} \/ c \in k.masked

\* An explicitly retracted card never returns: not by a later revision, not after
\* its rows were purged, not when its marks may no longer be kept.
RetractedStaysHidden ==
    \A c \in told : Retracted(feed, c) /\ ~feed.head[c].active

\* The log still shows what may no longer be shown.
ShownDenied(c) == feed.head[c].active /\ ~Load(feed, feed.head[c].pub)

\* A turn without a new source row that gets to one head if there is one: the
\* publisher's loop runs on, and its second suffices for that (weak fairness).
FullTurn == UNCHANGED read /\ Turn(feed, FALSE)

=============================================================================
