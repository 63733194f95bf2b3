----------------------------- MODULE FeedProofs ------------------------------
(* The publication feed of FeedLog, for every set of cards, sources, browsers  *)
(* and limits: what a browser shows is what was visible at its cursor, and a   *)
(* retracted card stays hidden. Both rest on one fact about every function     *)
(* from tables to tables: what was visible at a position that a cursor may     *)
(* still have is never changed (Grows). The last part is the progress of a     *)
(* turn: it passes no card that may not be shown.                              *)
EXTENDS FeedLog, FiniteSetTheorems, WellFoundedInduction, TLAPS

HeadRow == [pub: Pub \cup {None}, active: BOOLEAN, blocked: BOOLEAN]
Span == [pub: Pub, start: Nat, end: Nat]
Change == [pub: Pub, at: Nat, up: BOOLEAN]
Tables == [rows: SUBSET Pub, retracted: SUBSET Pub, head: [Card -> HeadRow],
           spans: SUBSET Span, log: SUBSET Change, high: Nat, floor: Nat,
           marked: [Card -> SUBSET Source], refs: SUBSET Pub, latch: BOOLEAN, cursor: Nat]

\* The revisions of a card at a position of the log.
SpansAt(f, c, n) == {s \in f.spans : s.pub[1] = c /\ Covers(s, n)}
Visible(f, c, n) == {s.pub : s \in SpansAt(f, c, n)}

\* Intervals lie within the log, no two begin at one position, and those of one
\* card do not overlap; an open one is the revision of an active head.
SpansOK(f) ==
    /\ \A s \in f.spans : /\ s.start \in 1 .. f.high
                          /\ s.end # Open => s.start < s.end /\ s.end <= f.high
                          /\ s.end = Open => f.head[s.pub[1]].active /\ f.head[s.pub[1]].pub = s.pub
    /\ \A s, t \in f.spans : s.start = t.start => s = t
    /\ \A s, t \in f.spans : s.pub[1] = t.pub[1] /\ s.start < t.start =>
                                s.end # Open /\ s.end <= t.start

HeadsOK(f) ==
    \A c \in Card : /\ f.head[c].pub # None => f.head[c].pub[1] = c
                    /\ f.head[c].active => \E s \in f.spans : s.pub = f.head[c].pub /\ s.end = Open

\* What a row of the log says: its card is as it says, no other card changed at it,
\* and the interval of a revision begins at it.
Tells(f, e) ==
    /\ Visible(f, e.pub[1], e.at) = IF e.up THEN {e.pub} ELSE {}
    /\ \A c \in Card \ {e.pub[1]} : Visible(f, c, e.at) = Visible(f, c, e.at - 1)
    /\ e.up => \E s \in f.spans : s.start = e.at /\ s.pub = e.pub

\* Above the floor no position is missing, and every row still says what happened.
LogOK(f) ==
    /\ f.floor <= f.high
    /\ \A e \in f.log : e.at \in 1 .. f.high
    /\ \A n \in f.floor + 1 .. f.high : \E e \in f.log : e.at = n
    /\ \A e \in f.log : e.at > f.floor => Tells(f, e)

TablesOK(f) == f \in Tables /\ SpansOK(f) /\ HeadsOK(f) /\ LogOK(f)

\* What keeps a card hidden when its rows are gone.
Kept(f, c) == f.marked[c] # {} \/ f.latch

\* A browser's cursor, and what it shows.
Cursor == [mode: {"none", "snapshot", "delta"}, high: Nat, after: Nat, key: Nat, version: Nat,
           view: [Card -> Pub \cup {None}], masked: SUBSET Card]

ExactAt(f, k, c) ==
    LET visible == Visible(f, c, Position(k))
    IN  IF k.view[c] # None THEN k.view[c] \in visible ELSE visible = {} \/ c \in k.masked

ClientOK(k) ==
    k.mode # "none" =>
        /\ Position(k) <= feed.high /\ k.version <= features[FeedFeature].version
        /\ k.mode = "snapshot" => \A c \in Card : c > k.key => k.view[c] = None
        /\ Accepted(k) => \A c \in Card : k.mode = "delta" \/ c <= k.key => ExactAt(feed, k, c)

FeedInv ==
    /\ RightsTypeOK /\ TablesOK(feed)
    /\ aged \subseteq Pub /\ told \subseteq Card
    /\ \A c \in told : Kept(feed, c) /\ ~feed.head[c].active
    /\ clients \in [Client -> Cursor] /\ \A b \in Client : ClientOK(clients[b])

-----------------------------------------------------------------------------
\* Numbers: counting up, the largest of a set, the first of a page.

LEMMA LeastNumber ==
    ASSUME NEW T \in SUBSET Nat, T # {} PROVE \E x \in T : \A y \in T : x <= y
<1>1. IsWellFoundedOn(OpToRel(<, Nat), Nat)
  BY NatLessThanWellFounded
<1>2. PICK x \in T : \A y \in T : ~(<<y, x>> \in OpToRel(<, Nat))
  BY <1>1, WFMin
<1>3. \A y \in T : ~(y < x)
  BY <1>2 DEF OpToRel
<1>. QED  BY <1>3

LEMMA CountUp ==
    ASSUME NEW a \in Nat, NEW b \in Nat, NEW S, a \in S, \A n \in a .. b : n \in S /\ n < b => n + 1 \in S
    PROVE  \A n \in a .. b : n \in S
<1>. DEFINE T == {n \in a .. b : n \notin S}
<1>1. SUFFICES ASSUME T # {} PROVE FALSE
  OBVIOUS
<1>2. T \in SUBSET Nat
  OBVIOUS
<1>3. PICK x \in T : \A y \in T : x <= y
  BY <1>1, <1>2, LeastNumber
<1>4. x # a /\ x - 1 \in a .. b /\ x - 1 \notin T
  BY <1>3
<1>. QED  BY <1>3, <1>4

LEMMA LargestNumber ==
    ASSUME NEW S \in SUBSET Nat, S # {}, NEW n \in Nat, \A x \in S : x <= n
    PROVE  Max(S) \in S /\ Max(S) \in Nat /\ \A x \in S : x <= Max(S)
<1>. DEFINE T == {m \in 0 .. n : \A x \in S : x <= m}
<1>1. T \in SUBSET Nat /\ n \in T
  OBVIOUS
<1>2. PICK m \in T : \A l \in T : m <= l
  BY <1>1, LeastNumber
<1>3. m \in S
  <2>1. SUFFICES ASSUME m \notin S PROVE FALSE
    OBVIOUS
  <2>2. PICK y \in S : TRUE
    OBVIOUS
  <2>3. m # 0 /\ \A x \in S : x <= m - 1
    BY <1>2, <2>1, <2>2
  <2>4. m - 1 \in T
    BY <1>2, <2>3
  <2>. QED  BY <1>2, <2>4
<1>4. \E x \in S : \A y \in S : x >= y
  BY <1>2, <1>3
<1>5. Max(S) \in S /\ \A y \in S : Max(S) >= y
  BY <1>4 DEF Max
<1>. QED  BY <1>5

\* A page is the beginning of what there is, and the whole of it up to its last.
LEMMA PageIsFirst ==
    ASSUME NEW K \in SUBSET Nat, NEW L \in Nat \ {0}
    PROVE  LET P == FirstOf(K, L) IN
           /\ P \subseteq K
           /\ \A x \in P, y \in K : y <= x => y \in P
           /\ P # K => Max(P) \in P /\ Max(P) \in Nat /\ \A x \in P : x <= Max(P)
<1>. DEFINE P == FirstOf(K, L)
            upto(x) == {y \in K : y <= x}
<1>1. P \subseteq K /\ \A x \in K : x \in P <=> Cardinality(upto(x)) <= L
  BY DEF FirstOf
<1>2. \A x \in K : x \in Nat
  OBVIOUS
<1>3. \A x : upto(x) = {z \in K : z <= x}
  OBVIOUS
<1>. HIDE DEF P, upto
<1>4. ASSUME NEW x \in P, NEW y \in K, y <= x PROVE y \in P
  <2>1. x \in K /\ x \in Nat /\ y \in Nat
    BY <1>1, <1>2
  <2>2. upto(x) \in SUBSET Nat /\ \A z \in upto(x) : z <= x
    BY <1>2, <1>3
  <2>3. IsFiniteSet(upto(x))
    BY <2>1, <2>2, FS_BoundedSetOfNaturals
  <2>4. upto(y) \subseteq upto(x)
    <3>1. \A z \in K : z \in Nat /\ (z <= y => z <= x)
      BY <1>2, <1>4, <2>1
    <3>. QED  BY <1>3, <3>1
  <2>5. IsFiniteSet(upto(y)) /\ Cardinality(upto(y)) <= Cardinality(upto(x))
    BY <2>3, <2>4, FS_Subset
  <2>6. Cardinality(upto(x)) \in Nat /\ Cardinality(upto(y)) \in Nat
    BY <2>3, <2>5, FS_CardinalityType
  <2>7. Cardinality(upto(x)) <= L
    BY <1>1, <2>1
  <2>. QED  BY <1>1, <2>5, <2>6, <2>7
<1>5. ASSUME P # K PROVE Max(P) \in P /\ Max(P) \in Nat /\ \A x \in P : x <= Max(P)
  <2>1. PICK n \in K : n \notin P
    BY <1>1, <1>5
  <2>2. \A x \in P : x \in Nat /\ x <= n
    <3>1. SUFFICES ASSUME NEW x \in P, ~(x <= n) PROVE FALSE
      BY <1>1, <1>2
    <3>2. x \in Nat /\ n \in Nat
      BY <1>1, <1>2
    <3>3. n <= x
      BY <3>1, <3>2
    <3>. QED  BY <1>4, <2>1, <3>3
  <2>3. P # {}
    <3>1. PICK m \in K : \A y \in K : m <= y
      BY <2>1, LeastNumber
    <3>2. \A z \in K : z <= m <=> z = m
      BY <1>2, <3>1
    <3>3. upto(m) = {m}
      BY <1>3, <3>1, <3>2
    <3>4. Cardinality(upto(m)) = 1
      BY <3>3, FS_Singleton
    <3>. QED  BY <1>1, <3>1, <3>4
  <2>4. P \in SUBSET Nat /\ n \in Nat
    BY <1>2, <2>1, <2>2
  <2>. QED  BY <2>2, <2>3, <2>4, LargestNumber
<1>. QED  BY <1>1, <1>4, <1>5 DEF P

-----------------------------------------------------------------------------
\* What a change of the tables may do.

Grows(f, g) ==
    /\ f.high <= g.high /\ f.floor <= g.floor
    /\ \A c \in Card : Kept(f, c) => Kept(g, c) /\ (~f.head[c].active => ~g.head[c].active)
    /\ \A c \in Card, n \in Nat : g.floor <= n /\ n <= f.high => Visible(g, c, n) = Visible(f, c, n)

Step(f, g) == TablesOK(g) /\ Grows(f, g)

LEMMA TablesFields ==
    ASSUME NEW f \in Tables
    PROVE  /\ f.rows \subseteq Pub /\ f.retracted \subseteq Pub /\ f.refs \subseteq Pub
           /\ f.head \in [Card -> HeadRow] /\ f.marked \in [Card -> SUBSET Source]
           /\ f.spans \subseteq Span /\ f.log \subseteq Change
           /\ f.high \in Nat /\ f.floor \in Nat /\ f.cursor \in Nat /\ f.latch \in BOOLEAN
<1>. QED  BY DEF Tables

LEMMA PubFields ==
    ASSUME NEW p \in Pub PROVE p[1] \in Card /\ p[2] \in Version /\ SourceOf[p[2]] \in Source /\ p # None
<1>. QED  BY FeedAssumption

LEMMA CardIsNat == \A c \in Card : c \in Nat /\ c # 0
<1>. QED  BY FeedAssumption

LEMMA StepSame == ASSUME NEW f, TablesOK(f) PROVE Step(f, f)
<1>1. f.high \in Nat /\ f.floor \in Nat
  BY TablesFields DEF TablesOK
<1>. QED  BY <1>1 DEF Step, Grows

LEMMA StepChain ==
    ASSUME NEW f, NEW g, NEW h, TablesOK(f), Step(f, g), Step(g, h) PROVE Step(f, h)
<1>1. f.high \in Nat /\ g.high \in Nat /\ h.high \in Nat /\ f.floor \in Nat /\ g.floor \in Nat /\ h.floor \in Nat
  BY TablesFields DEF TablesOK, Step
<1>2. f.high <= g.high /\ g.high <= h.high /\ f.floor <= g.floor /\ g.floor <= h.floor
  BY DEF Step, Grows
<1>3. \A c \in Card : Kept(f, c) => Kept(h, c) /\ (~f.head[c].active => ~h.head[c].active)
  BY DEF Step, Grows
<1>4. ASSUME NEW c \in Card, NEW n \in Nat, h.floor <= n, n <= f.high
      PROVE  Visible(h, c, n) = Visible(f, c, n)
  <2>1. n <= g.high /\ g.floor <= n
    BY <1>1, <1>2, <1>4
  <2>2. Visible(h, c, n) = Visible(g, c, n)
    BY <1>4, <2>1 DEF Step, Grows
  <2>3. Visible(g, c, n) = Visible(f, c, n)
    BY <1>4, <2>1 DEF Step, Grows
  <2>. QED  BY <2>2, <2>3
<1>5. f.high <= h.high /\ f.floor <= h.floor
  BY <1>1, <1>2
<1>. QED  BY <1>3, <1>4, <1>5 DEF Step, Grows

-----------------------------------------------------------------------------
\* A transition.

Ended(s, c, n) == IF s.pub[1] = c /\ s.end = Open THEN [s EXCEPT !.end = n] ELSE s

\* The intervals, the log and the heads after a transition.
SpansAfter(f, p, n, active) ==
    {Ended(s, p[1], n) : s \in f.spans}
        \cup (IF active THEN {[pub |-> p, start |-> n, end |-> Open]} ELSE {})

LogAfter(f, p, n, active) == f.log \cup {[pub |-> p, at |-> n, up |-> active]}

HeadAfter(f, p, active) ==
    [f.head EXCEPT ![p[1]] = [pub |-> p, active |-> active, blocked |-> f.head[p[1]].blocked]]

LEMMA EndedFields ==
    ASSUME NEW s \in Span, NEW c, NEW n \in Nat
    PROVE  LET t == Ended(s, c, n) IN
           /\ t \in Span /\ t.pub = s.pub /\ t.start = s.start
           /\ s.pub[1] = c /\ s.end = Open => t.end = n
           /\ s.pub[1] # c \/ s.end # Open => t.end = s.end
<1>. QED  BY DEF Ended, Span

LEMMA ClosedIsEnded ==
    ASSUME NEW f, NEW c, NEW n, NEW active
    PROVE  Closed(f, c, n, active) = {Ended(s, c, n) : s \in f.spans}
<1>. QED  BY DEF Closed, Ended

LEMMA TransitionFields ==
    ASSUME NEW f \in Tables, NEW p \in Pub, NEW active \in BOOLEAN,
           ~(f.head[p[1]].active = active /\ (active => f.head[p[1]].pub = p))
    PROVE  LET g == Transition(f, p, active)
               n == f.high + 1 IN
           /\ g \in Tables
           /\ g.rows = f.rows /\ g.retracted = f.retracted /\ g.refs = f.refs
           /\ g.marked = f.marked /\ g.latch = f.latch /\ g.cursor = f.cursor
           /\ g.floor = f.floor /\ g.high = n
           /\ g.log = LogAfter(f, p, n, active) /\ g.head = HeadAfter(f, p, active)
           /\ g.spans = SpansAfter(f, p, n, active)
<1>. DEFINE n == f.high + 1
            E == {Ended(s, p[1], n) : s \in f.spans}
<1>1. p[1] \in Card /\ n \in Nat
  BY PubFields, TablesFields
<1>2. PICK head : head = [f.head EXCEPT ![p[1]] =
                             [pub |-> p, active |-> active, blocked |-> f.head[p[1]].blocked]]
  OBVIOUS
<1>3. PICK log : log = f.log \cup {[pub |-> p, at |-> n, up |-> active]}
  OBVIOUS
<1>4. PICK spans : spans = E \cup (IF active THEN {[pub |-> p, start |-> n, end |-> Open]} ELSE {})
  OBVIOUS
<1>5. Closed(f, p[1], n, active) = E
  BY ClosedIsEnded
<1>6. spans = IF active THEN E \cup {[pub |-> p, start |-> n, end |-> Open]} ELSE E
  BY <1>4
<1>7. Transition(f, p, active) =
        [f EXCEPT !.high = n, !.log = log, !.head = head, !.spans = spans]
  <2>. HIDE DEF E, n
  <2>1. n = f.high + 1
    BY DEF n
  <2>. QED  BY <1>2, <1>3, <1>5, <1>6, <2>1 DEF Transition
<1>8. head \in [Card -> HeadRow]
  BY <1>1, <1>2, TablesFields DEF HeadRow
<1>9. log \subseteq Change
  BY <1>1, <1>3, TablesFields DEF Change
<1>10. spans \subseteq Span
  <2>1. \A s \in f.spans : Ended(s, p[1], n) \in Span
    BY <1>1, TablesFields, EndedFields
  <2>2. [pub |-> p, start |-> n, end |-> Open] \in Span
    BY <1>1 DEF Span, Open
  <2>. QED  BY <1>4, <2>1, <2>2
<1>. HIDE DEF E, n
<1>11. PICK g : g = [f EXCEPT !.high = n, !.log = log, !.head = head, !.spans = spans]
  OBVIOUS
<1>12. /\ g.rows = f.rows /\ g.retracted = f.retracted /\ g.refs = f.refs
       /\ g.marked = f.marked /\ g.latch = f.latch /\ g.cursor = f.cursor
       /\ g.floor = f.floor /\ g.high = n
       /\ g.log = log /\ g.head = head /\ g.spans = spans
  BY <1>11 DEF Tables
<1>13. g \in Tables
  BY <1>1, <1>8, <1>9, <1>10, <1>11 DEF Tables
<1>14. log = LogAfter(f, p, n, active) /\ head = HeadAfter(f, p, active)
  BY <1>2, <1>3 DEF LogAfter, HeadAfter
<1>15. spans = SpansAfter(f, p, n, active)
  BY <1>4 DEF E, SpansAfter
<1>. QED  BY <1>7, <1>11, <1>12, <1>13, <1>14, <1>15 DEF n

\* What intervals say of a position.
LEMMA VisibleIs ==
    ASSUME NEW f, NEW c, NEW n
    PROVE  \A p : p \in Visible(f, c, n) <=>
                    \E s \in f.spans : s.pub = p /\ s.pub[1] = c /\ Covers(s, n)
<1>. QED  BY DEF Visible, SpansAt

LEMMA TransitionSpansOK ==
    ASSUME NEW f, TablesOK(f), NEW p \in Pub, NEW active \in BOOLEAN,
           ~(f.head[p[1]].active = active /\ (active => f.head[p[1]].pub = p))
    PROVE  LET g == Transition(f, p, active) IN SpansOK(g) /\ HeadsOK(g)
<1>. DEFINE n == f.high + 1
            c == p[1]
<1>1. PICK g : g = Transition(f, p, active)
  OBVIOUS
<1>2. f \in Tables /\ SpansOK(f) /\ HeadsOK(f)
  BY DEF TablesOK
<1>3. /\ g.high = n
      /\ g.head = [f.head EXCEPT ![c] = [pub |-> p, active |-> active, blocked |-> f.head[c].blocked]]
      /\ g.spans = {Ended(s, c, n) : s \in f.spans}
                     \cup (IF active THEN {[pub |-> p, start |-> n, end |-> Open]} ELSE {})
  <2>1. g.high = n /\ g.spans = SpansAfter(f, p, n, active) /\ g.head = HeadAfter(f, p, active)
    BY <1>1, <1>2, TransitionFields
  <2>. QED  BY <2>1 DEF SpansAfter, HeadAfter
<1>4. c \in Card /\ n \in Nat /\ f.high \in Nat /\ f.spans \subseteq Span /\ n = f.high + 1
  BY <1>2, PubFields, TablesFields
<1>5. /\ g.head[c].pub = p /\ g.head[c].active = active
      /\ \A d \in Card \ {c} : g.head[d] = f.head[d]
  BY <1>2, <1>3, <1>4, TablesFields
<1>. HIDE DEF n, c
<1>6. \A s \in f.spans : s.start \in Nat /\ s.end \in Nat /\ s.pub \in Pub /\ s.pub[1] \in Card
  BY <1>4, PubFields DEF Span
<1>7. ASSUME NEW t \in g.spans
      PROVE  \/ /\ active /\ t.pub = p /\ t.start = n /\ t.end = Open
             \/ \E s \in f.spans : /\ t = Ended(s, c, n) /\ t.pub = s.pub /\ t.start = s.start
                                   /\ s.pub[1] = c /\ s.end = Open => t.end = n
                                   /\ s.pub[1] # c \/ s.end # Open => t.end = s.end
  <2>1. CASE \E s \in f.spans : t = Ended(s, c, n)
    BY <1>4, <2>1, EndedFields
  <2>2. CASE active /\ t = [pub |-> p, start |-> n, end |-> Open]
    BY <2>2
  <2>. QED  BY <1>3, <2>1, <2>2
<1>8. ASSUME NEW t \in g.spans
      PROVE  /\ t.start \in 1 .. n
             /\ t.end # Open => t.start < t.end /\ t.end <= n
             /\ t.end = Open => g.head[t.pub[1]].active /\ g.head[t.pub[1]].pub = t.pub
  <2>1. CASE active /\ t.pub = p /\ t.start = n /\ t.end = Open
    <3>1. t.pub[1] = c
      BY <2>1 DEF c
    <3>2. g.head[t.pub[1]].active /\ g.head[t.pub[1]].pub = t.pub
      BY <1>5, <2>1, <3>1
    <3>3. t.start \in 1 .. n
      BY <1>4, <2>1
    <3>. QED  BY <2>1, <3>2, <3>3
  <2>2. ASSUME NEW s \in f.spans, t.pub = s.pub, t.start = s.start,
               s.pub[1] = c /\ s.end = Open => t.end = n,
               s.pub[1] # c \/ s.end # Open => t.end = s.end
        PROVE  /\ t.start \in 1 .. n
               /\ t.end # Open => t.start < t.end /\ t.end <= n
               /\ t.end = Open => g.head[t.pub[1]].active /\ g.head[t.pub[1]].pub = t.pub
    <3>1. /\ s.start \in 1 .. f.high
          /\ s.end # Open => s.start < s.end /\ s.end <= f.high
          /\ s.end = Open => f.head[s.pub[1]].active /\ f.head[s.pub[1]].pub = s.pub
      BY <1>2 DEF SpansOK
    <3>2. t.start \in 1 .. n /\ t.start < n
      BY <1>4, <2>2, <3>1
    <3>3. n # Open
      BY <1>4 DEF Open
    <3>4. t.end # Open => t.start < t.end /\ t.end <= n
      BY <1>4, <1>6, <2>2, <3>1, <3>2
    <3>5. t.end = Open => s.pub[1] # c /\ s.end = Open
      BY <2>2, <3>3
    <3>. QED  BY <1>5, <1>6, <2>2, <3>1, <3>2, <3>4, <3>5
  <2>. QED  BY <1>7, <2>1, <2>2
<1>9. ASSUME NEW t \in g.spans, NEW u \in g.spans, t.start = u.start PROVE t = u
  <2>1. \A s \in f.spans : s.start # n
    BY <1>2, <1>4 DEF SpansOK
  <2>2. CASE \E s \in f.spans : t = Ended(s, c, n)
    <3>1. PICK s \in f.spans : t = Ended(s, c, n) /\ t.start = s.start
      BY <1>4, <2>2, EndedFields
    <3>2. PICK v \in f.spans : u = Ended(v, c, n) /\ u.start = v.start
      BY <1>7, <1>9, <2>1, <3>1
    <3>3. s = v
      BY <1>2, <1>9, <3>1, <3>2 DEF SpansOK
    <3>. QED  BY <3>1, <3>2, <3>3
  <2>3. CASE active /\ t = [pub |-> p, start |-> n, end |-> Open]
    <3>1. t.start = n
      BY <2>3
    <3>2. ~\E s \in f.spans : u = Ended(s, c, n)
      <4>1. SUFFICES ASSUME NEW s \in f.spans, u = Ended(s, c, n) PROVE FALSE
        OBVIOUS
      <4>2. u.start = s.start
        BY <1>4, <4>1, EndedFields
      <4>. QED  BY <1>9, <2>1, <3>1, <4>2
    <3>. QED  BY <1>3, <2>3, <3>2
  <2>. QED  BY <1>3, <2>2, <2>3
<1>10. ASSUME NEW t \in g.spans, NEW u \in g.spans, t.pub[1] = u.pub[1], t.start < u.start
       PROVE  t.end # Open /\ t.end <= u.start
  <2>1. PICK s \in f.spans : /\ t.pub = s.pub /\ t.start = s.start
                             /\ s.pub[1] = c /\ s.end = Open => t.end = n
                             /\ s.pub[1] # c \/ s.end # Open => t.end = s.end
    BY <1>4, <1>7, <1>8, <1>10
  <2>2. s.end # Open => s.end <= f.high
    BY <1>2 DEF SpansOK
  <2>3. CASE active /\ u.pub = p /\ u.start = n
    <3>1. s.pub[1] = c
      BY <1>10, <2>1, <2>3 DEF c
    <3>2. s.end # Open => t.end = s.end /\ t.end <= n
      BY <1>4, <1>6, <2>1, <2>2
    <3>3. s.end = Open => t.end = n /\ n # Open
      BY <1>4, <2>1, <3>1 DEF Open
    <3>. QED  BY <1>4, <2>3, <3>2, <3>3
  <2>4. CASE \E v \in f.spans : u.pub = v.pub /\ u.start = v.start
    <3>1. PICK v \in f.spans : u.pub = v.pub /\ u.start = v.start
      BY <2>4
    <3>2. s.end # Open /\ s.end <= v.start
      BY <1>2, <1>10, <2>1, <3>1 DEF SpansOK
    <3>. QED  BY <2>1, <3>1, <3>2
  <2>. QED  BY <1>7, <2>3, <2>4
<1>11. SpansOK(g)
  BY <1>3, <1>8, <1>9, <1>10 DEF SpansOK
<1>12. ASSUME NEW d \in Card
       PROVE  /\ g.head[d].pub # None => g.head[d].pub[1] = d
              /\ g.head[d].active => \E s \in g.spans : s.pub = g.head[d].pub /\ s.end = Open
  <2>1. CASE d = c
    <3>1. ASSUME active PROVE \E s \in g.spans : s.pub = p /\ s.end = Open
      <4>1. PICK s : s = [pub |-> p, start |-> n, end |-> Open]
        OBVIOUS
      <4>2. s \in g.spans
        BY <1>3, <3>1, <4>1
      <4>3. s.pub = p /\ s.end = Open
        BY <4>1
      <4>. QED  BY <4>2, <4>3
    <3>. QED  BY <1>5, <2>1, <3>1 DEF c
  <2>2. CASE d # c
    <3>1. f.head[d].pub # None => f.head[d].pub[1] = d
      BY <1>2 DEF HeadsOK
    <3>2. ASSUME f.head[d].active PROVE \E s \in g.spans : s.pub = f.head[d].pub /\ s.end = Open
      <4>1. PICK s \in f.spans : s.pub = f.head[d].pub /\ s.end = Open
        BY <1>2, <3>2 DEF HeadsOK
      <4>2. s.pub[1] # c
        BY <1>6, <2>2, <3>1, <4>1, PubFields
      <4>3. Ended(s, c, n) = s
        BY <4>2 DEF Ended
      <4>4. s \in g.spans
        BY <1>3, <4>3
      <4>. QED  BY <4>1, <4>4
    <3>. QED  BY <1>5, <2>2, <3>1, <3>2
  <2>. QED  BY <2>1, <2>2
<1>. QED  BY <1>1, <1>11, <1>12 DEF HeadsOK

SeesAlike(f, g) == \A d : \A m \in Nat : m <= f.high => Visible(g, d, m) = Visible(f, d, m)

\* Nothing that was visible before a transition changes with it.
LEMMA TransitionVisible ==
    ASSUME NEW f, TablesOK(f), NEW p \in Pub, NEW active \in BOOLEAN,
           ~(f.head[p[1]].active = active /\ (active => f.head[p[1]].pub = p))
    PROVE  LET g == Transition(f, p, active) IN
           /\ SeesAlike(f, g)
           /\ Visible(g, p[1], g.high) = IF active THEN {p} ELSE {}
           /\ \A d : d # p[1] => Visible(g, d, g.high) = Visible(f, d, f.high)
<1>. DEFINE n == f.high + 1
            c == p[1]
            B == IF active THEN {[pub |-> p, start |-> n, end |-> Open]} ELSE {}
<1>1. PICK g : g = Transition(f, p, active)
  OBVIOUS
<1>2. f \in Tables /\ SpansOK(f)
  BY DEF TablesOK
<1>3. g.high = n /\ g.spans = {Ended(s, c, n) : s \in f.spans} \cup B
  <2>1. g.high = n /\ g.spans = SpansAfter(f, p, n, active)
    BY <1>1, <1>2, TransitionFields
  <2>. QED  BY <2>1 DEF SpansAfter
<1>4. c \in Card /\ n \in Nat /\ f.high \in Nat /\ f.spans \subseteq Span /\ n = f.high + 1 /\ n # Open
  BY <1>2, PubFields, TablesFields DEF Open
<1>5. \A t \in B : active /\ t.pub = p /\ t.start = n /\ t.end = Open
  BY <1>4
<1>6. active => \E t \in B : TRUE
  BY <1>4
<1>7. \A s \in f.spans : /\ s.start \in Nat /\ s.end \in Nat /\ s.start <= f.high
                         /\ s.end # Open => s.end <= f.high
  BY <1>2, <1>4 DEF SpansOK, Span
<1>. HIDE DEF n, c, B
<1>8. ASSUME NEW s \in f.spans
      PROVE  LET t == Ended(s, c, n) IN
             /\ t.pub = s.pub
             /\ \A m \in Nat : m <= f.high => (Covers(t, m) <=> Covers(s, m))
             /\ s.pub[1] = c => ~Covers(t, n)
             /\ s.pub[1] # c => (Covers(t, n) <=> Covers(s, f.high))
  <2>1. PICK t : t = Ended(s, c, n)
    OBVIOUS
  <2>2. /\ t.pub = s.pub /\ t.start = s.start
        /\ s.pub[1] = c /\ s.end = Open => t.end = n
        /\ s.pub[1] # c \/ s.end # Open => t.end = s.end
    BY <1>4, <2>1, EndedFields
  <2>3. ASSUME NEW m \in Nat, m <= f.high PROVE Covers(t, m) <=> Covers(s, m)
    <3>1. n > m
      BY <1>4, <2>3
    <3>. QED  BY <1>4, <2>2, <3>1 DEF Covers
  <2>4. ASSUME s.pub[1] = c PROVE ~Covers(t, n)
    <3>1. t.end # Open /\ t.end <= n /\ t.end \in Nat
      BY <1>4, <1>7, <2>2, <2>4
    <3>. QED  BY <1>4, <3>1 DEF Covers
  <2>5. ASSUME s.pub[1] # c PROVE Covers(t, n) <=> Covers(s, f.high)
    <3>1. t.end = s.end /\ t.start = s.start /\ s.start <= n /\ s.start <= f.high
      BY <1>4, <1>7, <2>2, <2>5
    <3>2. s.end # Open => ~(s.end > n) /\ ~(s.end > f.high)
      BY <1>4, <1>7
    <3>. QED  BY <3>1, <3>2 DEF Covers
  <2>. QED  BY <2>1, <2>2, <2>3, <2>4, <2>5
<1>9. \A t \in B : Covers(t, n) /\ t.pub[1] = c /\ \A m \in Nat : m <= f.high => ~Covers(t, m)
  <2>1. SUFFICES ASSUME NEW t \in B PROVE Covers(t, n) /\ t.pub[1] = c /\ \A m \in Nat : m <= f.high => ~Covers(t, m)
    OBVIOUS
  <2>2. t.start = n /\ t.end = Open /\ t.pub[1] = c
    BY <1>5 DEF c
  <2>. QED  BY <1>4, <2>2 DEF Covers
<1>10. ASSUME NEW d, NEW m \in Nat, m <= f.high PROVE Visible(g, d, m) = Visible(f, d, m)
  <2>1. ASSUME NEW q \in Visible(f, d, m) PROVE q \in Visible(g, d, m)
    <3>1. PICK s \in f.spans : s.pub = q /\ s.pub[1] = d /\ Covers(s, m)
      BY VisibleIs
    <3>2. Ended(s, c, n) \in g.spans
      BY <1>3
    <3>. QED  BY <1>8, <1>10, <3>1, <3>2, VisibleIs
  <2>2. ASSUME NEW q \in Visible(g, d, m) PROVE q \in Visible(f, d, m)
    <3>1. PICK t \in g.spans : t.pub = q /\ t.pub[1] = d /\ Covers(t, m)
      BY VisibleIs
    <3>2. PICK s \in f.spans : t = Ended(s, c, n)
      BY <1>3, <1>9, <1>10, <3>1
    <3>. QED  BY <1>8, <1>10, <3>1, <3>2, VisibleIs
  <2>. QED  BY <2>1, <2>2
<1>11. Visible(g, c, n) = IF active THEN {p} ELSE {}
  <2>1. ASSUME NEW q \in Visible(g, c, n) PROVE active /\ q = p
    <3>1. PICK t \in g.spans : t.pub = q /\ t.pub[1] = c /\ Covers(t, n)
      BY VisibleIs
    <3>2. t \in B
      BY <1>3, <1>8, <3>1
    <3>. QED  BY <1>5, <3>1, <3>2
  <2>2. ASSUME active PROVE p \in Visible(g, c, n)
    <3>1. PICK t \in B : TRUE
      BY <1>6, <2>2
    <3>2. t \in g.spans /\ t.pub = p /\ t.pub[1] = c /\ Covers(t, n)
      BY <1>3, <1>5, <1>9
    <3>. QED  BY <3>2, VisibleIs
  <2>. QED  BY <2>1, <2>2
<1>12. ASSUME NEW d, d # c PROVE Visible(g, d, n) = Visible(f, d, f.high)
  <2>1. ASSUME NEW q \in Visible(f, d, f.high) PROVE q \in Visible(g, d, n)
    <3>1. PICK s \in f.spans : s.pub = q /\ s.pub[1] = d /\ Covers(s, f.high)
      BY VisibleIs
    <3>2. Ended(s, c, n) \in g.spans
      BY <1>3
    <3>. QED  BY <1>8, <1>12, <3>1, <3>2, VisibleIs
  <2>2. ASSUME NEW q \in Visible(g, d, n) PROVE q \in Visible(f, d, f.high)
    <3>1. PICK t \in g.spans : t.pub = q /\ t.pub[1] = d /\ Covers(t, n)
      BY VisibleIs
    <3>2. PICK s \in f.spans : t = Ended(s, c, n)
      BY <1>3, <1>9, <1>12, <3>1
    <3>. QED  BY <1>8, <1>12, <3>1, <3>2, VisibleIs
  <2>. QED  BY <2>1, <2>2
<1>13. SeesAlike(f, g)
  BY <1>10 DEF SeesAlike
<1>. QED  BY <1>1, <1>3, <1>11, <1>12, <1>13 DEF c

LEMMA TransitionLogOK ==
    ASSUME NEW f, TablesOK(f), NEW p \in Pub, NEW active \in BOOLEAN,
           ~(f.head[p[1]].active = active /\ (active => f.head[p[1]].pub = p))
    PROVE  LogOK(Transition(f, p, active))
<1>. DEFINE n == f.high + 1
            c == p[1]
<1>1. PICK g : g = Transition(f, p, active)
  OBVIOUS
<1>2. f \in Tables /\ SpansOK(f) /\ LogOK(f)
  BY DEF TablesOK
<1>3. PICK x : x = [pub |-> p, at |-> n, up |-> active]
  OBVIOUS
<1>4. /\ g.high = n /\ g.floor = f.floor /\ g.log = f.log \cup {x}
      /\ g.spans = {Ended(s, c, n) : s \in f.spans}
                     \cup (IF active THEN {[pub |-> p, start |-> n, end |-> Open]} ELSE {})
  <2>1. /\ g.high = n /\ g.floor = f.floor /\ g.log = LogAfter(f, p, n, active)
        /\ g.spans = SpansAfter(f, p, n, active)
    BY <1>1, <1>2, TransitionFields
  <2>. QED  BY <1>3, <2>1 DEF SpansAfter, LogAfter
<1>5. /\ n \in Nat /\ f.high \in Nat /\ f.floor \in Nat /\ n = f.high + 1
      /\ f.spans \subseteq Span /\ f.log \subseteq Change
  BY <1>2, TablesFields
<1>6. x.pub = p /\ x.at = n /\ x.up = active
  BY <1>3
<1>7. /\ \A d : \A m \in Nat : m <= f.high => Visible(g, d, m) = Visible(f, d, m)
      /\ Visible(g, c, n) = IF active THEN {p} ELSE {}
      /\ \A d : d # c => Visible(g, d, n) = Visible(f, d, f.high)
  <2>1. /\ SeesAlike(f, g)
        /\ Visible(g, p[1], g.high) = IF active THEN {p} ELSE {}
        /\ \A d : d # p[1] => Visible(g, d, g.high) = Visible(f, d, f.high)
    BY <1>1, TransitionVisible
  <2>. QED  BY <1>4, <2>1 DEF SeesAlike
<1>. HIDE DEF n, c
<1>8. /\ f.floor <= f.high
      /\ \A e \in f.log : e.at \in 1 .. f.high
      /\ \A m \in f.floor + 1 .. f.high : \E e \in f.log : e.at = m
      /\ \A e \in f.log : e.at > f.floor => Tells(f, e)
  BY <1>2 DEF LogOK
<1>9. g.floor <= g.high /\ \A e \in g.log : e.at \in 1 .. g.high
  BY <1>4, <1>5, <1>6, <1>8
<1>10. ASSUME NEW m \in g.floor + 1 .. g.high PROVE \E e \in g.log : e.at = m
  <2>1. CASE m = n
    BY <1>4, <1>6, <2>1
  <2>2. CASE m # n
    <3>1. m \in f.floor + 1 .. f.high
      BY <1>4, <1>5, <2>2
    <3>. QED  BY <1>4, <1>8, <3>1
  <2>. QED  BY <2>1, <2>2
<1>11. ASSUME NEW e \in f.log, e.at > f.floor PROVE Tells(g, e)
  <2>1. e.at \in Nat /\ e.at - 1 \in Nat /\ e.at <= f.high /\ e.at - 1 <= f.high
    BY <1>5, <1>8
  <2>2. /\ Visible(f, e.pub[1], e.at) = IF e.up THEN {e.pub} ELSE {}
        /\ \A d \in Card \ {e.pub[1]} : Visible(f, d, e.at) = Visible(f, d, e.at - 1)
        /\ e.up => \E s \in f.spans : s.start = e.at /\ s.pub = e.pub
    BY <1>8, <1>11 DEF Tells
  <2>3. Visible(g, e.pub[1], e.at) = IF e.up THEN {e.pub} ELSE {}
    BY <1>7, <2>1, <2>2
  <2>4. \A d \in Card \ {e.pub[1]} : Visible(g, d, e.at) = Visible(g, d, e.at - 1)
    BY <1>7, <2>1, <2>2
  <2>5. ASSUME e.up PROVE \E s \in g.spans : s.start = e.at /\ s.pub = e.pub
    <3>1. PICK s \in f.spans : s.start = e.at /\ s.pub = e.pub
      BY <2>2, <2>5
    <3>2. Ended(s, c, n) \in g.spans
      BY <1>4
    <3>3. Ended(s, c, n).start = s.start /\ Ended(s, c, n).pub = s.pub
      BY <1>5, EndedFields
    <3>. QED  BY <3>1, <3>2, <3>3
  <2>. QED  BY <2>3, <2>4, <2>5 DEF Tells
<1>12. Tells(g, x)
  <2>1. x.pub[1] = c
    BY <1>6 DEF c
  <2>2. Visible(g, x.pub[1], x.at) = IF x.up THEN {x.pub} ELSE {}
    BY <1>6, <1>7, <2>1
  <2>3. \A d \in Card \ {x.pub[1]} : Visible(g, d, x.at) = Visible(g, d, x.at - 1)
    <3>1. x.at - 1 = f.high
      BY <1>5, <1>6
    <3>. QED  BY <1>5, <1>6, <1>7, <2>1, <3>1
  <2>4. ASSUME x.up PROVE \E s \in g.spans : s.start = x.at /\ s.pub = x.pub
    <3>1. PICK s : s = [pub |-> p, start |-> n, end |-> Open]
      OBVIOUS
    <3>2. s \in g.spans
      BY <1>4, <1>6, <2>4, <3>1
    <3>. QED  BY <1>6, <3>1, <3>2
  <2>. QED  BY <2>2, <2>3, <2>4 DEF Tells
<1>13. \A e \in g.log : e.at > g.floor => Tells(g, e)
  BY <1>4, <1>11, <1>12
<1>. QED  BY <1>1, <1>9, <1>10, <1>13 DEF LogOK

\* A card that must stay hidden is not shown: then a transition is a step. It moves
\* no other head.
LEMMA TransitionStep ==
    ASSUME NEW f, TablesOK(f), NEW p \in Pub, NEW active \in BOOLEAN, active => ~Kept(f, p[1])
    PROVE  LET g == Transition(f, p, active) IN
           /\ Step(f, g)
           /\ g.marked = f.marked /\ g.latch = f.latch /\ g.rows = f.rows
           /\ g.retracted = f.retracted /\ g.refs = f.refs /\ g.cursor = f.cursor
           /\ \A d \in Card : f.head[d].pub # None => g.head[d].pub # None
           /\ active => g.head[p[1]].pub = p
           /\ ~active => ~g.head[p[1]].active
<1>1. CASE f.head[p[1]].active = active /\ (active => f.head[p[1]].pub = p)
  <2>1. Transition(f, p, active) = f
    BY <1>1 DEF Transition
  <2>. QED  BY <1>1, <2>1, StepSame
<1>2. CASE ~(f.head[p[1]].active = active /\ (active => f.head[p[1]].pub = p))
  <2>1. PICK g : g = Transition(f, p, active)
    OBVIOUS
  <2>2. f \in Tables
    BY DEF TablesOK
  <2>3. /\ g \in Tables /\ g.high = f.high + 1 /\ g.floor = f.floor
        /\ g.rows = f.rows /\ g.retracted = f.retracted /\ g.refs = f.refs
        /\ g.marked = f.marked /\ g.latch = f.latch /\ g.cursor = f.cursor
        /\ g.head = HeadAfter(f, p, active)
    BY <1>2, <2>1, <2>2, TransitionFields
  <2>4. TablesOK(g)
    BY <1>2, <2>1, <2>3, TransitionSpansOK, TransitionLogOK DEF TablesOK
  <2>5. /\ g.head[p[1]].pub = p /\ g.head[p[1]].active = active /\ p # None
        /\ \A d \in Card \ {p[1]} : g.head[d] = f.head[d]
    BY <2>2, <2>3, PubFields, TablesFields DEF HeadAfter
  <2>6. \A c \in Card : Kept(f, c) => Kept(g, c) /\ (~f.head[c].active => ~g.head[c].active)
    BY <2>3, <2>5 DEF Kept
  <2>7. f.high \in Nat /\ f.floor \in Nat
    BY <2>2, TablesFields
  <2>8. \A d : \A m \in Nat : m <= f.high => Visible(g, d, m) = Visible(f, d, m)
    <3>1. SeesAlike(f, g)
      BY <1>2, <2>1, TransitionVisible
    <3>. QED  BY <3>1 DEF SeesAlike
  <2>9. Grows(f, g)
    BY <2>3, <2>6, <2>7, <2>8 DEF Grows
  <2>. QED  BY <2>1, <2>3, <2>4, <2>5, <2>9 DEF Step
<1>. QED  BY <1>1, <1>2

-----------------------------------------------------------------------------
\* Every other change: it ends all cursors before what it removes.

Edits(f, g) ==
    /\ g \in Tables /\ g.high = f.high /\ f.floor <= g.floor /\ g.floor <= g.high
    /\ g.spans \subseteq f.spans /\ \A s \in f.spans \ g.spans : s.end # Open /\ s.end <= g.floor
    /\ g.log \subseteq f.log /\ \A e \in f.log \ g.log : e.at <= g.floor
    /\ \A c \in Card : /\ g.head[c].active = f.head[c].active
                       /\ g.head[c].pub = f.head[c].pub \/ (g.head[c].pub = None /\ ~f.head[c].active)
    /\ \A c \in Card : Kept(f, c) => Kept(g, c)

LEMMA EditStep ==
    ASSUME NEW f, TablesOK(f), NEW g, Edits(f, g) PROVE Step(f, g)
<1>1. f \in Tables /\ SpansOK(f) /\ HeadsOK(f) /\ LogOK(f)
  BY DEF TablesOK
<1>2. g \in Tables /\ g.high = f.high /\ f.floor <= g.floor /\ g.floor <= g.high
  BY DEF Edits
<1>3. g.spans \subseteq f.spans /\ \A s \in f.spans \ g.spans : s.end # Open /\ s.end <= g.floor
  BY DEF Edits
<1>4. g.log \subseteq f.log /\ \A e \in f.log \ g.log : e.at <= g.floor
  BY DEF Edits
<1>5. \A c \in Card : /\ g.head[c].active = f.head[c].active
                      /\ g.head[c].pub = f.head[c].pub \/ (g.head[c].pub = None /\ ~f.head[c].active)
  BY DEF Edits
<1>6. \A c \in Card : Kept(f, c) => Kept(g, c)
  BY DEF Edits
<1>7. /\ f.high \in Nat /\ f.floor \in Nat /\ g.floor \in Nat
      /\ f.spans \subseteq Span /\ f.log \subseteq Change
  BY <1>1, <1>2, TablesFields
<1>8. \A s \in f.spans : s.start \in Nat /\ s.end \in Nat /\ s.pub \in Pub /\ s.pub[1] \in Card
  BY <1>7, PubFields DEF Span
<1>9. ASSUME NEW c, NEW n \in Nat, g.floor <= n PROVE Visible(g, c, n) = Visible(f, c, n)
  <2>1. \A s \in f.spans : Covers(s, n) => s \in g.spans
    <3>1. SUFFICES ASSUME NEW s \in f.spans \ g.spans PROVE ~Covers(s, n)
      OBVIOUS
    <3>2. s.end # Open /\ s.end <= n /\ s.end \in Nat
      BY <1>3, <1>7, <1>8, <1>9
    <3>. QED  BY <3>2 DEF Covers
  <2>2. \A q : q \in Visible(g, c, n) <=> q \in Visible(f, c, n)
    BY <1>3, <2>1, VisibleIs
  <2>. QED  BY <2>2
<1>10. SpansOK(g)
  <2>1. ASSUME NEW s \in g.spans
        PROVE  /\ s.start \in 1 .. g.high
               /\ s.end # Open => s.start < s.end /\ s.end <= g.high
               /\ s.end = Open => g.head[s.pub[1]].active /\ g.head[s.pub[1]].pub = s.pub
    <3>1. /\ s.start \in 1 .. f.high
          /\ s.end # Open => s.start < s.end /\ s.end <= f.high
          /\ s.end = Open => f.head[s.pub[1]].active /\ f.head[s.pub[1]].pub = s.pub
      BY <1>1, <1>3 DEF SpansOK
    <3>2. s.pub[1] \in Card
      BY <1>3, <1>8
    <3>. QED  BY <1>2, <1>5, <3>1, <3>2
  <2>2. \A s, t \in g.spans : s.start = t.start => s = t
    BY <1>1, <1>3 DEF SpansOK
  <2>3. \A s, t \in g.spans : s.pub[1] = t.pub[1] /\ s.start < t.start => s.end # Open /\ s.end <= t.start
    BY <1>1, <1>3 DEF SpansOK
  <2>. QED  BY <2>1, <2>2, <2>3 DEF SpansOK
<1>11. HeadsOK(g)
  <2>1. ASSUME NEW c \in Card
        PROVE  /\ g.head[c].pub # None => g.head[c].pub[1] = c
               /\ g.head[c].active => \E s \in g.spans : s.pub = g.head[c].pub /\ s.end = Open
    <3>1. g.head[c].pub # None => g.head[c].pub[1] = c
      BY <1>1, <1>5 DEF HeadsOK
    <3>2. ASSUME g.head[c].active PROVE \E s \in g.spans : s.pub = g.head[c].pub /\ s.end = Open
      <4>1. PICK s \in f.spans : s.pub = f.head[c].pub /\ s.end = Open
        BY <1>1, <1>5, <3>2 DEF HeadsOK
      <4>. QED  BY <1>3, <1>5, <3>2, <4>1
    <3>. QED  BY <3>1, <3>2
  <2>. QED  BY <2>1 DEF HeadsOK
<1>12. LogOK(g)
  <2>1. \A e \in g.log : e.at \in 1 .. g.high
    BY <1>1, <1>2, <1>4 DEF LogOK
  <2>2. ASSUME NEW n \in g.floor + 1 .. g.high PROVE \E e \in g.log : e.at = n
    <3>1. n \in f.floor + 1 .. f.high /\ ~(n <= g.floor)
      BY <1>2, <1>7
    <3>2. PICK e \in f.log : e.at = n
      BY <1>1, <3>1 DEF LogOK
    <3>. QED  BY <1>4, <3>1, <3>2
  <2>3. ASSUME NEW e \in g.log, e.at > g.floor PROVE Tells(g, e)
    <3>1. e.at \in Nat /\ e.at - 1 \in Nat /\ e.at > f.floor /\ g.floor <= e.at /\ g.floor <= e.at - 1
      BY <1>2, <1>7, <2>1, <2>3
    <3>2. Tells(f, e)
      BY <1>1, <1>4, <3>1 DEF LogOK
    <3>3. Visible(g, e.pub[1], e.at) = IF e.up THEN {e.pub} ELSE {}
      BY <1>9, <3>1, <3>2 DEF Tells
    <3>4. \A d \in Card \ {e.pub[1]} : Visible(g, d, e.at) = Visible(g, d, e.at - 1)
      BY <1>9, <3>1, <3>2 DEF Tells
    <3>5. ASSUME e.up PROVE \E s \in g.spans : s.start = e.at /\ s.pub = e.pub
      <4>1. PICK s \in f.spans : s.start = e.at /\ s.pub = e.pub
        BY <3>2, <3>5 DEF Tells
      <4>2. s.end # Open => s.start < s.end
        BY <1>1 DEF SpansOK
      <4>3. s \notin g.spans => s.end # Open /\ s.end <= g.floor
        BY <1>3
      <4>4. s \in g.spans
        BY <1>7, <1>8, <2>3, <3>1, <4>1, <4>2, <4>3
      <4>. QED  BY <4>1, <4>4
    <3>. QED  BY <3>3, <3>4, <3>5 DEF Tells
  <2>. QED  BY <1>2, <2>1, <2>2, <2>3 DEF LogOK
<1>13. Grows(f, g)
  BY <1>2, <1>5, <1>6, <1>7, <1>9 DEF Grows
<1>. QED  BY <1>2, <1>10, <1>11, <1>12, <1>13 DEF Step, TablesOK

\* A change of marks, references and rows only.
LEMMA MarksStep ==
    ASSUME NEW f, TablesOK(f), NEW g \in Tables,
           g.high = f.high, g.floor = f.floor, g.spans = f.spans, g.log = f.log,
           \A c \in Card : g.head[c].active = f.head[c].active /\ g.head[c].pub = f.head[c].pub,
           \A c \in Card : Kept(f, c) => Kept(g, c)
    PROVE  Step(f, g)
<1>1. f.high \in Nat /\ f.floor \in Nat /\ f.floor <= f.high
  BY TablesFields DEF TablesOK, LogOK
<1>2. Edits(f, g)
  BY <1>1 DEF Edits
<1>. QED  BY <1>2, EditStep

LEMMA LatchedStep ==
    ASSUME NEW f, TablesOK(f)
    PROVE  LET g == Latched(f) IN
           /\ Step(f, g) /\ g.latch /\ g.head = f.head /\ g.marked = f.marked /\ g.rows = f.rows
<1>1. PICK g : g = [f EXCEPT !.latch = TRUE]
  OBVIOUS
<1>2. f \in Tables
  BY DEF TablesOK
<1>3. /\ g.high = f.high /\ g.floor = f.floor /\ g.spans = f.spans /\ g.log = f.log /\ g.head = f.head
      /\ g.latch = TRUE /\ g.marked = f.marked /\ g.rows = f.rows
  BY <1>1, <1>2 DEF Tables
<1>4. g \in Tables
  BY <1>1, <1>2 DEF Tables
<1>5. \A c \in Card : Kept(f, c) => Kept(g, c)
  BY <1>3 DEF Kept
<1>6. Step(f, g)
  BY <1>3, <1>4, <1>5, MarksStep
<1>. QED  BY <1>1, <1>3, <1>6 DEF Latched

LEMMA KeepMarkStep ==
    ASSUME NEW f, TablesOK(f), NEW c \in Card, NEW sources \in SUBSET Source
    PROVE  LET g == KeepMark(f, c, sources) IN Step(f, g) /\ Kept(g, c) /\ g.head = f.head
<1>1. f \in Tables /\ f.marked \in [Card -> SUBSET Source]
  BY TablesFields DEF TablesOK
<1>2. PICK all : all = f.marked[c] \cup sources
  OBVIOUS
<1>3. all \subseteq Source
  BY <1>1, <1>2
<1>4. CASE f.latch
  <2>1. KeepMark(f, c, sources) = f
    BY <1>4 DEF KeepMark
  <2>. QED  BY <1>4, <2>1, StepSame DEF Kept
<1>5. CASE ~f.latch /\ all # {} /\ TraceAllowed(all)
  <2>1. PICK g : g = [f EXCEPT !.marked[c] = all]
    OBVIOUS
  <2>2. KeepMark(f, c, sources) = g
    BY <1>2, <1>5, <2>1 DEF KeepMark
  <2>3. /\ g.high = f.high /\ g.floor = f.floor /\ g.spans = f.spans /\ g.log = f.log /\ g.head = f.head
        /\ g.latch = f.latch /\ g.marked = [f.marked EXCEPT ![c] = all]
    BY <1>1, <2>1 DEF Tables
  <2>4. g \in Tables
    BY <1>1, <1>3, <2>1 DEF Tables
  <2>5. g.marked[c] # {} /\ \A d \in Card : Kept(f, d) => Kept(g, d)
    BY <1>1, <1>5, <2>3 DEF Kept
  <2>6. Step(f, g)
    BY <2>3, <2>4, <2>5, MarksStep
  <2>. QED  BY <2>2, <2>3, <2>5, <2>6 DEF Kept
<1>6. CASE ~f.latch /\ ~(all # {} /\ TraceAllowed(all))
  <2>1. PICK l : l = [f EXCEPT !.latch = TRUE]
    OBVIOUS
  <2>2. PICK g : g = [l EXCEPT !.marked[c] = {}]
    OBVIOUS
  <2>3. KeepMark(f, c, sources) = g
    BY <1>2, <1>6, <2>1, <2>2 DEF KeepMark, Latched
  <2>4. l \in Tables
    BY <1>1, <2>1 DEF Tables
  <2>5. /\ l.high = f.high /\ l.floor = f.floor /\ l.spans = f.spans /\ l.log = f.log /\ l.head = f.head
        /\ l.latch = TRUE /\ l.marked = f.marked
    BY <1>1, <2>1 DEF Tables
  <2>6. /\ g.high = l.high /\ g.floor = l.floor /\ g.spans = l.spans /\ g.log = l.log /\ g.head = l.head
        /\ g.latch = l.latch
    BY <2>2, <2>4 DEF Tables
  <2>7. g \in Tables
    BY <2>2, <2>4 DEF Tables
  <2>8. \A d \in Card : Kept(g, d)
    BY <2>5, <2>6 DEF Kept
  <2>9. Step(f, g)
    BY <2>5, <2>6, <2>7, <2>8, MarksStep
  <2>. QED  BY <2>3, <2>5, <2>6, <2>8, <2>9
<1>. QED  BY <1>4, <1>5, <1>6

LEMMA KeepReferenceStep ==
    ASSUME NEW f, TablesOK(f), NEW p \in Pub PROVE Step(f, KeepReference(f, p))
<1>1. f \in Tables
  BY DEF TablesOK
<1>2. CASE f.latch
  BY <1>2, StepSame DEF KeepReference
<1>3. CASE ~f.latch /\ TraceAllowed({SourceOf[p[2]]})
  <2>1. PICK g : g = [f EXCEPT !.refs = f.refs \cup {p}]
    OBVIOUS
  <2>2. /\ g.high = f.high /\ g.floor = f.floor /\ g.spans = f.spans /\ g.log = f.log /\ g.head = f.head
        /\ g.latch = f.latch /\ g.marked = f.marked
    BY <1>1, <2>1 DEF Tables
  <2>3. g \in Tables
    BY <1>1, <2>1 DEF Tables
  <2>4. \A c \in Card : Kept(f, c) => Kept(g, c)
    BY <2>2 DEF Kept
  <2>5. Step(f, g)
    BY <2>2, <2>3, <2>4, MarksStep
  <2>. QED  BY <1>3, <2>1, <2>5 DEF KeepReference
<1>4. CASE ~f.latch /\ ~TraceAllowed({SourceOf[p[2]]})
  <2>1. PICK l : l = [f EXCEPT !.latch = TRUE]
    OBVIOUS
  <2>2. PICK g : g = [l EXCEPT !.refs = f.refs \ {p}]
    OBVIOUS
  <2>3. l \in Tables
    BY <1>1, <2>1 DEF Tables
  <2>4. /\ l.high = f.high /\ l.floor = f.floor /\ l.spans = f.spans /\ l.log = f.log /\ l.head = f.head
        /\ l.latch = TRUE
    BY <1>1, <2>1 DEF Tables
  <2>5. /\ g.high = l.high /\ g.floor = l.floor /\ g.spans = l.spans /\ g.log = l.log /\ g.head = l.head
        /\ g.latch = l.latch
    BY <2>2, <2>3 DEF Tables
  <2>6. f.refs \ {p} \subseteq Pub
    BY <1>1, TablesFields
  <2>7. g \in Tables
    BY <2>2, <2>3, <2>6 DEF Tables
  <2>8. \A d \in Card : Kept(g, d)
    BY <2>4, <2>5 DEF Kept
  <2>9. Step(f, g)
    BY <2>4, <2>5, <2>7, <2>8, MarksStep
  <2>. QED  BY <1>4, <2>1, <2>2, <2>9 DEF KeepReference, Latched
<1>. QED  BY <1>2, <1>3, <1>4

LEMMA FloorFields ==
    ASSUME NEW f \in Tables, NEW seqs \in SUBSET Nat, f.floor <= f.high, \A x \in seqs : x <= f.high
    PROVE  LET g == Floor(f, seqs) IN
           /\ g \in Tables
           /\ g.high = f.high /\ g.spans = f.spans /\ g.log = f.log /\ g.head = f.head
           /\ g.marked = f.marked /\ g.latch = f.latch /\ g.rows = f.rows
           /\ g.retracted = f.retracted /\ g.refs = f.refs /\ g.cursor = f.cursor
           /\ f.floor <= g.floor /\ g.floor <= g.high /\ \A x \in seqs : x <= g.floor
<1>1. f.high \in Nat /\ f.floor \in Nat
  BY TablesFields
<1>2. CASE seqs = {}
  <2>1. Floor(f, seqs) = f
    BY <1>2 DEF Floor
  <2>. QED  BY <1>1, <1>2, <2>1
<1>3. CASE seqs # {}
  <2>1. PICK m : m = Max(seqs)
    OBVIOUS
  <2>2. m \in Nat /\ m \in seqs /\ \A x \in seqs : x <= m
    BY <1>1, <1>3, <2>1, LargestNumber
  <2>3. PICK v : v = Greater(f.floor, m)
    OBVIOUS
  <2>4. v \in Nat /\ f.floor <= v /\ m <= v /\ v <= f.high
    BY <1>1, <2>2, <2>3 DEF Greater
  <2>5. PICK g : g = [f EXCEPT !.floor = v]
    OBVIOUS
  <2>6. Floor(f, seqs) = g
    BY <1>3, <2>1, <2>3, <2>5 DEF Floor
  <2>7. g \in Tables
    BY <2>4, <2>5 DEF Tables
  <2>8. /\ g.high = f.high /\ g.spans = f.spans /\ g.log = f.log /\ g.head = f.head
        /\ g.marked = f.marked /\ g.latch = f.latch /\ g.rows = f.rows
        /\ g.retracted = f.retracted /\ g.refs = f.refs /\ g.cursor = f.cursor /\ g.floor = v
    BY <2>5 DEF Tables
  <2>9. \A x \in seqs : x <= v
    BY <2>2, <2>4
  <2>. QED  BY <2>4, <2>6, <2>7, <2>8, <2>9
<1>. QED  BY <1>2, <1>3

WithBlock(f, c, b) == [f EXCEPT !.head[c].blocked = b]

LEMMA BlockedStep ==
    ASSUME NEW f, TablesOK(f), NEW c \in Card, NEW b \in BOOLEAN
    PROVE  LET g == WithBlock(f, c, b) IN
           Step(f, g) /\ \A d \in Card : g.head[d].pub = f.head[d].pub
<1>1. f \in Tables
  BY DEF TablesOK
<1>2. PICK r : r = [f.head[c] EXCEPT !.blocked = b]
  OBVIOUS
<1>3. PICK h : h = [f.head EXCEPT ![c] = r]
  OBVIOUS
<1>4. PICK g : g = [f EXCEPT !.head = h]
  OBVIOUS
<1>5. g = WithBlock(f, c, b)
  BY <1>2, <1>3, <1>4 DEF WithBlock
<1>6. f.head[c] \in HeadRow
  BY <1>1, TablesFields
<1>7. r \in HeadRow /\ r.active = f.head[c].active /\ r.pub = f.head[c].pub
  BY <1>2, <1>6 DEF HeadRow
<1>8. h \in [Card -> HeadRow] /\ h[c] = r /\ \A d \in Card \ {c} : h[d] = f.head[d]
  BY <1>1, <1>3, <1>7, TablesFields
<1>9. /\ g.high = f.high /\ g.floor = f.floor /\ g.spans = f.spans /\ g.log = f.log /\ g.head = h
      /\ g.marked = f.marked /\ g.latch = f.latch
  BY <1>1, <1>4 DEF Tables
<1>10. g \in Tables
  BY <1>1, <1>4, <1>8 DEF Tables
<1>11. \A d \in Card : g.head[d].active = f.head[d].active /\ g.head[d].pub = f.head[d].pub
  BY <1>7, <1>8, <1>9
<1>12. \A d \in Card : Kept(f, d) => Kept(g, d)
  BY <1>9 DEF Kept
<1>13. Step(f, g)
  BY <1>9, <1>10, <1>11, <1>12, MarksStep
<1>. QED  BY <1>5, <1>11, <1>13

\* The revision of a head is one of its card.
LEMMA HeadPub ==
    ASSUME NEW f, TablesOK(f), NEW c \in Card, f.head[c].pub # None
    PROVE  f.head[c].pub \in Pub /\ f.head[c].pub[1] = c
<1>1. f.head[c] \in HeadRow
  BY TablesFields DEF TablesOK
<1>. QED  BY <1>1 DEF TablesOK, HeadsOK, HeadRow

LEMMA BlockStep ==
    ASSUME NEW f, TablesOK(f), NEW c \in Card, NEW valid PROVE Step(f, Block(f, c, valid))
<1>1. CASE f.head[c].pub = None
  BY <1>1, StepSame DEF Block
<1>2. CASE f.head[c].pub # None
  <2>1. f.head[c].pub \in Pub /\ f.head[c].pub[1] = c
    BY <1>2, HeadPub
  <2>2. PICK t : t = Transition(f, f.head[c].pub, FALSE)
    OBVIOUS
  <2>3. Step(f, t)
    BY <2>1, <2>2, TransitionStep
  <2>4. PICK b \in BOOLEAN : b = (f.head[c].pub[2] # valid)
    OBVIOUS
  <2>5. Block(f, c, valid) = WithBlock(t, c, b)
    BY <1>2, <2>2, <2>4 DEF Block, WithBlock
  <2>6. TablesOK(t)
    BY <2>3 DEF Step
  <2>7. Step(t, Block(f, c, valid))
    BY <2>4, <2>5, <2>6, BlockedStep
  <2>. QED  BY <2>3, <2>7, StepChain
<1>. QED  BY <1>1, <1>2

LEMMA SaveStep ==
    ASSUME NEW f, TablesOK(f), NEW p \in Pub, CanSave(f, p) PROVE Step(f, Save(f, p))
<1>1. f \in Tables /\ p[1] \in Card
  BY PubFields DEF TablesOK
<1>2. PICK r : r = [f EXCEPT !.rows = f.rows \cup {p}]
  OBVIOUS
<1>3. /\ r.high = f.high /\ r.floor = f.floor /\ r.spans = f.spans /\ r.log = f.log /\ r.head = f.head
      /\ r.marked = f.marked /\ r.latch = f.latch
  BY <1>1, <1>2 DEF Tables
<1>4. r \in Tables
  BY <1>1, <1>2 DEF Tables
<1>5. \A c \in Card : Kept(f, c) <=> Kept(r, c)
  BY <1>3 DEF Kept
<1>6. Step(f, r)
  BY <1>3, <1>4, <1>5, MarksStep
<1>7. TablesOK(r) /\ ~Kept(r, p[1])
  BY <1>1, <1>5, <1>6 DEF Step, CanSave, Retracted, Kept
<1>8. PICK t : t = Transition(r, p, TRUE)
  OBVIOUS
<1>9. Step(r, t)
  BY <1>7, <1>8, TransitionStep
<1>10. TablesOK(t)
  BY <1>9 DEF Step
<1>11. Save(f, p) = WithBlock(t, p[1], FALSE)
  BY <1>2, <1>8 DEF Save, WithBlock
<1>12. Step(t, Save(f, p))
  BY <1>1, <1>10, <1>11, BlockedStep
<1>. QED  BY <1>6, <1>7, <1>9, <1>12, StepChain

LEMMA ProjectStep ==
    ASSUME NEW f, TablesOK(f), NEW r \in Pub \cup (Card \X {None}) PROVE Step(f, Project(f, r))
<1>1. r[1] \in Card
  BY PubFields
<1>2. CASE r[2] = None
  BY <1>1, <1>2, BlockStep DEF Project
<1>3. CASE r[2] # None
  <2>1. r \in Pub
    BY <1>3
  <2>2. Step(f, f) /\ Step(f, Block(f, r[1], r[2])) /\ (CanSave(f, r) => Step(f, Save(f, r)))
    BY <1>1, <2>1, StepSame, BlockStep, SaveStep
  <2>3. Project(f, r) = f \/ Project(f, r) = Block(f, r[1], r[2])
            \/ (CanSave(f, r) /\ Project(f, r) = Save(f, r))
    BY <1>3 DEF Project
  <2>. QED  BY <2>2, <2>3
<1>. QED  BY <1>2, <1>3

LEMMA ReconcileStep ==
    ASSUME NEW f, TablesOK(f), NEW c \in Card, f.head[c].pub # None
    PROVE  LET g == Reconcile(f, c) IN
           Step(f, g) /\ \A d \in Card : f.head[d].pub # None => g.head[d].pub # None
<1>1. f.head[c].pub \in Pub /\ f.head[c].pub[1] = c
  BY HeadPub
<1>2. PICK active \in BOOLEAN : active = (~f.head[c].blocked /\ Load(f, f.head[c].pub))
  OBVIOUS
<1>3. active => ~Kept(f, c)
  BY <1>1, <1>2 DEF Load, Retracted, Kept
<1>4. Reconcile(f, c) = Transition(f, f.head[c].pub, active)
  BY <1>2 DEF Reconcile
<1>. QED  BY <1>1, <1>3, <1>4, TransitionStep

-----------------------------------------------------------------------------
\* The publisher's turn and the first turns are defined by recursion: the functions
\* they name exist.

IsRotated(h, m, f, heads) ==
    h = [c \in 0 .. m |-> IF c = 0 THEN f
                          ELSE IF c \in heads THEN Reconcile(h[c - 1], c) ELSE h[c - 1]]
IsProjected(h, m) ==
    h = [i \in 0 .. m |-> IF i = 0 THEN NewFeed ELSE Project(h[i - 1], Loaded[i])]

LEMMA RotatedExists ==
    ASSUME NEW N \in Nat, NEW f, NEW heads PROVE \E h : IsRotated(h, N, f, heads)
<1>. DEFINE S == {m \in 0 .. N : \E h : IsRotated(h, m, f, heads)}
<1>1. 0 \in S
  <2>1. IsRotated([c \in 0 .. 0 |-> f], 0, f, heads)
    BY DEF IsRotated
  <2>. QED  BY <2>1
<1>2. ASSUME NEW m \in 0 .. N, m \in S, m < N PROVE m + 1 \in S
  <2>1. PICK h : IsRotated(h, m, f, heads)
    BY <1>2
  <2>. DEFINE next(x, c) == IF c \in heads THEN Reconcile(x, c) ELSE x
              g == [c \in 0 .. m + 1 |-> IF c <= m THEN h[c] ELSE next(h[c - 1], c)]
  <2>2. \A c \in 0 .. m + 1 : c # 0 => c - 1 \in 0 .. m /\ g[c - 1] = h[c - 1]
    OBVIOUS
  <2>3. \A c \in 0 .. m : h[c] = IF c = 0 THEN f ELSE next(h[c - 1], c)
    BY <2>1 DEF IsRotated
  <2>4. \A c \in 0 .. m + 1 : g[c] = IF c = 0 THEN f ELSE next(g[c - 1], c)
    <3>. SUFFICES ASSUME NEW c \in 0 .. m + 1
                  PROVE  g[c] = IF c = 0 THEN f ELSE next(g[c - 1], c)
      OBVIOUS
    <3>1. CASE c \in 0 .. m
      <4>1. g[c] = h[c]
        BY <3>1
      <4>. HIDE DEF g, next
      <4>. QED  BY <2>2, <2>3, <3>1, <4>1
    <3>2. CASE c = m + 1
      <4>1. g[c] = next(h[c - 1], c) /\ c # 0
        BY <3>2
      <4>. HIDE DEF g, next
      <4>. QED  BY <2>2, <4>1
    <3>. QED  BY <3>1, <3>2
  <2>5. g = [c \in 0 .. m + 1 |-> g[c]]
    OBVIOUS
  <2>. HIDE DEF g
  <2>6. IsRotated(g, m + 1, f, heads)
    BY <2>4, <2>5 DEF IsRotated
  <2>. QED  BY <1>2, <2>6
<1>3. \A n \in 0 .. N : n \in S /\ n < N => n + 1 \in S
  BY <1>2
<1>. HIDE DEF S
<1>4. N \in S
  BY <1>1, <1>3, CountUp
<1>. QED  BY <1>4 DEF S

LEMMA ProjectedExists ==
    ASSUME NEW N \in Nat PROVE \E h : IsProjected(h, N)
<1>. DEFINE S == {m \in 0 .. N : \E h : IsProjected(h, m)}
<1>1. 0 \in S
  <2>1. IsProjected([i \in 0 .. 0 |-> NewFeed], 0)
    BY DEF IsProjected
  <2>. QED  BY <2>1
<1>2. ASSUME NEW m \in 0 .. N, m \in S, m < N PROVE m + 1 \in S
  <2>1. PICK h : IsProjected(h, m)
    BY <1>2
  <2>. DEFINE g == [i \in 0 .. m + 1 |-> IF i <= m THEN h[i] ELSE Project(h[i - 1], Loaded[i])]
  <2>2. \A i \in 0 .. m + 1 : i # 0 => i - 1 \in 0 .. m /\ g[i - 1] = h[i - 1]
    OBVIOUS
  <2>3. \A i \in 0 .. m : h[i] = IF i = 0 THEN NewFeed ELSE Project(h[i - 1], Loaded[i])
    BY <2>1 DEF IsProjected
  <2>4. \A i \in 0 .. m + 1 : g[i] = IF i = 0 THEN NewFeed ELSE Project(g[i - 1], Loaded[i])
    <3>. SUFFICES ASSUME NEW i \in 0 .. m + 1
                  PROVE  g[i] = IF i = 0 THEN NewFeed ELSE Project(g[i - 1], Loaded[i])
      OBVIOUS
    <3>1. CASE i \in 0 .. m
      <4>1. g[i] = h[i]
        BY <3>1
      <4>. HIDE DEF g
      <4>. QED  BY <2>2, <2>3, <3>1, <4>1
    <3>2. CASE i = m + 1
      <4>1. g[i] = Project(h[i - 1], Loaded[i]) /\ i # 0
        BY <3>2
      <4>. HIDE DEF g
      <4>. QED  BY <2>2, <4>1
    <3>. QED  BY <3>1, <3>2
  <2>5. g = [i \in 0 .. m + 1 |-> g[i]]
    OBVIOUS
  <2>. HIDE DEF g
  <2>6. IsProjected(g, m + 1)
    BY <2>4, <2>5 DEF IsProjected
  <2>. QED  BY <1>2, <2>6
<1>3. \A n \in 0 .. N : n \in S /\ n < N => n + 1 \in S
  BY <1>2
<1>. HIDE DEF S
<1>4. N \in S
  BY <1>1, <1>3, CountUp
<1>. QED  BY <1>4 DEF S

LEMMA RotateStep ==
    ASSUME NEW f, TablesOK(f), NEW heads \in SUBSET Card, \A c \in heads : f.head[c].pub # None,
           NEW last \in heads \cup {0}
    PROVE  Step(f, Rotate(f, heads, last))
<1>. DEFINE HasPubs(g) == \A d \in Card : f.head[d].pub # None => g.head[d].pub # None
<1>1. last \in Nat
  BY CardIsNat
<1>2. PICK run : run = CHOOSE h : IsRotated(h, last, f, heads)
  OBVIOUS
<1>3. IsRotated(run, last, f, heads)
  BY <1>1, <1>2, RotatedExists
<1>4. /\ run[0] = f
      /\ \A c \in 0 .. last : c # 0 =>
            run[c] = IF c \in heads THEN Reconcile(run[c - 1], c) ELSE run[c - 1]
  BY <1>1, <1>3 DEF IsRotated
<1>. DEFINE S == {m \in 0 .. last : Step(f, run[m]) /\ HasPubs(run[m])}
<1>5. 0 \in S
  BY <1>1, <1>4, StepSame
<1>6. ASSUME NEW m \in 0 .. last, m \in S, m < last PROVE m + 1 \in S
  <2>1. PICK g : g = run[m]
    OBVIOUS
  <2>2. Step(f, g) /\ HasPubs(g) /\ TablesOK(g)
    BY <1>6, <2>1 DEF Step
  <2>3. m + 1 \in 0 .. last /\ m + 1 # 0 /\ (m + 1) - 1 = m
    BY <1>1, <1>6
  <2>4. CASE m + 1 \in heads
    <3>1. run[m + 1] = Reconcile(g, m + 1)
      BY <1>4, <2>1, <2>3, <2>4
    <3>2. m + 1 \in Card /\ g.head[m + 1].pub # None
      BY <2>2, <2>4
    <3>3. /\ Step(g, run[m + 1])
          /\ \A d \in Card : g.head[d].pub # None => run[m + 1].head[d].pub # None
      BY <2>2, <3>1, <3>2, ReconcileStep
    <3>4. Step(f, run[m + 1])
      BY <2>2, <3>3, StepChain
    <3>. QED  BY <2>2, <2>3, <3>3, <3>4
  <2>5. CASE m + 1 \notin heads
    <3>1. run[m + 1] = g
      BY <1>4, <2>1, <2>3, <2>5
    <3>. QED  BY <2>2, <2>3, <3>1
  <2>. QED  BY <2>4, <2>5
<1>7. \A n \in 0 .. last : n \in S /\ n < last => n + 1 \in S
  BY <1>6
<1>8. last \in S
  <2>. HIDE DEF S
  <2>. QED  BY <1>1, <1>5, <1>7, CountUp
<1>9. PICK t : t = run[last]
  OBVIOUS
<1>10. Step(f, t) /\ TablesOK(t) /\ t \in Tables
  BY <1>8, <1>9 DEF Step, TablesOK
<1>11. PICK n : n = NextCursor(f.cursor, heads, last)
  OBVIOUS
<1>12. n \in Nat
  <2>1. f.cursor \in Nat
    BY TablesFields DEF TablesOK
  <2>. QED  BY <1>1, <1>11, <2>1 DEF NextCursor
<1>13. PICK g : g = [t EXCEPT !.cursor = n]
  OBVIOUS
<1>14. Rotate(f, heads, last) = g
  <2>1. Rotate(f, heads, last) = [run[last] EXCEPT !.cursor = NextCursor(f.cursor, heads, last)]
    BY <1>2 DEF Rotate, IsRotated
  <2>. QED  BY <1>9, <1>11, <1>13, <2>1
<1>15. /\ g.high = t.high /\ g.floor = t.floor /\ g.spans = t.spans /\ g.log = t.log /\ g.head = t.head
       /\ g.marked = t.marked /\ g.latch = t.latch
  BY <1>10, <1>13 DEF Tables
<1>16. g \in Tables
  BY <1>10, <1>12, <1>13 DEF Tables
<1>17. \A c \in Card : Kept(t, c) => Kept(g, c)
  BY <1>15 DEF Kept
<1>18. Step(t, g)
  BY <1>10, <1>15, <1>16, <1>17, MarksStep
<1>. QED  BY <1>10, <1>14, <1>18, StepChain

LEMMA NewFeedOK == TablesOK(NewFeed)
<1>. DEFINE f == NewFeed
<1>1. /\ f.rows = {} /\ f.retracted = {} /\ f.refs = {} /\ f.spans = {} /\ f.log = {}
      /\ f.high = 0 /\ f.floor = 0 /\ f.cursor = 0 /\ f.latch = FALSE
      /\ f.marked = [c \in Card |-> {}]
      /\ f.head = [c \in Card |-> [pub |-> None, active |-> FALSE, blocked |-> FALSE]]
  BY DEF NewFeed
<1>2. f \in Tables
  <2>1. [c \in Card |-> {}] \in [Card -> SUBSET Source]
    OBVIOUS
  <2>2. [c \in Card |-> [pub |-> None, active |-> FALSE, blocked |-> FALSE]] \in [Card -> HeadRow]
    BY DEF HeadRow
  <2>. QED  BY <2>1, <2>2 DEF Tables, NewFeed
<1>. HIDE DEF f
<1>3. SpansOK(f)
  BY <1>1 DEF SpansOK
<1>4. HeadsOK(f)
  BY <1>1 DEF HeadsOK
<1>5. LogOK(f)
  BY <1>1 DEF LogOK
<1>. QED  BY <1>2, <1>3, <1>4, <1>5 DEF TablesOK, f

LEMMA FirstTurns == FeedInit => TablesOK(feed)
<1>. SUFFICES ASSUME FeedInit PROVE TablesOK(feed)
  OBVIOUS
<1>1. Len(Loaded) \in Nat /\ \A i \in 1 .. Len(Loaded) : Loaded[i] \in Pub
  BY FeedAssumption
<1>2. PICK N \in Nat : N = Len(Loaded)
  BY <1>1
<1>3. PICK run : run = CHOOSE h : IsProjected(h, N)
  OBVIOUS
<1>4. IsProjected(run, N)
  BY <1>3, ProjectedExists
<1>5. run[0] = NewFeed /\ \A i \in 0 .. N : i # 0 => run[i] = Project(run[i - 1], Loaded[i])
  BY <1>4 DEF IsProjected
<1>. DEFINE S == {m \in 0 .. N : TablesOK(run[m])}
<1>6. 0 \in S
  BY <1>5, NewFeedOK
<1>7. ASSUME NEW m \in 0 .. N, m \in S, m < N PROVE m + 1 \in S
  <2>1. m + 1 \in 0 .. N /\ m + 1 # 0 /\ (m + 1) - 1 = m /\ m + 1 \in 1 .. N
    BY <1>7
  <2>2. run[m + 1] = Project(run[m], Loaded[m + 1]) /\ Loaded[m + 1] \in Pub
    BY <1>1, <1>2, <1>5, <2>1
  <2>3. TablesOK(run[m + 1])
    BY <1>7, <2>2, ProjectStep DEF Step
  <2>. QED  BY <2>1, <2>3
<1>8. \A n \in 0 .. N : n \in S /\ n < N => n + 1 \in S
  BY <1>7
<1>9. N \in S
  <2>. HIDE DEF S
  <2>. QED  BY <1>6, <1>8, CountUp
<1>10. feed = run[N]
  BY <1>2, <1>3 DEF FeedInit, IsProjected
<1>. QED  BY <1>9, <1>10

-----------------------------------------------------------------------------
\* Deletions.

\* What the removed intervals of a publication end at.
EndsOf(spans) == {IF s.end = Open THEN s.start ELSE s.end : s \in spans}

LEMMA PurgeStep ==
    ASSUME NEW f, TablesOK(f), NEW p \in Pub PROVE Step(f, Purge(f, p))
<1>1. p[1] \in Card /\ p # None
  BY PubFields
<1>2. PICK k : k = KeepReference(f, p)
  OBVIOUS
<1>3. Step(f, k) /\ TablesOK(k)
  BY <1>2, KeepReferenceStep DEF Step
<1>4. PICK t : t = IF k.head[p[1]].pub = p /\ k.head[p[1]].active THEN Transition(k, p, FALSE) ELSE k
  OBVIOUS
<1>5. Step(k, t) /\ (t.head[p[1]].pub = p => ~t.head[p[1]].active)
  <2>1. CASE k.head[p[1]].pub = p /\ k.head[p[1]].active
    BY <1>3, <1>4, <2>1, TransitionStep
  <2>2. CASE ~(k.head[p[1]].pub = p /\ k.head[p[1]].active)
    BY <1>3, <1>4, <2>2, StepSame
  <2>. QED  BY <2>1, <2>2
<1>6. TablesOK(t) /\ t \in Tables /\ SpansOK(t) /\ LogOK(t)
  BY <1>5 DEF Step, TablesOK
<1>7. /\ t.high \in Nat /\ t.floor \in Nat /\ t.floor <= t.high /\ t.spans \subseteq Span
      /\ t.rows \subseteq Pub /\ t.retracted \subseteq Pub
  BY <1>6, TablesFields DEF LogOK
<1>8. PICK mine : mine = {s \in t.spans : s.pub = p}
  OBVIOUS
<1>9. \A s \in mine : s.end # Open /\ s.end \in Nat /\ s.end <= t.high
  BY <1>5, <1>6, <1>7, <1>8 DEF SpansOK, Span
<1>10. PICK seqs : seqs = EndsOf(mine)
  OBVIOUS
<1>11. \A x : x \in seqs <=> \E s \in mine : x = s.end
  BY <1>9, <1>10 DEF EndsOf
<1>12. seqs \in SUBSET Nat /\ \A x \in seqs : x <= t.high
  BY <1>9, <1>11
<1>13. PICK l : l = Floor(t, seqs)
  OBVIOUS
<1>14. /\ l \in Tables
       /\ l.high = t.high /\ l.spans = t.spans /\ l.log = t.log /\ l.head = t.head
       /\ l.marked = t.marked /\ l.latch = t.latch
       /\ t.floor <= l.floor /\ l.floor <= l.high /\ \A x \in seqs : x <= l.floor
  BY <1>6, <1>7, <1>12, <1>13, FloorFields
<1>15. PICK q : q = IF t.head[p[1]].pub = p THEN None ELSE t.head[p[1]].pub
  OBVIOUS
<1>16. PICK h : h = [l.head EXCEPT ![p[1]] = [l.head[p[1]] EXCEPT !.pub = q]]
  OBVIOUS
<1>17. l.head \in [Card -> HeadRow] /\ l.head[p[1]] \in HeadRow /\ q \in Pub \cup {None}
  <2>1. l.head \in [Card -> HeadRow]
    BY <1>14, TablesFields
  <2>2. t.head[p[1]] \in HeadRow
    BY <1>1, <1>14, <2>1
  <2>. QED  BY <1>1, <1>14, <1>15, <2>1, <2>2 DEF HeadRow
<1>18. PICK r : r = [l.head[p[1]] EXCEPT !.pub = q]
  OBVIOUS
<1>19. r \in HeadRow /\ r.pub = q /\ r.active = l.head[p[1]].active
  BY <1>17, <1>18 DEF HeadRow
<1>20. h \in [Card -> HeadRow] /\ h[p[1]] = r /\ \A d \in Card \ {p[1]} : h[d] = l.head[d]
  BY <1>1, <1>16, <1>17, <1>18, <1>19
<1>21. PICK g : g = [l EXCEPT !.rows = t.rows \ {p}, !.retracted = t.retracted \ {p},
                              !.spans = t.spans \ mine, !.head = h]
  OBVIOUS
<1>22. Purge(f, p) = g
  <2>1. EndsOf(mine) = {IF s.end = Open THEN s.start ELSE s.end : s \in mine}
    BY DEF EndsOf
  <2>2. l = Floor(t, {IF s.end = Open THEN s.start ELSE s.end : s \in mine})
    BY <1>10, <1>13, <2>1
  <2>3. l = Floor(t, {IF s.end = Open THEN s.start ELSE s.end : s \in {x \in t.spans : x.pub = p}})
    BY <1>8, <2>2
  <2>4. Purge(f, p) = [Floor(t, {IF s.end = Open THEN s.start ELSE s.end : s \in {x \in t.spans : x.pub = p}}) EXCEPT
                         !.rows = t.rows \ {p}, !.retracted = t.retracted \ {p},
                         !.spans = t.spans \ {x \in t.spans : x.pub = p},
                         !.head[p[1]].pub = IF t.head[p[1]].pub = p THEN None ELSE t.head[p[1]].pub]
    BY <1>2, <1>4 DEF Purge
  <2>5. Purge(f, p) = [l EXCEPT !.rows = t.rows \ {p}, !.retracted = t.retracted \ {p},
                                !.spans = t.spans \ mine, !.head[p[1]].pub = q]
    BY <1>8, <1>15, <2>3, <2>4
  <2>. QED  BY <1>16, <1>21, <2>5
<1>23. /\ g.high = l.high /\ g.floor = l.floor /\ g.spans = t.spans \ mine /\ g.log = l.log /\ g.head = h
       /\ g.marked = l.marked /\ g.latch = l.latch
  BY <1>14, <1>21 DEF Tables
<1>24. g \in Tables
  BY <1>7, <1>14, <1>20, <1>21 DEF Tables
<1>25. \A c \in Card : /\ g.head[c].active = t.head[c].active
                       /\ g.head[c].pub = t.head[c].pub \/ (g.head[c].pub = None /\ ~t.head[c].active)
  BY <1>5, <1>14, <1>15, <1>19, <1>20, <1>23
<1>26. \A c \in Card : Kept(t, c) => Kept(g, c)
  BY <1>14, <1>23 DEF Kept
<1>27. \A s \in t.spans \ g.spans : s.end # Open /\ s.end <= g.floor
  BY <1>9, <1>11, <1>14, <1>23
<1>28. Edits(t, g)
  <2>1. g.high = t.high /\ t.floor <= g.floor /\ g.floor <= g.high
    BY <1>14, <1>23
  <2>2. g.spans \subseteq t.spans /\ g.log \subseteq t.log /\ t.log \ g.log = {}
    BY <1>14, <1>23
  <2>. QED  BY <1>24, <1>25, <1>26, <1>27, <2>1, <2>2 DEF Edits
<1>29. Step(t, g)
  BY <1>6, <1>28, EditStep
<1>. QED  BY <1>3, <1>5, <1>22, <1>29, StepChain

\* The rows of the log and the closed intervals that are removed with the floor.
LEMMA RemoveStep ==
    ASSUME NEW f, TablesOK(f), NEW l \in Tables,
           l.high = f.high, l.spans = f.spans, l.log = f.log, l.head = f.head,
           l.marked = f.marked, l.latch = f.latch, f.floor <= l.floor, l.floor <= l.high,
           NEW changes \in SUBSET f.log, NEW closed \in SUBSET f.spans,
           \A e \in changes : e.at <= l.floor,
           \A s \in closed : s.end # Open /\ s.end <= l.floor
    PROVE  Step(f, [l EXCEPT !.log = f.log \ changes, !.spans = f.spans \ closed])
<1>1. PICK g : g = [l EXCEPT !.log = f.log \ changes, !.spans = f.spans \ closed]
  OBVIOUS
<1>2. f.log \subseteq Change /\ f.spans \subseteq Span
  BY TablesFields DEF TablesOK
<1>3. /\ g.high = l.high /\ g.floor = l.floor /\ g.head = l.head /\ g.marked = l.marked
      /\ g.latch = l.latch /\ g.log = f.log \ changes /\ g.spans = f.spans \ closed
  BY <1>1 DEF Tables
<1>4. g \in Tables
  BY <1>1, <1>2 DEF Tables
<1>5. \A c \in Card : Kept(f, c) => Kept(g, c)
  BY <1>3 DEF Kept
<1>6. g.spans \subseteq f.spans /\ \A s \in f.spans \ g.spans : s.end # Open /\ s.end <= g.floor
  BY <1>3
<1>7. g.log \subseteq f.log /\ \A e \in f.log \ g.log : e.at <= g.floor
  BY <1>3
<1>8. Edits(f, g)
  BY <1>3, <1>4, <1>5, <1>6, <1>7 DEF Edits
<1>. QED  BY <1>1, <1>8, EditStep

\* The actions on the tables.
LEMMA TurnStep ==
    ASSUME NEW f, TablesOK(f), NEW late, Turn(f, late) PROVE Step(f, feed')
<1>1. PICK heads : heads = Heads(f)
  OBVIOUS
<1>2. PICK last \in heads \cup {0} : feed' = Rotate(f, heads, last)
  BY <1>1 DEF Turn
<1>3. heads \in SUBSET Card /\ \A c \in heads : f.head[c].pub # None
  BY <1>1 DEF Heads, FirstOf
<1>. QED  BY <1>2, <1>3, RotateStep

LEMMA SyncTurnStep ==
    ASSUME TablesOK(feed), SyncTurn PROVE Step(feed, feed')
<1>1. CASE Turn(feed, TRUE)
  BY <1>1, TurnStep
<1>2. CASE \E r \in Pub \cup (Card \X {None}) : Turn(Project(feed, r), TRUE)
  <2>1. PICK r \in Pub \cup (Card \X {None}) : Turn(Project(feed, r), TRUE)
    BY <1>2
  <2>2. PICK f : f = Project(feed, r)
    OBVIOUS
  <2>3. Step(feed, f) /\ TablesOK(f)
    BY <2>2, ProjectStep DEF Step
  <2>4. Step(f, feed')
    BY <2>1, <2>2, <2>3, TurnStep
  <2>. QED  BY <2>3, <2>4, StepChain
<1>. QED  BY <1>1, <1>2 DEF SyncTurn

LEMMA CleanupStep ==
    ASSUME TablesOK(feed), CleanupAny PROVE Step(feed, feed')
<1>1. PICK k, old : old \in (feed.rows \cap aged) \cup {None} /\ Cleanup(k, old)
  BY DEF CleanupAny
<1>2. PICK f : f = feed
  OBVIOUS
<1>3. TablesOK(f) /\ f \in Tables /\ SpansOK(f) /\ LogOK(f)
  BY <1>2 DEF TablesOK
<1>4. /\ f.high \in Nat /\ f.floor \in Nat /\ f.floor <= f.high /\ f.spans \subseteq Span
      /\ f.log \subseteq Change /\ f.rows \subseteq Pub
  BY <1>3, TablesFields DEF LogOK
<1>5. PICK changes : changes = {e \in f.log : e.at <= k}
  OBVIOUS
<1>6. PICK closed : closed = {s \in f.spans : s.end # Open /\ s.end <= k}
  OBVIOUS
<1>7. PICK ats : ats = {e.at : e \in changes}
  OBVIOUS
<1>8. PICK ends : ends = {s.end : s \in closed}
  OBVIOUS
<1>9. ats \in SUBSET Nat /\ \A x \in ats : x <= f.high
  BY <1>3, <1>4, <1>5, <1>7 DEF LogOK, Change
<1>10. ends \in SUBSET Nat /\ \A x \in ends : x <= f.high
  BY <1>3, <1>4, <1>6, <1>8 DEF SpansOK, Span
<1>11. PICK m : m = Floor(f, ats)
  OBVIOUS
<1>12. /\ m \in Tables
       /\ m.high = f.high /\ m.spans = f.spans /\ m.log = f.log /\ m.head = f.head
       /\ m.marked = f.marked /\ m.latch = f.latch
       /\ f.floor <= m.floor /\ m.floor <= m.high /\ \A x \in ats : x <= m.floor
  BY <1>3, <1>4, <1>9, <1>11, FloorFields
<1>13. PICK l : l = Floor(m, ends)
  OBVIOUS
<1>14. /\ l \in Tables
       /\ l.high = m.high /\ l.spans = m.spans /\ l.log = m.log /\ l.head = m.head
       /\ l.marked = m.marked /\ l.latch = m.latch
       /\ m.floor <= l.floor /\ l.floor <= l.high /\ \A x \in ends : x <= l.floor
  BY <1>10, <1>12, <1>13, FloorFields
<1>15. m.floor \in Nat /\ l.floor \in Nat
  BY <1>12, <1>14, TablesFields
<1>16. /\ l.high = f.high /\ l.spans = f.spans /\ l.log = f.log /\ l.head = f.head
       /\ l.marked = f.marked /\ l.latch = f.latch /\ f.floor <= l.floor
  BY <1>4, <1>12, <1>14, <1>15
<1>17. changes \in SUBSET f.log /\ closed \in SUBSET f.spans
  BY <1>5, <1>6
<1>18. \A e \in changes : e.at <= l.floor
  <2>1. SUFFICES ASSUME NEW e \in changes PROVE e.at <= l.floor
    OBVIOUS
  <2>2. e.at \in ats /\ e.at \in Nat
    BY <1>7, <1>9
  <2>. QED  BY <1>12, <1>14, <1>15, <2>2
<1>19. \A s \in closed : s.end # Open /\ s.end <= l.floor
  BY <1>6, <1>8, <1>14
<1>20. PICK g : g = [l EXCEPT !.log = f.log \ changes, !.spans = f.spans \ closed]
  OBVIOUS
<1>21. Step(f, g)
  BY <1>3, <1>14, <1>16, <1>17, <1>18, <1>19, <1>20, RemoveStep
<1>22. feed' = IF old = None THEN g ELSE Purge(g, old)
  BY <1>1, <1>2, <1>5, <1>6, <1>7, <1>8, <1>11, <1>13, <1>20 DEF Cleanup
<1>23. TablesOK(g)
  BY <1>21 DEF Step
<1>24. CASE old = None
  BY <1>2, <1>21, <1>22, <1>24
<1>25. CASE old # None
  <2>1. old \in Pub
    BY <1>1, <1>2, <1>4, <1>25
  <2>2. Step(g, Purge(g, old))
    BY <1>23, <2>1, PurgeStep
  <2>3. feed' = Purge(g, old)
    BY <1>22, <1>25
  <2>. QED  BY <1>2, <1>3, <1>21, <2>2, <2>3, StepChain
<1>. QED  BY <1>24, <1>25

LEMMA PurgeChangeStep ==
    ASSUME NEW f, TablesOK(f), NEW g \in PurgeChange(f) PROVE Step(f, g)
<1>1. CASE g = f
  BY <1>1, StepSame
<1>2. CASE \E e \in f.log : g = [Floor(f, {e.at}) EXCEPT !.log = f.log \ {e}]
  <2>1. PICK e \in f.log : g = [Floor(f, {e.at}) EXCEPT !.log = f.log \ {e}]
    BY <1>2
  <2>2. f \in Tables /\ LogOK(f) /\ f.log \subseteq Change /\ f.high \in Nat /\ f.floor <= f.high
    BY TablesFields DEF TablesOK, LogOK
  <2>3. PICK ats : ats = {e.at}
    OBVIOUS
  <2>4. ats \in SUBSET Nat /\ \A x \in ats : x <= f.high
    BY <2>2, <2>3 DEF LogOK
  <2>5. PICK l : l = Floor(f, ats)
    OBVIOUS
  <2>6. /\ l \in Tables
        /\ l.high = f.high /\ l.spans = f.spans /\ l.log = f.log /\ l.head = f.head
        /\ l.marked = f.marked /\ l.latch = f.latch
        /\ f.floor <= l.floor /\ l.floor <= l.high /\ \A x \in ats : x <= l.floor
    BY <2>2, <2>4, <2>5, FloorFields
  <2>7. g = [l EXCEPT !.log = f.log \ {e}]
    BY <2>1, <2>3, <2>5
  <2>8. /\ g.high = l.high /\ g.floor = l.floor /\ g.head = l.head /\ g.marked = l.marked
        /\ g.latch = l.latch /\ g.log = f.log \ {e} /\ g.spans = l.spans
    BY <2>6, <2>7 DEF Tables
  <2>9. g \in Tables
    BY <2>2, <2>6, <2>7 DEF Tables
  <2>10. \A c \in Card : Kept(f, c) => Kept(g, c)
    BY <2>6, <2>8 DEF Kept
  <2>11. g.log \subseteq f.log /\ \A x \in f.log \ g.log : x.at <= g.floor
    BY <2>3, <2>6, <2>8
  <2>12. Edits(f, g)
    BY <2>6, <2>8, <2>9, <2>10, <2>11 DEF Edits
  <2>. QED  BY <2>12, EditStep
<1>. QED  BY <1>1, <1>2 DEF PurgeChange

LEMMA PurgeMarkStep ==
    ASSUME NEW f, TablesOK(f), NEW g \in PurgeMark(f) PROVE Step(f, g)
<1>1. CASE g = f
  BY <1>1, StepSame
<1>2. CASE \E c \in Card : g = [Latched(f) EXCEPT !.marked[c] = {}]
  <2>1. PICK c \in Card : g = [Latched(f) EXCEPT !.marked[c] = {}]
    BY <1>2
  <2>2. PICK l : l = Latched(f)
    OBVIOUS
  <2>3. Step(f, l) /\ l.latch /\ TablesOK(l) /\ l \in Tables
    BY <2>2, LatchedStep DEF Step, TablesOK
  <2>4. g = [l EXCEPT !.marked[c] = {}]
    BY <2>1, <2>2
  <2>5. /\ g.high = l.high /\ g.floor = l.floor /\ g.spans = l.spans /\ g.log = l.log /\ g.head = l.head
        /\ g.latch = l.latch
    BY <2>3, <2>4 DEF Tables
  <2>6. g \in Tables
    BY <2>3, <2>4 DEF Tables
  <2>7. \A d \in Card : Kept(g, d)
    BY <2>3, <2>5 DEF Kept
  <2>8. Step(l, g)
    BY <2>3, <2>5, <2>6, <2>7, MarksStep
  <2>. QED  BY <2>3, <2>8, StepChain
<1>. QED  BY <1>1, <1>2 DEF PurgeMark

LEMMA PurgeReferenceStep ==
    ASSUME NEW f, TablesOK(f), NEW g \in PurgeReference(f) PROVE Step(f, g)
<1>1. CASE g = f
  BY <1>1, StepSame
<1>2. CASE \E p : g = [Latched(f) EXCEPT !.refs = f.refs \ {p}]
  <2>1. PICK p : g = [Latched(f) EXCEPT !.refs = f.refs \ {p}]
    BY <1>2
  <2>2. PICK l : l = Latched(f)
    OBVIOUS
  <2>3. Step(f, l) /\ l.latch /\ TablesOK(l) /\ l \in Tables
    BY <2>2, LatchedStep DEF Step, TablesOK
  <2>4. g = [l EXCEPT !.refs = f.refs \ {p}]
    BY <2>1, <2>2
  <2>5. /\ g.high = l.high /\ g.floor = l.floor /\ g.spans = l.spans /\ g.log = l.log /\ g.head = l.head
        /\ g.latch = l.latch
    BY <2>3, <2>4 DEF Tables
  <2>6. f.refs \ {p} \subseteq Pub
    BY TablesFields DEF TablesOK
  <2>7. g \in Tables
    BY <2>3, <2>4, <2>6 DEF Tables
  <2>8. \A d \in Card : Kept(g, d)
    BY <2>3, <2>5 DEF Kept
  <2>9. Step(l, g)
    BY <2>3, <2>5, <2>7, <2>8, MarksStep
  <2>. QED  BY <2>3, <2>9, StepChain
<1>. QED  BY <1>1, <1>2 DEF PurgeReference

LEMMA PolicyPurgeStep ==
    ASSUME TablesOK(feed), PolicyPurge PROVE Step(feed, feed')
<1>1. PICK f, g, h : /\ f \in PurgeChange(feed) /\ g \in PurgeRow(f) /\ h \in PurgeMark(g)
                     /\ \E i \in PurgeReference(h) \ {feed} : feed' = i
  BY DEF PolicyPurge
<1>2. feed' \in PurgeReference(h)
  BY <1>1
<1>3. Step(feed, f) /\ TablesOK(f)
  BY <1>1, PurgeChangeStep DEF Step
<1>4. Step(f, g) /\ TablesOK(g)
  <2>1. f.rows \subseteq Pub
    BY <1>3, TablesFields DEF TablesOK
  <2>2. g = f \/ \E p \in f.rows : g = Purge(f, p)
    BY <1>1 DEF PurgeRow
  <2>3. Step(f, g)
    BY <1>3, <2>1, <2>2, StepSame, PurgeStep
  <2>. QED  BY <2>3 DEF Step
<1>5. Step(g, h) /\ TablesOK(h)
  BY <1>1, <1>4, PurgeMarkStep DEF Step
<1>6. Step(h, feed')
  BY <1>2, <1>5, PurgeReferenceStep
<1>7. Step(feed, g)
  BY <1>3, <1>4, StepChain
<1>8. Step(feed, h)
  BY <1>5, <1>7, StepChain
<1>. QED  BY <1>6, <1>8, StepChain

LEMMA RetractStep ==
    ASSUME TablesOK(feed), NEW c \in Card, Retract(c)
    PROVE  Step(feed, feed') /\ Kept(feed', c) /\ ~feed'.head[c].active
<1>. DEFINE all == {SourceOf[p[2]] : p \in {x \in feed.rows : x[1] = c} \cup {x \in feed.refs : x[1] = c}}
<1>0. PICK sources : sources = all
  OBVIOUS
<1>1. sources \in SUBSET Source
  BY <1>0, PubFields, TablesFields DEF TablesOK
<1>a. PICK m : m = KeepMark(feed, c, sources)
  OBVIOUS
<1>b. LET r == [m EXCEPT !.retracted = m.retracted \cup {p \in feed.rows : p[1] = c}]
          t == IF r.head[c].pub = None THEN r ELSE Transition(r, r.head[c].pub, FALSE)
      IN  feed' = IF authority.journal THEN Latched(t) ELSE t
  <2>1. LET r == [KeepMark(feed, c, all) EXCEPT
                    !.retracted = KeepMark(feed, c, all).retracted \cup {p \in feed.rows : p[1] = c}]
            t == IF r.head[c].pub = None THEN r ELSE Transition(r, r.head[c].pub, FALSE)
        IN  feed' = IF authority.journal THEN Latched(t) ELSE t
    BY DEF Retract
  <2>. HIDE DEF all
  <2>. QED  BY <1>0, <1>a, <2>1
<1>. HIDE DEF all
<1>2. Step(feed, m) /\ Kept(m, c) /\ TablesOK(m) /\ m \in Tables
  BY <1>1, <1>a, KeepMarkStep DEF Step, TablesOK
<1>3. PICK rows : rows = m.retracted \cup {p \in feed.rows : p[1] = c}
  OBVIOUS
<1>4. rows \subseteq Pub
  BY <1>2, <1>3, TablesFields DEF TablesOK
<1>5. PICK r : r = [m EXCEPT !.retracted = rows]
  OBVIOUS
<1>6. /\ r.high = m.high /\ r.floor = m.floor /\ r.spans = m.spans /\ r.log = m.log /\ r.head = m.head
      /\ r.marked = m.marked /\ r.latch = m.latch
  BY <1>2, <1>5 DEF Tables
<1>7. r \in Tables
  BY <1>2, <1>4, <1>5 DEF Tables
<1>8. \A d \in Card : Kept(m, d) <=> Kept(r, d)
  BY <1>6 DEF Kept
<1>9. Step(m, r) /\ TablesOK(r) /\ Kept(r, c)
  BY <1>2, <1>6, <1>7, <1>8, MarksStep DEF Step
<1>10. PICK t : t = IF r.head[c].pub = None THEN r ELSE Transition(r, r.head[c].pub, FALSE)
  OBVIOUS
<1>11. Step(r, t) /\ ~t.head[c].active
  <2>1. CASE r.head[c].pub = None
    <3>1. ~r.head[c].active
      <4>1. r.spans \subseteq Span /\ None \notin Pub
        BY <1>7, TablesFields, FeedAssumption
      <4>2. \A s \in r.spans : s.pub # None
        BY <4>1 DEF Span
      <4>. QED  BY <1>9, <2>1, <4>2 DEF TablesOK, HeadsOK
    <3>. QED  BY <1>9, <1>10, <2>1, <3>1, StepSame
  <2>2. CASE r.head[c].pub # None
    <3>1. r.head[c].pub \in Pub /\ r.head[c].pub[1] = c
      BY <1>9, <2>2, HeadPub
    <3>2. PICK p \in Pub : p = r.head[c].pub /\ p[1] = c
      BY <3>1
    <3>3. t = Transition(r, p, FALSE)
      BY <1>10, <2>2, <3>2
    <3>4. Step(r, Transition(r, p, FALSE)) /\ ~Transition(r, p, FALSE).head[p[1]].active
      BY <1>9, TransitionStep
    <3>. QED  BY <3>2, <3>3, <3>4
  <2>. QED  BY <2>1, <2>2
<1>12. TablesOK(t) /\ Kept(t, c)
  BY <1>9, <1>11 DEF Step, Grows
<1>13. feed' = IF authority.journal THEN Latched(t) ELSE t
  BY <1>b, <1>3, <1>5, <1>10
<1>14. Step(t, feed') /\ ~feed'.head[c].active
  BY <1>11, <1>12, <1>13, StepSame, LatchedStep
<1>15. Kept(feed', c)
  BY <1>12, <1>14 DEF Step, Grows
<1>16. Step(feed, r)
  BY <1>2, <1>9, StepChain
<1>17. Step(feed, t)
  BY <1>11, <1>16, StepChain
<1>. QED  BY <1>14, <1>15, <1>17, StepChain

-----------------------------------------------------------------------------
\* What an action on the tables leaves true.

\* Versions of the feature only grow.
FeatureGrows == features'[FeedFeature].version >= features[FeedFeature].version

LEMMA RecordTypes ==
    ASSUME RightsTypeOK, NEW s \in Source, NEW uses \in Grant, Record(s, uses)
    PROVE  RightsTypeOK' /\ FeatureGrows
<1>1. /\ features \in [Feature -> [on: BOOLEAN, version: Nat]]
      /\ grants \in [Source -> [row: Nat, uses: Grant]]
      /\ authority \in [journal: BOOLEAN, withheld: BOOLEAN]
  BY DEF RightsTypeOK
<1>2. /\ features' = features
      /\ grants' = [grants EXCEPT ![s] = [row |-> grants[s].row + 1, uses |-> uses]]
      /\ authority' = [authority EXCEPT !.withheld =
                          authority.withheld \/ (authority.journal /\ Denial(uses))]
  BY DEF Record
<1>3. PICK n : n = grants[s].row + 1
  OBVIOUS
<1>4. n \in Nat
  BY <1>1, <1>3
<1>5. grants' \in [Source -> [row: Nat, uses: Grant]]
  BY <1>1, <1>2, <1>3, <1>4
<1>6. PICK w \in BOOLEAN : w = (authority.withheld \/ (authority.journal /\ Denial(uses)))
  OBVIOUS
<1>7. authority' = [authority EXCEPT !.withheld = w]
  BY <1>2, <1>6
<1>8. authority' \in [journal: BOOLEAN, withheld: BOOLEAN]
  BY <1>1, <1>6, <1>7
<1>9. FeatureGrows
  BY <1>1, <1>2, FeedAssumption DEF FeatureGrows
<1>. QED  BY <1>1, <1>2, <1>5, <1>8, <1>9 DEF RightsTypeOK

LEMMA SwitchTypes ==
    ASSUME RightsTypeOK, Switch(FeedFeature) PROVE RightsTypeOK' /\ FeatureGrows
<1>1. features \in [Feature -> [on: BOOLEAN, version: Nat]] /\ FeedFeature \in Feature
  BY FeedAssumption DEF RightsTypeOK
<1>2. PICK v : v = features[FeedFeature].version + 1
  OBVIOUS
<1>3. PICK o \in BOOLEAN : o = ~features[FeedFeature].on
  OBVIOUS
<1>4. features' = [features EXCEPT ![FeedFeature] = [on |-> o, version |-> v]]
  BY <1>2, <1>3 DEF Switch
<1>5. features[FeedFeature].version \in Nat /\ v \in Nat
  BY <1>1, <1>2
<1>6. features' \in [Feature -> [on: BOOLEAN, version: Nat]]
  BY <1>1, <1>3, <1>4, <1>5
<1>7. features'[FeedFeature].version = v
  BY <1>1, <1>4
<1>8. FeatureGrows
  BY <1>2, <1>5, <1>7 DEF FeatureGrows
<1>9. grants' = grants /\ authority' = authority
  BY DEF Switch
<1>. QED  BY <1>6, <1>8, <1>9 DEF RightsTypeOK

LEMMA SameRights ==
    ASSUME RightsTypeOK, UNCHANGED features, UNCHANGED grants, authority' \in [journal: BOOLEAN, withheld: BOOLEAN]
    PROVE  RightsTypeOK' /\ FeatureGrows
<1>1. features[FeedFeature].version \in Nat
  BY FeedAssumption DEF RightsTypeOK
<1>. QED  BY <1>1 DEF RightsTypeOK, FeatureGrows

\* The cards explicitly retracted stay so, and no cursor moves.
TablesKeep ==
    /\ Step(feed, feed') /\ RightsTypeOK' /\ FeatureGrows
    /\ aged' \subseteq Pub /\ told' \subseteq Card /\ UNCHANGED clients
    /\ \A c \in told' : c \in told \/ (Kept(feed', c) /\ ~feed'.head[c].active)

LEMMA TablesNextKeeps ==
    ASSUME RightsTypeOK, TablesOK(feed), aged \subseteq Pub, told \subseteq Card, TablesNext
    PROVE  TablesKeep
<1>1. authority \in [journal: BOOLEAN, withheld: BOOLEAN]
  BY DEF RightsTypeOK
<1>2. CASE SyncTurn
  <2>1. UNCHANGED <<features, grants, authority, clients, aged, told>>
    BY <1>2 DEF SyncTurn, Turn, rights
  <2>2. Step(feed, feed')
    BY <1>2, SyncTurnStep
  <2>3. RightsTypeOK' /\ FeatureGrows
    BY <1>1, <2>1, SameRights
  <2>. QED  BY <2>1, <2>2, <2>3 DEF TablesKeep
<1>3. CASE CleanupAny
  <2>1. UNCHANGED <<features, grants, authority, clients, aged, told>>
    BY <1>3 DEF CleanupAny, Cleanup, rights
  <2>2. Step(feed, feed')
    BY <1>3, CleanupStep
  <2>3. RightsTypeOK' /\ FeatureGrows
    BY <1>1, <2>1, SameRights
  <2>. QED  BY <2>1, <2>2, <2>3 DEF TablesKeep
<1>4. CASE PolicyPurge
  <2>1. UNCHANGED <<features, grants, authority, clients, aged, told>>
    BY <1>4 DEF PolicyPurge, rights
  <2>2. Step(feed, feed')
    BY <1>4, PolicyPurgeStep
  <2>3. RightsTypeOK' /\ FeatureGrows
    BY <1>1, <2>1, SameRights
  <2>. QED  BY <2>1, <2>2, <2>3 DEF TablesKeep
<1>5. CASE \E c \in Card : Retract(c)
  <2>1. PICK c \in Card : Retract(c)
    BY <1>5
  <2>2. UNCHANGED <<features, grants, clients, aged>> /\ told' = told \cup {c}
    BY <2>1 DEF Retract
  <2>3. Step(feed, feed') /\ Kept(feed', c) /\ ~feed'.head[c].active
    BY <2>1, RetractStep
  <2>4. PICK w \in BOOLEAN : w = (authority.withheld \/ authority.journal)
    OBVIOUS
  <2>5. authority' = [authority EXCEPT !.withheld = w]
    BY <2>1, <2>4 DEF Retract
  <2>6. authority' \in [journal: BOOLEAN, withheld: BOOLEAN]
    BY <1>1, <2>4, <2>5
  <2>7. RightsTypeOK' /\ FeatureGrows
    BY <2>2, <2>6, SameRights
  <2>. QED  BY <2>2, <2>3, <2>7 DEF TablesKeep
<1>6. CASE FeedRights
  <2>1. UNCHANGED <<clients, aged, told>>
    BY <1>6 DEF FeedRights
  <2>2. CASE Switch(FeedFeature) /\ UNCHANGED feed
    BY <2>1, <2>2, SwitchTypes, StepSame DEF TablesKeep
  <2>3. CASE \E s \in Source, uses \in Grant :
               Record(s, uses) /\ (feed' = feed \/ feed' = Latched(feed))
    <3>1. RightsTypeOK' /\ FeatureGrows
      BY <2>3, RecordTypes
    <3>2. Step(feed, feed')
      BY <2>3, StepSame, LatchedStep
    <3>. QED  BY <2>1, <3>1, <3>2 DEF TablesKeep
  <2>. QED  BY <1>6, <2>2, <2>3 DEF FeedRights
<1>7. CASE \E p \in Pub : Age(p)
  <2>1. PICK p \in Pub : Age(p)
    BY <1>7
  <2>2. UNCHANGED <<features, grants, authority, feed, clients, told>> /\ aged' = aged \cup {p}
    BY <2>1 DEF Age, rights
  <2>3. RightsTypeOK' /\ FeatureGrows
    BY <1>1, <2>2, SameRights
  <2>4. Step(feed, feed')
    BY <2>2, StepSame
  <2>. QED  BY <2>2, <2>3, <2>4 DEF TablesKeep
<1>. QED  BY <1>2, <1>3, <1>4, <1>5, <1>6, <1>7 DEF TablesNext

LEMMA CursorFields ==
    ASSUME NEW k \in Cursor
    PROVE  /\ k.mode \in {"none", "snapshot", "delta"} /\ k.high \in Nat /\ k.after \in Nat
           /\ k.key \in Nat /\ k.version \in Nat /\ Position(k) \in Nat
           /\ k.view \in [Card -> Pub \cup {None}] /\ k.masked \subseteq Card
<1>1. k.high \in Nat /\ k.after \in Nat
  BY DEF Cursor
<1>. QED  BY <1>1 DEF Cursor, Position

\* A cursor that is still accepted stands for the same cards as before.
LEMMA TablesKeepCursor ==
    ASSUME RightsTypeOK, TablesOK(feed), TablesKeep, NEW k \in Cursor, ClientOK(k)
    PROVE  ClientOK(k)'
<1>. SUFFICES ASSUME k.mode # "none"
              PROVE  /\ Position(k) <= feed'.high /\ k.version <= features'[FeedFeature].version
                     /\ k.mode = "snapshot" => \A c \in Card : c > k.key => k.view[c] = None
                     /\ Accepted(k)' => \A c \in Card : k.mode = "delta" \/ c <= k.key => ExactAt(feed', k, c)
  BY DEF ClientOK
<1>1. TablesOK(feed') /\ Grows(feed, feed') /\ RightsTypeOK' /\ FeatureGrows
  BY DEF TablesKeep, Step
<1>2. /\ feed.high \in Nat /\ feed'.high \in Nat /\ feed.floor \in Nat /\ feed'.floor \in Nat
      /\ feed.high <= feed'.high /\ feed.floor <= feed'.floor
  BY <1>1, TablesFields DEF TablesOK, Grows
<1>3. /\ features[FeedFeature].version \in Nat /\ features'[FeedFeature].version \in Nat
      /\ features[FeedFeature].version <= features'[FeedFeature].version
  BY <1>1, FeedAssumption DEF RightsTypeOK, FeatureGrows
<1>4. k.version \in Nat /\ Position(k) \in Nat
  BY CursorFields
<1>5. Position(k) <= feed.high /\ k.version <= features[FeedFeature].version
  BY DEF ClientOK
<1>6. k.mode = "snapshot" => \A c \in Card : c > k.key => k.view[c] = None
  BY DEF ClientOK
<1>7. ASSUME Accepted(k)', NEW c \in Card, k.mode = "delta" \/ c <= k.key PROVE ExactAt(feed', k, c)
  <2>1. k.version = features'[FeedFeature].version /\ feed'.floor <= Position(k) /\ Position(k) <= feed'.high
    BY <1>7 DEF Accepted
  <2>2. Accepted(k)
    BY <1>2, <1>3, <1>4, <1>5, <2>1 DEF Accepted
  <2>3. ExactAt(feed, k, c)
    BY <1>7, <2>2 DEF ClientOK
  <2>4. Visible(feed', c, Position(k)) = Visible(feed, c, Position(k))
    BY <1>1, <1>4, <1>5, <2>1 DEF Grows
  <2>. QED  BY <2>3, <2>4 DEF ExactAt
<1>. QED  BY <1>2, <1>3, <1>4, <1>5, <1>6, <1>7

-----------------------------------------------------------------------------
\* A page.

\* Between two positions a card changes only where a row of the log says so.
LEMMA Quiet ==
    ASSUME NEW f, TablesOK(f), NEW c \in Card, NEW a \in Nat, NEW b \in Nat,
           f.floor <= a, b <= f.high, \A e \in f.log : a < e.at /\ e.at <= b => e.pub[1] # c
    PROVE  \A n \in a .. b : Visible(f, c, n) = Visible(f, c, a)
<1>. DEFINE S == {n \in a .. b : Visible(f, c, n) = Visible(f, c, a)}
<1>1. CASE a <= b
  <2>1. a \in S
    BY <1>1
  <2>2. ASSUME NEW n \in a .. b, n \in S, n < b PROVE n + 1 \in S
    <3>1. f.high \in Nat /\ f.floor \in Nat /\ f.log \subseteq Change /\ LogOK(f)
      BY TablesFields DEF TablesOK
    <3>2. n + 1 \in f.floor + 1 .. f.high /\ n + 1 \in a .. b /\ a < n + 1 /\ (n + 1) - 1 = n
      BY <2>2, <3>1
    <3>3. PICK e \in f.log : e.at = n + 1
      BY <3>1, <3>2 DEF LogOK
    <3>4. e.at > f.floor /\ a < e.at /\ e.at <= b
      BY <3>1, <3>2, <3>3
    <3>5. Tells(f, e) /\ e.pub[1] # c
      BY <3>1, <3>4 DEF LogOK
    <3>6. Visible(f, c, n + 1) = Visible(f, c, n)
      BY <3>2, <3>3, <3>5 DEF Tells
    <3>. QED  BY <2>2, <3>2, <3>6
  <2>3. \A n \in a .. b : n \in S /\ n < b => n + 1 \in S
    BY <2>2
  <2>4. \A n \in a .. b : n \in S
    <3>. HIDE DEF S
    <3>. QED  BY <2>1, <2>3, CountUp
  <2>. QED  BY <2>4
<1>2. CASE ~(a <= b)
  BY <1>2
<1>. QED  BY <1>1, <1>2

\* At a position a card has at most one revision.
LEMMA OneRevision ==
    ASSUME NEW f, TablesOK(f), NEW n \in Nat, NEW s \in f.spans, NEW t \in f.spans,
           s.pub[1] = t.pub[1], Covers(s, n), Covers(t, n)
    PROVE  s = t
<1>1. SpansOK(f) /\ f.spans \subseteq Span
  BY TablesFields DEF TablesOK
<1>2. s.start \in Nat /\ t.start \in Nat /\ s.end \in Nat /\ t.end \in Nat
  BY <1>1 DEF Span
<1>3. s.start <= n /\ t.start <= n /\ (s.end = Open \/ s.end > n) /\ (t.end = Open \/ t.end > n)
  BY DEF Covers
<1>4. s.start < t.start => s.end # Open /\ s.end <= t.start
  BY <1>1 DEF SpansOK
<1>5. t.start < s.start => t.end # Open /\ t.end <= s.start
  BY <1>1 DEF SpansOK
<1>6. s.start = t.start
  BY <1>2, <1>3, <1>4, <1>5
<1>. QED  BY <1>1, <1>6 DEF SpansOK

LEMMA ReceiveFields ==
    ASSUME NEW k \in Cursor, NEW got \in SUBSET Card, NEW record \in [got -> Pub \cup {None}]
    PROVE  LET g == Receive(k, record) IN
           /\ g \in Cursor
           /\ g.mode = k.mode /\ g.high = k.high /\ g.after = k.after /\ g.key = k.key
           /\ g.version = k.version
           /\ \A c \in got : \/ g.view[c] = record[c]
                             \/ g.view[c] = None /\ c \in g.masked
           /\ \A c \in Card \ got : g.view[c] = k.view[c] /\ (c \in k.masked => c \in g.masked)
<1>1. DOMAIN record = got
  OBVIOUS
<1>2. PICK lacks : lacks = {c \in got : record[c] # None /\ Shown(c, record[c]) = None}
  OBVIOUS
<1>3. PICK view : view = [c \in Card |-> IF c \in got THEN Shown(c, record[c]) ELSE k.view[c]]
  OBVIOUS
<1>4. PICK masked : masked = (k.masked \ got) \cup lacks
  OBVIOUS
<1>5. \A c \in got : Shown(c, record[c]) = None \/ Shown(c, record[c]) = record[c]
  BY DEF Shown
<1>6. view \in [Card -> Pub \cup {None}]
  BY <1>3, <1>5, CursorFields
<1>7. masked \subseteq Card
  BY <1>2, <1>4, CursorFields
<1>8. PICK g : g = [k EXCEPT !.view = view, !.masked = masked]
  OBVIOUS
<1>9. Receive(k, record) = g
  BY <1>1, <1>2, <1>3, <1>4, <1>8 DEF Receive
<1>10. /\ g.mode = k.mode /\ g.high = k.high /\ g.after = k.after /\ g.key = k.key
       /\ g.version = k.version /\ g.view = view /\ g.masked = masked
  BY <1>8 DEF Cursor
<1>11. g \in Cursor
  BY <1>6, <1>7, <1>8 DEF Cursor
<1>12. ASSUME NEW c \in got PROVE g.view[c] = record[c] \/ (g.view[c] = None /\ c \in g.masked)
  <2>1. g.view[c] = Shown(c, record[c])
    BY <1>3, <1>10
  <2>2. record[c] # None /\ Shown(c, record[c]) = None => c \in g.masked
    BY <1>2, <1>4, <1>10
  <2>. QED  BY <1>5, <2>1, <2>2
<1>13. \A c \in Card \ got : g.view[c] = k.view[c] /\ (c \in k.masked => c \in g.masked)
  BY <1>3, <1>4, <1>10
<1>. QED  BY <1>9, <1>10, <1>11, <1>12, <1>13

\* What a page says of a card is what the browser shows of it, or was refused.
LEMMA ReceivedExact ==
    ASSUME NEW f, NEW g, NEW c, NEW p, g.view[c] = p \/ (g.view[c] = None /\ c \in g.masked),
           Visible(f, c, Position(g)) = IF p = None THEN {} ELSE {p}
    PROVE  ExactAt(f, g, c)
<1>. QED  BY DEF ExactAt

\* A snapshot's cursor: its position, and what it shows up to its key.
Follows(k) ==
    /\ Accepted(k)
    /\ k.mode = "snapshot" => \A c \in Card : c > k.key => k.view[c] = None
    /\ \A c \in Card : k.mode = "delta" \/ c <= k.key => ExactAt(feed, k, c)

LEMMA FollowsIsOK ==
    ASSUME RightsTypeOK, NEW k, Follows(k) PROVE ClientOK(k)
<1>1. features[FeedFeature].version \in Nat
  BY FeedAssumption DEF RightsTypeOK
<1>. QED  BY <1>1 DEF Follows, ClientOK, Accepted

LEMMA SnapshotPageFollows ==
    ASSUME TablesOK(feed), NEW k \in Cursor, k.mode = "snapshot", Follows(k)
    PROVE  LET g == SnapshotPage(k) IN g \in Cursor /\ Follows(g)
<1>1. /\ feed \in Tables /\ feed.spans \subseteq Span /\ feed.floor \in Nat /\ feed.high \in Nat
  BY TablesFields DEF TablesOK
<1>2. /\ k.version = features[FeedFeature].version /\ feed.floor <= k.high /\ k.high <= feed.high
      /\ \A c \in Card : c > k.key => k.view[c] = None
      /\ \A c \in Card : c <= k.key => ExactAt(feed, k, c)
  BY DEF Follows, Accepted, Position
<1>3. k.high \in Nat /\ k.key \in Nat /\ k.version \in Nat
  BY CursorFields
<1>4. PICK found : found = {s \in feed.spans : s.pub[1] > k.key /\ Covers(s, k.high)}
  OBVIOUS
<1>5. PICK cards : cards = {s.pub[1] : s \in found}
  OBVIOUS
<1>6. cards \in SUBSET Nat /\ cards \in SUBSET Card /\ \A c \in cards : c > k.key
  BY <1>1, <1>4, <1>5, PubFields, CardIsNat DEF Span
<1>7. PICK page : page = FirstOf(cards, PageLimit)
  OBVIOUS
<1>8. /\ page \subseteq cards
      /\ \A x \in page, y \in cards : y <= x => y \in page
      /\ page # cards => Max(page) \in page /\ Max(page) \in Nat /\ \A x \in page : x <= Max(page)
  BY <1>6, <1>7, PageIsFirst, FeedAssumption
<1>9. PICK record : record = [c \in page |-> (CHOOSE s \in found : s.pub[1] = c).pub]
  OBVIOUS
<1>10. ASSUME NEW c \in page
       PROVE  record[c] \in Pub /\ record[c] # None /\ Visible(feed, c, k.high) = {record[c]}
  <2>1. PICK t : t = CHOOSE s \in found : s.pub[1] = c
    OBVIOUS
  <2>2. t \in found /\ t.pub[1] = c
    BY <1>5, <1>8, <2>1
  <2>3. t \in feed.spans /\ t.pub[1] = c /\ Covers(t, k.high)
    BY <1>4, <2>2
  <2>4. record[c] = t.pub /\ t.pub \in Pub
    BY <1>1, <1>9, <2>1, <2>3 DEF Span
  <2>5. t.pub \in Visible(feed, c, k.high)
    BY <2>3, VisibleIs
  <2>6. \A p \in Visible(feed, c, k.high) : p = t.pub
    BY <1>3, <2>3, VisibleIs, OneRevision
  <2>. QED  BY <2>4, <2>5, <2>6, FeedAssumption
<1>11. \A c \in Card : c > k.key /\ c \notin cards => Visible(feed, c, k.high) = {}
  BY <1>4, <1>5, VisibleIs
<1>12. record \in [page -> Pub \cup {None}]
  BY <1>9, <1>10
<1>13. page \in SUBSET Card
  BY <1>6, <1>8
<1>14. PICK got : got = Receive(k, record)
  OBVIOUS
<1>15. /\ got \in Cursor
       /\ got.mode = k.mode /\ got.high = k.high /\ got.version = k.version
       /\ \A c \in page : got.view[c] = record[c] \/ (got.view[c] = None /\ c \in got.masked)
       /\ \A c \in Card \ page : got.view[c] = k.view[c] /\ (c \in k.masked => c \in got.masked)
  BY <1>12, <1>13, <1>14, ReceiveFields
<1>16. PICK g : g = IF page # cards THEN [got EXCEPT !.key = Max(page)]
                    ELSE [got EXCEPT !.mode = "delta", !.after = k.high, !.key = 0, !.high = 0]
  OBVIOUS
<1>17. SnapshotPage(k) = g
  BY <1>4, <1>5, <1>7, <1>9, <1>14, <1>16 DEF SnapshotPage
<1>18. g.view = got.view /\ g.masked = got.masked /\ g.version = got.version
  BY <1>15, <1>16 DEF Cursor
<1>19. page # cards => g \in Cursor /\ g.mode = "snapshot" /\ g.high = k.high /\ g.key = Max(page)
  BY <1>8, <1>15, <1>16 DEF Cursor
<1>20. page = cards => g \in Cursor /\ g.mode = "delta" /\ g.after = k.high
  BY <1>3, <1>15, <1>16 DEF Cursor
<1>21. g \in Cursor /\ Position(g) = k.high
  BY <1>19, <1>20 DEF Position
<1>22. Accepted(g)
  BY <1>2, <1>15, <1>18, <1>21 DEF Accepted
<1>23. page # cards => \A c \in Card : c > Max(page) => g.view[c] = None
  <2>1. SUFFICES ASSUME page # cards, NEW c \in Card, c > Max(page) PROVE g.view[c] = None
    OBVIOUS
  <2>2. c \in Nat /\ Max(page) \in Nat /\ Max(page) > k.key
    BY <1>6, <1>8, <2>1, CardIsNat
  <2>3. c \notin page /\ c > k.key
    BY <1>3, <1>8, <2>1, <2>2
  <2>. QED  BY <1>2, <1>15, <1>18, <2>3
<1>24. ASSUME NEW c \in Card, g.mode = "delta" \/ c <= g.key PROVE ExactAt(feed, g, c)
  <2>1. CASE c \in page
    <3>1. Visible(feed, c, Position(g)) = IF record[c] = None THEN {} ELSE {record[c]}
      BY <1>10, <1>21, <2>1
    <3>2. g.view[c] = record[c] \/ (g.view[c] = None /\ c \in g.masked)
      BY <1>15, <1>18, <2>1
    <3>. QED  BY <3>1, <3>2, ReceivedExact
  <2>2. CASE c \notin page /\ c <= k.key
    <3>1. ExactAt(feed, k, c) /\ Position(k) = k.high
      BY <1>2, <2>2 DEF Position
    <3>2. g.view[c] = k.view[c] /\ (c \in k.masked => c \in g.masked)
      BY <1>15, <1>18, <2>2
    <3>. QED  BY <1>21, <3>1, <3>2 DEF ExactAt
  <2>3. CASE c \notin page /\ c > k.key
    <3>1. c \notin cards
      <4>1. CASE page = cards
        BY <2>3, <4>1
      <4>2. CASE page # cards
        <5>1. c <= Max(page) /\ Max(page) \in page
          BY <1>8, <1>19, <1>24, <4>2
        <5>. QED  BY <1>8, <2>3, <5>1
      <4>. QED  BY <4>1, <4>2
    <3>2. Visible(feed, c, Position(g)) = {}
      BY <1>11, <1>21, <2>3, <3>1
    <3>3. g.view[c] = None
      BY <1>2, <1>15, <1>18, <2>3
    <3>. QED  BY <3>2, <3>3 DEF ExactAt
  <2>. QED  BY <1>3, <2>1, <2>2, <2>3, CardIsNat
<1>25. g.mode = "snapshot" => \A c \in Card : c > g.key => g.view[c] = None
  BY <1>19, <1>20, <1>23
<1>. QED  BY <1>17, <1>21, <1>22, <1>24, <1>25 DEF Follows

\* The interval that begins at a row of the log is that of its revision.
LEMMA RevisionIs ==
    ASSUME TablesOK(feed), NEW e \in feed.log, e.at > feed.floor
    PROVE  /\ RevisionAt(e) = IF e.up THEN e.pub ELSE None
           /\ e.pub \in Pub /\ e.pub # None
           /\ Visible(feed, e.pub[1], e.at) = IF RevisionAt(e) = None THEN {} ELSE {RevisionAt(e)}
<1>1. Tells(feed, e) /\ SpansOK(feed) /\ feed.log \subseteq Change
  BY TablesFields DEF TablesOK, LogOK
<1>2. e.pub \in Pub /\ e.pub # None
  BY <1>1, PubFields DEF Change
<1>3. CASE e.up
  <2>1. PICK s \in feed.spans : s.start = e.at /\ s.pub = e.pub
    BY <1>1, <1>3 DEF Tells
  <2>2. \A t \in feed.spans : t.start = e.at => t = s
    BY <1>1, <2>1 DEF SpansOK
  <2>3. (CHOOSE t \in feed.spans : t.start = e.at) = s
    BY <2>1, <2>2
  <2>4. RevisionAt(e) = e.pub
    BY <1>3, <2>1, <2>3 DEF RevisionAt
  <2>. QED  BY <1>1, <1>2, <1>3, <2>4 DEF Tells
<1>4. CASE ~e.up
  <2>1. RevisionAt(e) = None
    BY <1>4 DEF RevisionAt
  <2>. QED  BY <1>1, <1>2, <1>4, <2>1 DEF Tells
<1>. QED  BY <1>3, <1>4

LEMMA DeltaPageFollows ==
    ASSUME TablesOK(feed), NEW k \in Cursor, k.mode = "delta", Follows(k)
    PROVE  LET g == DeltaPage(k) IN g \in Cursor /\ Follows(g)
<1>1. /\ feed \in Tables /\ feed.log \subseteq Change /\ feed.floor \in Nat /\ feed.high \in Nat /\ LogOK(feed)
  BY TablesFields DEF TablesOK
<1>2. /\ k.version = features[FeedFeature].version /\ feed.floor <= k.after /\ k.after <= feed.high
      /\ \A c \in Card : ExactAt(feed, k, c)
  BY DEF Follows, Accepted, Position
<1>3. k.after \in Nat /\ k.version \in Nat
  BY CursorFields
<1>4. \A e \in feed.log : e.at \in Nat /\ e.at <= feed.high /\ e.pub \in Pub /\ e.pub[1] \in Card
  BY <1>1, PubFields DEF LogOK, Change
<1>5. PICK seqs : seqs = {e.at : e \in {x \in feed.log : x.at > k.after}}
  OBVIOUS
<1>6. seqs \in SUBSET Nat /\ \A x \in seqs : x > k.after /\ x <= feed.high
  BY <1>4, <1>5
<1>7. PICK page : page = FirstOf(seqs, PageLimit)
  OBVIOUS
<1>8. /\ page \subseteq seqs
      /\ \A x \in page, y \in seqs : y <= x => y \in page
      /\ page # seqs => Max(page) \in page /\ Max(page) \in Nat /\ \A x \in page : x <= Max(page)
  BY <1>6, <1>7, PageIsFirst, FeedAssumption
<1>9. PICK changes : changes = {e \in feed.log : e.at \in page}
  OBVIOUS
<1>10. PICK N : N = IF page # seqs THEN Max(page) ELSE feed.high
  OBVIOUS
<1>11. /\ N \in Nat /\ k.after <= N /\ N <= feed.high /\ feed.floor <= N
       /\ \A x \in page : x <= N
  <2>1. CASE page = seqs
    BY <1>1, <1>2, <1>3, <1>6, <1>10, <2>1
  <2>2. CASE page # seqs
    <3>1. N = Max(page) /\ N \in Nat /\ N \in seqs /\ \A x \in page : x <= N
      BY <1>8, <1>10, <2>2
    <3>2. N > k.after /\ N <= feed.high
      BY <1>6, <3>1
    <3>. QED  BY <1>1, <1>2, <1>3, <3>1, <3>2
  <2>. QED  BY <2>1, <2>2
<1>12. \A e \in feed.log : k.after < e.at /\ e.at <= N => e \in changes
  <2>1. SUFFICES ASSUME NEW e \in feed.log, k.after < e.at, e.at <= N PROVE e.at \in page
    BY <1>9
  <2>2. e.at \in seqs
    BY <1>3, <1>4, <1>5, <2>1
  <2>. QED  BY <1>8, <1>10, <2>1, <2>2
<1>13. \A e \in changes : e \in feed.log /\ e.at > k.after /\ e.at > feed.floor /\ e.at <= N /\ e.at \in Nat
  BY <1>1, <1>2, <1>3, <1>4, <1>6, <1>8, <1>9, <1>11
<1>. DEFINE newest(c) == CHOOSE e \in changes :
                            e.pub[1] = c /\ \A d \in changes : d.pub[1] = c => d.at <= e.at
<1>14. PICK cards : cards = {e.pub[1] : e \in changes}
  OBVIOUS
<1>15. cards \in SUBSET Card
  BY <1>4, <1>9, <1>14
<1>16. PICK record : record = [c \in cards |-> RevisionAt(newest(c))]
  OBVIOUS
<1>17. \A c \in cards : LET e == newest(c) IN
         e \in changes /\ e.pub[1] = c /\ \A d \in changes : d.pub[1] = c => d.at <= e.at
  <2>1. SUFFICES ASSUME NEW c \in cards
                 PROVE  \E e \in changes : e.pub[1] = c /\ \A d \in changes : d.pub[1] = c => d.at <= e.at
    OBVIOUS
  <2>2. PICK mine : mine = {e \in changes : e.pub[1] = c}
    OBVIOUS
  <2>3. PICK ats : ats = {e.at : e \in mine}
    OBVIOUS
  <2>4. ats \in SUBSET Nat /\ ats # {} /\ \A x \in ats : x <= N
    BY <1>13, <1>14, <2>2, <2>3
  <2>5. Max(ats) \in ats /\ \A x \in ats : x <= Max(ats)
    BY <1>11, <2>4, LargestNumber
  <2>6. PICK e \in mine : e.at = Max(ats)
    BY <2>3, <2>5
  <2>. QED  BY <2>2, <2>3, <2>5, <2>6
<1>. HIDE DEF newest
<1>18. ASSUME NEW c \in cards
       PROVE  /\ record[c] \in Pub \cup {None}
              /\ Visible(feed, c, N) = IF record[c] = None THEN {} ELSE {record[c]}
  <2>1. PICK e : e = newest(c)
    OBVIOUS
  <2>2. e \in changes /\ e.pub[1] = c /\ \A d \in changes : d.pub[1] = c => d.at <= e.at
    BY <1>17, <2>1
  <2>3. e \in feed.log /\ e.at > k.after /\ e.at > feed.floor /\ e.at <= N /\ e.at \in Nat
    BY <1>13, <2>2
  <2>4. record[c] = RevisionAt(e)
    BY <1>16, <2>1
  <2>5. /\ record[c] \in Pub \cup {None}
        /\ Visible(feed, c, e.at) = IF record[c] = None THEN {} ELSE {record[c]}
    BY <2>2, <2>3, <2>4, RevisionIs
  <2>6. \A d \in feed.log : e.at < d.at /\ d.at <= N => d.pub[1] # c
    <3>1. SUFFICES ASSUME NEW d \in feed.log, e.at < d.at, d.at <= N, d.pub[1] = c PROVE FALSE
      OBVIOUS
    <3>2. d \in changes /\ d.at \in Nat
      BY <1>3, <1>4, <1>12, <2>3, <3>1
    <3>3. d.at <= e.at
      BY <2>2, <3>1, <3>2
    <3>. QED  BY <2>3, <3>1, <3>2, <3>3
  <2>7. feed.floor <= e.at /\ c \in Card /\ N \in e.at .. N
    BY <1>1, <1>11, <1>15, <2>3
  <2>8. Visible(feed, c, N) = Visible(feed, c, e.at)
    BY <1>11, <2>3, <2>6, <2>7, Quiet
  <2>. QED  BY <2>5, <2>8
<1>19. ASSUME NEW c \in Card \ cards PROVE Visible(feed, c, N) = Visible(feed, c, k.after)
  <2>1. \A e \in feed.log : k.after < e.at /\ e.at <= N => e.pub[1] # c
    BY <1>12, <1>14, <1>19
  <2>2. N \in k.after .. N
    BY <1>3, <1>11
  <2>. QED  BY <1>2, <1>3, <1>11, <2>1, <2>2, Quiet
<1>20. record \in [cards -> Pub \cup {None}]
  BY <1>16, <1>18
<1>21. PICK got : got = Receive(k, record)
  OBVIOUS
<1>22. /\ got \in Cursor /\ got.mode = k.mode /\ got.version = k.version
       /\ \A c \in cards : got.view[c] = record[c] \/ (got.view[c] = None /\ c \in got.masked)
       /\ \A c \in Card \ cards : got.view[c] = k.view[c] /\ (c \in k.masked => c \in got.masked)
  BY <1>15, <1>20, <1>21, ReceiveFields
<1>23. PICK g : g = [got EXCEPT !.after = N]
  OBVIOUS
<1>24. DeltaPage(k) = g
  BY <1>5, <1>7, <1>9, <1>10, <1>14, <1>16, <1>21, <1>23 DEF DeltaPage, newest
<1>25. /\ g \in Cursor /\ g.mode = "delta" /\ g.version = k.version /\ g.view = got.view
       /\ g.masked = got.masked /\ g.after = N
  BY <1>11, <1>22, <1>23 DEF Cursor
<1>26. Position(g) = N /\ Position(k) = k.after
  BY <1>25 DEF Position
<1>27. Accepted(g)
  BY <1>2, <1>11, <1>25, <1>26 DEF Accepted
<1>28. ASSUME NEW c \in Card PROVE ExactAt(feed, g, c)
  <2>1. CASE c \in cards
    <3>1. g.view[c] = record[c] \/ (g.view[c] = None /\ c \in g.masked)
      BY <1>22, <1>25, <2>1
    <3>. QED  BY <1>18, <1>26, <2>1, <3>1, ReceivedExact
  <2>2. CASE c \notin cards
    <3>1. ExactAt(feed, k, c)
      BY <1>2
    <3>2. g.view[c] = k.view[c] /\ (c \in k.masked => c \in g.masked)
      BY <1>22, <1>25, <2>2
    <3>3. Visible(feed, c, Position(g)) = Visible(feed, c, Position(k))
      BY <1>19, <1>26, <2>2
    <3>. QED  BY <3>1, <3>2, <3>3 DEF ExactAt
  <2>. QED  BY <2>1, <2>2
<1>. QED  BY <1>24, <1>25, <1>27, <1>28 DEF Follows

-----------------------------------------------------------------------------
\* The invariant.

LEMMA NoCursorOK == NoCursor \in Cursor /\ NoCursor.mode = "none" /\ ClientOK(NoCursor)
<1>1. [c \in Card |-> None] \in [Card -> Pub \cup {None}]
  OBVIOUS
<1>2. NoCursor \in Cursor
  BY <1>1 DEF NoCursor, Cursor
<1>3. NoCursor.mode = "none"
  BY DEF NoCursor
<1>. QED  BY <1>2, <1>3 DEF ClientOK

LEMMA RightsStart == RightsInit => RightsTypeOK
<1>. SUFFICES ASSUME RightsInit PROVE RightsTypeOK
  OBVIOUS
<1>1. features \in [Feature -> [on: BOOLEAN, version: Nat]]
  BY DEF RightsInit
<1>2. grants \in [Source -> [row: Nat, uses: Grant]]
  BY RightsAssumption DEF RightsInit
<1>3. authority \in [journal: BOOLEAN, withheld: BOOLEAN]
  BY DEF RightsInit
<1>. QED  BY <1>1, <1>2, <1>3 DEF RightsTypeOK

LEMMA InvInit == RightsInit /\ FeedInit => FeedInv
<1>. SUFFICES ASSUME RightsInit, FeedInit PROVE FeedInv
  OBVIOUS
<1>1. RightsTypeOK /\ TablesOK(feed)
  BY RightsStart, FirstTurns
<1>2. aged = {} /\ told = {} /\ clients = [b \in Client |-> NoCursor]
  BY DEF FeedInit
<1>3. clients \in [Client -> Cursor] /\ \A b \in Client : ClientOK(clients[b])
  BY <1>2, NoCursorOK
<1>. QED  BY <1>1, <1>2, <1>3 DEF FeedInv

\* The first page: the browser takes the newest position.
LEMMA FirstPageFollows ==
    ASSUME RightsTypeOK, TablesOK(feed)
    PROVE  LET k == [NoCursor EXCEPT !.mode = "snapshot", !.high = feed.high,
                                     !.version = features[FeedFeature].version]
           IN  Accepted(k) => k \in Cursor /\ k.mode = "snapshot" /\ Follows(k)
<1>1. PICK k : k = [NoCursor EXCEPT !.mode = "snapshot", !.high = feed.high,
                                    !.version = features[FeedFeature].version]
  OBVIOUS
<1>2. feed.high \in Nat /\ features[FeedFeature].version \in Nat
  BY TablesFields, FeedAssumption DEF TablesOK, RightsTypeOK
<1>3. k \in Cursor
  BY <1>1, <1>2, NoCursorOK DEF Cursor
<1>4. k.mode = "snapshot" /\ k.key = NoCursor.key /\ k.view = NoCursor.view
  BY <1>1, NoCursorOK DEF Cursor
<1>5. k.key = 0 /\ \A c \in Card : k.view[c] = None
  BY <1>4 DEF NoCursor
<1>6. \A c \in Card : ~(c <= k.key)
  BY <1>5, CardIsNat
<1>7. Accepted(k) => Follows(k)
  BY <1>4, <1>5, <1>6 DEF Follows
<1>. QED  BY <1>1, <1>3, <1>4, <1>7

LEMMA ReadFeedOK ==
    ASSUME FeedInv, NEW b \in Client, ReadFeed(b)
    PROVE  \E g \in Cursor : clients' = [clients EXCEPT ![b] = g] /\ ClientOK(g)
<1>1. RightsTypeOK /\ TablesOK(feed) /\ clients[b] \in Cursor /\ ClientOK(clients[b])
  BY DEF FeedInv
<1>2. PICK k : k = IF clients[b].mode = "none"
                   THEN [NoCursor EXCEPT !.mode = "snapshot", !.high = feed.high,
                                         !.version = features[FeedFeature].version]
                   ELSE clients[b]
  OBVIOUS
<1>3. /\ Accepted(k)
      /\ clients' = [clients EXCEPT ![b] = IF k.mode = "snapshot" THEN SnapshotPage(k) ELSE DeltaPage(k)]
  BY <1>2 DEF ReadFeed
<1>4. k \in Cursor /\ k.mode \in {"snapshot", "delta"} /\ Follows(k)
  <2>1. CASE clients[b].mode = "none"
    BY <1>1, <1>2, <1>3, <2>1, FirstPageFollows
  <2>2. CASE clients[b].mode # "none"
    <3>1. k = clients[b] /\ k.mode \in {"snapshot", "delta"}
      BY <1>1, <1>2, <2>2, CursorFields
    <3>. QED  BY <1>1, <1>3, <2>2, <3>1 DEF ClientOK, Follows
  <2>. QED  BY <2>1, <2>2
<1>5. PICK g : g = IF k.mode = "snapshot" THEN SnapshotPage(k) ELSE DeltaPage(k)
  OBVIOUS
<1>6. g \in Cursor /\ Follows(g)
  BY <1>1, <1>4, <1>5, SnapshotPageFollows, DeltaPageFollows
<1>. QED  BY <1>1, <1>3, <1>5, <1>6, FollowsIsOK

LEMMA InvTables == ASSUME FeedInv, TablesNext PROVE FeedInv'
<1>1. /\ RightsTypeOK /\ TablesOK(feed) /\ aged \subseteq Pub /\ told \subseteq Card
      /\ \A c \in told : Kept(feed, c) /\ ~feed.head[c].active
      /\ clients \in [Client -> Cursor] /\ \A b \in Client : ClientOK(clients[b])
  BY DEF FeedInv
<1>2. TablesKeep
  BY <1>1, TablesNextKeeps
<1>3. /\ RightsTypeOK' /\ TablesOK(feed') /\ aged' \subseteq Pub /\ told' \subseteq Card
      /\ clients' = clients /\ Grows(feed, feed')
  BY <1>2 DEF TablesKeep, Step
<1>4. ASSUME NEW c \in told' PROVE Kept(feed', c) /\ ~feed'.head[c].active
  <2>1. c \in Card
    BY <1>3
  <2>2. c \in told => Kept(feed', c) /\ ~feed'.head[c].active
    BY <1>1, <1>3, <2>1 DEF Grows
  <2>. QED  BY <1>2, <2>2 DEF TablesKeep
<1>5. ASSUME NEW b \in Client PROVE ClientOK(clients[b])'
  <2>1. PICK k \in Cursor : k = clients[b]
    BY <1>1
  <2>2. ClientOK(k)'
    BY <1>1, <1>2, <2>1, TablesKeepCursor
  <2>. QED  BY <1>3, <2>1, <2>2
<1>. QED  BY <1>1, <1>3, <1>4, <1>5 DEF FeedInv

\* Nothing but the tables and the rights decides whether a cursor is right.
LEMMA SameClientOK ==
    ASSUME UNCHANGED <<features, feed>>, NEW k, ClientOK(k) PROVE ClientOK(k)'
<1>. QED  BY DEF ClientOK, Accepted

LEMMA InvBrowser == ASSUME FeedInv, BrowserNext PROVE FeedInv'
<1>1. PICK b \in Client : ReadFeed(b) \/ Forget(b)
  BY DEF BrowserNext
<1>2. UNCHANGED <<features, grants, authority, feed, aged, told>>
  BY <1>1 DEF ReadFeed, Forget, rights
<1>3. clients \in [Client -> Cursor] /\ \A d \in Client : ClientOK(clients[d])
  BY DEF FeedInv
<1>4. PICK g \in Cursor : clients' = [clients EXCEPT ![b] = g] /\ ClientOK(g)
  <2>1. CASE ReadFeed(b)
    BY <2>1, ReadFeedOK
  <2>2. CASE Forget(b)
    BY <2>2, NoCursorOK DEF Forget
  <2>. QED  BY <1>1, <2>1, <2>2
<1>5. clients' \in [Client -> Cursor]
  BY <1>3, <1>4
<1>6. ASSUME NEW d \in Client PROVE ClientOK(clients[d])'
  <2>1. PICK k : k = clients'[d]
    OBVIOUS
  <2>2. ClientOK(k)
    BY <1>3, <1>4, <2>1
  <2>3. ClientOK(k)'
    BY <1>2, <2>2, SameClientOK
  <2>. QED  BY <2>1, <2>3
<1>7. RightsTypeOK' /\ TablesOK(feed)'
  <2>1. RightsTypeOK'
    BY <1>2 DEF FeedInv, RightsTypeOK
  <2>. QED  BY <1>2, <2>1 DEF FeedInv
<1>8. /\ aged' \subseteq Pub /\ told' \subseteq Card
      /\ \A c \in told' : Kept(feed', c) /\ ~feed'.head[c].active
  BY <1>2 DEF FeedInv
<1>. QED  BY <1>5, <1>6, <1>7, <1>8 DEF FeedInv

\* The inductive invariant of the feed: every function of publication.py from
\* tables to tables leaves the timeline below a position alone, and every page
\* brings a browser exactly to its new position.
THEOREM FeedInvHolds == FeedSpec => []FeedInv
<1>1. RightsInit /\ FeedInit => FeedInv
  BY InvInit
<1>2. FeedInv /\ [TablesNext \/ BrowserNext]_<<rights, feedVars>> => FeedInv'
  <2>1. SUFFICES ASSUME FeedInv, [TablesNext \/ BrowserNext]_<<rights, feedVars>> PROVE FeedInv'
    OBVIOUS
  <2>2. CASE UNCHANGED <<rights, feedVars>>
    <3>1. UNCHANGED <<features, grants, authority, feed, clients, aged, told>>
      BY <2>2 DEF rights, feedVars
    <3>2. RightsTypeOK' /\ TablesOK(feed)'
      BY <2>1, <3>1 DEF FeedInv, RightsTypeOK
    <3>3. \A b \in Client : ClientOK(clients[b])'
      BY <2>1, <3>1 DEF FeedInv, ClientOK, Accepted
    <3>. QED  BY <2>1, <3>1, <3>2, <3>3 DEF FeedInv
  <2>. QED  BY <2>1, <2>2, InvTables, InvBrowser
<1>. QED  BY <1>1, <1>2, PTL DEF FeedSpec

\* The tables keep their shape, and a card has exactly one open interval while its
\* head is active and none while it is not, through every transition, deletion,
\* purge and retraction of publication.py.
THEOREM FeedTyped == FeedSpec => []FeedTypeOK
<1>1. FeedInv => FeedTypeOK
  <2>1. SUFFICES ASSUME FeedInv PROVE FeedTypeOK
    OBVIOUS
  <2>2. /\ RightsTypeOK /\ feed \in Tables /\ SpansOK(feed) /\ HeadsOK(feed) /\ LogOK(feed)
        /\ aged \subseteq Pub /\ told \subseteq Card
    BY <2>1 DEF FeedInv, TablesOK
  <2>3. feed.rows \cup feed.retracted \cup feed.refs \cup aged \subseteq Pub
    BY <2>2, TablesFields
  <2>4. feed.head \in [Card -> [pub: Pub \cup {None}, active: BOOLEAN, blocked: BOOLEAN]]
    BY <2>2, TablesFields DEF HeadRow
  <2>5. feed.floor <= feed.high
    BY <2>2 DEF LogOK
  <2>6. ASSUME NEW c \in Card
        PROVE  {s.pub : s \in {x \in feed.spans : x.pub[1] = c /\ x.end = Open}}
                 = IF feed.head[c].active THEN {feed.head[c].pub} ELSE {}
    <3>1. \A s \in feed.spans : s.pub[1] = c /\ s.end = Open =>
                                    feed.head[c].active /\ s.pub = feed.head[c].pub
      BY <2>2 DEF SpansOK
    <3>2. feed.head[c].active => \E s \in feed.spans : /\ s.pub = feed.head[c].pub
                                                      /\ s.pub[1] = c /\ s.end = Open
      <4>1. SUFFICES ASSUME feed.head[c].active
                     PROVE  \E s \in feed.spans : s.pub = feed.head[c].pub /\ s.pub[1] = c /\ s.end = Open
        OBVIOUS
      <4>2. PICK s \in feed.spans : s.pub = feed.head[c].pub /\ s.end = Open
        BY <2>2, <4>1 DEF HeadsOK
      <4>3. s.pub \in Pub
        BY <2>2, TablesFields DEF Span
      <4>4. s.pub[1] = c
        BY <2>2, <4>2, <4>3, PubFields DEF HeadsOK
      <4>. QED  BY <4>2, <4>4
    <3>. QED  BY <3>1, <3>2
  <2>. QED  BY <2>2, <2>3, <2>4, <2>5, <2>6 DEF FeedTypeOK
<1>. QED  BY <1>1, FeedInvHolds, PTL

\* A browser whose cursor read_feed still accepts shows of every card it has been
\* told of exactly what was visible at the cursor, or was refused it, whatever was
\* published, deleted, purged or retracted since, and however the pages fell.
THEOREM BrowsersAreExact == FeedSpec => []FeedIsExact
<1>1. FeedInv => FeedIsExact
  <2>1. SUFFICES ASSUME FeedInv PROVE FeedIsExact
    OBVIOUS
  <2>2. ASSUME NEW b \in Client, NEW c \in Card, clients[b].mode # "none", Accepted(clients[b]),
               clients[b].mode = "delta" \/ c <= clients[b].key
        PROVE  ExactAt(feed, clients[b], c)
    BY <2>1, <2>2 DEF FeedInv, ClientOK
  <2>. QED  BY <2>2 DEF FeedIsExact, ExactAt, Visible, SpansAt
<1>. QED  BY <1>1, FeedInvHolds, PTL

\* A card that Publisher.retract withdrew stays withdrawn: its mark, or the latch
\* that replaces a mark that may not be kept, outlives its rows, and no later
\* revision of the card becomes active.
THEOREM RetractionsLast == FeedSpec => []RetractedStaysHidden
<1>1. FeedInv => RetractedStaysHidden
  BY DEF FeedInv, RetractedStaysHidden, Retracted, Kept
<1>. QED  BY <1>1, FeedInvHolds, PTL

\* Nothing the publisher, a clean-up, a purge, a retraction or a change of rights does
\* alters what was visible at a position that a cursor may still have, takes the log
\* or its floor back, or shows again a hidden card whose mark is kept.
THEOREM TimelineIsKept == FeedSpec => [][Grows(feed, feed')]_feed
<1>1. FeedInv /\ [TablesNext \/ BrowserNext]_<<rights, feedVars>> => [Grows(feed, feed')]_feed
  <2>1. SUFFICES ASSUME FeedInv, TablesNext \/ BrowserNext, feed' # feed PROVE Grows(feed, feed')
    BY DEF feedVars
  <2>2. CASE TablesNext
    BY <2>1, <2>2, TablesNextKeeps DEF FeedInv, TablesKeep, Step
  <2>3. CASE BrowserNext
    BY <2>1, <2>3 DEF BrowserNext, ReadFeed, Forget
  <2>. QED  BY <2>1, <2>2, <2>3
<1>. QED  BY <1>1, FeedInvHolds, PTL DEF FeedSpec

-----------------------------------------------------------------------------
\* What may no longer be shown is withdrawn turn by turn.

\* A page that leaves something is full.
LEMMA PageIsFull ==
    ASSUME NEW K \in SUBSET Nat, NEW L \in Nat \ {0}, FirstOf(K, L) # K
    PROVE  Cardinality(FirstOf(K, L)) = L
<1>. DEFINE P == FirstOf(K, L)
            upto(x) == {y \in K : y <= x}
<1>1. P \subseteq K /\ \A x \in K : x \in P <=> Cardinality(upto(x)) <= L
  BY DEF FirstOf
<1>2. /\ \A x \in P, y \in K : y <= x => y \in P
      /\ Max(P) \in P /\ Max(P) \in Nat /\ \A x \in P : x <= Max(P)
  BY PageIsFirst
<1>3. P # K
  OBVIOUS
<1>4. \A x, z : z \in upto(x) <=> z \in K /\ z <= x
  OBVIOUS
<1>5. \A x \in K : IsFiniteSet(upto(x)) /\ Cardinality(upto(x)) \in Nat
  <2>1. SUFFICES ASSUME NEW x \in K PROVE IsFiniteSet(upto(x))
    BY FS_CardinalityType
  <2>2. upto(x) \in SUBSET Nat /\ x \in Nat /\ \A z \in upto(x) : z <= x
    OBVIOUS
  <2>. HIDE DEF upto
  <2>. QED  BY <2>2, FS_BoundedSetOfNaturals
<1>. HIDE DEF P, upto
<1>6. PICK m : m = Max(P)
  OBVIOUS
<1>7. upto(m) = P
  <2>1. \A z : z \in upto(m) <=> z \in P
    BY <1>1, <1>2, <1>4, <1>6
  <2>. QED  BY <2>1
<1>8. Cardinality(P) <= L
  BY <1>1, <1>2, <1>6, <1>7
<1>9. PICK n \in K \ P : \A y \in K \ P : n <= y
  <2>1. K \ P \in SUBSET Nat /\ K \ P # {}
    BY <1>1, <1>3
  <2>. QED  BY <2>1, LeastNumber
<1>10. P = upto(n) \ {n} /\ n \in upto(n)
  <2>1. n \in Nat /\ \A z \in K : z \in Nat
    BY <1>9
  <2>2. n \in upto(n)
    BY <1>4, <1>9, <2>1
  <2>3. ASSUME NEW z \in P PROVE z \in upto(n) /\ z # n
    <3>1. z \in K /\ z \in Nat /\ z # n
      BY <1>1, <1>9, <2>1
    <3>2. ~(n <= z)
      BY <1>2, <1>9
    <3>. QED  BY <1>4, <2>1, <3>1, <3>2
  <2>4. ASSUME NEW z \in upto(n), z # n PROVE z \in P
    <3>1. z \in K /\ z <= n /\ z \in Nat
      BY <1>4, <2>1
    <3>. QED  BY <1>9, <2>1, <2>4, <3>1
  <2>. QED  BY <2>2, <2>3, <2>4
<1>11. Cardinality(P) = Cardinality(upto(n)) - 1
  BY <1>5, <1>9, <1>10, FS_RemoveElement
<1>12. Cardinality(upto(n)) > L
  BY <1>1, <1>5, <1>9
<1>13. Cardinality(P) = L
  BY <1>5, <1>8, <1>9, <1>11, <1>12
<1>. QED  BY <1>13 DEF P

\* What Load looks at besides rights and age.
SameProof(f, g) ==
    g.rows = f.rows /\ g.retracted = f.retracted /\ g.marked = f.marked /\ g.latch = f.latch

DeniedIn(f, c) == f.head[c].active /\ ~Load(f, f.head[c].pub)

LEMMA LoadSame ==
    ASSUME NEW f, NEW g, SameProof(f, g), NEW p PROVE Load(g, p) <=> Load(f, p)
<1>. QED  BY DEF SameProof, Load, Retracted

LEMMA ReconcileClears ==
    ASSUME NEW f, TablesOK(f), NEW c \in Card, f.head[c].pub # None
    PROVE  LET g == Reconcile(f, c) IN
           /\ SameProof(f, g) /\ g.cursor = f.cursor /\ ~DeniedIn(g, c)
           /\ \A d \in Card \ {c} : g.head[d] = f.head[d]
<1>1. PICK p \in Pub : p = f.head[c].pub /\ p[1] = c
  BY HeadPub
<1>2. PICK active \in BOOLEAN : active = (~f.head[c].blocked /\ Load(f, p))
  OBVIOUS
<1>3. PICK g : g = Transition(f, p, active)
  OBVIOUS
<1>4. Reconcile(f, c) = g
  BY <1>1, <1>2, <1>3 DEF Reconcile
<1>5. f \in Tables
  BY DEF TablesOK
<1>6. CASE f.head[p[1]].active = active /\ (active => f.head[p[1]].pub = p)
  <2>1. g = f
    BY <1>3, <1>6 DEF Transition
  <2>2. ~DeniedIn(f, c)
    BY <1>1, <1>2, <1>6 DEF DeniedIn
  <2>. QED  BY <1>4, <2>1, <2>2 DEF SameProof
<1>7. CASE ~(f.head[p[1]].active = active /\ (active => f.head[p[1]].pub = p))
  <2>1. /\ g.rows = f.rows /\ g.retracted = f.retracted /\ g.marked = f.marked
        /\ g.latch = f.latch /\ g.cursor = f.cursor /\ g.head = HeadAfter(f, p, active)
    BY <1>3, <1>5, <1>7, TransitionFields
  <2>2. /\ g.head[c].pub = p /\ g.head[c].active = active
        /\ \A d \in Card \ {c} : g.head[d] = f.head[d]
    BY <1>1, <1>5, <2>1, TablesFields DEF HeadAfter
  <2>3. SameProof(f, g)
    BY <2>1 DEF SameProof
  <2>4. ~DeniedIn(g, c)
    BY <1>2, <2>2, <2>3, LoadSame DEF DeniedIn
  <2>. QED  BY <1>4, <2>1, <2>2, <2>3, <2>4
<1>. QED  BY <1>6, <1>7

\* The heads up to m have been looked at.
LookedAt(f, heads, g, m) ==
    /\ TablesOK(g) /\ SameProof(f, g) /\ g.cursor = f.cursor
    /\ \A d \in Card : f.head[d].pub # None => g.head[d].pub # None
    /\ \A d \in Card \ heads : g.head[d] = f.head[d]
    /\ \A d \in heads : d <= m => ~DeniedIn(g, d)

LEMMA LooksOn ==
    ASSUME NEW f, NEW heads \in SUBSET Card, \A c \in heads : f.head[c].pub # None,
           NEW m \in Nat, NEW g, LookedAt(f, heads, g, m)
    PROVE  LookedAt(f, heads, IF m + 1 \in heads THEN Reconcile(g, m + 1) ELSE g, m + 1)
<1>1. /\ TablesOK(g) /\ SameProof(f, g) /\ g.cursor = f.cursor
      /\ \A d \in Card : f.head[d].pub # None => g.head[d].pub # None
      /\ \A d \in Card \ heads : g.head[d] = f.head[d]
      /\ \A d \in heads : d <= m => ~DeniedIn(g, d)
  BY DEF LookedAt
<1>2. \A d \in heads : d \in Card /\ d \in Nat /\ (d <= m + 1 => d = m + 1 \/ d <= m)
  BY CardIsNat
<1>3. CASE m + 1 \notin heads
  <2>1. \A d \in heads : d <= m + 1 => ~DeniedIn(g, d)
    BY <1>1, <1>2, <1>3
  <2>. QED  BY <1>1, <1>3, <2>1 DEF LookedAt
<1>4. CASE m + 1 \in heads
  <2>1. PICK c \in heads : c = m + 1
    BY <1>4
  <2>2. c \in Card /\ g.head[c].pub # None
    BY <1>1, <1>2
  <2>3. PICK h : h = Reconcile(g, c)
    OBVIOUS
  <2>4. /\ SameProof(g, h) /\ h.cursor = g.cursor /\ ~DeniedIn(h, c)
        /\ \A d \in Card \ {c} : h.head[d] = g.head[d]
    BY <1>1, <2>2, <2>3, ReconcileClears
  <2>5. TablesOK(h) /\ \A d \in Card : g.head[d].pub # None => h.head[d].pub # None
    BY <1>1, <2>2, <2>3, ReconcileStep DEF Step
  <2>6. SameProof(f, h)
    BY <1>1, <2>4 DEF SameProof
  <2>7. ASSUME NEW d \in heads, d <= m + 1 PROVE ~DeniedIn(h, d)
    <3>1. CASE d = c
      BY <2>4, <3>1
    <3>2. CASE d # c
      <4>1. ~DeniedIn(g, d) /\ h.head[d] = g.head[d]
        BY <1>1, <1>2, <2>1, <2>4, <2>7, <3>2
      <4>. QED  BY <2>4, <4>1, LoadSame DEF DeniedIn
    <3>. QED  BY <3>1, <3>2
  <2>8. \A d \in Card \ heads : h.head[d] = f.head[d]
    BY <1>1, <2>1, <2>4
  <2>9. LookedAt(f, heads, h, m + 1)
    BY <1>1, <2>4, <2>5, <2>6, <2>7, <2>8 DEF LookedAt
  <2>. QED  BY <1>4, <2>1, <2>3, <2>9
<1>. QED  BY <1>3, <1>4

LEMMA RotateClears ==
    ASSUME NEW f, TablesOK(f), NEW heads \in SUBSET Card, \A c \in heads : f.head[c].pub # None,
           NEW last \in heads \cup {0}
    PROVE  LET g == Rotate(f, heads, last) IN
           /\ SameProof(f, g) /\ g.cursor = NextCursor(f.cursor, heads, last)
           /\ \A d \in Card \ heads : g.head[d] = f.head[d]
           /\ \A d \in heads : d <= last => ~DeniedIn(g, d)
<1>1. last \in Nat
  BY CardIsNat
<1>2. PICK run : run = CHOOSE h : IsRotated(h, last, f, heads)
  OBVIOUS
<1>3. IsRotated(run, last, f, heads)
  BY <1>1, <1>2, RotatedExists
<1>4. /\ run[0] = f
      /\ \A c \in 0 .. last : c # 0 =>
            run[c] = IF c \in heads THEN Reconcile(run[c - 1], c) ELSE run[c - 1]
  BY <1>1, <1>3 DEF IsRotated
<1>. DEFINE S == {m \in 0 .. last : LookedAt(f, heads, run[m], m)}
<1>5. 0 \in S
  <2>1. \A d \in heads : ~(d <= 0)
    BY CardIsNat
  <2>2. LookedAt(f, heads, f, 0)
    BY <2>1 DEF LookedAt, SameProof
  <2>. QED  BY <1>1, <1>4, <2>2
<1>6. ASSUME NEW m \in 0 .. last, m \in S, m < last PROVE m + 1 \in S
  <2>1. m \in Nat /\ m + 1 \in 0 .. last /\ m + 1 # 0 /\ (m + 1) - 1 = m
    BY <1>1, <1>6
  <2>2. PICK g : g = run[m]
    OBVIOUS
  <2>3. LookedAt(f, heads, g, m)
    BY <1>6, <2>2
  <2>4. run[m + 1] = IF m + 1 \in heads THEN Reconcile(g, m + 1) ELSE g
    BY <1>4, <2>1, <2>2
  <2>5. LookedAt(f, heads, run[m + 1], m + 1)
    BY <2>1, <2>3, <2>4, LooksOn
  <2>. QED  BY <2>1, <2>5
<1>7. \A n \in 0 .. last : n \in S /\ n < last => n + 1 \in S
  BY <1>6
<1>8. last \in S
  <2>. HIDE DEF S
  <2>. QED  BY <1>1, <1>5, <1>7, CountUp
<1>9. PICK t : t = run[last]
  OBVIOUS
<1>10. LookedAt(f, heads, t, last)
  BY <1>8, <1>9
<1>11. t \in Tables
  BY <1>10 DEF LookedAt, TablesOK
<1>12. PICK g : g = [t EXCEPT !.cursor = NextCursor(f.cursor, heads, last)]
  OBVIOUS
<1>13. Rotate(f, heads, last) = g
  <2>1. Rotate(f, heads, last) = [run[last] EXCEPT !.cursor = NextCursor(f.cursor, heads, last)]
    BY <1>2 DEF Rotate, IsRotated
  <2>. QED  BY <1>9, <1>12, <2>1
<1>14. g.head = t.head /\ SameProof(t, g) /\ g.cursor = NextCursor(f.cursor, heads, last)
  BY <1>11, <1>12 DEF Tables, SameProof
<1>15. SameProof(f, g)
  BY <1>10, <1>14 DEF LookedAt, SameProof
<1>16. \A d \in heads : d <= last => ~DeniedIn(g, d)
  BY <1>10, <1>14, LoadSame DEF LookedAt, DeniedIn
<1>17. \A d \in Card \ heads : g.head[d] = f.head[d]
  BY <1>10, <1>14 DEF LookedAt
<1>. QED  BY <1>13, <1>14, <1>15, <1>16, <1>17

LEMMA NoHeadIsHidden ==
    ASSUME NEW f, TablesOK(f), NEW c \in Card, f.head[c].pub = None PROVE ~f.head[c].active
<1>1. f.spans \subseteq Span /\ None \notin Pub
  BY TablesFields, FeedAssumption DEF TablesOK
<1>2. \A s \in f.spans : s.pub # None
  BY <1>1 DEF Span
<1>. QED  BY <1>2 DEF TablesOK, HeadsOK

\* Only a turn moves the cursor of the publisher: no function from tables to tables
\* that another step is made of touches it.
HasCursor(f, n) == "cursor" \in DOMAIN f /\ f.cursor = n

LEMMA TransitionCursor ==
    ASSUME NEW f, NEW n, HasCursor(f, n), NEW p, NEW active PROVE HasCursor(Transition(f, p, active), n)
<1>. DEFINE c == p[1]
            seq == f.high + 1
<1>1. ASSUME NEW x, NEW y, NEW z
      PROVE  HasCursor([f EXCEPT !.high = seq, !.log = x, !.head[c] = y, !.spans = z], n)
  BY DEF HasCursor
<1>. QED  BY <1>1 DEF Transition

LEMMA MarkCursor ==
    ASSUME NEW f, NEW n, HasCursor(f, n)
    PROVE  /\ HasCursor(Latched(f), n)
           /\ \A c, sources : HasCursor(KeepMark(f, c, sources), n)
           /\ \A p : HasCursor(KeepReference(f, p), n)
<1>1. ASSUME NEW g, HasCursor(g, n)
      PROVE  \A c, x : HasCursor([g EXCEPT !.refs = x], n) /\ HasCursor([g EXCEPT !.marked[c] = x], n)
  BY <1>1 DEF HasCursor
<1>2. HasCursor(Latched(f), n)
  BY DEF HasCursor, Latched
<1>3. \A c, sources : HasCursor(KeepMark(f, c, sources), n)
  BY <1>1, <1>2 DEF KeepMark
<1>4. \A p : HasCursor(KeepReference(f, p), n)
  BY <1>1, <1>2 DEF KeepReference
<1>. QED  BY <1>2, <1>3, <1>4

LEMMA FloorCursor ==
    ASSUME NEW f, NEW n, HasCursor(f, n), NEW seqs PROVE HasCursor(Floor(f, seqs), n)
<1>. QED  BY DEF HasCursor, Floor

LEMMA PurgeCursor ==
    ASSUME NEW f, NEW n, HasCursor(f, n), NEW p PROVE HasCursor(Purge(f, p), n)
<1>1. PICK k : k = KeepReference(f, p)
  OBVIOUS
<1>2. PICK t : t = IF k.head[p[1]].pub = p /\ k.head[p[1]].active THEN Transition(k, p, FALSE) ELSE k
  OBVIOUS
<1>3. HasCursor(t, n)
  BY <1>1, <1>2, MarkCursor, TransitionCursor
<1>4. \A seqs : HasCursor(Floor(t, seqs), n)
  BY <1>3, FloorCursor
<1>5. PICK mine : mine = {s \in t.spans : s.pub = p}
  OBVIOUS
<1>6. PICK l : l = Floor(t, {IF s.end = Open THEN s.start ELSE s.end : s \in mine})
  OBVIOUS
<1>7. PICK q : q = IF t.head[p[1]].pub = p THEN None ELSE t.head[p[1]].pub
  OBVIOUS
<1>8. Purge(f, p) = [l EXCEPT !.rows = t.rows \ {p}, !.retracted = t.retracted \ {p},
                              !.spans = t.spans \ mine, !.head[p[1]].pub = q]
  BY <1>1, <1>2, <1>5, <1>6, <1>7 DEF Purge
<1>9. HasCursor(l, n)
  BY <1>4, <1>6
<1>. QED  BY <1>8, <1>9 DEF HasCursor

LEMMA ProjectCursor ==
    ASSUME NEW f, NEW n, HasCursor(f, n), NEW r PROVE HasCursor(Project(f, r), n)
<1>1. ASSUME NEW g, HasCursor(g, n), NEW c, NEW b PROVE HasCursor([g EXCEPT !.head[c].blocked = b], n)
  BY <1>1 DEF HasCursor
<1>2. \A c, valid : HasCursor(Block(f, c, valid), n)
  BY <1>1, TransitionCursor DEF Block
<1>3. HasCursor(Save(f, r), n)
  <2>1. PICK g : g = [f EXCEPT !.rows = f.rows \cup {r}]
    OBVIOUS
  <2>2. HasCursor(g, n)
    BY <2>1 DEF HasCursor
  <2>3. HasCursor(Transition(g, r, TRUE), n)
    BY <2>2, TransitionCursor
  <2>. QED  BY <1>1, <2>1, <2>3 DEF Save
<1>. QED  BY <1>2, <1>3 DEF Project

LEMMA OthersKeepCursor ==
    ASSUME TablesOK(feed), TablesNext \/ BrowserNext, ~SyncTurn PROVE feed'.cursor = feed.cursor
<1>1. PICK n : n = feed.cursor
  OBVIOUS
<1>2. HasCursor(feed, n)
  BY <1>1 DEF TablesOK, Tables, HasCursor
<1>3. CASE CleanupAny
  <2>1. PICK k, old : Cleanup(k, old)
    BY <1>3 DEF CleanupAny
  <2>2. \A s, t : HasCursor(Floor(Floor(feed, s), t), n)
    BY <1>2, FloorCursor
  <2>3. ASSUME NEW f, HasCursor(f, n), NEW a, NEW b PROVE HasCursor([f EXCEPT !.log = a, !.spans = b], n)
    BY <2>3 DEF HasCursor
  <2>4. PICK f : HasCursor(f, n) /\ feed' = IF old = None THEN f ELSE Purge(f, old)
    BY <2>1, <2>2, <2>3 DEF Cleanup
  <2>. QED  BY <1>1, <2>4, PurgeCursor DEF HasCursor
<1>4. CASE PolicyPurge
  <2>1. \A f : HasCursor(f, n) => \A g \in PurgeChange(f) \cup PurgeRow(f) : HasCursor(g, n)
    <3>1. ASSUME NEW f, HasCursor(f, n), NEW g \in PurgeChange(f) PROVE HasCursor(g, n)
      <4>1. CASE g = f
        BY <3>1, <4>1
      <4>2. CASE \E e \in f.log : g = [Floor(f, {e.at}) EXCEPT !.log = f.log \ {e}]
        <5>1. PICK e \in f.log : g = [Floor(f, {e.at}) EXCEPT !.log = f.log \ {e}]
          BY <4>2
        <5>2. HasCursor(Floor(f, {e.at}), n)
          BY <3>1, FloorCursor
        <5>. QED  BY <5>1, <5>2 DEF HasCursor
      <4>. QED  BY <3>1, <4>1, <4>2 DEF PurgeChange
    <3>2. ASSUME NEW f, HasCursor(f, n), NEW g \in PurgeRow(f) PROVE HasCursor(g, n)
      BY <3>2, PurgeCursor DEF PurgeRow
    <3>. QED  BY <3>1, <3>2
  <2>2. \A f : HasCursor(f, n) => \A g \in PurgeMark(f) \cup PurgeReference(f) : HasCursor(g, n)
    <3>1. ASSUME NEW f, HasCursor(f, n), NEW g \in PurgeMark(f) PROVE HasCursor(g, n)
      <4>1. g = f \/ \E c : g = [Latched(f) EXCEPT !.marked[c] = {}]
        BY <3>1 DEF PurgeMark
      <4>2. HasCursor(Latched(f), n)
        BY <3>1, MarkCursor
      <4>. QED  BY <3>1, <4>1, <4>2 DEF HasCursor
    <3>2. ASSUME NEW f, HasCursor(f, n), NEW g \in PurgeReference(f) PROVE HasCursor(g, n)
      <4>1. g = f \/ \E p : g = [Latched(f) EXCEPT !.refs = f.refs \ {p}]
        BY <3>2 DEF PurgeReference
      <4>2. HasCursor(Latched(f), n)
        BY <3>2, MarkCursor
      <4>. QED  BY <3>2, <4>1, <4>2 DEF HasCursor
    <3>. QED  BY <3>1, <3>2
  <2>3. PICK f, g, h : /\ f \in PurgeChange(feed) /\ g \in PurgeRow(f) /\ h \in PurgeMark(g)
                       /\ feed' \in PurgeReference(h)
    BY <1>4 DEF PolicyPurge
  <2>4. HasCursor(f, n) /\ HasCursor(g, n)
    BY <1>2, <2>1, <2>3
  <2>5. HasCursor(feed', n)
    BY <2>2, <2>3, <2>4
  <2>. QED  BY <1>1, <2>5 DEF HasCursor
<1>5. CASE \E c \in Card : Retract(c)
  <2>1. PICK c : Retract(c)
    BY <1>5
  <2>2. ASSUME NEW f, HasCursor(f, n), NEW a PROVE HasCursor([f EXCEPT !.retracted = a], n)
    BY <2>2 DEF HasCursor
  <2>3. \A sources, a : HasCursor([KeepMark(feed, c, sources) EXCEPT !.retracted = a], n)
    BY <1>2, <2>2, MarkCursor
  <2>4. PICK rows, refs : rows = {p \in feed.rows : p[1] = c} /\ refs = {p \in feed.refs : p[1] = c}
    OBVIOUS
  <2>5. PICK m : m = KeepMark(feed, c, {SourceOf[p[2]] : p \in rows \cup refs})
    OBVIOUS
  <2>6. PICK r : r = [m EXCEPT !.retracted = m.retracted \cup rows]
    OBVIOUS
  <2>7. PICK t : t = IF r.head[c].pub = None THEN r ELSE Transition(r, r.head[c].pub, FALSE)
    OBVIOUS
  <2>8. feed' = IF authority.journal THEN Latched(t) ELSE t
    BY <2>1, <2>4, <2>5, <2>6, <2>7 DEF Retract
  <2>9. HasCursor(r, n)
    BY <2>3, <2>5, <2>6
  <2>10. HasCursor(t, n)
    BY <2>7, <2>9, TransitionCursor
  <2>11. HasCursor(feed', n)
    BY <2>8, <2>10, MarkCursor
  <2>. QED  BY <1>1, <2>11 DEF HasCursor
<1>6. CASE FeedRights
  <2>1. feed' = feed \/ feed' = Latched(feed)
    BY <1>6 DEF FeedRights
  <2>. QED  BY <1>1, <1>2, <2>1, MarkCursor DEF HasCursor
<1>7. CASE (\E p \in Pub : Age(p)) \/ BrowserNext
  BY <1>7 DEF Age, BrowserNext, ReadFeed, Forget
<1>. QED  BY <1>3, <1>4, <1>5, <1>6, <1>7 DEF TablesNext

\* Where a turn leaves the round: at a later card, or at its end. What it has passed
\* is shown only if it may be.
RoundGoesOn ==
    \/ /\ feed.cursor < feed'.cursor
       /\ \A c \in Card : feed.cursor < c /\ c <= feed'.cursor => ~ShownDenied(c)'
    \/ /\ feed'.cursor = 0
       /\ \A c \in Card : feed.cursor < c => ~ShownDenied(c)'

LEMMA TurnGoesOn ==
    ASSUME NEW f, TablesOK(f), f.cursor = feed.cursor, NEW late \in BOOLEAN, Turn(f, late)
    PROVE  RoundGoesOn \/ (late /\ feed'.cursor = feed.cursor)
<1>1. PICK K : K = {c \in Card : c > f.cursor /\ f.head[c].pub # None}
  OBVIOUS
<1>2. PICK heads : heads = FirstOf(K, HeadLimit)
  OBVIOUS
<1>3. HeadLimit \in Nat \ {0} /\ K \in SUBSET Nat /\ K \subseteq Card
  BY <1>1, CardIsNat, FeedAssumption
<1>4. heads \subseteq K /\ \A x \in heads, y \in K : y <= x => y \in heads
  BY <1>2, <1>3, PageIsFirst
<1>5. heads # K => Cardinality(heads) = HeadLimit /\ heads # {}
  <2>1. heads # K => Max(heads) \in heads
    BY <1>2, <1>3, PageIsFirst
  <2>. QED  BY <1>2, <1>3, <2>1, PageIsFull
<1>6. heads = Heads(f)
  BY <1>1, <1>2 DEF Heads
<1>7. /\ UNCHANGED <<features, grants, authority, aged>>
      /\ \E last \in heads \cup {0} : (late \/ last > 0 \/ heads = {}) /\ feed' = Rotate(f, heads, last)
  BY <1>6 DEF Turn, rights
<1>8. PICK last \in heads \cup {0} : (late \/ last > 0 \/ heads = {}) /\ feed' = Rotate(f, heads, last)
  BY <1>7
<1>9. heads \in SUBSET Card /\ \A c \in heads : f.head[c].pub # None /\ c > f.cursor
  BY <1>1, <1>4
<1>10. PICK g : g = feed'
  OBVIOUS
<1>11. /\ g.cursor = NextCursor(f.cursor, heads, last)
       /\ \A d \in Card \ heads : g.head[d] = f.head[d]
       /\ \A d \in heads : d <= last => ~DeniedIn(g, d)
  BY <1>8, <1>9, <1>10, RotateClears
<1>12. \A d \in Card \ heads : d > f.cursor /\ d \notin K => ~DeniedIn(g, d)
  BY <1>1, <1>11, NoHeadIsHidden DEF DeniedIn
<1>13. ASSUME NEW c \in Card, ~DeniedIn(g, c) PROVE ~ShownDenied(c)'
  BY <1>7, <1>10, <1>13 DEF DeniedIn, ShownDenied, Load, Retracted, Permitted, Granted, Allowed, Enabled
<1>14. last \in Nat /\ f.cursor \in Nat /\ \A c \in Card : c \in Nat
  BY <1>3, <1>4, TablesFields, CardIsNat DEF TablesOK
<1>15. CASE last > 0 /\ ((\E c \in heads : c > last) \/ Cardinality(heads) = HeadLimit)
  <2>1. g.cursor = last /\ last \in heads /\ f.cursor < last
    BY <1>8, <1>9, <1>11, <1>14, <1>15 DEF NextCursor
  <2>2. ASSUME NEW c \in Card, f.cursor < c, c <= last PROVE ~DeniedIn(g, c)
    <3>1. CASE c \in K
      BY <1>4, <1>11, <2>1, <2>2, <3>1
    <3>2. CASE c \notin K
      BY <1>4, <1>12, <2>2, <3>2
    <3>. QED  BY <3>1, <3>2
  <2>. QED  BY <1>10, <1>13, <2>1, <2>2 DEF RoundGoesOn
<1>16. CASE last > 0 /\ ~((\E c \in heads : c > last) \/ Cardinality(heads) = HeadLimit)
  <2>1. g.cursor = 0
    BY <1>11, <1>14, <1>16 DEF NextCursor
  <2>2. heads = K /\ \A c \in heads : c <= last
    BY <1>5, <1>9, <1>14, <1>16
  <2>3. ASSUME NEW c \in Card, f.cursor < c PROVE ~DeniedIn(g, c)
    BY <1>11, <1>12, <2>2, <2>3
  <2>. QED  BY <1>10, <1>13, <2>1, <2>3 DEF RoundGoesOn
<1>17. CASE last = 0 /\ heads # {}
  <2>1. g.cursor = f.cursor
    BY <1>11, <1>17 DEF NextCursor
  <2>2. ~(last > 0) /\ heads # {}
    BY <1>17
  <2>3. late
    BY <1>8, <2>2, Zenon
  <2>. QED  BY <1>10, <2>1, <2>3
<1>18. CASE last = 0 /\ heads = {}
  <2>1. g.cursor = 0
    BY <1>11, <1>18 DEF NextCursor
  <2>2. ASSUME NEW c \in Card, f.cursor < c PROVE ~DeniedIn(g, c)
    BY <1>5, <1>12, <1>18, <2>2
  <2>. QED  BY <1>10, <1>13, <2>1, <2>2 DEF RoundGoesOn
<1>. QED  BY <1>14, <1>15, <1>16, <1>17, <1>18

\* Every turn withdraws what may not be shown among the cards it passes; a turn that
\* was not cut short gets on to a later card or completes the round; and nothing but
\* a turn moves the cursor (the rotation of sync_publications). What DeniedIsWithdrawn
\* needs beside it is that the cards are finitely many and such turns come again.
THEOREM TurnsWithdraw ==
    FeedSpec => [][/\ FullTurn => RoundGoesOn
                   /\ SyncTurn => RoundGoesOn \/ feed'.cursor = feed.cursor
                   /\ feed'.cursor # feed.cursor => SyncTurn]_feed
<1>. DEFINE A == /\ FullTurn => RoundGoesOn
                 /\ SyncTurn => RoundGoesOn \/ feed'.cursor = feed.cursor
                 /\ feed'.cursor # feed.cursor => SyncTurn
<1>1. FeedInv /\ [TablesNext \/ BrowserNext]_<<rights, feedVars>> => [A]_feed
  <2>1. SUFFICES ASSUME FeedInv, TablesNext \/ BrowserNext, feed' # feed PROVE A
    BY DEF feedVars
  <2>2. TablesOK(feed)
    BY <2>1 DEF FeedInv
  <2>3. FullTurn => RoundGoesOn
    BY <2>2, TurnGoesOn DEF FullTurn
  <2>4. ASSUME SyncTurn PROVE RoundGoesOn \/ feed'.cursor = feed.cursor
    <3>1. CASE Turn(feed, TRUE)
      BY <2>2, <3>1, TurnGoesOn
    <3>2. CASE \E r \in Pub \cup (Card \X {None}) : Turn(Project(feed, r), TRUE)
      <4>1. PICK r \in Pub \cup (Card \X {None}) : Turn(Project(feed, r), TRUE)
        BY <3>2
      <4>2. PICK f : f = Project(feed, r)
        OBVIOUS
      <4>3. TablesOK(f)
        BY <2>2, <4>2, ProjectStep DEF Step
      <4>4. HasCursor(feed, feed.cursor)
        BY <2>2 DEF TablesOK, Tables, HasCursor
      <4>5. f.cursor = feed.cursor
        BY <4>2, <4>4, ProjectCursor DEF HasCursor
      <4>. QED  BY <4>1, <4>2, <4>3, <4>5, TurnGoesOn
    <3>. QED  BY <2>4, <3>1, <3>2 DEF SyncTurn
  <2>5. feed'.cursor # feed.cursor => SyncTurn
    BY <2>1, <2>2, OthersKeepCursor
  <2>. QED  BY <2>3, <2>4, <2>5
<1>. QED  BY <1>1, FeedInvHolds, PTL DEF FeedSpec

=============================================================================
