-------------------------- MODULE TransitionProofs ---------------------------
(* The transition table, for every number of owners, scopes, ids and          *)
(* failures: rows of a stream form one chain, and an owner's memory follows   *)
(* it. The chain is inductive only together with what a lock holder has in    *)
(* hand: the entry of an insert extends its owner's last stored entry.        *)
EXTENDS TransitionStore, FiniteSetTheorems, SequenceTheorems, TLAPS

\* A row is stored under its own record id.
Keyed == \A id \in Id : table[id] # None => table[id].tr.id = id

\* The rows of a stream: positions 1 .. n once each, one scope, and each entry
\* continues the one before it.
Chain(rows) ==
    /\ {e.position : e \in rows} = 1 .. Cardinality(rows)
    /\ \A e, f \in rows : e.position = f.position => e = f
    /\ \A e, f \in rows : e.scope = f.scope
    /\ \A e \in rows : /\ <<e.tr.from, e.tr.to>> \in Allowed[e.scope]
                       /\ e.position = 1 => e.prev = None /\ e.tr.from = Initial[e.scope]
    /\ \A e, f \in rows : f.position = e.position + 1 =>
          f.prev = e.tr.id /\ f.tr.from = e.tr.to /\ e.tr.at <= f.tr.at
Chains == \A s \in Stream : Chain(RowsOf(s))

\* What apply has in hand was accepted against the owner's present memory.
Pending ==
    \A o \in Owner : task[o].step \in {"insert", "readback"} =>
        /\ task[o].entry \in Entry
        /\ task[o].entry.scope = owner[o].scope
        /\ task[o].entry.position = NextPosition(o)
        /\ task[o].entry.prev = Previous(o)
        /\ Accepts(o, task[o].entry.tr)

\* What restore has in hand was read under the owner's scope.
Reading ==
    \A o \in Owner : task[o].step = "restore" =>
        task[o].read \subseteq Rows /\ \A e \in task[o].read : e.scope = owner[o].scope

TInv == TransitionTypeOK /\ Keyed /\ Chains /\ OwnerFollowsTable /\ Pending /\ Reading

-----------------------------------------------------------------------------
LEMMA Size == Cardinality(Id) \in Nat
BY FS_CardinalityType, RulesAssumption

LEMMA EntryFields ==
    ASSUME NEW e \in Entry
    PROVE  /\ e.scope \in Scope /\ e.position \in Nat \ {0} /\ e.position <= Cardinality(Id)
           /\ e.prev \in Id \cup {None} /\ e.tr \in Transition
           /\ e.tr.id \in Id /\ e.tr.from \in State /\ e.tr.to \in State /\ e.tr.at \in Nat
           /\ e.tr.stream \in Stream /\ StreamOf[e.scope] \in Stream
           /\ e # None
BY Size, RulesAssumption DEF Entry, Position, Stream

LEMMA RowsTyped ==
    ASSUME TransitionTypeOK
    PROVE  Rows \subseteq Entry /\ IsFiniteSet(Rows) /\ \A s : IsFiniteSet(RowsOf(s))
<1>1. Rows \subseteq Entry
  BY DEF TransitionTypeOK, Rows
<1>2. IsFiniteSet({table[id] : id \in Id})
  <2>1. table \in Surjection(Id, {table[id] : id \in Id})
    BY DEF TransitionTypeOK, Surjection
  <2>2. QED
    BY <2>1, FS_Surjection, RulesAssumption
<1>3. IsFiniteSet(Rows)
  BY <1>2, FS_Subset DEF Rows
<1>4. QED
  BY <1>1, <1>3, FS_Subset DEF RowsOf

\* A step that leaves the table alone leaves its rows alone.
LEMMA SameTable ==
    ASSUME UNCHANGED table
    PROVE  /\ Rows' = Rows /\ \A s : RowsOf(s)' = RowsOf(s)
           /\ Keyed => Keyed'
           /\ Chains => Chains'
<1>1. Rows' = Rows /\ \A s : RowsOf(s)' = RowsOf(s)
  BY DEF Rows, RowsOf
<1>2. Keyed => Keyed'
  BY DEF Keyed
<1>3. Chains => Chains'
  BY <1>1 DEF Chains, Chain
<1>4. QED
  BY <1>1, <1>2, <1>3

\* An owner that is not the one that moves keeps what it had.
LEMMA OtherOwners ==
    ASSUME TInv, NEW o \in Owner, Rows \subseteq Rows',
           \A p \in Owner \ {o} : owner'[p] = owner[p] /\ task'[p] = task[p]
    PROVE  \A p \in Owner \ {o} :
             /\ (IF owner[p].last = None THEN owner[p].state = Initial[owner[p].scope]
                 ELSE /\ owner[p].last \in Rows
                      /\ owner[p].last.scope = owner[p].scope
                      /\ owner[p].state = owner[p].last.tr.to)'
             /\ (task[p].step \in {"insert", "readback"} =>
                   /\ task[p].entry \in Entry
                   /\ task[p].entry.scope = owner[p].scope
                   /\ task[p].entry.position = NextPosition(p)
                   /\ task[p].entry.prev = Previous(p)
                   /\ Accepts(p, task[p].entry.tr))'
             /\ (task[p].step = "restore" =>
                   task[p].read \subseteq Rows /\ \A e \in task[p].read : e.scope = owner[p].scope)'
<1> SUFFICES ASSUME NEW p \in Owner \ {o}
             PROVE  /\ (IF owner[p].last = None THEN owner[p].state = Initial[owner[p].scope]
                        ELSE /\ owner[p].last \in Rows
                             /\ owner[p].last.scope = owner[p].scope
                             /\ owner[p].state = owner[p].last.tr.to)'
                    /\ (task[p].step \in {"insert", "readback"} =>
                          /\ task[p].entry \in Entry
                          /\ task[p].entry.scope = owner[p].scope
                          /\ task[p].entry.position = NextPosition(p)
                          /\ task[p].entry.prev = Previous(p)
                          /\ Accepts(p, task[p].entry.tr))'
                    /\ (task[p].step = "restore" =>
                          task[p].read \subseteq Rows /\ \A e \in task[p].read : e.scope = owner[p].scope)'
  OBVIOUS
<1>1. owner'[p] = owner[p] /\ task'[p] = task[p]
  OBVIOUS
<1>2. QED
  BY <1>1 DEF TInv, OwnerFollowsTable, Pending, Reading, NextPosition, Previous, Accepts

\* Entries of one stream in a chain: the last position is the number of rows.
LEMMA ChainPositions ==
    ASSUME TransitionTypeOK, NEW s, Chain(RowsOf(s))
    PROVE  /\ Cardinality(RowsOf(s)) \in Nat
           /\ \A e \in RowsOf(s) : e.position \in 1 .. Cardinality(RowsOf(s))
           /\ \A p \in 1 .. Cardinality(RowsOf(s)) : \E e \in RowsOf(s) : e.position = p
<1>1. Cardinality(RowsOf(s)) \in Nat
  BY RowsTyped, FS_CardinalityType
<1>2. {e.position : e \in RowsOf(s)} = 1 .. Cardinality(RowsOf(s))
  BY DEF Chain
<1>3. QED
  BY <1>1, <1>2

-----------------------------------------------------------------------------
\* The insert of an entry that follows its predecessor extends the chain.

LEMMA InsertExtends ==
    ASSUME TInv, NEW o \in Owner, task[o].step = "insert",
           NEW e, e = task[o].entry,
           Follows(e), ~Stored(e), ~Taken(e),
           table' = [table EXCEPT ![e.tr.id] = e]
    PROVE  Keyed' /\ Chains' /\ Rows' = Rows \cup {e}
<1> DEFINE s == StreamOf[e.scope]
           n == Cardinality(RowsOf(s))
<1>1. e \in Entry /\ table[e.tr.id] = None /\ s \in Stream
  BY EntryFields DEF TInv, Pending, Stored
<1>2. Keyed'
  BY <1>1, EntryFields DEF TInv, Keyed, TransitionTypeOK
<1>3. Rows' = Rows \cup {e}
  <2>1. e \in Rows' /\ Rows' \subseteq Rows \cup {e}
    BY <1>1, EntryFields DEF Rows, TInv, TransitionTypeOK
  <2>2. Rows \subseteq Rows'
    <3> SUFFICES ASSUME NEW id \in Id, table[id] # None
                 PROVE  table[id] \in Rows'
      BY DEF Rows
    <3>1. id # e.tr.id
      BY <1>1
    <3>2. table'[id] = table[id]
      BY <3>1, <1>1, EntryFields DEF TInv, TransitionTypeOK
    <3>3. QED
      BY <3>2 DEF Rows
  <2>3. QED
    BY <2>1, <2>2
<1>4. e \notin Rows
  BY <1>1 DEF Rows, TInv, Keyed
<1>5. RowsOf(s)' = RowsOf(s) \cup {e} /\ \A t \in Stream \ {s} : RowsOf(t)' = RowsOf(t)
  BY <1>3 DEF RowsOf
<1>6. Chain(RowsOf(s))
  BY <1>1 DEF TInv, Chains
<1>7. /\ n \in Nat
      /\ \A f \in RowsOf(s) : f.position \in 1 .. n
      /\ \A p \in 1 .. n : \E f \in RowsOf(s) : f.position = p
  BY <1>6, ChainPositions DEF TInv
<1>8. Cardinality(RowsOf(s) \cup {e}) = n + 1
  <2>1. IsFiniteSet(RowsOf(s)) /\ e \notin RowsOf(s)
    BY <1>4, RowsTyped DEF RowsOf, TInv
  <2>2. QED
    BY <2>1, FS_AddElement
<1>9. \A f \in RowsOf(s) : f.position # e.position
  BY DEF Taken
<1>10. /\ e.position = n + 1
       /\ \A f \in RowsOf(s) : e.position = f.position + 1 =>
             e.prev = f.tr.id /\ e.tr.from = f.tr.to /\ f.tr.at <= e.tr.at
       /\ \A f \in RowsOf(s) : f.scope = e.scope
       /\ e.position = 1 => e.prev = None /\ e.tr.from = Initial[e.scope]
  <2>1. CASE e.position = 1 /\ RowsOf(s) = {}
    <3>1. n = 0
      BY <2>1, <1>7
    <3>2. owner[o].last = None
      <4>1. owner[o].last # None => owner[o].last.position \in Nat \ {0}
        BY EntryFields DEF TInv, TransitionTypeOK
      <4>2. e.position = NextPosition(o)
        BY DEF TInv, Pending
      <4>3. QED
        BY <2>1, <4>1, <4>2 DEF NextPosition
    <3>3. e.prev = None /\ e.tr.from = Initial[e.scope]
      BY <3>2 DEF TInv, Pending, Previous, Accepts, OwnerFollowsTable
    <3>4. QED
      BY <2>1, <3>1, <3>3
  <2>2. CASE \E row \in RowsOf(s) :
                row.position = e.position - 1 /\ row.tr.id = e.prev /\ row.scope = e.scope
    <3>1. PICK row \in RowsOf(s) :
                row.position = e.position - 1 /\ row.tr.id = e.prev /\ row.scope = e.scope
      BY <2>2
    <3>2. e.position \in Nat /\ row.position \in 1 .. n /\ e.position - 1 \in 1 .. n
      BY <3>1, <1>1, <1>7, EntryFields
    <3>3. e.position = n + 1
      BY <3>2, <1>7, <1>9
    <3>4. owner[o].last # None
      BY <3>2, <3>3, <1>7 DEF TInv, Pending, NextPosition
    <3>5. /\ owner[o].last \in Rows /\ owner[o].last.scope = e.scope
          /\ e.prev = owner[o].last.tr.id /\ e.tr.from = owner[o].last.tr.to
          /\ owner[o].last.tr.at <= e.tr.at
      BY <3>4 DEF TInv, Pending, Previous, Accepts, OwnerFollowsTable
    <3>6. owner[o].last = row
      <4>1. row \in Rows /\ owner[o].last.tr.id = row.tr.id
        BY <3>1, <3>5 DEF RowsOf
      <4>2. QED
        BY <4>1, <3>5 DEF Rows, TInv, Keyed
    <3>7. \A f \in RowsOf(s) : e.position = f.position + 1 => f = row
      <4>1. \A f \in RowsOf(s) : f.position = row.position => f = row
        BY <3>1, <1>6 DEF Chain
      <4>2. \A f \in RowsOf(s) : f.position \in Nat
        BY <1>7
      <4>3. QED
        BY <3>1, <3>2, <4>1, <4>2
    <3>8. \A f \in RowsOf(s) : f.scope = e.scope
      BY <3>1, <1>6 DEF Chain
    <3>9. e.position # 1
      BY <3>2
    <3>10. QED
      BY <3>3, <3>5, <3>6, <3>7, <3>8, <3>9
  <2>3. QED
    BY <2>1, <2>2 DEF Follows
<1>11. Chain(RowsOf(s) \cup {e})
  <2> DEFINE rows == RowsOf(s) \cup {e}
  <2>1. {f.position : f \in rows} = 1 .. Cardinality(rows)
    <3>1. \A f \in rows : f.position \in 1 .. (n + 1)
      BY <1>7, <1>10
    <3>2. \A p \in 1 .. (n + 1) : \E f \in rows : f.position = p
      <4> SUFFICES ASSUME NEW p \in 1 .. (n + 1) PROVE \E f \in rows : f.position = p
        OBVIOUS
      <4>1. CASE p = n + 1
        BY <4>1, <1>10
      <4>2. CASE p \in 1 .. n
        BY <4>2, <1>7
      <4>3. QED
        BY <4>1, <4>2, <1>7
    <3>3. QED
      BY <3>1, <3>2, <1>8
  <2>2. \A f, g \in rows : f.position = g.position => f = g
    BY <1>6, <1>9 DEF Chain
  <2>3. \A f, g \in rows : f.scope = g.scope
    BY <1>6, <1>10 DEF Chain
  <2>4. \A f \in rows : /\ <<f.tr.from, f.tr.to>> \in Allowed[f.scope]
                        /\ f.position = 1 => f.prev = None /\ f.tr.from = Initial[f.scope]
    <3>1. <<e.tr.from, e.tr.to>> \in Allowed[e.scope]
      BY DEF TInv, Pending, Accepts
    <3>2. QED
      BY <3>1, <1>6, <1>10 DEF Chain
  <2>5. \A f, g \in rows : g.position = f.position + 1 =>
          g.prev = f.tr.id /\ g.tr.from = f.tr.to /\ f.tr.at <= g.tr.at
    <3> SUFFICES ASSUME NEW f \in rows, NEW g \in rows, g.position = f.position + 1
                 PROVE  g.prev = f.tr.id /\ g.tr.from = f.tr.to /\ f.tr.at <= g.tr.at
      OBVIOUS
    <3>1. CASE f = e
      <4>1. g.position = n + 2
        BY <3>1, <1>7, <1>10
      <4>2. QED
        BY <4>1, <1>7, <1>10
    <3>2. CASE f # e /\ g = e
      BY <3>2, <1>10
    <3>3. CASE f # e /\ g # e
      BY <3>3, <1>6 DEF Chain
    <3>4. QED
      BY <3>1, <3>2, <3>3
  <2>6. QED
    BY <2>1, <2>2, <2>3, <2>4, <2>5 DEF Chain
<1>12. Chains'
  <2> SUFFICES ASSUME NEW t \in Stream PROVE Chain(RowsOf(t)')
    BY DEF Chains, Chain
  <2>1. CASE t = s
    BY <2>1, <1>5, <1>11
  <2>2. CASE t # s
    BY <2>2, <1>5 DEF TInv, Chains
  <2>3. QED
    BY <2>1, <2>2
<1>13. QED
  BY <1>2, <1>3, <1>12

-----------------------------------------------------------------------------
\* Every step keeps the invariant, one lemma per action.

LEMMA NextEntry ==
    ASSUME TInv, NEW o \in Owner
    PROVE  /\ NextPosition(o) \in Nat \ {0}
           /\ Previous(o) \in Id \cup {None}
<1>1. owner[o].last # None => owner[o].last.position \in Nat \ {0} /\ owner[o].last.tr.id \in Id
  BY EntryFields DEF TInv, TransitionTypeOK
<1>2. QED
  BY <1>1 DEF NextPosition, Previous

LEMMA ApplyKeeps ==
    ASSUME TInv, NEW o \in Owner, NEW tr \in Transition, Apply(o, tr)
    PROVE  TInv'
<1> DEFINE e == [scope |-> owner[o].scope, position |-> NextPosition(o),
                 prev |-> Previous(o), tr |-> tr]
<1>1. e \in Entry
  BY NextEntry, Size DEF Entry, Position, Apply, TInv, TransitionTypeOK
<1>2. UNCHANGED <<table, owner, spent>> /\ task' = [task EXCEPT ![o] = [step |-> "insert", read |-> {}, entry |-> e]]
  BY DEF Apply
<1>3. TransitionTypeOK'
  BY <1>1, <1>2 DEF TInv, TransitionTypeOK
<1>4. Rows' = Rows /\ Keyed' /\ Chains'
  BY <1>2, SameTable DEF TInv
<1>5. task'[o] = [step |-> "insert", read |-> {}, entry |-> e] /\ owner'[o] = owner[o]
  BY <1>2 DEF TInv, TransitionTypeOK
<1>6. \A p \in Owner \ {o} : owner'[p] = owner[p] /\ task'[p] = task[p]
  BY <1>2 DEF TInv, TransitionTypeOK
<1>7. OwnerFollowsTable'
  BY <1>2, <1>4 DEF TInv, OwnerFollowsTable
<1>8. Pending'
  <2>1. Accepts(o, tr) /\ NextPosition(o)' = NextPosition(o) /\ Previous(o)' = Previous(o)
    BY <1>2 DEF Apply, NextPosition, Previous
  <2>2. Accepts(o, tr)'
    BY <2>1, <1>2 DEF Accepts
  <2>3. QED
    BY <1>1, <1>4, <1>5, <1>6, <2>1, <2>2, OtherOwners DEF Pending
<1>9. Reading'
  BY <1>4, <1>5, <1>6, OtherOwners DEF Reading
<1>10. QED
  BY <1>3, <1>4, <1>7, <1>8, <1>9 DEF TInv

\* The lock is released with the memory as it was.
LEMMA RaiseKeeps ==
    ASSUME TInv, NEW o \in Owner, Raise(o), UNCHANGED table,
           spent' \in [crashes: 0 .. MaxCrashes, failures: 0 .. MaxFailures]
    PROVE  TInv'
<1>1. TransitionTypeOK'
  BY DEF TInv, TransitionTypeOK, Raise, Free
<1>2. Rows' = Rows /\ Keyed' /\ Chains'
  BY SameTable DEF TInv
<1>3. task'[o].step = "free"
  BY DEF TInv, TransitionTypeOK, Raise, Free
<1>4. \A p \in Owner \ {o} : owner'[p] = owner[p] /\ task'[p] = task[p]
  BY DEF TInv, TransitionTypeOK, Raise
<1>5. OwnerFollowsTable'
  BY <1>2 DEF TInv, OwnerFollowsTable, Raise
<1>6. Pending' /\ Reading'
  BY <1>2, <1>3, <1>4, OtherOwners DEF Pending, Reading
<1>7. QED
  BY <1>1, <1>2, <1>5, <1>6 DEF TInv

LEMMA FailKeeps ==
    ASSUME TInv, NEW o \in Owner, Fail(o), UNCHANGED table
    PROVE  TInv'
<1>1. spent' \in [crashes: 0 .. MaxCrashes, failures: 0 .. MaxFailures]
  BY RulesAssumption DEF Fail, TInv, TransitionTypeOK
<1>2. QED
  BY <1>1, RaiseKeeps DEF Fail

\* A memory that moves to a stored entry, or to none, with the lock released.
LEMMA MoveKeeps ==
    ASSUME TInv, NEW o \in Owner, NEW scope \in Scope, NEW state \in State,
           NEW last \in Entry \cup {None}, UNCHANGED table,
           IF last = None THEN state = Initial[scope]
           ELSE last \in Rows /\ last.scope = scope /\ state = last.tr.to,
           owner' = [owner EXCEPT ![o] = [scope |-> scope, state |-> state, last |-> last]],
           task' = [task EXCEPT ![o] = Free],
           spent' \in [crashes: 0 .. MaxCrashes, failures: 0 .. MaxFailures]
    PROVE  TInv'
<1>1. TransitionTypeOK'
  BY DEF TInv, TransitionTypeOK, Free
<1>2. Rows' = Rows /\ Keyed' /\ Chains'
  BY SameTable DEF TInv
<1>3. task'[o].step = "free" /\ owner'[o] = [scope |-> scope, state |-> state, last |-> last]
  BY DEF TInv, TransitionTypeOK, Free
<1>4. \A p \in Owner \ {o} : owner'[p] = owner[p] /\ task'[p] = task[p]
  BY DEF TInv, TransitionTypeOK
<1>5. OwnerFollowsTable'
  BY <1>2, <1>3, <1>4, OtherOwners DEF OwnerFollowsTable
<1>6. Pending' /\ Reading'
  BY <1>2, <1>3, <1>4, OtherOwners DEF Pending, Reading
<1>7. QED
  BY <1>1, <1>2, <1>5, <1>6 DEF TInv

\* A step of the lock holder from insert to read-back.
LEMMA AdvanceKeeps ==
    ASSUME TInv, NEW o \in Owner, task[o].step = "insert",
           Rows \subseteq Rows', Keyed', Chains',
           table' \in [Id -> Entry \cup {None}],
           task' = [task EXCEPT ![o].step = "readback"], UNCHANGED <<owner, spent>>
    PROVE  TInv'
<1>1. TransitionTypeOK'
  BY DEF TInv, TransitionTypeOK
<1>2. task'[o].step = "readback" /\ task'[o].entry = task[o].entry
  BY DEF TInv, TransitionTypeOK
<1>3. \A p \in Owner \ {o} : owner'[p] = owner[p] /\ task'[p] = task[p]
  BY DEF TInv, TransitionTypeOK
<1>4. OwnerFollowsTable'
  BY DEF TInv, OwnerFollowsTable
<1>5. Pending'
  <2>1. NextPosition(o)' = NextPosition(o) /\ Previous(o)' = Previous(o)
    BY DEF NextPosition, Previous
  <2>2. Accepts(o, task[o].entry.tr)'
    BY <1>2 DEF TInv, Pending, Accepts
  <2>3. /\ (task[o].entry \in Entry)'
        /\ (task[o].entry.scope = owner[o].scope)'
        /\ (task[o].entry.position = NextPosition(o))'
        /\ (task[o].entry.prev = Previous(o))'
        /\ Accepts(o, task[o].entry.tr)'
    BY <1>2, <2>1, <2>2 DEF TInv, Pending, Accepts
  <2>4. QED
    BY <2>3, <1>3, OtherOwners DEF Pending
<1>6. Reading'
  BY <1>2, <1>3, OtherOwners DEF Reading
<1>7. QED
  BY <1>1, <1>4, <1>5, <1>6 DEF TInv

\* An owner's memory is its three fields.
LEMMA MemoryFields ==
    ASSUME NEW r \in [scope: Scope, state: State, last: Entry \cup {None}]
    PROVE  r = [scope |-> r.scope, state |-> r.state, last |-> r.last]
OBVIOUS

\* A memory that moves to a stored entry of its owner's scope.
LEMMA RemembersKeeps ==
    ASSUME TInv, NEW o \in Owner, NEW e \in Rows, e.scope = owner[o].scope,
           UNCHANGED table,
           owner' = [owner EXCEPT ![o].state = e.tr.to, ![o].last = e],
           task' = [task EXCEPT ![o] = Free],
           spent' \in [crashes: 0 .. MaxCrashes, failures: 0 .. MaxFailures]
    PROVE  TInv'
<1> DEFINE old == owner[o]
           new == [scope |-> old.scope, state |-> e.tr.to, last |-> e]
<1>1. old \in [scope: Scope, state: State, last: Entry \cup {None}]
  BY DEF TInv, TransitionTypeOK
<1>2. e \in Entry /\ e # None /\ e.tr.to \in State
  BY RowsTyped, EntryFields DEF TInv
<1>3. owner'[o] = new
  <2>1. owner'[o] \in [scope: Scope, state: State, last: Entry \cup {None}]
    BY <1>1, <1>2 DEF TInv, TransitionTypeOK
  <2>2. owner'[o].scope = old.scope /\ owner'[o].state = e.tr.to /\ owner'[o].last = e
    BY <1>1 DEF TInv, TransitionTypeOK
  <2>3. QED
    BY <2>1, <2>2, MemoryFields
<1>4. owner' = [owner EXCEPT ![o] = [scope |-> old.scope, state |-> e.tr.to, last |-> e]]
  <2>1. owner' = [p \in Owner |-> IF p = o THEN owner'[o] ELSE owner[p]]
    BY DEF TInv, TransitionTypeOK
  <2>2. QED
    BY <1>3, <2>1 DEF TInv, TransitionTypeOK
<1>5. IF e = None THEN e.tr.to = Initial[old.scope]
      ELSE e \in Rows /\ e.scope = old.scope /\ e.tr.to = e.tr.to
  BY <1>2
<1>6. old.scope \in Scope /\ e \in Entry \cup {None}
  BY <1>1, <1>2
<1>7. QED
  BY <1>2, <1>4, <1>5, <1>6, MoveKeeps

LEMMA InsertKeeps ==
    ASSUME TInv, NEW o \in Owner, Insert(o)
    PROVE  TInv'
<1> DEFINE e == task[o].entry
<1>1. task[o].step = "insert" /\ e \in Entry
  BY DEF Insert, TInv, Pending
<1>2. CASE /\ Follows(e) /\ ~Stored(e) /\ ~Taken(e)
           /\ table' = [table EXCEPT ![e.tr.id] = e]
           /\ task' = [task EXCEPT ![o].step = "readback"]
           /\ UNCHANGED <<owner, spent>>
  <2>1. Keyed' /\ Chains' /\ Rows \subseteq Rows'
    BY <1>1, <1>2, InsertExtends
  <2>2. table' \in [Id -> Entry \cup {None}]
    BY <1>1, <1>2, EntryFields DEF TInv, TransitionTypeOK
  <2>3. QED
    BY <1>1, <1>2, <2>1, <2>2, AdvanceKeeps
<1>3. CASE task' = [task EXCEPT ![o].step = "readback"] /\ UNCHANGED <<table, owner, spent>>
  <2>1. Keyed' /\ Chains' /\ Rows \subseteq Rows' /\ table' \in [Id -> Entry \cup {None}]
    BY <1>3, SameTable DEF TInv, TransitionTypeOK
  <2>2. QED
    BY <1>1, <1>3, <2>1, AdvanceKeeps
<1>4. CASE Raise(o) /\ UNCHANGED <<table, spent>>
  BY <1>4, RaiseKeeps DEF TInv, TransitionTypeOK
<1>5. CASE Fail(o) /\ UNCHANGED table
  BY <1>5, FailKeeps
<1>6. QED
  BY <1>2, <1>3, <1>4, <1>5 DEF Insert

LEMMA ReadBackKeeps ==
    ASSUME TInv, NEW o \in Owner, ReadBack(o)
    PROVE  TInv'
<1> DEFINE e == task[o].entry
<1>1. UNCHANGED table /\ task[o].step = "readback"
  BY DEF ReadBack
<1>2. e \in Entry /\ e.scope = owner[o].scope
  BY <1>1 DEF TInv, Pending
<1>3. CASE /\ table[e.tr.id] = e
           /\ owner' = [owner EXCEPT ![o].state = e.tr.to, ![o].last = e]
           /\ task' = [task EXCEPT ![o] = Free]
           /\ UNCHANGED spent
  <2>1. e \in Rows
    BY <1>2, <1>3, EntryFields DEF Rows
  <2>2. spent' \in [crashes: 0 .. MaxCrashes, failures: 0 .. MaxFailures]
    BY <1>3 DEF TInv, TransitionTypeOK
  <2>3. QED
    BY <1>1, <1>2, <1>3, <2>1, <2>2, RemembersKeeps
<1>4. CASE Raise(o) /\ UNCHANGED spent
  BY <1>1, <1>4, RaiseKeeps DEF TInv, TransitionTypeOK
<1>5. CASE Fail(o)
  BY <1>1, <1>5, FailKeeps
<1>6. QED
  BY <1>3, <1>4, <1>5 DEF ReadBack

LEMMA ReadChainKeeps ==
    ASSUME TInv, NEW o \in Owner, ReadChain(o)
    PROVE  TInv'
<1> DEFINE rows == RowsOf(StreamOf[owner[o].scope])
<1>1. /\ UNCHANGED <<table, owner, spent>> /\ \A e \in rows : e.scope = owner[o].scope
      /\ task' = [task EXCEPT ![o] = [step |-> "restore", entry |-> None, read |-> rows]]
  BY DEF ReadChain
<1>2. rows \subseteq Rows /\ rows \subseteq Entry
  BY RowsTyped DEF RowsOf, TInv
<1>3. TransitionTypeOK'
  BY <1>1, <1>2 DEF TInv, TransitionTypeOK
<1>4. Rows' = Rows /\ Keyed' /\ Chains'
  BY <1>1, SameTable DEF TInv
<1>5. task'[o] = [step |-> "restore", entry |-> None, read |-> rows]
  BY <1>1 DEF TInv, TransitionTypeOK
<1>6. \A p \in Owner \ {o} : owner'[p] = owner[p] /\ task'[p] = task[p]
  BY <1>1 DEF TInv, TransitionTypeOK
<1>7. OwnerFollowsTable'
  BY <1>1, <1>4 DEF TInv, OwnerFollowsTable
<1>8. Pending'
  BY <1>4, <1>5, <1>6, OtherOwners DEF Pending
<1>9. Reading'
  BY <1>1, <1>2, <1>4, <1>5, <1>6, OtherOwners DEF Reading
<1>10. QED
  BY <1>3, <1>4, <1>7, <1>8, <1>9 DEF TInv

LEMMA RestoreKeeps ==
    ASSUME TInv, NEW o \in Owner, Restore(o)
    PROVE  TInv'
<1>1. /\ task[o].step = "restore" /\ task' = [task EXCEPT ![o] = Free]
      /\ UNCHANGED <<table, spent>>
  BY DEF Restore
<1>2. spent' \in [crashes: 0 .. MaxCrashes, failures: 0 .. MaxFailures]
  BY <1>1 DEF TInv, TransitionTypeOK
<1>3. CASE \E e \in task[o].read :
             owner' = [owner EXCEPT ![o].state = e.tr.to, ![o].last = e]
  <2>1. PICK e \in task[o].read : owner' = [owner EXCEPT ![o].state = e.tr.to, ![o].last = e]
    BY <1>3
  <2>2. e \in Rows /\ e.scope = owner[o].scope
    BY <1>1 DEF TInv, Reading
  <2>3. QED
    BY <1>1, <1>2, <2>1, <2>2, RemembersKeeps
<1>4. CASE UNCHANGED owner
  <2>1. Raise(o)
    BY <1>1, <1>4 DEF Raise
  <2>2. QED
    BY <1>1, <1>2, <2>1, RaiseKeeps
<1>5. QED
  BY <1>3, <1>4 DEF Restore

LEMMA ResetKeeps ==
    ASSUME TInv, NEW o \in Owner, NEW scope \in Scope, Reset(o, scope)
    PROVE  TInv'
<1>1. task' = [task EXCEPT ![o] = Free]
  BY DEF Reset, TInv, TransitionTypeOK
<1>2. Initial[scope] \in State /\ UNCHANGED table
  BY RulesAssumption DEF Reset
<1>3. spent' \in [crashes: 0 .. MaxCrashes, failures: 0 .. MaxFailures]
  BY DEF Reset, TInv, TransitionTypeOK
<1>4. QED
  BY <1>1, <1>2, <1>3, MoveKeeps DEF Reset, Unused

LEMMA CrashKeeps ==
    ASSUME TInv, NEW o \in Owner, Crash(o)
    PROVE  TInv'
<1>1. PICK scope \in Scope : owner' = [owner EXCEPT ![o] = Unused(scope)]
  BY DEF Crash
<1>2. Initial[scope] \in State /\ UNCHANGED table /\ task' = [task EXCEPT ![o] = Free]
  BY RulesAssumption DEF Crash
<1>3. spent' \in [crashes: 0 .. MaxCrashes, failures: 0 .. MaxFailures]
  BY RulesAssumption DEF Crash, TInv, TransitionTypeOK
<1>4. QED
  BY <1>1, <1>2, <1>3, MoveKeeps DEF Unused

-----------------------------------------------------------------------------
LEMMA InitHolds == TransitionInit => TInv
<1> SUFFICES ASSUME TransitionInit PROVE TInv
  OBVIOUS
<1>1. Rows = {} /\ Keyed
  BY DEF TransitionInit, Rows, Keyed
<1>2. \A o \in Owner : \E scope \in Scope : owner[o] = Unused(scope)
  BY DEF TransitionInit
<1>3. TransitionTypeOK
  <2>1. owner \in [Owner -> [scope: Scope, state: State, last: Entry \cup {None}]]
    <3>1. \A scope \in Scope : Unused(scope) \in [scope: Scope, state: State, last: Entry \cup {None}]
      BY RulesAssumption DEF Unused
    <3>2. QED
      BY <3>1 DEF TransitionInit
  <2>2. QED
    BY <2>1, RulesAssumption DEF TransitionInit, TransitionTypeOK, Free
<1>4. Chains
  <2>1. \A s \in Stream : RowsOf(s) = {}
    BY <1>1 DEF RowsOf
  <2>2. Chain({})
    BY FS_EmptySet DEF Chain
  <2>3. QED
    BY <2>1, <2>2 DEF Chains
<1>5. OwnerFollowsTable
  <2>1. \A o \in Owner : owner[o].last = None /\ owner[o].state = Initial[owner[o].scope]
    <3>1. \A scope \in Scope :
            Unused(scope).last = None /\ Unused(scope).state = Initial[Unused(scope).scope]
      BY DEF Unused
    <3>2. QED
      BY <1>2, <3>1
  <2>2. QED
    BY <2>1 DEF OwnerFollowsTable
<1>6. Pending /\ Reading
  BY DEF TransitionInit, Pending, Reading, Free
<1>7. QED
  BY <1>1, <1>3, <1>4, <1>5, <1>6 DEF TInv

LEMMA StepKeeps == TInv /\ [TransitionNext]_transitionVars => TInv'
<1> SUFFICES ASSUME TInv, [TransitionNext]_transitionVars PROVE TInv'
  OBVIOUS
<1>1. CASE UNCHANGED transitionVars
  <2>1. Rows' = Rows /\ Keyed' /\ Chains'
    BY <1>1, SameTable DEF TInv, transitionVars
  <2>2. TransitionTypeOK' /\ OwnerFollowsTable' /\ Reading'
    BY <1>1, <2>1 DEF TInv, transitionVars, TransitionTypeOK, OwnerFollowsTable, Reading
  <2>3. Pending'
    BY <1>1 DEF TInv, transitionVars, Pending, NextPosition, Previous, Accepts
  <2>4. QED
    BY <2>1, <2>2, <2>3 DEF TInv
<1>2. CASE TransitionNext
  BY <1>2, ApplyKeeps, InsertKeeps, ReadBackKeeps, ReadChainKeeps, RestoreKeeps,
     CrashKeeps, ResetKeeps DEF TransitionNext
<1>3. QED
  BY <1>1, <1>2

\* The invariant holds in every reachable state.
THEOREM TableInvariant == TransitionSpec => []TInv
BY InitHolds, StepKeeps, PTL DEF TransitionSpec

\* Rows, memories and tasks keep their types; positions start at one.
THEOREM TransitionTypes == TransitionSpec => []TransitionTypeOK
<1>1. TInv => TransitionTypeOK
  BY DEF TInv
<1>2. QED
  BY <1>1, TableInvariant, PTL

\* An owner never remembers, and so never releases, a transition that is not in
\* the table (apply, restore, reset).
THEOREM OwnerFollowsTableAlways == TransitionSpec => []OwnerFollowsTable
<1>1. TInv => OwnerFollowsTable
  BY DEF TInv
<1>2. QED
  BY <1>1, TableInvariant, PTL

\* The rows of every stream pass restore's tests in every reachable state.
THEOREM AlwaysRestorableHolds == TransitionSpec => []AlwaysRestorable
<1>1. TInv => AlwaysRestorable
  BY DEF TInv, Chains, Chain, AlwaysRestorable, Restorable, Stream
<1>2. QED
  BY <1>1, TableInvariant, PTL

-----------------------------------------------------------------------------
\* The table refines the log. The first lemmas are about any set of rows that
\* form a chain; they serve the rows before and after an insert.

LogEntry == [scope: Scope, tr: Transition]

LEMMA LogOfChain ==
    ASSUME NEW rows \in SUBSET Entry, IsFiniteSet(rows), Chain(rows)
    PROVE  /\ Cardinality(rows) \in Nat
           /\ LogOf(rows) \in Seq(LogEntry) /\ Len(LogOf(rows)) = Cardinality(rows)
           /\ \A e \in rows : /\ e.position \in 1 .. Cardinality(rows)
                              /\ LogOf(rows)[e.position] = Logged(e)
           /\ \A p \in 1 .. Cardinality(rows) : \E e \in rows : e.position = p
<1>. DEFINE n == Cardinality(rows)
<1>1. n \in Nat
  BY FS_CardinalityType
<1>2. {e.position : e \in rows} = 1 .. n
  BY DEF Chain
<1>3. \A e \in rows : e.position \in 1 .. n
  BY <1>2
<1>4. \A p \in 1 .. n : \E e \in rows : e.position = p
  BY <1>2
<1>5. \A e \in rows : RowAt(rows, e.position) = Logged(e)
  <2>. SUFFICES ASSUME NEW e \in rows PROVE RowAt(rows, e.position) = Logged(e)
    OBVIOUS
  <2>. DEFINE f == CHOOSE f \in rows : f.position = e.position
  <2>1. f \in rows /\ f.position = e.position
    OBVIOUS
  <2>2. f = e
    BY <2>1 DEF Chain
  <2>. QED  BY <2>2 DEF RowAt
<1>6. \A e \in rows : Logged(e) \in LogEntry
  BY EntryFields DEF Logged, LogEntry
<1>7. \A p \in 1 .. n : RowAt(rows, p) \in LogEntry
  BY <1>4, <1>5, <1>6
<1>8. LogOf(rows) \in Seq(LogEntry) /\ Len(LogOf(rows)) = n
  BY <1>1, <1>7 DEF LogOf
<1>9. \A e \in rows : LogOf(rows)[e.position] = Logged(e)
  BY <1>3, <1>5 DEF LogOf
<1>. QED  BY <1>1, <1>3, <1>4, <1>8, <1>9

\* A row that makes a longer chain of a chain is its last one.
LEMMA LogOfMore ==
    ASSUME NEW rows \in SUBSET Entry, IsFiniteSet(rows), Chain(rows),
           NEW e \in Entry, e \notin rows, Chain(rows \cup {e})
    PROVE  /\ e.position = Cardinality(rows) + 1
           /\ LogOf(rows \cup {e}) = Append(LogOf(rows), Logged(e))
<1>. DEFINE n == Cardinality(rows)
            more == rows \cup {e}
<1>1. /\ n \in Nat /\ LogOf(rows) \in Seq(LogEntry) /\ Len(LogOf(rows)) = n
      /\ \A f \in rows : f.position \in 1 .. n /\ LogOf(rows)[f.position] = Logged(f)
      /\ \A p \in 1 .. n : \E f \in rows : f.position = p
  BY LogOfChain
<1>2. IsFiniteSet(more) /\ Cardinality(more) = n + 1
  BY FS_AddElement
<1>3. /\ LogOf(more) \in Seq(LogEntry) /\ Len(LogOf(more)) = n + 1
      /\ \A f \in more : f.position \in 1 .. n + 1 /\ LogOf(more)[f.position] = Logged(f)
  BY <1>2, LogOfChain
<1>4. e.position \notin 1 .. n
  BY <1>1 DEF Chain
<1>5. e.position = n + 1
  BY <1>1, <1>3, <1>4
<1>6. \A p \in 1 .. n : LogOf(more)[p] = LogOf(rows)[p]
  <2>. SUFFICES ASSUME NEW p \in 1 .. n PROVE LogOf(more)[p] = LogOf(rows)[p]
    OBVIOUS
  <2>1. PICK f \in rows : f.position = p
    BY <1>1
  <2>2. LogOf(rows)[p] = Logged(f) /\ LogOf(more)[p] = Logged(f)
    BY <1>1, <1>3, <2>1
  <2>. QED  BY <2>2
<1>7. LogOf(more)[n + 1] = Logged(e)
  BY <1>3, <1>5
<1>8. Logged(e) \in LogEntry
  BY EntryFields DEF Logged, LogEntry
<1>9. LogOf(more) = Append(LogOf(rows), Logged(e))
  <2>. DEFINE new == Append(LogOf(rows), Logged(e))
  <2>1. /\ new \in Seq(LogEntry) /\ Len(new) = n + 1 /\ new[n + 1] = Logged(e)
        /\ \A p \in 1 .. n : new[p] = LogOf(rows)[p]
    BY <1>1, <1>8, AppendProperties
  <2>2. \A p \in 1 .. n + 1 : p = n + 1 \/ p \in 1 .. n
    BY <1>1
  <2>3. \A p \in 1 .. n + 1 : LogOf(more)[p] = new[p]
    BY <1>6, <1>7, <2>1, <2>2
  <2>. HIDE DEF new
  <2>4. LogOf(more) = new
    BY <1>3, <2>1, <2>3, SeqEqual
  <2>. QED  BY <2>4 DEF new
<1>. QED  BY <1>5, <1>9

\* The insert of a row is a step of the log.
\* What a chain says of its first row, and of two rows in a row.
LEMMA ChainFirst ==
    ASSUME NEW rows, Chain(rows), NEW e \in rows, e.position = 1
    PROVE  e.tr.from = Initial[e.scope]
BY DEF Chain

LEMMA ChainNext ==
    ASSUME NEW rows, Chain(rows), NEW f \in rows, NEW e \in rows, e.position = f.position + 1
    PROVE  f.scope = e.scope /\ e.tr.from = f.tr.to /\ f.tr.at <= e.tr.at
BY DEF Chain

LEMMA InsertLogs ==
    ASSUME TInv, NEW o \in Owner, task[o].step = "insert",
           NEW e, e = task[o].entry,
           Follows(e), ~Stored(e), ~Taken(e),
           table' = [table EXCEPT ![e.tr.id] = e]
    PROVE  Log!LogNext
<1>. DEFINE s == StreamOf[e.scope]
            rows == RowsOf(s)
            n == Cardinality(rows)
<1>1. /\ e \in Entry /\ table[e.tr.id] = None /\ s \in Stream /\ e.scope \in Scope
      /\ e.tr \in Transition
  BY EntryFields DEF TInv, Pending, Stored
<1>2. Chains' /\ Rows' = Rows \cup {e}
  BY InsertExtends
<1>3. e \notin Rows /\ \A f \in Rows : f.tr.id # e.tr.id
  BY <1>1 DEF Rows, TInv, Keyed
<1>4. RowsOf(s)' = rows \cup {e} /\ \A t \in Stream \ {s} : RowsOf(t)' = RowsOf(t)
  BY <1>2 DEF RowsOf
<1>5. \A t \in Stream : RowsOf(t) \in SUBSET Entry /\ IsFiniteSet(RowsOf(t)) /\ Chain(RowsOf(t))
  BY RowsTyped DEF TInv, Chains, RowsOf
<1>6. Chain(rows \cup {e})
  <2>1. Chain(RowsOf(s)')
    BY <1>1, <1>2 DEF Chains, Chain
  <2>. QED  BY <1>4, <2>1
<1>7. e \notin rows
  BY <1>3 DEF RowsOf
<1>8. e.position = n + 1 /\ LogOf(rows \cup {e}) = Append(LogOf(rows), Logged(e))
  BY <1>1, <1>5, <1>6, <1>7, LogOfMore
<1>9. TableLog' = [TableLog EXCEPT ![s] = Append(@, [scope |-> e.scope, tr |-> e.tr])]
  <2>1. \A t \in Stream : LogOf(RowsOf(t)') = IF t = s THEN Append(TableLog[s], Logged(e)) ELSE TableLog[t]
    BY <1>1, <1>4, <1>8 DEF TableLog
  <2>2. TableLog' = [t \in Stream |-> LogOf(RowsOf(t)')]
    BY DEF TableLog, LogOf, RowAt, Logged
  <2>. QED  BY <1>1, <2>1, <2>2 DEF TableLog, Logged
<1>10. /\ e.tr.stream = s /\ <<e.tr.from, e.tr.to>> \in Allowed[e.scope]
  BY DEF TInv, Pending, Accepts
<1>11. \A t \in Stream : e.tr.id \notin Log!Ids(t)
  <2>. SUFFICES ASSUME NEW t \in Stream, NEW p \in DOMAIN TableLog[t], TableLog[t][p].tr.id = e.tr.id
                PROVE  FALSE
    BY DEF Log!Ids
  <2>1. p \in 1 .. Cardinality(RowsOf(t)) /\ TableLog[t] = LogOf(RowsOf(t))
    BY DEF TableLog, LogOf
  <2>2. PICK f \in RowsOf(t) : f.position = p /\ LogOf(RowsOf(t))[p] = Logged(f)
    BY <1>5, <2>1, LogOfChain
  <2>3. f.tr.id = e.tr.id /\ f \in Rows
    BY <2>1, <2>2 DEF Logged, RowsOf
  <2>. QED  BY <1>3, <2>3
<1>12. IF TableLog[s] = <<>> THEN e.tr.from = Initial[e.scope]
       ELSE /\ Log!Tip(s).scope = e.scope
            /\ e.tr.from = Log!Tip(s).tr.to
            /\ Log!Tip(s).tr.at <= e.tr.at
  <2>1. TableLog[s] = LogOf(rows) /\ n \in Nat /\ Len(LogOf(rows)) = n
    BY <1>1, <1>5, LogOfChain DEF TableLog
  <2>2. CASE n = 0
    <3>1. e.tr.from = Initial[e.scope]
      <4>1. e.position = 1
        BY <1>8, <2>2
      <4>. QED  BY <1>6, <4>1, ChainFirst
    <3>2. TableLog[s] = <<>>
      BY <2>1, <2>2, <1>1, <1>5, LogOfChain
    <3>. QED  BY <3>1, <3>2
  <2>3. CASE n # 0
    <3>0. rows \in SUBSET Entry /\ IsFiniteSet(rows) /\ Chain(rows) /\ n \in 1 .. Cardinality(rows)
      BY <1>1, <1>5, <2>1, <2>3
    <3>1. PICK f \in rows : f.position = n /\ LogOf(rows)[n] = Logged(f)
      <4>1. PICK f \in rows : f.position = n
        BY <3>0, LogOfChain
      <4>. QED  BY <3>0, <4>1, LogOfChain
    <3>2. Log!Tip(s) = Logged(f)
      BY <2>1, <3>1 DEF Log!Tip
    <3>3. f.scope = e.scope /\ e.tr.from = f.tr.to /\ f.tr.at <= e.tr.at
      <4>1. f \in rows \cup {e} /\ e \in rows \cup {e} /\ e.position = f.position + 1
        BY <1>8, <3>1
      <4>. QED  BY <1>6, <4>1, ChainNext
    <3>4. TableLog[s] # <<>>
      BY <2>1, <2>3
    <3>. QED  BY <3>2, <3>3, <3>4 DEF Logged
  <2>. QED  BY <2>2, <2>3
<1>13. Log!Extend(e.scope, e.tr)
  BY <1>1, <1>9, <1>10, <1>11, <1>12 DEF Log!Extend, Log!Streams, Stream
<1>. QED  BY <1>1, <1>13 DEF Log!LogNext

LEMMA LogStep == TInv /\ [TransitionNext]_transitionVars => [Log!LogNext]_TableLog
<1>. SUFFICES ASSUME TInv, [TransitionNext]_transitionVars PROVE [Log!LogNext]_TableLog
  OBVIOUS
<1>1. CASE UNCHANGED table
  BY <1>1 DEF TableLog, RowsOf, Rows
<1>2. ASSUME NEW o \in Owner, Insert(o), ~UNCHANGED table PROVE Log!LogNext
  BY <1>2, InsertLogs DEF Insert
<1>3. CASE TransitionNext /\ ~UNCHANGED table
  BY <1>2, <1>3 DEF TransitionNext, Apply, ReadBack, ReadChain, Restore, Crash, Reset
<1>. QED  BY <1>1, <1>3 DEF transitionVars

LEMMA LogStarts == TransitionInit => Log!LogInit
<1>. SUFFICES ASSUME TransitionInit PROVE Log!LogInit
  OBVIOUS
<1>1. \A s \in Stream : RowsOf(s) = {}
  BY DEF TransitionInit, Rows, RowsOf
<1>2. LogOf({}) = <<>>
  BY FS_EmptySet DEF LogOf
<1>. QED  BY <1>1, <1>2 DEF TableLog, Log!LogInit, Log!Streams, Stream

\* The transition table implements the log of its streams: whatever its owners
\* race, retry, lose and restart, its rows only ever grow at the end of a stream,
\* along the rules and the clock of the one scope that began it (append).
THEOREM LogAlwaysKept == TransitionSpec => KeepsLog
BY LogStarts, LogStep, TableInvariant, PTL DEF TransitionSpec, KeepsLog, Log!LogSpec

=============================================================================
