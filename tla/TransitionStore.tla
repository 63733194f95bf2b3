--------------------------- MODULE TransitionStore ---------------------------
(* State owners (state_transitions.py) over the append-only transition table  *)
(* (transition_store.py). Several owners may exist for a stream: a crashed    *)
(* one and its successor, a replay from the start, one with other rules.      *)
(*                                                                            *)
(* apply holds its owner's lock across two awaits, the insert and the         *)
(* read-back; only the read-back advances the owner's memory.                 *)
EXTENDS Naturals, FiniteSets

CONSTANTS Owner,
          Scope,       \* session, symbol, strategy, versions and rules
          StreamOf,    \* scope -> stream; versions and rules are not part of it
          SessionOf,   \* scope -> the number of its session
          Initial, Allowed,
          Transition,  \* proposals: [id, stream, from, to, at]
          Id, State,
          None

\* Bounds of one behaviour.
CONSTANTS MaxCrashes, MaxFailures

Stream == {StreamOf[scope] : scope \in Scope}

Position == 1 .. Cardinality(Id)
Entry == [scope: Scope, position: Position, prev: Id \cup {None}, tr: Transition]

ASSUME RulesAssumption ==
    /\ Transition \subseteq [id: Id, stream: Stream, from: State, to: State, at: Nat]
    /\ IsFiniteSet(Id)
    /\ Initial \in [Scope -> State]
    /\ Allowed \in [Scope -> SUBSET (State \X State)]
    /\ SessionOf \in [Scope -> Nat]
    /\ {MaxCrashes, MaxFailures} \subseteq Nat
    /\ None \notin Id \cup Entry

VARIABLES
    table,   \* trade_alerts_transitions_v1: record id -> entry, or None
    owner,   \* owner -> its scope, state and last entry
    task,    \* owner -> what its lock holder is doing
    spent

transitionVars == <<table, owner, task, spent>>

Rows == {table[id] : id \in Id} \ {None}
RowsOf(s) == {e \in Rows : StreamOf[e.scope] = s}

Free == [step |-> "free", entry |-> None, read |-> {}]
Unused(scope) == [scope |-> scope, state |-> Initial[scope], last |-> None]

TransitionTypeOK ==
    /\ table \in [Id -> Entry \cup {None}]
    /\ owner \in [Owner -> [scope: Scope, state: State, last: Entry \cup {None}]]
    /\ task \in [Owner -> [step: {"free", "insert", "readback", "restore"},
                           entry: Entry \cup {None}, read: SUBSET Entry]]
    /\ spent \in [crashes: 0 .. MaxCrashes, failures: 0 .. MaxFailures]

TransitionInit ==
    /\ table = [id \in Id |-> None]
    /\ owner \in [Owner -> {Unused(scope) : scope \in Scope}]
    /\ task = [o \in Owner |-> Free]
    /\ spent = [crashes |-> 0, failures |-> 0]

-----------------------------------------------------------------------------
\* apply.

\* Mutant of NextPosition: positions count from zero.
FromZero(o) == IF owner[o].last = None THEN 0 ELSE owner[o].last.position + 1
NextPosition(o) == IF owner[o].last = None THEN 1 ELSE owner[o].last.position + 1
Previous(o) == IF owner[o].last = None THEN None ELSE owner[o].last.tr.id

\* Mutant of Accepts: the proposal's old state is taken on trust.
AcceptsAnyState(o, tr) ==
    /\ tr.stream = StreamOf[owner[o].scope]
    /\ owner[o].last # None => /\ owner[o].last.tr.at <= tr.at
                               /\ owner[o].last.tr.id # tr.id
    /\ <<tr.from, tr.to>> \in Allowed[owner[o].scope]

\* _check and the tests of apply; the latest accepted transition is returned
\* again without a write, any other with its id is an error.
Accepts(o, tr) ==
    /\ tr.stream = StreamOf[owner[o].scope]
    /\ owner[o].last # None => /\ owner[o].last.tr.at <= tr.at
                               /\ owner[o].last.tr.id # tr.id
    /\ tr.from = owner[o].state
    /\ <<tr.from, tr.to>> \in Allowed[owner[o].scope]

Apply(o, tr) ==
    /\ task[o] = Free /\ Accepts(o, tr) /\ NextPosition(o) <= Cardinality(Id)
    /\ task' = [task EXCEPT ![o] = [step |-> "insert", read |-> {}, entry |->
                  [scope |-> owner[o].scope, position |-> NextPosition(o),
                   prev |-> Previous(o), tr |-> tr]]]
    /\ UNCHANGED <<table, owner, spent>>

\* The call raises: the lock is released, the memory stays.
Raise(o) == task' = [task EXCEPT ![o] = Free] /\ UNCHANGED owner
Fail(o) == /\ spent.failures < MaxFailures
           /\ spent' = [spent EXCEPT !.failures = @ + 1]
           /\ Raise(o)

Stored(e) == table[e.tr.id] # None
NeverTaken(e) == FALSE                                   \* mutant of Taken
\* UNIQUE(stream_id, position).
Taken(e) == \E row \in RowsOf(StreamOf[e.scope]) : row.position = e.position
\* The WHERE of the insert.
Follows(e) ==
    \/ e.position = 1 /\ RowsOf(StreamOf[e.scope]) = {}
    \/ \E row \in RowsOf(StreamOf[e.scope]) :
        row.position = e.position - 1 /\ row.tr.id = e.prev /\ row.scope = e.scope

\* The insert transaction: a row, nothing (ON CONFLICT(record_id) DO NOTHING, or
\* no row selected), or an IntegrityError.
Insert(o) ==
    /\ task[o].step = "insert"
    /\ LET e == task[o].entry IN
       \/ /\ Follows(e) /\ ~Stored(e) /\ ~Taken(e)
          /\ table' = [table EXCEPT ![e.tr.id] = e]
          /\ task' = [task EXCEPT ![o].step = "readback"]
          /\ UNCHANGED <<owner, spent>>
       \/ /\ ~Follows(e) \/ Stored(e)
          /\ task' = [task EXCEPT ![o].step = "readback"]
          /\ UNCHANGED <<table, owner, spent>>
       \/ /\ Follows(e) /\ ~Stored(e) /\ Taken(e)
          /\ Raise(o) /\ UNCHANGED <<table, spent>>
       \/ Fail(o) /\ UNCHANGED table

\* Mutant of ReadBack: the insert alone acknowledges.
TrustInsert(o) ==
    /\ task[o].step = "readback"
    /\ owner' = [owner EXCEPT ![o].state = task[o].entry.tr.to, ![o].last = task[o].entry]
    /\ task' = [task EXCEPT ![o] = Free]
    /\ UNCHANGED <<table, spent>>

\* The row is read back and compared; only then is the owner advanced. An
\* acknowledgment may be lost after the insert.
ReadBack(o) ==
    /\ task[o].step = "readback"
    /\ LET e == task[o].entry IN
       \/ /\ table[e.tr.id] = e
          /\ owner' = [owner EXCEPT ![o].state = e.tr.to, ![o].last = e]
          /\ task' = [task EXCEPT ![o] = Free]
          /\ UNCHANGED spent
       \/ table[e.tr.id] # e /\ Raise(o) /\ UNCHANGED spent
       \/ Fail(o)
    /\ UNCHANGED table

-----------------------------------------------------------------------------
\* Recovery of an owner, and a later session.

\* SQLiteTransitionStore.read, for an owner that was never used.
ReadChain(o) ==
    /\ task[o] = Free /\ owner[o] = Unused(owner[o].scope)
    /\ LET rows == RowsOf(StreamOf[owner[o].scope]) IN
       /\ rows # {} /\ \A e \in rows : e.scope = owner[o].scope
       /\ task' = [task EXCEPT ![o] = [step |-> "restore", entry |-> None, read |-> rows]]
    /\ UNCHANGED <<table, owner, spent>>

\* The tests of restore on the rows in the order of their positions.
Restorable(scope, rows) ==
    /\ {e.position : e \in rows} = 1 .. Cardinality(rows)
    /\ \A e \in rows : /\ <<e.tr.from, e.tr.to>> \in Allowed[scope]
                       /\ e.position = 1 => e.prev = None /\ e.tr.from = Initial[scope]
    /\ \A e, f \in rows : f.position = e.position + 1 =>
          f.prev = e.tr.id /\ f.tr.from = e.tr.to /\ e.tr.at <= f.tr.at

Restore(o) ==
    /\ task[o].step = "restore"
    /\ LET rows == task[o].read IN
       \/ /\ Restorable(owner[o].scope, rows)
          /\ \E e \in rows :
              /\ \A f \in rows : f.position <= e.position
              /\ owner' = [owner EXCEPT ![o].state = e.tr.to, ![o].last = e]
       \/ ~Restorable(owner[o].scope, rows) /\ UNCHANGED owner
    /\ task' = [task EXCEPT ![o] = Free]
    /\ UNCHANGED <<table, spent>>

Reset(o, scope) ==
    /\ task[o] = Free
    /\ SessionOf[scope] > SessionOf[owner[o].scope]
    /\ Initial[scope] = Initial[owner[o].scope] /\ Allowed[scope] = Allowed[owner[o].scope]
    /\ owner' = [owner EXCEPT ![o] = Unused(scope)]
    /\ UNCHANGED <<table, task, spent>>

\* The process ends; a new owner of some scope takes its place.
Crash(o) ==
    /\ spent.crashes < MaxCrashes
    /\ spent' = [spent EXCEPT !.crashes = @ + 1]
    /\ \E scope \in Scope : owner' = [owner EXCEPT ![o] = Unused(scope)]
    /\ task' = [task EXCEPT ![o] = Free]
    /\ UNCHANGED table

TransitionNext == \E o \in Owner :
    \/ \E tr \in Transition : Apply(o, tr)
    \/ Insert(o) \/ ReadBack(o) \/ ReadChain(o) \/ Restore(o) \/ Crash(o)
    \/ \E scope \in Scope : Reset(o, scope)

TransitionSpec == TransitionInit /\ [][TransitionNext]_transitionVars

-----------------------------------------------------------------------------
\* What an owner remembers is stored, and its state is where that entry leads:
\* no output is released on a transition that was not saved (apply).
OwnerFollowsTable ==
    \A o \in Owner :
        IF owner[o].last = None THEN owner[o].state = Initial[owner[o].scope]
        ELSE /\ owner[o].last \in Rows
             /\ owner[o].last.scope = owner[o].scope
             /\ owner[o].state = owner[o].last.tr.to

\* Whatever competed, failed or crashed, the rows of a stream always pass the
\* tests of restore: recovery is never refused by facts the store accepted.
AlwaysRestorable ==
    \A scope \in Scope :
        LET rows == RowsOf(StreamOf[scope]) IN
        (\A e \in rows : e.scope = scope) => Restorable(scope, rows)

\* The rows of a stream as the abstract log; a gap would show as None.
Logged(e) == [scope |-> e.scope, tr |-> e.tr]
RowAt(rows, p) == IF \E e \in rows : e.position = p
                  THEN Logged(CHOOSE e \in rows : e.position = p) ELSE None
LogOf(rows) == [p \in 1 .. Cardinality(rows) |-> RowAt(rows, p)]
TableLog == [s \in Stream |-> LogOf(RowsOf(s))]
Log == INSTANCE TransitionLog WITH log <- TableLog

\* However its owners race, retry, fail and restart, the table behaves as one
\* append-only log per stream: competing positions, reused ids, changed scopes
\* and stale owners add nothing (SQLiteTransitionStore.append).
KeepsLog == Log!LogSpec

=============================================================================
