------------------------------ MODULE Accounts -------------------------------
(* Members, their sessions and their administration (auth.py, admin.py) in the *)
(* web ledger, whose every transaction is fenced by the denial journal         *)
(* (store.py, DenialJournal.reconcile).                                        *)
(*                                                                             *)
(* One transaction holds the write lock at a time: it reconciles, runs its     *)
(* body, which may append a denial over the RPC, reconciles again and commits. *)
(* It may end without a commit at any point, its append done or not.           *)
EXTENDS DenialJournal, FiniteSets

CONSTANTS Admin, None
CONSTANTS MaxChanges       \* bound: reactivations and new passwords

ASSUME AccountAssumption ==
    /\ Admin \subseteq Member /\ Admin # {}
    /\ IsFiniteSet(Member)
    /\ None \notin Member
    /\ MaxChanges \in Nat

VARIABLES
    web,      \* the committed ledger
    txn,      \* the transaction that holds the write lock, or None
    login,    \* member -> the row a login has verified, or None
    changes

accountVars == <<journalVars, web, txn, login, changes>>

Row == [status: {"active", "suspended"}, version: Nat, password: Nat]
Session == [member: Member, version: Nat, password: Nat, born: Nat]
Ledger == [row: [Member -> Row], sessions: SUBSET Session, applied: Seq(Denial)]
AdminOp == {"suspend", "reactivate", "revoke"}
Op == AdminOp \cup {"lookup", "issue", "replace"}
Step == {"body", "append", "apply", "end"}

AccountTypeOK ==
    /\ JournalTypeOK
    /\ web \in Ledger
    /\ txn = None \/ txn \in [op: Op, actor: Member, member: Member, step: Step, work: Ledger]
    /\ login \in [Member -> Row \cup {None}]
    /\ changes \in 0 .. MaxChanges

\* A session also carries what the model compares later: the password its login
\* verified and the number of denials applied when it was issued.
NewSession(ledger, m) ==
    [member |-> m, version |-> ledger.row[m].version,
     password |-> ledger.row[m].password, born |-> Len(ledger.applied)]

AccountInit ==
    /\ JournalInit
    /\ web = [row |-> [m \in Member |-> [status |-> "active", version |-> 1, password |-> 1]],
              sessions |-> {[member |-> m, version |-> 1, password |-> 1, born |-> 0] : m \in Admin},
              applied |-> <<>>]
    /\ txn = None
    /\ login = [m \in Member |-> None]
    /\ changes = 0

-----------------------------------------------------------------------------
\* Ledger updates.

Without(ledger, m) == {s \in ledger.sessions : s.member # m}
WithRow(ledger, m, row, sessions) ==
    [row |-> [ledger.row EXCEPT ![m] = row], sessions |-> sessions, applied |-> ledger.applied]
WithSession(ledger, s) == [ledger EXCEPT !.sessions = ledger.sessions \cup {s}]

\* Every change of a row counts its version up.
Changed(row, status, password) ==
    [status |-> status, version |-> row.version + 1, password |-> password]

\* The denials that a reconcile finds beyond the projection.
Fresh(ledger) == {i \in 1 .. Len(journal) : i > Len(ledger.applied)}
Named(ledger, kinds) == {journal[i].member : i \in {i \in Fresh(ledger) : journal[i].kind \in kinds}}

SuspendedOnly(row) == Changed(row, "suspended", row.password)

ReconciledKeepsSessions(ledger) ==                       \* mutant of Reconciled
    [row |-> [m \in Member |->
        IF m \in Named(ledger, {"member_suspended"}) /\ ledger.row[m].status # "suspended"
        THEN SuspendedOnly(ledger.row[m]) ELSE ledger.row[m]],
     sessions |-> {s \in ledger.sessions : s.member \notin Named(ledger, {"member_suspended"})},
     applied |-> journal]
\* reconcile: each denial beyond the projection in turn. The two kinds touch a
\* row once, so their order does not show.
Reconciled(ledger) ==
    [row |-> [m \in Member |->
        IF m \in Named(ledger, {"member_suspended"}) /\ ledger.row[m].status # "suspended"
        THEN SuspendedOnly(ledger.row[m]) ELSE ledger.row[m]],
     sessions |-> {s \in ledger.sessions :
        s.member \notin Named(ledger, {"member_suspended", "sessions_revoked"})},
     applied |-> journal]

\* The reads succeed and the projection is a prefix of what they return.
CanReconcile(ledger) == Readable /\ IsPrefixOf(ledger.applied, journal)

-----------------------------------------------------------------------------
\* store.transaction.

BeginUnfenced(op, actor, m) ==                           \* mutant of Begin
    /\ txn = None /\ CanReconcile(web)
    /\ op \in AdminOp \/ actor = m
    /\ op = "issue" => login[m] # None
    /\ txn' = [op |-> op, actor |-> actor, member |-> m, step |-> "body", work |-> web]
    /\ wire' = Silent
    /\ UNCHANGED <<files, updater, known, faults, web, login, changes>>
\* Only an administrator's operation has an actor of its own. An answer that
\* nobody waited for is gone by then.
Begin(op, actor, m) ==
    /\ txn = None /\ CanReconcile(web)
    /\ op \in AdminOp \/ actor = m
    /\ op = "issue" => login[m] # None
    /\ txn' = [op |-> op, actor |-> actor, member |-> m, step |-> "body",
               work |-> Reconciled(web)]
    /\ wire' = Silent
    /\ UNCHANGED <<files, updater, known, faults, web, login, changes>>

\* What a lookup read is returned only after the commit.
Commit ==
    /\ txn # None /\ txn.step = "end" /\ CanReconcile(txn.work)
    /\ web' = Reconciled(txn.work)
    /\ login' = IF txn.op = "lookup" THEN [login EXCEPT ![txn.member] = txn.work.row[txn.member]]
                ELSE login
    /\ txn' = None
    /\ UNCHANGED <<journalVars, changes>>

\* The body raises, the RPC fails or times out, or the process ends.
Abort ==
    /\ txn # None /\ txn' = None
    /\ UNCHANGED <<journalVars, web, login, changes>>

\* The body is done: the working copy is as given.
Done(work) == txn' = [txn EXCEPT !.step = "end", !.work = work]
At(ops, step) == txn # None /\ txn.op \in ops /\ txn.step = step

-----------------------------------------------------------------------------
\* login: the row is read in one transaction, its password verified outside of
\* any, and the session inserted in another.

Lookup ==
    /\ At({"lookup"}, "body")
    /\ Done(txn.work)
    /\ UNCHANGED <<journalVars, web, login, changes>>

IssueUnchecked ==                                        \* mutant of Issue
    /\ At({"issue"}, "body")
    /\ Done(WithSession(txn.work,
              [member |-> txn.member, version |-> login[txn.member].version,
               password |-> login[txn.member].password, born |-> Len(txn.work.applied)]))
    /\ login' = [login EXCEPT ![txn.member] = None]
    /\ UNCHANGED <<journalVars, web, changes>>
Issue ==
    /\ At({"issue"}, "body")
    /\ IF txn.work.row[txn.member] = login[txn.member] /\ login[txn.member].status = "active"
       THEN Done(WithSession(txn.work, NewSession(txn.work, txn.member)))
       ELSE Done(txn.work)
    /\ login' = [login EXCEPT ![txn.member] = None]
    /\ UNCHANGED <<journalVars, web, changes>>

\* _replace_password: a redeemed reset, or the local operator.
Replace ==
    /\ At({"replace"}, "body") /\ changes < MaxChanges
    /\ changes' = changes + 1
    /\ LET row == txn.work.row[txn.member] IN
       Done(WithRow(txn.work, txn.member,
              Changed(row, row.status, row.password + 1), Without(txn.work, txn.member)))
    /\ UNCHANGED <<journalVars, web, login>>

-----------------------------------------------------------------------------
\* _member_action.

\* _actor: a live session of an active administrator.
Authorized ==
    /\ txn.actor \in Admin
    /\ txn.work.row[txn.actor].status = "active"
    /\ \E s \in txn.work.sessions :
        s.member = txn.actor /\ s.version = txn.work.row[txn.actor].version

ActiveAdmins(ledger) == {m \in Admin : ledger.row[m].status = "active"}

\* Administrators do not act on themselves, and the last one is not suspended.
Refused ==
    \/ txn.actor = txn.member /\ txn.op # "reactivate"
    \/ /\ txn.op = "suspend" /\ txn.member \in ActiveAdmins(txn.work)
       /\ Cardinality(ActiveAdmins(txn.work)) <= 1

Kind == IF txn.op = "suspend" THEN "member_suspended" ELSE "sessions_revoked"

\* The denial is asked for before the ledger changes.
Deny ==
    /\ At({"suspend", "revoke"}, "body") /\ Authorized /\ ~Refused
    /\ updater = "up"
    /\ txn' = [txn EXCEPT !.step = "append"]
    /\ wire' = [state |-> "asked", denial |-> [kind |-> Kind, member |-> txn.member]]
    /\ UNCHANGED <<files, updater, known, faults, web, login, changes>>

\* Only audited.
RefuseAction ==
    /\ At({"suspend", "revoke"}, "body") /\ Authorized /\ Refused
    /\ Done(txn.work)
    /\ UNCHANGED <<journalVars, web, login, changes>>

\* Mutant of Denied: the row is given the name of the action.
DeniedByName ==
    /\ At({"suspend", "revoke"}, "append") /\ wire.state = "ok"
    /\ LET row == txn.work.row[txn.member] IN
       Done(WithRow(txn.work, txn.member,
              Changed(row, Kind, row.password), Without(txn.work, txn.member)))
    /\ wire' = Silent
    /\ UNCHANGED <<files, updater, known, faults, web, login, changes>>
Denied ==
    /\ At({"suspend", "revoke"}, "append") /\ wire.state = "ok"
    /\ LET row == txn.work.row[txn.member] IN
       Done(WithRow(txn.work, txn.member,
              Changed(row, IF txn.op = "suspend" THEN "suspended" ELSE row.status, row.password),
              Without(txn.work, txn.member)))
    /\ wire' = Silent
    /\ UNCHANGED <<files, updater, known, faults, web, login, changes>>

Reactivate ==
    /\ At({"reactivate"}, "body") /\ Authorized
    /\ LET row == txn.work.row[txn.member] IN
       IF row.status = "active" THEN Done(txn.work) /\ UNCHANGED changes
       ELSE /\ changes < MaxChanges /\ changes' = changes + 1
            /\ Done(WithRow(txn.work, txn.member,
                      Changed(row, "active", row.password), Without(txn.work, txn.member)))
    /\ UNCHANGED <<journalVars, web, login>>

AccountNext ==
    \/ JournalStep /\ UNCHANGED <<web, txn, login, changes>>
    \/ \E op \in Op, actor, m \in Member : Begin(op, actor, m)
    \/ Lookup \/ Issue \/ Replace \/ Deny \/ RefuseAction \/ Denied \/ Reactivate
    \/ Commit \/ Abort

AccountSpec == AccountInit /\ [][AccountNext]_accountVars

-----------------------------------------------------------------------------
\* However administrators suspend one another, and whatever becomes of their
\* transactions and denials, one of them stays active (_member_action's count,
\* reconcile before the body; test_parallel_admin_suspension_keeps_one_active_admin).
AdminRemains == ActiveAdmins(web) # {}

\* A stored session belongs to an active member, to the present version of its
\* row and to the password in force: a login that raced a suspension or a new
\* password leaves none (login's comparison, _replace_password, _member_action).
SessionsCurrent ==
    \A s \in web.sessions :
        /\ web.row[s.member].status = "active"
        /\ s.version = web.row[s.member].version
        /\ s.password = web.row[s.member].password

\* No session outlives a denial of its member that was applied after it began,
\* also when the transaction that asked for the denial was lost (reconcile).
DeniedSessionsEnd ==
    \A s \in web.sessions, i \in 1 .. Len(web.applied) :
        web.applied[i].member = s.member => i <= s.born

\* Nothing commits without every denial that was ever published: not after a
\* rollback of the web transaction, a crash of the updater, or an older journal
\* put back in place (_read, reconcile).
CommitsAreCurrent == [][Commit => IsPrefixOf(known, web'.applied)]_accountVars

=============================================================================
