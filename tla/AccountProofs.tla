---------------------------- MODULE AccountProofs ----------------------------
(* The accounts, for every set of members and of administrators and for every  *)
(* number of denials, faults and changes. What is true of the committed ledger *)
(* is inductive only together with the working copy of the open transaction,   *)
(* with the rows the journal holds beyond either, and with the denial that is  *)
(* on its way to it.                                                           *)
EXTENDS Accounts, FiniteSetTheorems, TLAPS

\* The properties, of any ledger.
Current(ledger) ==
    \A s \in ledger.sessions :
        /\ ledger.row[s.member].status = "active"
        /\ s.version = ledger.row[s.member].version
        /\ s.password = ledger.row[s.member].password

Ended(ledger) ==
    \A s \in ledger.sessions, i \in 1 .. Len(ledger.applied) :
        ledger.applied[i].member = s.member => i <= s.born

\* The administrators that stay active when the rows are applied to the ledger.
Remaining(ledger, rows) ==
    {m \in Admin : /\ ledger.row[m].status = "active"
                   /\ \A i \in 1 .. Len(rows) : i > Len(ledger.applied) =>
                         rows[i] # [kind |-> "member_suspended", member |-> m]}

\* What a reader may know is under the high-water mark, also half way through an append.
JournalInv ==
    /\ wire \in [state: {"idle"}] \cup [state: {"asked", "ok", "error"}, denial: Denial]
    /\ updater \in {"journaled", "advanced"} => wire.state = "asked"
    /\ IsPrefixOf(known, checkpoint)
    /\ updater = "journaled" => IsPrefixOf(checkpoint, journal)
    /\ updater = "advanced" => checkpoint = journal

\* A denial is asked for only where another administrator is left, and only by the
\* transaction that waits for its answer, or by one that is gone.
AskedInv ==
    wire.state = "asked" =>
        /\ txn # None => txn.step = "append"
        /\ wire.denial.kind = "member_suspended" => Remaining(web, journal) \ {wire.denial.member} # {}

TxnInv ==
    txn # None =>
        /\ Current(txn.work) /\ Ended(txn.work)
        /\ Remaining(txn.work, journal) # {}
        /\ txn.step = "body" => /\ Len(journal) <= Len(txn.work.applied)
                                /\ ActiveAdmins(txn.work) \subseteq Remaining(web, journal)
        /\ txn.step = "append" =>
              /\ wire.state # "idle" /\ wire.denial = [kind |-> Kind, member |-> txn.member]
              /\ txn.op \in {"suspend", "revoke"}
              /\ txn.op = "suspend" => Remaining(txn.work, journal) \ {txn.member} # {}

AInv ==
    /\ AccountTypeOK /\ JournalInv /\ AskedInv /\ TxnInv
    /\ Current(web) /\ Ended(web) /\ Remaining(web, journal) # {}

-----------------------------------------------------------------------------
\* What the operators on ledgers do.

LEMMA JournalTyped ==
    ASSUME AccountTypeOK, JournalInv
    PROVE  /\ journal \in Seq(Denial) /\ Len(journal) \in Nat
           /\ \A i \in 1 .. Len(journal) : journal[i] \in Denial
           /\ wire.state # "idle" => wire.denial \in Denial
<1>1. journal \in Seq(Denial)
  BY DEF AccountTypeOK, JournalTypeOK
<1>2. Len(journal) \in Nat /\ \A i \in 1 .. Len(journal) : journal[i] \in Denial
  BY <1>1
<1>3. wire.state # "idle" => wire.denial \in Denial
  BY DEF JournalInv
<1>4. QED
  BY <1>1, <1>2, <1>3

LEMMA LedgerFields ==
    ASSUME NEW L \in Ledger
    PROVE  /\ L.row \in [Member -> Row] /\ L.sessions \subseteq Session
           /\ L.applied \in Seq(Denial) /\ Len(L.applied) \in Nat
           /\ \A m \in Member : /\ L.row[m] \in Row /\ L.row[m].version \in Nat
                                /\ L.row[m].password \in Nat
                                /\ L.row[m].status \in {"active", "suspended"}
           /\ \A s \in L.sessions : s.member \in Member /\ s.born \in Nat
BY DEF Ledger, Session, Row

LEMMA ReconciledTyped ==
    ASSUME AccountTypeOK, JournalInv, NEW L \in Ledger
    PROVE  /\ Reconciled(L) \in Ledger
           /\ Reconciled(L).applied = journal
           /\ ActiveAdmins(Reconciled(L)) = Remaining(L, journal)
<1> DEFINE R == Reconciled(L)
<1>1. /\ R.applied = journal
      /\ R.sessions = {s \in L.sessions :
            s.member \notin Named(L, {"member_suspended", "sessions_revoked"})}
      /\ R.row = [m \in Member |->
            IF m \in Named(L, {"member_suspended"}) /\ L.row[m].status # "suspended"
            THEN SuspendedOnly(L.row[m]) ELSE L.row[m]]
      /\ R = [row |-> R.row, sessions |-> R.sessions, applied |-> R.applied]
  BY DEF Reconciled
<1>2. ASSUME NEW m \in Member
      PROVE  /\ R.row[m] \in Row
             /\ R.row[m].status = IF m \in Named(L, {"member_suspended"}) THEN "suspended"
                                  ELSE L.row[m].status
  <2>1. L.row[m] \in Row
    BY LedgerFields
  <2>2. \A row \in Row : SuspendedOnly(row) \in Row /\ SuspendedOnly(row).status = "suspended"
    BY DEF SuspendedOnly, Changed, Row
  <2>3. QED
    BY <1>1, <2>1, <2>2 DEF Row
<1>3. R.row \in [Member -> Row]
  BY <1>1, <1>2
<1>4. R.sessions \subseteq Session /\ journal \in Seq(Denial)
  BY <1>1, LedgerFields DEF AccountTypeOK, JournalTypeOK
<1>5. R \in Ledger
  BY <1>1, <1>3, <1>4 DEF Ledger
<1>6. ActiveAdmins(R) = Remaining(L, journal)
  <2>1. \A m \in Member : m \in Named(L, {"member_suspended"}) <=>
           \E i \in 1 .. Len(journal) : /\ i > Len(L.applied)
                                        /\ journal[i] = [kind |-> "member_suspended", member |-> m]
    BY JournalTyped DEF Named, Fresh, Denial
  <2>2. QED
    BY <1>2, <2>1, AccountAssumption DEF ActiveAdmins, Remaining
<1>7. QED
  BY <1>1, <1>5, <1>6

\* A reconcile ends the sessions of whoever a new denial names.
LEMMA ReconciledEnds ==
    ASSUME AccountTypeOK, JournalInv, NEW L \in Ledger, IsPrefixOf(L.applied, journal),
           Current(L), Ended(L)
    PROVE  Current(Reconciled(L)) /\ Ended(Reconciled(L))
<1> DEFINE R == Reconciled(L)
<1>1. /\ R.applied = journal
      /\ R.sessions = {s \in L.sessions :
            s.member \notin Named(L, {"member_suspended", "sessions_revoked"})}
      /\ R.row = [m \in Member |->
            IF m \in Named(L, {"member_suspended"}) /\ L.row[m].status # "suspended"
            THEN SuspendedOnly(L.row[m]) ELSE L.row[m]]
  BY DEF Reconciled
<1>2. Named(L, {"member_suspended"}) \subseteq Named(L, {"member_suspended", "sessions_revoked"})
  BY DEF Named
<1>3. Current(R)
  <2> SUFFICES ASSUME NEW s \in R.sessions
               PROVE  /\ R.row[s.member].status = "active"
                      /\ s.version = R.row[s.member].version
                      /\ s.password = R.row[s.member].password
    BY DEF Current
  <2>1. s \in L.sessions /\ s.member \notin Named(L, {"member_suspended"}) /\ s.member \in Member
    BY <1>1, <1>2, LedgerFields
  <2>2. R.row[s.member] = L.row[s.member]
    BY <1>1, <2>1
  <2>3. QED
    BY <2>1, <2>2 DEF Current
<1>4. Ended(R)
  <2> SUFFICES ASSUME NEW s \in R.sessions, NEW i \in 1 .. Len(journal),
                      journal[i].member = s.member
               PROVE  i <= s.born
    BY <1>1 DEF Ended
  <2>1. s \in L.sessions /\ s.member \notin Named(L, {"member_suspended", "sessions_revoked"})
    BY <1>1
  <2>2. journal[i] \in Denial /\ journal[i].kind \in {"member_suspended", "sessions_revoked"}
    BY JournalTyped DEF Denial
  <2>3. i \notin Fresh(L)
    BY <2>1, <2>2 DEF Named
  <2>4. i \in 1 .. Len(L.applied)
    BY <2>3, LedgerFields, JournalTyped DEF Fresh
  <2>5. L.applied[i] = journal[i]
    BY <2>4 DEF IsPrefixOf
  <2>6. QED
    BY <2>1, <2>4, <2>5 DEF Ended
<1>5. QED
  BY <1>3, <1>4

\* A ledger that has every row of the journal has nothing to reconcile.
LEMMA NothingFresh ==
    ASSUME AccountTypeOK, JournalInv, NEW L \in Ledger, Len(journal) <= Len(L.applied)
    PROVE  Remaining(L, journal) = ActiveAdmins(L)
<1>1. \A i \in 1 .. Len(journal) : ~(i > Len(L.applied))
  BY LedgerFields, JournalTyped
<1>2. QED
  BY <1>1 DEF Remaining, ActiveAdmins

\* A new row takes at most the member it names, and a shorter journal takes nobody.
LEMMA NewRowTakes ==
    ASSUME NEW L \in Ledger, NEW rows \in Seq(Denial), NEW d \in Denial
    PROVE  /\ Remaining(L, rows) \ {d.member} \subseteq Remaining(L, Append(rows, d))
           /\ d.kind # "member_suspended" =>
                 Remaining(L, rows) \subseteq Remaining(L, Append(rows, d))
<1>1. /\ Len(Append(rows, d)) = Len(rows) + 1 /\ Len(rows) \in Nat
      /\ \A i \in 1 .. Len(rows) : Append(rows, d)[i] = rows[i]
      /\ Append(rows, d)[Len(rows) + 1] = d
  OBVIOUS
<1>2. ASSUME NEW m \in Remaining(L, rows), d # [kind |-> "member_suspended", member |-> m]
      PROVE  m \in Remaining(L, Append(rows, d))
  BY <1>1, <1>2 DEF Remaining
<1>3. QED
  BY <1>2

LEMMA ShorterTakesNone ==
    ASSUME NEW L \in Ledger, NEW rows \in Seq(Denial), NEW n \in 0 .. Len(rows)
    PROVE  Remaining(L, rows) \subseteq Remaining(L, SubSeq(rows, 1, n))
<1>1. /\ Len(SubSeq(rows, 1, n)) = n /\ Len(rows) \in Nat
      /\ \A i \in 1 .. n : SubSeq(rows, 1, n)[i] = rows[i]
  OBVIOUS
<1>2. QED
  BY <1>1 DEF Remaining

LEMMA ChangedTyped ==
    ASSUME NEW row \in Row, NEW status \in {"active", "suspended"}, NEW password \in Nat
    PROVE  /\ Changed(row, status, password) \in Row
           /\ Changed(row, status, password).status = status
BY DEF Changed, Row

\* A row is changed together with the end of the member's sessions.
LEMMA WithRowKeeps ==
    ASSUME NEW L \in Ledger, Current(L), Ended(L), NEW m \in Member, NEW r \in Row, NEW rows,
           NEW W, W = WithRow(L, m, r, Without(L, m))
    PROVE  /\ W \in Ledger /\ Current(W) /\ Ended(W)
           /\ Remaining(L, rows) \ {m} \subseteq Remaining(W, rows)
           /\ r.status \in {"active", L.row[m].status} =>
                 Remaining(L, rows) \subseteq Remaining(W, rows)
<1>1. /\ W.row = [L.row EXCEPT ![m] = r] /\ W.sessions = Without(L, m) /\ W.applied = L.applied
      /\ W = [row |-> W.row, sessions |-> W.sessions, applied |-> W.applied]
  BY DEF WithRow
<1>2. /\ W.row \in [Member -> Row] /\ W.row[m] = r
      /\ \A o \in Member \ {m} : W.row[o] = L.row[o]
  BY <1>1, LedgerFields
<1>3. W \in Ledger
  BY <1>1, <1>2, LedgerFields DEF Ledger, Without
<1>4. \A s \in W.sessions : s \in L.sessions /\ s.member \in Member \ {m}
  BY <1>1, LedgerFields DEF Without
<1>5. Current(W)
  BY <1>2, <1>4 DEF Current
<1>6. Ended(W)
  BY <1>1, <1>4 DEF Ended
<1>7. Admin \subseteq Member
  BY AccountAssumption
<1>8. Remaining(L, rows) \ {m} \subseteq Remaining(W, rows)
  BY <1>1, <1>2, <1>7 DEF Remaining
<1>9. r.status \in {"active", L.row[m].status} => Remaining(L, rows) \subseteq Remaining(W, rows)
  BY <1>1, <1>2, <1>7 DEF Remaining
<1>10. QED
  BY <1>3, <1>5, <1>6, <1>8, <1>9

\* A new session is of the row as it is, and younger than every denial applied.
LEMMA WithSessionKeeps ==
    ASSUME NEW L \in Ledger, Current(L), Ended(L), NEW m \in Member, L.row[m].status = "active",
           NEW rows, NEW W, W = WithSession(L, NewSession(L, m))
    PROVE  W \in Ledger /\ Current(W) /\ Ended(W) /\ Remaining(W, rows) = Remaining(L, rows)
<1> DEFINE n == NewSession(L, m)
<1>1. /\ n \in Session /\ n.member = m /\ n.version = L.row[m].version
      /\ n.password = L.row[m].password /\ n.born = Len(L.applied)
  BY LedgerFields DEF NewSession, Session
<1>2. /\ W.row = L.row /\ W.applied = L.applied /\ W.sessions = L.sessions \cup {n}
      /\ W \in Ledger
  BY <1>1, LedgerFields DEF WithSession, Ledger
<1>3. Current(W)
  BY <1>1, <1>2 DEF Current
<1>4. Ended(W)
  BY <1>1, <1>2, LedgerFields DEF Ended
<1>5. QED
  BY <1>2, <1>3, <1>4 DEF Remaining

-----------------------------------------------------------------------------
\* The journal's own steps.

\* An answer to a denial that is asked for.
LEMMA Replied ==
    ASSUME AInv, wire.state = "asked", NEW state \in {"ok", "error"}, Reply(state)
    PROVE  /\ wire' \in [state: {"ok", "error"}, denial: Denial]
           /\ wire'.state = state /\ wire'.denial = wire.denial
BY DEF AInv, JournalInv, Reply

\* Whatever becomes of an append: what a reader may know stays under the
\* checkpoint, and a denial asked for is answered once.
LEMMA JournalStepTyped ==
    ASSUME AInv, JournalStep
    PROVE  JournalTypeOK' /\ JournalInv'
<1> USE DEF AInv, AccountTypeOK
<1>1. /\ journal \in Seq(Denial) /\ checkpoint \in Seq(Denial) /\ anchor \in Seq(Denial)
      /\ known \in Seq(Denial) /\ Len(journal) \in Nat /\ Len(checkpoint) \in Nat
      /\ Len(known) \in Nat /\ MaxDenials \in Nat /\ MaxFaults \in Nat
  BY JournalAssumption DEF JournalTypeOK
<1>2. wire.state = "asked" => wire.denial \in Denial
  BY JournalTyped
<1>3. CASE AppendRow
  <2>1. CASE Intact /\ fresh /\ Len(journal) < MaxDenials
    <3>1. journal' = Append(journal, wire.denial) /\ updater' = "journaled" /\ wire' = wire
      BY <1>3, <2>1 DEF AppendRow
    <3>2. /\ journal' \in Seq(Denial) /\ Len(journal') = Len(journal) + 1
          /\ \A i \in 1 .. Len(journal) : journal'[i] = journal[i]
      BY <1>1, <1>2, <1>3, <3>1 DEF AppendRow
    <3>3. JournalTypeOK'
      BY <1>1, <1>3, <2>1, <3>1, <3>2 DEF AppendRow, JournalTypeOK
    <3>4. IsPrefixOf(checkpoint, journal)'
      BY <1>1, <1>3, <2>1, <3>2 DEF AppendRow, Intact, IsPrefixOf
    <3>5. QED
      BY <1>3, <3>1, <3>3, <3>4 DEF AppendRow, JournalInv, IsPrefixOf
  <2>2. CASE ~(Intact /\ fresh /\ Len(journal) < MaxDenials)
    <3>1. Reply("error") /\ wire.state = "asked" /\ updater = "up"
          /\ UNCHANGED <<files, updater, known, faults>>
      BY <1>3, <2>2 DEF AppendRow, files
    <3>2. QED
      BY <3>1, Replied DEF JournalInv, JournalTypeOK, files, IsPrefixOf
  <2>3. QED
    BY <2>1, <2>2
<1>4. CASE Advance
  <2>1. IsPrefixOf(known, journal)
    BY <1>1, <1>4 DEF Advance, JournalInv, IsPrefixOf
  <2>2. JournalTypeOK'
    BY <1>1, <1>4 DEF Advance, JournalTypeOK
  <2>3. QED
    BY <1>4, <2>1, <2>2 DEF Advance, JournalInv, IsPrefixOf
<1>5. CASE Publish
  <2>1. wire.state = "asked" /\ checkpoint = journal
    BY <1>5 DEF Publish, JournalInv
  <2>2. /\ wire' \in [state: {"ok", "error"}, denial: Denial] /\ wire'.state = "ok"
    BY <1>5, <2>1, Replied DEF Publish
  <2>3. JournalTypeOK'
    BY <1>1, <1>5, <2>2 DEF Publish, JournalTypeOK
  <2>4. IsPrefixOf(journal, journal)
    BY <1>1 DEF IsPrefixOf
  <2>5. QED
    BY <1>5, <2>1, <2>2, <2>3, <2>4 DEF Publish, JournalInv, IsPrefixOf
<1>6. CASE AppendRaises
  <2>1. wire.state = "asked" /\ faults' \in 0 .. MaxFaults
    BY <1>1, <1>6 DEF AppendRaises, JournalInv, Fault, JournalTypeOK
  <2>2. wire' \in [state: {"ok", "error"}, denial: Denial] /\ wire'.state = "error"
    BY <1>6, <2>1, Replied DEF AppendRaises
  <2>3. QED
    BY <1>6, <2>1, <2>2 DEF AppendRaises, JournalInv, JournalTypeOK, files, IsPrefixOf
<1>7. CASE Stop
  <2>1. faults' \in 0 .. MaxFaults
    BY <1>1, <1>7 DEF Stop, Fault, JournalTypeOK
  <2>2. /\ wire' \in [state: {"idle"}] \cup [state: {"ok", "error"}, denial: Denial]
        /\ wire'.state # "idle" => wire'.denial \in Denial
    <3>1. CASE wire.state = "asked"
      BY <1>7, <3>1, Replied DEF Stop
    <3>2. CASE wire.state # "asked"
      BY <1>7, <3>2 DEF Stop, JournalInv
    <3>3. QED
      BY <3>1, <3>2
  <2>3. QED
    BY <1>7, <2>1, <2>2 DEF Stop, JournalInv, JournalTypeOK, files, IsPrefixOf
<1>8. CASE Expire
  BY <1>8 DEF Expire, JournalInv, JournalTypeOK, IsPrefixOf
<1>9. CASE Renew
  <2>1. /\ wire' \in [state: {"idle"}] \cup [state: {"asked", "ok", "error"}, denial: Denial]
        /\ updater' \in {"up", "down"}
    <3>1. CASE wire.state = "asked" /\ ~(Intact /\ fresh)
      BY <1>9, <3>1, Replied DEF Renew
    <3>2. CASE Intact /\ fresh
      BY <1>9, <3>2 DEF Renew, JournalInv
    <3>3. CASE ~(Intact /\ fresh) /\ wire.state # "asked"
      <4>1. wire' = wire /\ updater' = "down"
        BY <1>9, <3>3 DEF Renew
      <4>2. QED
        BY <4>1 DEF JournalInv
    <3>4. QED
      BY <3>1, <3>2, <3>3
  <2>2. QED
    BY <1>9, <2>1 DEF Renew, JournalInv, JournalTypeOK, files, IsPrefixOf
<1>10. CASE Start
  BY <1>10 DEF Start, JournalInv, JournalTypeOK, IsPrefixOf
<1>11. CASE PutBack
  <2>1. PICK n \in 0 .. Len(journal) - 1 :
           journal' = SubSeq(journal, 1, n) /\ anchor' = SubSeq(journal, 1, n)
    BY <1>11 DEF PutBack
  <2>2. SubSeq(journal, 1, n) \in Seq(Denial) /\ Len(SubSeq(journal, 1, n)) = n
    BY <1>1
  <2>3. faults' \in 0 .. MaxFaults
    BY <1>1, <1>11 DEF PutBack, Fault, JournalTypeOK
  <2>4. QED
    BY <1>1, <1>11, <2>1, <2>2, <2>3 DEF PutBack, JournalInv, JournalTypeOK, IsPrefixOf
<1>12. QED
  BY <1>3, <1>4, <1>5, <1>6, <1>7, <1>8, <1>9, <1>10, <1>11 DEF JournalStep

\* While the journal moves: it takes in at most the denial that is asked for.
LEMMA JournalGrows ==
    ASSUME AInv, JournalStep, NEW L \in Ledger
    PROVE  /\ wire'.state # "idle" => wire.state # "idle" /\ wire'.denial = wire.denial
           /\ wire.state # "idle" => wire'.state # "idle"
           /\ wire'.state = "asked" => wire.state = "asked"
           /\ Remaining(L, journal) \subseteq Remaining(L, journal')
              \/ /\ wire.state = "asked"
                 /\ wire.denial.kind = "member_suspended"
                 /\ Remaining(L, journal) \ {wire.denial.member} \subseteq Remaining(L, journal')
           /\ wire.state # "asked" => Len(journal') <= Len(journal)
<1>1. journal \in Seq(Denial) /\ Len(journal) \in Nat
  BY JournalTyped DEF AInv
<1>2. CASE AppendRow
  <2>1. wire.state = "asked" /\ wire.denial \in Denial
    BY <1>2, JournalTyped DEF AppendRow, AInv
  <2>2. CASE Intact /\ fresh /\ Len(journal) < MaxDenials
    <3>1. journal' = Append(journal, wire.denial) /\ wire' = wire
      BY <1>2, <2>2 DEF AppendRow
    <3>2. QED
      BY <1>1, <2>1, <3>1, NewRowTakes
  <2>3. CASE ~(Intact /\ fresh /\ Len(journal) < MaxDenials)
    BY <1>2, <2>1, <2>3, Replied DEF AppendRow
  <2>4. QED
    BY <2>2, <2>3
<1>3. CASE PutBack
  <2>1. PICK n \in 0 .. Len(journal) - 1 : journal' = SubSeq(journal, 1, n)
    BY <1>3 DEF PutBack
  <2>2. n \in 0 .. Len(journal) /\ Len(journal') <= Len(journal)
    BY <1>1, <2>1
  <2>3. wire' = wire
    BY <1>3 DEF PutBack
  <2>4. QED
    BY <1>1, <2>1, <2>2, <2>3, ShorterTakesNone
<1>4. CASE Advance \/ Expire \/ Start
  BY <1>1, <1>4 DEF Advance, Expire, Start
<1>5. CASE Publish \/ AppendRaises
  <2>1. wire.state = "asked" /\ journal' = journal /\ \E state \in {"ok", "error"} : Reply(state)
    BY <1>5 DEF Publish, AppendRaises, AInv, JournalInv, files
  <2>2. QED
    BY <1>1, <2>1, Replied
<1>6. CASE Stop \/ Renew
  <2>1. journal' = journal /\ (wire' = wire \/ (wire.state = "asked" /\ Reply("error")))
    BY <1>6 DEF Stop, Renew, files
  <2>2. QED
    BY <1>1, <2>1, Replied
<1>7. QED
  BY <1>2, <1>3, <1>4, <1>5, <1>6 DEF JournalStep

LEMMA JournalStepKeeps ==
    ASSUME AInv, JournalStep, UNCHANGED <<web, txn, login, changes>>
    PROVE  AInv'
<1>1. JournalTypeOK' /\ JournalInv'
  BY JournalStepTyped
<1>2. AccountTypeOK'
  BY <1>1 DEF AInv, AccountTypeOK
<1>3. web \in Ledger /\ (txn # None => txn.work \in Ledger)
  BY DEF AInv, AccountTypeOK
<1>4. Remaining(web, journal)' # {} /\ AskedInv'
  BY <1>3, JournalGrows DEF AInv, AskedInv
<1>5. TxnInv'
  <2> SUFFICES ASSUME txn # None PROVE TxnInv'
    BY DEF TxnInv
  <2>1. Remaining(txn.work, journal)' # {}
    BY <1>3, JournalGrows DEF AInv, TxnInv, AskedInv, Kind
  <2>2. txn.step = "body" => /\ Len(journal') <= Len(txn.work.applied)
                             /\ ActiveAdmins(txn.work) \subseteq Remaining(web, journal')
    <3>1. SUFFICES ASSUME txn.step = "body"
                   PROVE  /\ Len(journal') <= Len(txn.work.applied)
                          /\ ActiveAdmins(txn.work) \subseteq Remaining(web, journal')
      OBVIOUS
    <3>2. wire.state # "asked"
      BY <3>1 DEF AInv, AskedInv
    <3>3. Len(journal') <= Len(journal) /\ Remaining(web, journal) \subseteq Remaining(web, journal')
      BY <1>3, <3>2, JournalGrows
    <3>4. Len(journal) \in Nat /\ Len(journal') \in Nat /\ Len(txn.work.applied) \in Nat
      BY <1>1, <1>2, <1>3, LedgerFields, JournalTyped DEF AInv, JournalTypeOK
    <3>5. QED
      BY <3>1, <3>3, <3>4 DEF AInv, TxnInv
  <2>3. txn.step = "append" =>
           /\ wire'.state # "idle" /\ wire'.denial = [kind |-> Kind, member |-> txn.member]
           /\ txn.op = "suspend" => Remaining(txn.work, journal') \ {txn.member} # {}
    BY <1>3, JournalGrows DEF AInv, TxnInv
  <2>4. QED
    BY <2>1, <2>2, <2>3 DEF AInv, TxnInv, Kind, Current, Ended, ActiveAdmins
<1>6. QED
  BY <1>1, <1>2, <1>4, <1>5 DEF AInv, Current, Ended

-----------------------------------------------------------------------------
\* The steps of a transaction. Its working copy keeps what the ledger must have.

\* An RPC may be forgotten when nobody waits for it any more.
LEMMA WireForgotten ==
    ASSUME AInv, UNCHANGED <<files, updater, known, faults>>,
           wire.state # "asked", wire' \in {wire, Silent}
    PROVE  JournalTypeOK' /\ JournalInv' /\ wire'.state # "asked"
<1>1. UNCHANGED <<journal, checkpoint, anchor, fresh, updater, known, faults>>
  BY DEF files
<1>2. CASE wire' = wire
  BY <1>1, <1>2 DEF AInv, AccountTypeOK, JournalTypeOK, JournalInv, IsPrefixOf
<1>3. CASE wire' = Silent
  <2>1. wire'.state = "idle" /\ wire' \in [state: {"idle"}]
    BY <1>3 DEF Silent
  <2>2. JournalTypeOK'
    BY <1>1, <2>1 DEF AInv, AccountTypeOK, JournalTypeOK
  <2>3. JournalInv'
    BY <1>1, <2>1 DEF AInv, JournalInv, IsPrefixOf
  <2>4. QED
    BY <2>1, <2>2, <2>3
<1>4. QED
  BY <1>2, <1>3

\* A transaction that does not touch the journal leaves the ledger as it is.
LEMMA WorkStep ==
    ASSUME AInv, txn # None, UNCHANGED <<files, updater, known, faults, web>>,
           NEW W \in Ledger, Current(W), Ended(W), Remaining(W, journal) # {},
           txn' = [txn EXCEPT !.step = "end", !.work = W],
           wire.state # "asked", wire' \in {wire, Silent},
           login' \in [Member -> Row \cup {None}], changes' \in 0 .. MaxChanges
    PROVE  AInv'
<1>1. txn \in [op: Op, actor: Member, member: Member, step: Step, work: Ledger]
  BY DEF AInv, AccountTypeOK
<1>2. /\ txn' \in [op: Op, actor: Member, member: Member, step: Step, work: Ledger]
      /\ txn'.step = "end" /\ txn'.work = W
  BY <1>1 DEF Step
<1>3. JournalTypeOK' /\ JournalInv' /\ wire'.state # "asked"
  BY WireForgotten
<1>4. AccountTypeOK'
  BY <1>2, <1>3 DEF AInv, AccountTypeOK
<1>5. TxnInv'
  BY <1>2 DEF TxnInv, files, Current, Ended
<1>6. QED
  BY <1>3, <1>4, <1>5 DEF AInv, AskedInv, files, Current, Ended

\* What a transaction may find in its working copy.
LEMMA Working ==
    ASSUME AInv, txn # None
    PROVE  /\ txn.work \in Ledger /\ Current(txn.work) /\ Ended(txn.work)
           /\ Remaining(txn.work, journal) # {}
           /\ txn.member \in Member /\ txn.actor \in Member /\ txn.op \in Op /\ txn.step \in Step
           /\ txn.work.row[txn.member] \in Row
           /\ txn.step # "append" => wire.state # "asked"
           /\ login \in [Member -> Row \cup {None}] /\ changes \in 0 .. MaxChanges
           /\ MaxChanges \in Nat
<1>1. txn \in [op: Op, actor: Member, member: Member, step: Step, work: Ledger]
  BY DEF AInv, AccountTypeOK
<1>2. txn.work.row[txn.member] \in Row
  BY <1>1, LedgerFields
<1>3. QED
  BY <1>1, <1>2, AccountAssumption DEF AInv, AccountTypeOK, TxnInv, AskedInv

LEMMA BeginKeeps ==
    ASSUME AInv, NEW op \in Op, NEW actor \in Member, NEW m \in Member, Begin(op, actor, m)
    PROVE  AInv'
<1> DEFINE W == Reconciled(web)
<1>1. /\ web \in Ledger /\ IsPrefixOf(web.applied, journal) /\ updater = "up" /\ checkpoint = journal
  BY DEF AInv, AccountTypeOK, Begin, CanReconcile, Readable, Intact
<1>2. /\ W \in Ledger /\ W.applied = journal /\ ActiveAdmins(W) = Remaining(web, journal)
      /\ Current(W) /\ Ended(W)
  BY <1>1, ReconciledTyped, ReconciledEnds DEF AInv
<1>3. txn' = [op |-> op, actor |-> actor, member |-> m, step |-> "body", work |-> W]
  BY DEF Begin
<1>4. txn' \in [op: Op, actor: Member, member: Member, step: Step, work: Ledger]
  BY <1>2, <1>3 DEF Step
<1>5. JournalTypeOK' /\ JournalInv' /\ wire'.state # "asked"
  BY WireForgotten DEF Begin, CanReconcile, Readable
<1>6. AccountTypeOK'
  BY <1>4, <1>5 DEF Begin, AInv, AccountTypeOK
<1>7. Len(journal) <= Len(W.applied) /\ Remaining(W, journal) = ActiveAdmins(W)
  BY <1>2, JournalTyped, NothingFresh DEF AInv
<1>8. TxnInv'
  BY <1>2, <1>3, <1>7 DEF TxnInv, Begin, AInv, files, Current, Ended, ActiveAdmins
<1>9. AskedInv'
  BY DEF Begin, AskedInv, Silent
<1>10. QED
  BY <1>5, <1>6, <1>8, <1>9 DEF AInv, Begin, files, Current, Ended

LEMMA CommitKeeps ==
    ASSUME AInv, Commit
    PROVE  AInv' /\ IsPrefixOf(known, web'.applied)
<1>1. /\ txn # None /\ IsPrefixOf(txn.work.applied, journal) /\ checkpoint = journal
      /\ txn' = None /\ wire.state # "asked"
      /\ UNCHANGED <<journalVars, changes>> /\ web' = Reconciled(txn.work)
  BY DEF Commit, CanReconcile, Readable, Intact
<1>2. /\ web' \in Ledger /\ web'.applied = journal
      /\ ActiveAdmins(web') = Remaining(txn.work, journal)
      /\ Current(web') /\ Ended(web')
  BY <1>1, Working, ReconciledTyped, ReconciledEnds DEF AInv
<1>3. login' \in [Member -> Row \cup {None}]
  BY Working, <1>1 DEF Commit
<1>4. JournalTypeOK' /\ JournalInv'
  BY <1>1 DEF AInv, AccountTypeOK, JournalTypeOK, JournalInv, files, journalVars, IsPrefixOf
<1>5. AccountTypeOK'
  BY <1>1, <1>2, <1>3, <1>4 DEF AInv, AccountTypeOK
<1>6. Remaining(web', journal) = ActiveAdmins(web')
  BY <1>2, JournalTyped, NothingFresh DEF AInv
<1>7. Remaining(web', journal) # {}
  BY <1>1, <1>2, <1>6, Working
<1>8. AInv'
  BY <1>1, <1>2, <1>4, <1>5, <1>7 DEF AInv, AskedInv, TxnInv, journalVars, files, Current, Ended
<1>9. QED
  BY <1>1, <1>2, <1>8 DEF AInv, JournalInv

LEMMA AbortKeeps ==
    ASSUME AInv, Abort
    PROVE  AInv'
<1>1. UNCHANGED <<journalVars, web, login, changes>> /\ txn' = None /\ txn # None
  BY DEF Abort
<1>2. JournalTypeOK' /\ JournalInv' /\ AccountTypeOK'
  BY <1>1 DEF AInv, AccountTypeOK, JournalTypeOK, JournalInv, files, journalVars, IsPrefixOf
<1>3. QED
  BY <1>1, <1>2 DEF AInv, AskedInv, TxnInv, journalVars, files, Current, Ended

LEMMA IssueKeeps ==
    ASSUME AInv, Issue
    PROVE  AInv'
<1>1. /\ txn # None /\ txn.step = "body"
      /\ UNCHANGED <<files, updater, known, faults, wire, web, changes>>
      /\ login' = [login EXCEPT ![txn.member] = None]
  BY DEF Issue, At, journalVars
<1>2. login' \in [Member -> Row \cup {None}] /\ wire.state # "asked"
  BY <1>1, Working
<1>3. CASE txn.work.row[txn.member] = login[txn.member] /\ login[txn.member].status = "active"
  <2> DEFINE W == WithSession(txn.work, NewSession(txn.work, txn.member))
  <2>1. W \in Ledger /\ Current(W) /\ Ended(W) /\ Remaining(W, journal) = Remaining(txn.work, journal)
    BY <1>1, <1>3, Working, WithSessionKeeps
  <2>2. Done(W)
    BY <1>3 DEF Issue
  <2>3. QED
    BY <1>1, <1>2, <2>1, <2>2, Working, WorkStep DEF Done
<1>4. CASE ~(txn.work.row[txn.member] = login[txn.member] /\ login[txn.member].status = "active")
  <2>1. Done(txn.work)
    BY <1>4 DEF Issue
  <2>2. QED
    BY <1>1, <1>2, <2>1, Working, WorkStep DEF Done
<1>5. QED
  BY <1>3, <1>4

\* A lookup, and a refused action.
LEMMA NothingDoneKeeps ==
    ASSUME AInv, Lookup \/ RefuseAction
    PROVE  AInv'
<1>1. /\ txn # None /\ txn.step = "body" /\ Done(txn.work)
      /\ UNCHANGED <<files, updater, known, faults, wire, web, login, changes>>
  BY DEF Lookup, RefuseAction, At, journalVars
<1>2. QED
  BY <1>1, Working, WorkStep DEF Done

LEMMA ReplaceKeeps ==
    ASSUME AInv, Replace
    PROVE  AInv'
<1> DEFINE row == txn.work.row[txn.member]
           r == Changed(row, row.status, row.password + 1)
           W == WithRow(txn.work, txn.member, r, Without(txn.work, txn.member))
<1>1. /\ txn # None /\ txn.step = "body" /\ Done(W)
      /\ changes < MaxChanges /\ changes' = changes + 1
      /\ UNCHANGED <<files, updater, known, faults, wire, web, login>>
  BY DEF Replace, At, journalVars
<1>2. row \in Row /\ row.status \in {"active", "suspended"} /\ row.password + 1 \in Nat
  BY <1>1, Working DEF Row
<1>3. r \in Row /\ r.status = row.status
  BY <1>2, ChangedTyped
<1>4. W \in Ledger /\ Current(W) /\ Ended(W) /\ Remaining(W, journal) # {}
  <2>1. /\ txn.work \in Ledger /\ Current(txn.work) /\ Ended(txn.work)
        /\ txn.member \in Member /\ Remaining(txn.work, journal) # {}
    BY <1>1, Working
  <2>. HIDE DEF r
  <2>. QED  BY <1>3, <2>1, WithRowKeeps
<1>5. changes' \in 0 .. MaxChanges
  BY <1>1, Working
<1>6. QED
  BY <1>1, <1>4, <1>5, Working, WorkStep DEF Done

LEMMA ReactivateKeeps ==
    ASSUME AInv, Reactivate
    PROVE  AInv'
<1> DEFINE row == txn.work.row[txn.member]
           r == Changed(row, "active", row.password)
           W == WithRow(txn.work, txn.member, r, Without(txn.work, txn.member))
<1>1. /\ txn # None /\ txn.step = "body"
      /\ UNCHANGED <<files, updater, known, faults, wire, web, login>>
  BY DEF Reactivate, At, journalVars
<1>2. CASE row.status = "active"
  <2>1. Done(txn.work) /\ changes' = changes
    BY <1>2 DEF Reactivate
  <2>2. QED
    BY <1>1, <2>1, Working, WorkStep DEF Done
<1>3. CASE row.status # "active"
  <2>1. Done(W) /\ changes < MaxChanges /\ changes' = changes + 1
    BY <1>3 DEF Reactivate
  <2>2. r \in Row /\ r.status = "active"
    BY <1>1, Working, ChangedTyped DEF Row
  <2>3. W \in Ledger /\ Current(W) /\ Ended(W) /\ Remaining(W, journal) # {}
    BY <1>1, <2>2, Working, WithRowKeeps
  <2>4. changes' \in 0 .. MaxChanges
    BY <1>1, <2>1, Working
  <2>5. QED
    BY <1>1, <2>1, <2>3, <2>4, Working, WorkStep DEF Done
<1>4. QED
  BY <1>2, <1>3

\* Not refused: somebody else is left.
LEMMA AnotherAdmin ==
    ASSUME AInv, txn # None, txn.step = "body", txn.op = "suspend", ~Refused
    PROVE  ActiveAdmins(txn.work) \ {txn.member} # {}
<1> DEFINE A == ActiveAdmins(txn.work)
<1>1. A # {}
  BY Working, NothingFresh DEF AInv, TxnInv
<1>2. ASSUME txn.member \in A, A \subseteq {txn.member}
      PROVE  FALSE
  <2>1. A = {txn.member}
    BY <1>2
  <2>2. Cardinality(A) = 1
    BY <2>1, FS_Singleton
  <2>3. QED
    BY <1>2, <2>2 DEF Refused
<1>3. QED
  BY <1>1, <1>2

LEMMA DenyKeeps ==
    ASSUME AInv, Deny
    PROVE  AInv'
<1>1. /\ txn # None /\ txn.step = "body" /\ txn.op \in {"suspend", "revoke"} /\ ~Refused
      /\ txn' = [txn EXCEPT !.step = "append"]
      /\ wire' = [state |-> "asked", denial |-> [kind |-> Kind, member |-> txn.member]]
      /\ updater = "up"
      /\ UNCHANGED <<journal, checkpoint, anchor, fresh, updater, known, faults, web, login, changes>>
  BY DEF Deny, At, files
<1>2. txn \in [op: Op, actor: Member, member: Member, step: Step, work: Ledger]
  BY <1>1 DEF AInv, AccountTypeOK
<1>3. /\ txn' \in [op: Op, actor: Member, member: Member, step: Step, work: Ledger]
      /\ txn'.step = "append" /\ txn'.work = txn.work /\ txn'.op = txn.op
      /\ txn'.member = txn.member
  BY <1>1, <1>2 DEF Step
<1>4. [kind |-> Kind, member |-> txn.member] \in Denial
  BY <1>2 DEF Kind, Denial
<1>5. JournalTypeOK' /\ JournalInv'
  BY <1>1, <1>4 DEF AInv, AccountTypeOK, JournalTypeOK, JournalInv, IsPrefixOf
<1>6. AccountTypeOK'
  BY <1>1, <1>3, <1>5 DEF AInv, AccountTypeOK
<1>7. /\ Remaining(txn.work, journal) = ActiveAdmins(txn.work)
      /\ ActiveAdmins(txn.work) \subseteq Remaining(web, journal)
  BY <1>1, <1>2, NothingFresh DEF AInv, TxnInv
<1>8. txn.op = "suspend" => ActiveAdmins(txn.work) \ {txn.member} # {}
  BY <1>1, AnotherAdmin
<1>9. AskedInv'
  BY <1>1, <1>3, <1>7, <1>8 DEF AskedInv, Kind
<1>10. TxnInv'
  BY <1>1, <1>3, <1>7, <1>8 DEF AInv, TxnInv, Kind, Current, Ended
<1>11. QED
  BY <1>1, <1>5, <1>6, <1>9, <1>10 DEF AInv, Current, Ended

LEMMA DeniedKeeps ==
    ASSUME AInv, Denied
    PROVE  AInv'
<1> DEFINE row == txn.work.row[txn.member]
           status == IF txn.op = "suspend" THEN "suspended" ELSE row.status
           r == Changed(row, status, row.password)
           W == WithRow(txn.work, txn.member, r, Without(txn.work, txn.member))
<1>1. /\ txn # None /\ txn.step = "append" /\ Done(W) /\ wire' = Silent /\ wire.state = "ok"
      /\ UNCHANGED <<files, updater, known, faults, web, login, changes>>
  BY DEF Denied, At
<1>2. row \in Row /\ status \in {"active", "suspended"} /\ row.password \in Nat
  BY <1>1, Working DEF Row
<1>3. r \in Row /\ r.status = status
  BY <1>2, ChangedTyped
<1>4. /\ W \in Ledger /\ Current(W) /\ Ended(W)
      /\ Remaining(txn.work, journal) \ {txn.member} \subseteq Remaining(W, journal)
      /\ status = row.status => Remaining(txn.work, journal) \subseteq Remaining(W, journal)
  <2>1. /\ txn.work \in Ledger /\ Current(txn.work) /\ Ended(txn.work)
        /\ txn.member \in Member /\ Remaining(txn.work, journal) # {}
    BY <1>1, Working
  <2>. HIDE DEF r
  <2>. QED  BY <1>3, <2>1, WithRowKeeps
<1>5. Remaining(W, journal) # {}
  BY <1>1, <1>4, Working DEF AInv, TxnInv
<1>6. QED
  BY <1>1, <1>4, <1>5, Working, WorkStep DEF Done

-----------------------------------------------------------------------------

LEMMA Initially == AccountInit => AInv
<1> SUFFICES ASSUME AccountInit PROVE AInv
  OBVIOUS
<1>1. /\ journal = <<>> /\ checkpoint = <<>> /\ anchor = <<>> /\ known = <<>> /\ fresh = TRUE
      /\ updater = "up" /\ wire = [state |-> "idle"] /\ faults = 0
  BY DEF AccountInit, JournalInit, Silent
<1>2. /\ web.row = [m \in Member |-> [status |-> "active", version |-> 1, password |-> 1]]
      /\ web.sessions = {[member |-> m, version |-> 1, password |-> 1, born |-> 0] : m \in Admin}
      /\ web.applied = <<>>
      /\ web = [row |-> web.row, sessions |-> web.sessions, applied |-> web.applied]
  BY DEF AccountInit
<1>3. <<>> \in Seq(Denial) /\ Len(<<>>) = 0 /\ Admin \subseteq Member /\ Admin # {}
  BY AccountAssumption
<1>4. web \in Ledger
  <2>1. web.row \in [Member -> Row]
    BY <1>2 DEF Row
  <2>2. web.sessions \subseteq Session
    BY <1>2, <1>3 DEF Session
  <2>3. QED
    BY <1>2, <1>3, <2>1, <2>2 DEF Ledger
<1>5. JournalTypeOK /\ JournalInv
  BY <1>1, <1>3, JournalAssumption DEF JournalTypeOK, JournalInv, IsPrefixOf
<1>6. AccountTypeOK
  BY <1>4, <1>5, AccountAssumption DEF AccountTypeOK, AccountInit
<1>7. Current(web) /\ Ended(web) /\ Remaining(web, journal) # {}
  BY <1>1, <1>2, <1>3 DEF Current, Ended, Remaining
<1>8. QED
  BY <1>1, <1>5, <1>6, <1>7 DEF AInv, AskedInv, TxnInv, AccountInit

LEMMA EveryStep == AInv /\ [AccountNext]_accountVars => AInv'
<1> SUFFICES ASSUME AInv, [AccountNext]_accountVars PROVE AInv'
  OBVIOUS
<1>1. CASE JournalStep /\ UNCHANGED <<web, txn, login, changes>>
  BY <1>1, JournalStepKeeps
<1>2. CASE \E op \in Op, actor, m \in Member : Begin(op, actor, m)
  BY <1>2, BeginKeeps
<1>3. CASE Lookup \/ RefuseAction
  BY <1>3, NothingDoneKeeps
<1>4. CASE Issue
  BY <1>4, IssueKeeps
<1>5. CASE Replace
  BY <1>5, ReplaceKeeps
<1>6. CASE Deny
  BY <1>6, DenyKeeps
<1>7. CASE Denied
  BY <1>7, DeniedKeeps
<1>8. CASE Reactivate
  BY <1>8, ReactivateKeeps
<1>9. CASE Commit
  BY <1>9, CommitKeeps
<1>10. CASE Abort
  BY <1>10, AbortKeeps
<1>11. CASE UNCHANGED accountVars
  BY <1>11 DEF accountVars, journalVars, files, AInv, AccountTypeOK, JournalTypeOK, JournalInv,
     AskedInv, TxnInv, Current, Ended, IsPrefixOf, Kind, ActiveAdmins
<1>12. QED
  BY <1>1, <1>2, <1>3, <1>4, <1>5, <1>6, <1>7, <1>8, <1>9, <1>10, <1>11 DEF AccountNext

\* The inductive invariant: what the open transaction works on, and what the
\* journal has for the ledger, are as good as the ledger itself.
THEOREM AccountInvariant == AccountSpec => []AInv
<1>1. QED
  BY Initially, EveryStep, PTL DEF AccountSpec

\* The ledger, the open transaction, the logins under way and the journal's files
\* have their types, and the members' rows no status but the two.
THEOREM AccountTypes == AccountSpec => []AccountTypeOK
<1>1. AInv => AccountTypeOK
  BY DEF AInv
<1>2. QED
  BY <1>1, AccountInvariant, PTL

\* One administrator stays active, whatever is suspended, lost, rolled back or
\* put back (_member_action's count, reconcile before and after the body).
THEOREM AdminAlwaysRemains == AccountSpec => []AdminRemains
<1>1. AInv => AdminRemains
  BY DEF AInv, AdminRemains, Remaining, ActiveAdmins
<1>2. QED
  BY <1>1, AccountInvariant, PTL

\* Every stored session is of an active member, the present version of its row and
\* the password in force (login's second transaction, _replace_password).
THEOREM SessionsAlwaysCurrent == AccountSpec => []SessionsCurrent
<1>1. AInv => SessionsCurrent
  BY DEF AInv, SessionsCurrent, Current
<1>2. QED
  BY <1>1, AccountInvariant, PTL

\* A session is younger than every applied denial of its member (reconcile).
THEOREM DeniedSessionsAlwaysEnd == AccountSpec => []DeniedSessionsEnd
<1>1. AInv => DeniedSessionsEnd
  BY DEF AInv, DeniedSessionsEnd, Ended
<1>2. QED
  BY <1>1, AccountInvariant, PTL

\* A commit has applied every denial that was ever published (the checkpoint of
\* the journal, _read and reconcile).
THEOREM CommitsAlwaysCurrent == AccountSpec => CommitsAreCurrent
<1>1. AInv /\ [AccountNext]_accountVars => [Commit => IsPrefixOf(known, web'.applied)]_accountVars
  BY CommitKeeps
<1>2. QED
  BY <1>1, AccountInvariant, PTL DEF AccountSpec, CommitsAreCurrent

=============================================================================
