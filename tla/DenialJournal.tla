---------------------------- MODULE DenialJournal ----------------------------
(* The denial journal (authority.py) and the updater process that serves it    *)
(* (authority_rpc.py): an append is three durable writes, the journal, the     *)
(* checkpoint and the anchor, and the updater may stop between any two.        *)
(*                                                                             *)
(* A digest names the rows it was computed from, so a file that holds a        *)
(* revision and a digest is modelled by those rows. The server takes its       *)
(* connections one at a time in the order they come: a read is answered after  *)
(* an append that was asked before it, whether its client still waits or not.  *)
EXTENDS Naturals, Sequences

CONSTANTS Member

\* Bounds of one behaviour; MaxDenials is 1000 in the code.
CONSTANTS MaxDenials, MaxFaults

Denial == [kind: {"member_suspended", "sessions_revoked"}, member: Member]

ASSUME JournalAssumption == {MaxDenials, MaxFaults} \subseteq Nat

VARIABLES
    journal,      \* the rows of denials
    checkpoint,   \* the rows of the high-water mark
    anchor,       \* the rows the anchor file names
    fresh,        \* the anchor is not 300 s old
    updater,      \* "down", "up", or how far it is with an append
    wire,         \* the append RPC: its denial and what has become of it
    known,        \* the longest journal that any reader may have been given
    faults

files == <<journal, checkpoint, anchor, fresh>>
journalVars == <<files, updater, wire, known, faults>>

JournalTypeOK ==
    /\ {journal, checkpoint, anchor, known} \subseteq Seq(Denial)
    /\ Len(journal) <= MaxDenials
    /\ fresh \in BOOLEAN
    /\ updater \in {"down", "up", "journaled", "advanced"}
    /\ wire.state = "idle" \/ wire.denial \in Denial
    /\ wire.state \in {"idle", "asked", "ok", "error"}
    /\ faults \in 0 .. MaxFaults

Silent == [state |-> "idle"]

JournalInit ==
    /\ journal = <<>> /\ checkpoint = <<>> /\ anchor = <<>> /\ known = <<>>
    /\ fresh = TRUE
    /\ updater = "up"
    /\ wire = Silent
    /\ faults = 0

-----------------------------------------------------------------------------
IsPrefixOf(s, t) == Len(s) <= Len(t) /\ \A i \in 1 .. Len(s) : s[i] = t[i]

NoCheckpoint == anchor = journal                         \* mutant of Intact
\* _read: anchor and checkpoint name exactly the rows of the journal.
Intact == anchor = journal /\ checkpoint = journal

\* The updater answers a read: nothing is under way or waiting before it.
Readable == updater = "up" /\ wire.state # "asked" /\ Intact /\ fresh

Fault == faults < MaxFaults /\ faults' = faults + 1
Reply(state) == wire' = [wire EXCEPT !.state = state]

\* _append reads the chain and commits the row.
AppendRow ==
    /\ updater = "up" /\ wire.state = "asked"
    /\ IF Intact /\ fresh /\ Len(journal) < MaxDenials
       THEN /\ journal' = Append(journal, wire.denial)
            /\ updater' = "journaled"
            /\ UNCHANGED wire
       ELSE Reply("error") /\ UNCHANGED <<journal, updater>>
    /\ UNCHANGED <<checkpoint, anchor, fresh, known, faults>>

\* CheckpointStore.advance.
Advance ==
    /\ updater = "journaled"
    /\ checkpoint' = journal
    /\ updater' = "advanced"
    /\ UNCHANGED <<journal, anchor, fresh, wire, known, faults>>

\* The new anchor replaces the old one, and the client is told.
Publish ==
    /\ updater = "advanced"
    /\ anchor' = journal /\ fresh' = TRUE
    /\ updater' = "up"
    /\ known' = journal
    /\ Reply("ok")
    /\ UNCHANGED <<journal, checkpoint, faults>>

\* A write raises: the server answers with an error and goes on.
AppendRaises ==
    /\ updater \in {"journaled", "advanced"} /\ Fault
    /\ updater' = "up"
    /\ Reply("error")
    /\ UNCHANGED <<files, known>>

\* The updater stops; its connection closes with it.
Stop ==
    /\ updater # "down" /\ Fault
    /\ updater' = "down"
    /\ IF wire.state = "asked" THEN Reply("error") ELSE UNCHANGED wire
    /\ UNCHANGED <<files, known>>

Expire ==
    /\ fresh /\ fresh' = FALSE
    /\ UNCHANGED <<journal, checkpoint, anchor, updater, wire, known, faults>>

\* renew, every minute: an expired or broken chain ends the process.
Renew ==
    /\ updater = "up"
    /\ IF Intact /\ fresh THEN UNCHANGED <<updater, wire>>
       ELSE /\ updater' = "down"
            /\ IF wire.state = "asked" THEN Reply("error") ELSE UNCHANGED wire
    /\ UNCHANGED <<files, known, faults>>

\* restart_renew: an intact chain may resume after any downtime.
Start ==
    /\ updater = "down" /\ Intact
    /\ updater' = "up" /\ fresh' = TRUE
    /\ UNCHANGED <<journal, checkpoint, anchor, wire, known, faults>>

\* While the updater is down an older journal is put back with its own anchor.
PutBack ==
    /\ updater = "down" /\ Fault
    /\ \E n \in 0 .. Len(journal) - 1 :
        journal' = SubSeq(journal, 1, n) /\ anchor' = SubSeq(journal, 1, n)
    /\ UNCHANGED <<checkpoint, fresh, updater, wire, known>>

JournalStep == \/ AppendRow \/ Advance \/ Publish \/ AppendRaises \/ Stop
               \/ Expire \/ Renew \/ Start \/ PutBack

=============================================================================
