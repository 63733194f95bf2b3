---------------------------- MODULE TransitionLog ----------------------------
(* What the transition engines and their store promise together: one log per  *)
(* stream that only grows, under one scope, along the scope's rules from its  *)
(* initial state, in the order of time, with no record id used twice.         *)
EXTENDS Naturals, Sequences

CONSTANTS Scope, StreamOf, Initial, Allowed, Transition

VARIABLE log   \* stream -> sequence of [scope, tr]

Streams == {StreamOf[scope] : scope \in Scope}
Ids(s) == {log[s][p].tr.id : p \in DOMAIN log[s]}
Tip(s) == log[s][Len(log[s])]

LogInit == log = [s \in Streams |-> <<>>]

Extend(scope, tr) ==
    LET s == StreamOf[scope] IN
    /\ tr.stream = s
    /\ <<tr.from, tr.to>> \in Allowed[scope]
    /\ \A other \in Streams : tr.id \notin Ids(other)
    /\ IF log[s] = <<>> THEN tr.from = Initial[scope]
       ELSE /\ Tip(s).scope = scope
            /\ tr.from = Tip(s).tr.to
            /\ Tip(s).tr.at <= tr.at
    /\ log' = [log EXCEPT ![s] = Append(@, [scope |-> scope, tr |-> tr])]

LogNext == \E scope \in Scope, tr \in Transition : Extend(scope, tr)
LogSpec == LogInit /\ [][LogNext]_log

=============================================================================
