------------------------- MODULE MCTransitionStore --------------------------
(* Two owners; a scope, the same stream under other rules, and a later session. *)
EXTENDS TransitionStore, TLC

CONSTANTS now1, other1, now2, x, y

MCStreamOf == [scope \in Scope |-> IF scope = now2 THEN "later" ELSE "stream"]
MCSessionOf == [scope \in Scope |-> IF scope = now2 THEN 2 ELSE 1]
MCInitial == [scope \in Scope |-> x]
MCAllowed == [scope \in Scope |-> IF scope = other1 THEN {<<x, y>>} ELSE {<<x, y>>, <<y, x>>}]
MCTransition == {tr \in [id: Id, stream: Stream, from: State, to: State, at: {1, 2}] :
                    tr.from # tr.to /\ (tr.stream = "later" => tr.at = 1 /\ tr.from = x)}

Symmetry == Permutations(Id) \cup Permutations(Owner)

=============================================================================
