--------------------------- MODULE MCQuotaBroker ----------------------------
(* QuotaBroker on a small instance: one bot process, one compute child, a     *)
(* scope both callers use and one of the dashboard's own.                     *)
EXTENDS QuotaBroker

CONSTANTS b, w1, b1, d1, d2, account, key

MCOwnerOf == [a \in Attempt |-> IF a = b1 THEN b ELSE w1]
MCScopesOf == [a \in Attempt |-> IF a = d1 THEN {account, key} ELSE {account}]
MCAllocation == [caller \in Caller |-> [s \in Scope |-> 1]]
MCMaxConcurrency == [s \in Scope |-> IF s = account THEN 2 ELSE 1]

=============================================================================
