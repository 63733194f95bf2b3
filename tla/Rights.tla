------------------------------- MODULE Rights --------------------------------
(* What members may see, as the web ledger records it: the features an         *)
(* administrator switches (features.py, admin.py) and the grants of the        *)
(* sources content comes from (source_policy.py). Every reader checks both in  *)
(* its own transaction, so they may change between any two actions of it.      *)
EXTENDS Naturals, FiniteSetsExt

CONSTANTS Feature, Source,
          Grant,         \* the sets of uses a grant may allow
          MaxChanges     \* bound: switches and grant rows in one behaviour

\* display: raw and derived display. trace: a mark without content may be kept.
Uses == {"display", "retain", "trace"}

ASSUME RightsAssumption ==
    /\ Grant \subseteq SUBSET Uses /\ Uses \in Grant
    /\ MaxChanges \in Nat

VARIABLES
    features,    \* features: name -> enabled, version
    grants,      \* source_permissions: source -> its newest row and its uses; the
                 \* row stands for its policy version, which no two rows share
    authority    \* whether a denial journal is attached; source_withheld

rights == <<features, grants, authority>>

RightsTypeOK ==
    /\ features \in [Feature -> [on: BOOLEAN, version: Nat]]
    /\ grants \in [Source -> [row: Nat, uses: Grant]]
    /\ authority \in [journal: BOOLEAN, withheld: BOOLEAN]

RightsInit ==
    /\ features = [f \in Feature |-> [on |-> TRUE, version |-> 0]]
    /\ grants = [s \in Source |-> [row |-> 0, uses |-> Uses]]
    /\ authority \in [journal: BOOLEAN, withheld: {FALSE}]

-----------------------------------------------------------------------------
\* The checks.

\* require_features
Enabled(F) == F # {} /\ \A f \in F : features[f].on

\* mask_current: the features a piece of work was saved with are as they were.
MaskCurrent(mask) == \A f \in DOMAIN mask : mask[f] = features[f]

\* _authorize of a lineage with the one source s: content that came under another
\* policy version than the newest row's is not allowed, until it comes again.
Allowed(s, policy, uses) ==
    ~authority.withheld /\ grants[s].row = policy /\ uses \subseteq grants[s].uses

\* _retraction_metadata_allowed: the rights to a mark, apart from those to content.
TraceAllowed(sources) == \A s \in sources : "trace" \in grants[s].uses

-----------------------------------------------------------------------------
\* Changes.

Changes == MapThenSumSet(LAMBDA f : features[f].version, Feature)
           + MapThenSumSet(LAMBDA s : grants[s].row, Source)

\* AdminService.set_feature. Its journal entry is carried out by its own update.
Switch(f) ==
    /\ Changes < MaxChanges
    /\ features' = [features EXCEPT ![f] =
                       [on |-> ~features[f].on, version |-> features[f].version + 1]]
    /\ UNCHANGED <<grants, authority>>

\* A grant that is not of status "allowed" allows no use of content.
Denial(uses) == uses \cap {"display", "retain"} = {}

\* SourcePolicy.record. With a journal a denial is appended to it, and the
\* reconcile that ends the transaction withholds every source.
Record(s, uses) ==
    /\ Changes < MaxChanges
    /\ grants' = [grants EXCEPT ![s] = [row |-> grants[s].row + 1, uses |-> uses]]
    /\ authority' = [authority EXCEPT !.withheld =
                        authority.withheld \/ (authority.journal /\ Denial(uses))]
    /\ UNCHANGED features

=============================================================================
