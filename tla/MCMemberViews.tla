---------------------------- MODULE MCMemberViews ----------------------------
(* What members are shown, under one set of rights: the feed and the reports.  *)
(* Neither reads the tables of the other, so a behaviour follows one of them:  *)
(* part is chosen at the start and the other part keeps its first state. The   *)
(* tables of the feed do not depend on who reads them: the publisher's progress *)
(* is followed in a third kind of behaviour, without browsers. To the reports  *)
(* a source withheld by a journal is one that is not granted again.            *)
EXTENDS FeedLog, ReportDelivery

CONSTANTS source, old, new, later

VARIABLE part

MCPub == {<<1, old>>, <<1, new>>, <<2, old>>, <<2, later>>}
MCLoaded == << <<1, old>>, <<2, old>> >>
MCSourceOf == [v \in Version |-> source]
MCPolicyOf == [v \in Version |-> IF v = later THEN 1 ELSE 0]
MCSection == <<"analysis", "sec">>

viewVars == <<rights, feedVars, desk, part>>

ViewsInit ==
    /\ RightsInit /\ FeedInit /\ DeskInit
    /\ \/ part \in {"feed", "publisher"}
       \/ part = "reports" /\ ~authority.journal

ViewsNext ==
    \/ part # "reports" /\ TablesNext /\ UNCHANGED <<desk, part>>
    \/ part = "feed" /\ BrowserNext /\ UNCHANGED <<desk, part>>
    \/ part = "reports" /\ DeskNext /\ UNCHANGED <<feedVars, part>>

ViewsSpec ==
    ViewsInit /\ [][ViewsNext]_viewVars /\ WF_feed(part = "publisher" /\ FullTurn)

\* What may no longer be shown is withdrawn from the log in the end, however many
\* cards there are and however few a turn can look at.
DeniedIsWithdrawn ==
    \A c \in Card : (part = "publisher" /\ ShownDenied(c)) ~> ~ShownDenied(c)

=============================================================================
