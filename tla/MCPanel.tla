------------------------------- MODULE MCPanel -------------------------------
(* A small panel for TLC: a receiver under replayed and skewed uploads beside *)
(* what browsers read.  They share no variable, so each behaviour exercises   *)
(* one of them (focus) and the other stays as it is.                          *)
EXTENDS MCPanelIngest, PanelViews

VARIABLE focus
panelVars == <<focus, vars, viewVars>>

\* Two findings with one signature, one of them from before there were signatures.
MCItem ==
    [f1 |-> [type |-> "finding", signature |-> "sig"], f2 |-> [type |-> "finding", signature |-> "sig"]]
\* A node and an older row with its name.
MCNodeRows == [a |-> "a", old |-> "a"]
MCConfs ==
    {[token |-> TRUE, public_enabled |-> TRUE, public_pages |-> {"findings", "incidents", "probe_sources", "active_blocks"}]}
MCDelays == {0, 2}
PanelSymmetry == HandlerSymmetry \cup Permutations(Reader)

-----------------------------------------------------------------------------
Foci == {"ingest", "summary", "reviews", "streams", "pages"}
PanelInit == focus \in Foci /\ Init /\ ViewInit

Same(x) == x' = x

\* The views in four parts: requests for the summary beside writers, reviews of
\* rows that are being stored, streams beside writers, and pages.
PanelNext ==
    \/ focus = "ingest" /\ Next /\ UNCHANGED <<focus, viewVars>>
    \/ /\ focus = "summary" /\ ViewNext /\ UNCHANGED <<focus, vars>> /\ Same(<<table, reviews, tickets, spent>>)
       /\ \A r \in Reader : reader'[r].pc # "shown"
    \/ focus = "reviews" /\ ViewNext /\ UNCHANGED <<focus, vars>> /\ Same(<<cache, reader, tickets, spent>>)
    \/ focus = "streams" /\ ViewNext /\ UNCHANGED <<focus, vars>> /\ Same(<<table, reviews, reader>>)
    \/ focus = "pages" /\ ViewNext /\ UNCHANGED <<focus, vars>> /\ Same(<<stores, clock, cache, tickets, spent>>)

PanelSpec == PanelInit /\ [][PanelNext]_panelVars
=============================================================================
