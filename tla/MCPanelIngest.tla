---------------------------- MODULE MCPanelIngest ----------------------------
(* Small instances of PanelIngest for TLC.                                  *)
EXTENDS PanelIngest, TLC

Sighting(id, time, rank, node) ==
    [id |-> id, key |-> "fingerprint",
     update |-> [seen |-> 1, members |-> {node}, first |-> time, last |-> time, rank |-> rank]]
Probe(id, rank) ==
    [id |-> id, key |-> "probe",
     update |-> [seen |-> 2, members |-> {"web"}, first |-> 1, last |-> 2, rank |-> rank]]
Envelope(node, sent, findings, probes) ==
    [node |-> node, sent |-> sent, findings |-> findings, incidents |-> <<>>,
     drifts |-> <<>>, blocks |-> <<>>, probes |-> probes]

\* Two nodes report the same attack fingerprint; one of them also reports an
\* incident, a drift and a block.
TwoNodes ==
    "m1" :> [Envelope("a", 1, <<Sighting("f1", 2, 1, "a")>>, <<>>) EXCEPT
              !.incidents = <<"i">>, !.drifts = <<"d">>, !.blocks = <<"b">>]
    @@ "m2" :> Envelope("b", 2, <<Sighting("f2", 1, 0, "b")>>, <<>>)

\* One small envelope, for the runs about its delivery.
SmallEnvelope == "m1" :> Envelope("a", 1, <<>>, <<Probe("p", 1)>>)

ClockSkews == {-1, 0, 1}
NoSkew == {0}

\* Next of a panel on SQLite while its clock stands still: insert_nonce is one
\* step.  The statements of a pool and the clock are in the instance of MCPanel.
SqliteNext ==
    \/ \E r \in Attempt, m \in Message : Sign(r, m)
    \/ \E h \in Handler :
        \/ \E r \in Attempt : Receive(h, r)
        \/ ReadClock(h) \/ InsertNonce(h)
        \/ UpsertNode(h) \/ UpsertHeartbeat(h) \/ UpsertFinding(h) \/ UpsertIncident(h)
        \/ UpsertDrift(h) \/ UpsertBlock(h) \/ ReadMerged(h) \/ WriteMerged(h) \/ Ack(h)
    \/ \E v \in Reviewer :
        \/ \E row \in FindingRows : BeginReview(v, row)
        \/ WriteReview(v) \/ ReadVerdict(v) \/ WriteVerdict(v)
        \/ AuditFeedback(v) \/ AuditReview(v)
    \/ \E p \in Proc : Fail(p)

SqliteSpec == Init /\ [][SqliteNext]_vars

HandlerSymmetry == Permutations(Handler)
=============================================================================
