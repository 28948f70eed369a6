----------------------------- MODULE PanelIngest -----------------------------
(***************************************************************************)
(* The receiver of the self-hosted panel (sentinel-panel): ingest.rs,      *)
(* verify_signature, and the writing half of repository.rs, together with  *)
(* the reviews an operator posts.  Every HTTP request is a process.  A     *)
(* request executes its SQL statements one at a time, no transaction spans *)
(* two of them, and tables that accumulate (attack_fingerprints,           *)
(* probe_sources) are read and then overwritten.                           *)
(*                                                                         *)
(* The network delivers a signed request any number of times and at any    *)
(* time.  An agent signs a message again, with a fresh nonce, whenever it  *)
(* retries it (PanelOutbox).                                               *)
(***************************************************************************)
EXTENDS Integers, Sequences, FiniteSets

CONSTANTS
    Handler,     \* concurrent ingest requests
    Reviewer,    \* review requests, each posting one review
    Attempt,     \* signed upload attempts, named by their nonces
    Message,     \* envelopes, named by their message_id
    Payload,     \* Payload[m]: the content of envelope m
    Key,         \* rows of attack_fingerprints and probe_sources
    Skews,       \* how far agent clocks are ahead of the panel's
    Window,      \* SIGNATURE_WINDOW_SECONDS
    NonceInOneLock,  \* SQLite holds its lock over insert_nonce, a pool does not
    MaxFaults,   \* bound: failed statements and crashes
    MaxTime      \* bound: the panel's clock

Proc == Handler \cup Reviewer
NoKey == "no key"
Never == -1
Rank == 0..3   \* fingerprint_verdict_rank, probe_source_status_rank

Update == [seen : Nat \ {0}, members : SUBSET STRING, first : Nat, last : Nat, rank : Rank]
Entry == [id : STRING, key : Key \cup {NoKey}, update : Update]

ASSUME IngestAssumption ==
    /\ Handler \cap Reviewer = {}
    /\ NoKey \notin Key /\ Message \subseteq STRING
    /\ Payload \in [Message -> [node : STRING, sent : Nat, findings : Seq(Entry),
                                incidents : Seq(STRING), drifts : Seq(STRING),
                                blocks : Seq(STRING), probes : Seq(Entry)]]
    /\ \A m \in Message : \A i \in DOMAIN Payload[m].probes : Payload[m].probes[i].key # NoKey
    /\ Skews \subseteq Int
    /\ {Window, MaxFaults, MaxTime} \subseteq Nat
    /\ NonceInOneLock \in BOOLEAN

VARIABLES
    now,       \* the panel's clock
    signed,    \* signed[r]: message and timestamp of attempt r, once it is signed
    nonces,    \* ingest_nonces: nonces[r] is expires_at, or Never
    rows,      \* <<table, id>> of the rows that statements have written
    lastSeen,  \* nodes.last_seen_at
    merged,    \* attack_fingerprints and probe_sources, by key
    pc,        \* pc[p]: the next step of request p
    op,        \* op[p]: the local variables of request p
    acked,     \* history: messages answered with ok
    posted,    \* history: posted[k], verdict ranks that reviews asked for row k
    accepted,  \* history: accepted[r], the clock reading with which r was last accepted
    faults     \* faults so far

vars == <<now, signed, nonces, rows, lastSeen, merged, pc, op, acked, posted, accepted, faults>>

-----------------------------------------------------------------------------
(* The content of an envelope and the tables that accumulate.               *)

NoUpdate == [seen |-> 1, members |-> {}, first |-> 0, last |-> 0, rank |-> 0]
Plain(table, id) == [table |-> table, id |-> id, key |-> NoKey, update |-> NoUpdate]
PlainRows(table, ids) == [i \in DOMAIN ids |-> Plain(table, ids[i])]
EntryRows(table, s) ==
    [i \in DOMAIN s |-> [table |-> table, id |-> s[i].id, key |-> s[i].key,
                         update |-> s[i].update]]

\* The upserts of persist_payload, in their order.
Rows(m) ==
    LET p == Payload[m]
    IN  <<Plain("nodes", p.node), Plain("heartbeats", m)>>
        \o EntryRows("findings", p.findings)
        \o PlainRows("incidents", p.incidents)
        \o PlainRows("baseline_drifts", p.drifts)
        \o PlainRows("active_blocks", p.blocks)
        \o EntryRows("probe_sources", p.probes)

RowName(row) == <<row.table, row.id>>

\* The tables of the panel's database; the audit log is told apart by action.
IngestTable == {"nodes", "heartbeats", "findings", "incidents", "baseline_drifts",
                "active_blocks", "probe_sources"}
ReviewTable == {"finding_reviews", "panel_reviews", "fingerprint_feedback", "review_audit"}
Table == IngestTable \cup ReviewTable

\* seen = 0 stands for a row that does not exist: stored counts are positive.
NoRow == [seen |-> 0, members |-> {}, first |-> 0, last |-> 0, rank |-> 0]
MergedRow == [seen : Nat, members : SUBSET STRING, first : Nat, last : Nat, rank : Rank]

Greater(i, j) == IF i >= j THEN i ELSE j
Smaller(i, j) == IF i <= j THEN i ELSE j

\* Mutant: a row that does not exist counts as seen at time 0.
MergeFingerprintZero(existing, u) ==
    [seen    |-> Greater(existing.seen + 1, u.seen),
     members |-> existing.members \cup u.members,
     first   |-> Smaller(existing.first, u.first),
     last    |-> Greater(existing.last, u.last),
     rank    |-> Greater(IF existing.seen = 0 THEN 1 ELSE existing.rank, u.rank)]

\* Mutant: the latest report wins.
MergeFingerprintLatest(existing, u) ==
    [seen    |-> Greater(existing.seen + 1, u.seen),
     members |-> existing.members \cup u.members,
     first   |-> IF existing.seen = 0 THEN u.first ELSE Smaller(existing.first, u.first),
     last    |-> u.last,
     rank    |-> Greater(IF existing.seen = 0 THEN 1 ELSE existing.rank, u.rank)]

\* upsert_attack_fingerprint: existing is the row that was read before.
MergeFingerprint(existing, u) ==
    [seen    |-> Greater(existing.seen + 1, u.seen),
     members |-> existing.members \cup u.members,
     first   |-> IF existing.seen = 0 THEN u.first ELSE Smaller(existing.first, u.first),
     last    |-> IF existing.seen = 0 THEN u.last ELSE Greater(existing.last, u.last),
     rank    |-> Greater(IF existing.seen = 0 THEN 1 ELSE existing.rank, u.rank)]

\* merge_probe_source.
MergeProbeSource(existing, u) ==
    IF existing.seen = 0 THEN u
    ELSE [seen    |-> existing.seen + u.seen,
          members |-> existing.members \cup u.members,
          first   |-> Smaller(existing.first, u.first),
          last    |-> Greater(existing.last, u.last),
          rank    |-> Greater(existing.rank, u.rank)]

Merge(table, existing, u) ==
    IF table = "findings" THEN MergeFingerprint(existing, u) ELSE MergeProbeSource(existing, u)

-----------------------------------------------------------------------------
(* Local variables of requests.                                             *)

Phase ==
    {"idle", "clock", "purge", "find", "insert", "write", "read", "merge", "ack",
     "review", "lookup", "verdict", "feedback", "audit", "done"}

NoRequest == [msg |-> "", stamp |-> 0]
NoOperation ==
    [req |-> "", msg |-> "", at |-> 0, row |-> 0, copy |-> NoRow, todo |-> <<>>,
     target |-> Plain("findings", ""), rank |-> 0]

Fault == faults < MaxFaults /\ faults' = faults + 1

-----------------------------------------------------------------------------
(* The agents and the network.                                              *)

\* sign_request: any agent signs any of its messages, as often as it retries.
Sign(r, m) ==
    /\ signed[r] = NoRequest
    /\ \E skew \in Skews : signed' = [signed EXCEPT ![r] = [msg |-> m, stamp |-> now + skew]]
    /\ UNCHANGED <<now, nonces, rows, lastSeen, merged, pc, op, acked, posted, accepted, faults>>

Tick ==
    /\ now < MaxTime
    /\ now' = now + 1
    /\ UNCHANGED <<signed, nonces, rows, lastSeen, merged, pc, op, acked, posted, accepted, faults>>

-----------------------------------------------------------------------------
(* ingest up to insert_nonce.                                               *)

\* verify_signature.
ValidSignature(r) == signed[r] # NoRequest /\ now - signed[r].stamp \in -Window..Window

\* The refusals before insert_nonce answer an error and change nothing.
Receive(h, r) ==
    /\ pc[h] = "idle" /\ ValidSignature(r)
    /\ op' = [op EXCEPT ![h] = [NoOperation EXCEPT !.req = r, !.msg = signed[r].msg]]
    /\ pc' = [pc EXCEPT ![h] = "clock"]
    /\ UNCHANGED <<now, signed, nonces, rows, lastSeen, merged, acked, posted, accepted, faults>>

\* insert_nonce reads the clock before it has the lock or a connection.
ReadClock(h) ==
    /\ pc[h] = "clock"
    /\ op' = [op EXCEPT ![h].at = now]
    /\ pc' = [pc EXCEPT ![h] = "purge"]
    /\ UNCHANGED <<now, signed, nonces, rows, lastSeen, merged, acked, posted, accepted, faults>>

\* DELETE FROM ingest_nonces WHERE expires_at < now.
Purged(n, at) == [r \in Attempt |-> IF n[r] < at THEN Never ELSE n[r]]

\* The INSERT of insert_nonce, into table n; persist_payload follows.
Accept(h, n) ==
    /\ nonces' = [n EXCEPT ![op[h].req] = op[h].at + Window]
    /\ accepted' = [accepted EXCEPT ![op[h].req] = op[h].at]
    /\ op' = [op EXCEPT ![h].row = 1]
    /\ pc' = [pc EXCEPT ![h] = "write"]

\* nonce_replay, or the primary key refuses the INSERT.
Refuse(h, n) ==
    /\ nonces' = n
    /\ op' = [op EXCEPT ![h] = NoOperation]
    /\ pc' = [pc EXCEPT ![h] = "idle"]
    /\ UNCHANGED accepted

\* insert_nonce under the SQLite lock.
InsertNonce(h) ==
    /\ pc[h] = "purge" /\ NonceInOneLock
    /\ LET n == Purged(nonces, op[h].at)
       IN  IF n[op[h].req] = Never THEN Accept(h, n) ELSE Refuse(h, n)
    /\ UNCHANGED <<now, signed, rows, lastSeen, merged, acked, posted, faults>>

\* insert_nonce on a PostgreSQL or MySQL pool: three statements.
PurgeNonces(h) ==
    /\ pc[h] = "purge" /\ ~NonceInOneLock
    /\ nonces' = Purged(nonces, op[h].at)
    /\ pc' = [pc EXCEPT ![h] = "find"]
    /\ UNCHANGED <<now, signed, rows, lastSeen, merged, op, acked, posted, accepted, faults>>

FindNonce(h) ==
    /\ pc[h] = "find"
    /\ \/ /\ nonces[op[h].req] # Never
          /\ Refuse(h, nonces)
       \/ /\ nonces[op[h].req] = Never
          /\ pc' = [pc EXCEPT ![h] = "insert"]
          /\ UNCHANGED <<nonces, op, accepted>>
    /\ UNCHANGED <<now, signed, rows, lastSeen, merged, acked, posted, faults>>

\* Mutant: the table has no primary key.
StoreNonceAlways(h) ==
    /\ pc[h] = "insert"
    /\ Accept(h, nonces)
    /\ UNCHANGED <<now, signed, rows, lastSeen, merged, acked, posted, faults>>

StoreNonce(h) ==
    /\ pc[h] = "insert"
    /\ IF nonces[op[h].req] = Never THEN Accept(h, nonces) ELSE Refuse(h, nonces)
    /\ UNCHANGED <<now, signed, rows, lastSeen, merged, acked, posted, faults>>

-----------------------------------------------------------------------------
(* persist_payload.                                                         *)

CurrentRow(h) == Rows(op[h].msg)[op[h].row]

\* The statement of CurrentRow(h) is done.
Advance(h) ==
    IF op[h].row = Len(Rows(op[h].msg))
    THEN pc' = [pc EXCEPT ![h] = "ack"] /\ UNCHANGED op
    ELSE /\ pc' = [pc EXCEPT ![h] = "write"]
         /\ op' = [op EXCEPT ![h].row = @ + 1]

\* One INSERT ... ON CONFLICT UPDATE of a table that does not accumulate.
Upsert(h, table) ==
    /\ pc[h] = "write" /\ CurrentRow(h).table = table
    /\ rows' = rows \cup {RowName(CurrentRow(h))}

UpsertNode(h) ==
    /\ Upsert(h, "nodes")
    /\ lastSeen' = [lastSeen EXCEPT ![CurrentRow(h).id] = Payload[op[h].msg].sent]
    /\ Advance(h)
    /\ UNCHANGED <<now, signed, nonces, merged, acked, posted, accepted, faults>>

UpsertHeartbeat(h) ==
    /\ Upsert(h, "heartbeats")
    /\ Advance(h)
    /\ UNCHANGED <<now, signed, nonces, lastSeen, merged, acked, posted, accepted, faults>>

\* upsert_attack_fingerprint follows when the finding names a fingerprint.
UpsertFinding(h) ==
    /\ Upsert(h, "findings")
    /\ IF CurrentRow(h).key # NoKey
       THEN pc' = [pc EXCEPT ![h] = "read"] /\ UNCHANGED op
       ELSE Advance(h)
    /\ UNCHANGED <<now, signed, nonces, lastSeen, merged, acked, posted, accepted, faults>>

UpsertIncident(h) ==
    /\ Upsert(h, "incidents")
    /\ Advance(h)
    /\ UNCHANGED <<now, signed, nonces, lastSeen, merged, acked, posted, accepted, faults>>

UpsertDrift(h) ==
    /\ Upsert(h, "baseline_drifts")
    /\ Advance(h)
    /\ UNCHANGED <<now, signed, nonces, lastSeen, merged, acked, posted, accepted, faults>>

UpsertBlock(h) ==
    /\ Upsert(h, "active_blocks")
    /\ Advance(h)
    /\ UNCHANGED <<now, signed, nonces, lastSeen, merged, acked, posted, accepted, faults>>

\* The SELECT of upsert_attack_fingerprint and of merge_probe_source.
ReadMerged(h) ==
    /\ \/ pc[h] = "read"
       \/ pc[h] = "write" /\ CurrentRow(h).table = "probe_sources"
    /\ op' = [op EXCEPT ![h].copy = merged[CurrentRow(h).key]]
    /\ pc' = [pc EXCEPT ![h] = "merge"]
    /\ UNCHANGED <<now, signed, nonces, rows, lastSeen, merged, acked, posted, accepted, faults>>

\* The upsert that follows it.
WriteMerged(h) ==
    /\ pc[h] = "merge"
    /\ merged' = [merged EXCEPT ![CurrentRow(h).key] =
                    Merge(CurrentRow(h).table, op[h].copy, CurrentRow(h).update)]
    /\ rows' = rows \cup {RowName(CurrentRow(h))}
    /\ Advance(h)
    /\ UNCHANGED <<now, signed, nonces, lastSeen, acked, posted, accepted, faults>>

\* ingest answers ok.  The summary cache it clears and the refresh event it
\* sends are state of the browser side, which this module leaves out.
Ack(h) ==
    /\ pc[h] = "ack"
    /\ acked' = acked \cup {op[h].msg}
    /\ op' = [op EXCEPT ![h] = NoOperation]
    /\ pc' = [pc EXCEPT ![h] = "idle"]
    /\ UNCHANGED <<now, signed, nonces, rows, lastSeen, merged, posted, accepted, faults>>

-----------------------------------------------------------------------------
(* Reviews: upsert_finding_review and upsert_panel_review of a finding.     *)

FindingRows == {row \in UNION {{Rows(m)[i] : i \in DOMAIN Rows(m)} : m \in Message} :
                  row.table = "findings"}

\* fingerprint_verdict_from_review; 0 stands for None.
FeedbackRank == [confirmed |-> 3, false_positive |-> 2, needs_review |-> 0]

\* The two endpoints write the same two rows in opposite orders.
ReviewOrders == {<<"finding_reviews", "panel_reviews">>, <<"panel_reviews", "finding_reviews">>}

BeginReview(v, row) ==
    /\ pc[v] = "idle" /\ RowName(row) \in rows
    /\ \E verdict \in DOMAIN FeedbackRank, order \in ReviewOrders :
        /\ op' = [op EXCEPT ![v] = [NoOperation EXCEPT
                    !.target = row, !.todo = order, !.rank = FeedbackRank[verdict]]]
        /\ posted' = IF row.key = NoKey THEN posted
                     ELSE [posted EXCEPT ![row.key] = @ \cup {FeedbackRank[verdict]}]
    /\ pc' = [pc EXCEPT ![v] = "review"]
    /\ UNCHANGED <<now, signed, nonces, rows, lastSeen, merged, acked, accepted, faults>>

\* Mutant: only the first of the two rows is written.
WriteReviewOnce(v) ==
    /\ pc[v] = "review"
    /\ rows' = rows \cup {<<Head(op[v].todo), op[v].target.id>>}
    /\ op' = [op EXCEPT ![v].todo = Tail(@)]
    /\ pc' = [pc EXCEPT ![v] =
                IF op[v].rank = 0 \/ op[v].target.key = NoKey THEN "audit" ELSE "lookup"]
    /\ UNCHANGED <<now, signed, nonces, lastSeen, merged, acked, posted, accepted, faults>>

\* write_finding_review_row, write_panel_review_row; sync_review_feedback only
\* goes on for a verdict about a finding with a fingerprint.
WriteReview(v) ==
    /\ pc[v] = "review"
    /\ rows' = rows \cup {<<Head(op[v].todo), op[v].target.id>>}
    /\ op' = [op EXCEPT ![v].todo = Tail(@)]
    /\ pc' = [pc EXCEPT ![v] =
                IF Len(op[v].todo) > 1 THEN "review"
                ELSE IF op[v].rank = 0 \/ op[v].target.key = NoKey THEN "audit" ELSE "lookup"]
    /\ UNCHANGED <<now, signed, nonces, lastSeen, merged, acked, posted, accepted, faults>>

\* The SELECT and the UPDATE of update_attack_fingerprint_verdict.
ReadVerdict(v) ==
    /\ pc[v] = "lookup"
    /\ op' = [op EXCEPT ![v].copy = merged[op[v].target.key]]
    /\ pc' = [pc EXCEPT ![v] =
                IF merged[op[v].target.key].seen = 0 THEN "audit" ELSE "verdict"]
    /\ UNCHANGED <<now, signed, nonces, rows, lastSeen, merged, acked, posted, accepted, faults>>

WriteVerdict(v) ==
    /\ pc[v] = "verdict"
    /\ merged' = [merged EXCEPT ![op[v].target.key].rank = Greater(op[v].copy.rank, op[v].rank)]
    /\ pc' = [pc EXCEPT ![v] = "feedback"]
    /\ UNCHANGED <<now, signed, nonces, rows, lastSeen, op, acked, posted, accepted, faults>>

\* insert_audit_log.
AuditFeedback(v) ==
    /\ pc[v] = "feedback"
    /\ rows' = rows \cup {<<"fingerprint_feedback", op[v].target.id>>}
    /\ pc' = [pc EXCEPT ![v] = "audit"]
    /\ UNCHANGED <<now, signed, nonces, lastSeen, merged, op, acked, posted, accepted, faults>>

AuditReview(v) ==
    /\ pc[v] = "audit"
    /\ rows' = rows \cup {<<"review_audit", op[v].target.id>>}
    /\ op' = [op EXCEPT ![v] = NoOperation]
    /\ pc' = [pc EXCEPT ![v] = "done"]
    /\ UNCHANGED <<now, signed, nonces, lastSeen, merged, acked, posted, accepted, faults>>

\* Mutant: ingest logs the error of a statement and goes on with the next.
FailSwallowed(p) ==
    /\ pc[p] = "write" /\ Fault
    /\ Advance(p)
    /\ UNCHANGED <<now, signed, nonces, rows, lastSeen, merged, acked, posted, accepted>>

\* A statement fails, the client hangs up, or the panel dies: the request ends
\* where it is and what it has written stays.
Fail(p) ==
    /\ pc[p] \notin {"idle", "done"} /\ Fault
    /\ op' = [op EXCEPT ![p] = NoOperation]
    /\ pc' = [pc EXCEPT ![p] = IF p \in Handler THEN "idle" ELSE "done"]
    /\ UNCHANGED <<now, signed, nonces, rows, lastSeen, merged, acked, posted, accepted>>

-----------------------------------------------------------------------------
Init ==
    /\ now = 0
    /\ signed = [r \in Attempt |-> NoRequest]
    /\ nonces = [r \in Attempt |-> Never]
    /\ rows = {}
    /\ lastSeen = [n \in {Payload[m].node : m \in Message} |-> Never]
    /\ merged = [k \in Key |-> NoRow]
    /\ pc = [p \in Proc |-> "idle"]
    /\ op = [p \in Proc |-> NoOperation]
    /\ acked = {}
    /\ posted = [k \in Key |-> {}]
    /\ accepted = [r \in Attempt |-> Never]
    /\ faults = 0

Next ==
    \/ \E r \in Attempt, m \in Message : Sign(r, m)
    \/ \E h \in Handler :
        \/ \E r \in Attempt : Receive(h, r)
        \/ ReadClock(h) \/ InsertNonce(h) \/ PurgeNonces(h) \/ FindNonce(h) \/ StoreNonce(h)
        \/ UpsertNode(h) \/ UpsertHeartbeat(h) \/ UpsertFinding(h) \/ UpsertIncident(h)
        \/ UpsertDrift(h) \/ UpsertBlock(h) \/ ReadMerged(h) \/ WriteMerged(h) \/ Ack(h)
    \/ \E v \in Reviewer :
        \/ \E row \in FindingRows : BeginReview(v, row)
        \/ WriteReview(v) \/ ReadVerdict(v) \/ WriteVerdict(v)
        \/ AuditFeedback(v) \/ AuditReview(v)
    \/ \E p \in Proc : Fail(p)
    \/ Tick

Spec == Init /\ [][Next]_vars

-----------------------------------------------------------------------------
(* Properties.                                                              *)

Operation ==
    [req : Attempt \cup {""}, msg : Message \cup {""}, at : Nat, row : Nat, copy : MergedRow,
     todo : Seq(ReviewTable), target : FindingRows \cup {Plain("findings", "")}, rank : Rank]

\* Type correctness; a request that has accepted its nonce is at a statement of
\* its envelope.
TypeOK ==
    /\ now \in 0..MaxTime
    /\ signed \in [Attempt -> [msg : Message, stamp : Int] \cup {NoRequest}]
    /\ nonces \in [Attempt -> Int]
    /\ rows \subseteq Table \X STRING
    /\ lastSeen \in [{Payload[m].node : m \in Message} -> Nat \cup {Never}]
    /\ merged \in [Key -> MergedRow]
    /\ pc \in [Proc -> Phase]
    /\ op \in [Proc -> Operation]
    /\ acked \subseteq Message
    /\ posted \in [Key -> SUBSET Rank]
    /\ accepted \in [Attempt -> Nat \cup {Never}]
    /\ faults \in 0..MaxFaults
    /\ \A h \in Handler : pc[h] \in {"write", "read", "merge", "ack"} =>
         op[h].msg \in Message /\ op[h].row \in DOMAIN Rows(op[h].msg)

\* An upload that the panel answered with ok has all its rows in the database,
\* although its statements were not one transaction and others failed half way:
\* the agent may forget it (persist_payload, ingest).
AckedStored ==
    \A m \in acked : \A i \in DOMAIN Rows(m) : RowName(Rows(m)[i]) \in rows

\* ingest: what the panel holds is well formed, and whole once it was acknowledged.
StoredWhole == TypeOK /\ AckedStored

\* A nonce is accepted again only when more than the signature window has gone
\* by since the clock reading of its last acceptance, although requests stall
\* between reading the clock and using it and, on a pool, between the three
\* statements of insert_nonce.
NonceSpacing ==
    [][\A r \in Attempt :
        accepted[r] # Never /\ accepted'[r] # accepted[r] => now > accepted[r] + Window]_vars

\* The inductive invariant behind it: an accepted nonce is in the table until the
\* window is over, and no request works with a clock reading from the future.
NonceInv ==
    /\ now \in Nat
    /\ nonces \in [Attempt -> Int]
    /\ accepted \in [Attempt -> Nat \cup {Never}]
    /\ \A h \in Handler : pc[h] \in {"clock", "purge", "find", "insert"} => op[h].req \in Attempt
    /\ \A h \in Handler : pc[h] \in {"purge", "find", "insert"} => op[h].at \in 0..now
    /\ \A r \in Attempt : accepted[r] # Never =>
         \/ nonces[r] = accepted[r] + Window
         \/ nonces[r] = Never /\ now > accepted[r] + Window

\* What the rows that are stored say about row k of an accumulating table.
Evidence(k) ==
    {row.update : row \in {x \in UNION {{Rows(m)[i] : i \in DOMAIN Rows(m)} : m \in Message} :
                            x.key = k /\ RowName(x) \in rows}}

Supported(k, row) ==
    row.seen > 0 =>
        /\ \A n \in row.members : \E u \in Evidence(k) : n \in u.members
        /\ \E u \in Evidence(k) : row.first = u.first
        /\ \E u \in Evidence(k) : row.last = u.last
        /\ row.rank \in {1} \cup posted[k] \cup {u.rank : u \in Evidence(k)}

\* Accumulated rows invent nothing, whatever requests overlap, fail or are
\* repeated: every member, both times and the verdict of an attack fingerprint
\* or probe source come from a finding row that is stored or a posted review.
MergedSupported == \A k \in Key : Supported(k, merged[k])

\* r is at least as strong as q.
Covers(r, q) ==
    q.seen > 0 => /\ q.seen <= r.seen /\ q.members \subseteq r.members
                  /\ r.first <= q.first /\ q.last <= r.last /\ q.rank <= r.rank

\* An accumulating row loses nothing unless two requests overlapped: the one that
\* shrinks it writes a copy which another request had made stale.
ShrinksOnlyByOverlap ==
    [][\A k \in Key :
        ~Covers(merged'[k], merged[k]) =>
            \E p \in Proc : pc[p] \in {"merge", "verdict"} /\ op[p].copy # merged[k]]_vars

\* A review that is in the audit log is in both review tables.
AuditedReviewsStored ==
    \A row \in FindingRows :
        {<<"review_audit", row.id>>, <<"fingerprint_feedback", row.id>>} \cap rows # {} =>
            {<<"finding_reviews", row.id>>, <<"panel_reviews", row.id>>} \subseteq rows
=============================================================================
