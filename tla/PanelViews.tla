----------------------------- MODULE PanelViews -----------------------------
(***************************************************************************)
(* What the panel shows (sentinel-panel main.rs, auth.rs, stream.rs and the *)
(* reading half of repository.rs): roles, pages, reviews attached to rows,  *)
(* the cached summary, and the event stream that tells browsers to reload.  *)
(* Requests interleave between their SQL statements; an ingest or a review  *)
(* that fails has left the rows it wrote, without clearing the cache and    *)
(* without an event.  PanelIngest has the writing half in full; here a      *)
(* write is the row it leaves in a table.                                   *)
(***************************************************************************)
EXTENDS Integers, FiniteSets, FiniteSetsExt

CONSTANTS
    Item,             \* Item[i]: target type and review signature of row i
    LegacyItems,      \* rows older than the review_signature column
    NodeRows,         \* NodeRows[n]: the node_name of row n of the table nodes
    LegacyNodes,      \* rows whose node_id is not their node_name
    Placeholders,     \* names is_panel_placeholder_node recognises
    Verdicts,         \* of the reviews operators post
    Delays,           \* how long a message may have waited before it arrives
    Confs,            \* token, public_enabled and public_pages of a panel
    Reader, Socket, Ticket,
    CacheTtl, TicketTtl,                    \* in ticks, as are the next three
    Freshness, OfflineAfter, RetiredAfter,
    ChannelCapacity,  \* of broadcast::channel
    MaxWrites, MaxAnnouncements, MaxClock, MaxFailedWrites

Items == DOMAIN Item

ASSUME PanelViewsAssumption ==
    /\ LegacyItems \subseteq Items /\ LegacyNodes \subseteq DOMAIN NodeRows
    /\ {CacheTtl, TicketTtl, ChannelCapacity} \subseteq Nat \ {0}
    /\ {Freshness, OfflineAfter, RetiredAfter} \cup Delays \subseteq Nat
    /\ Verdicts \subseteq {"false_positive", "confirmed", "needs_review"}
    /\ Freshness <= OfflineAfter /\ OfflineAfter <= RetiredAfter

VARIABLES
    conf,       \* the panel's configuration
    clock,
    table,      \* the review_signature of each stored finding, incident or drift
    reviews,    \* panel_reviews, by target
    seenAt,     \* last_seen_at of each stored row of nodes
    cache,      \* summary_cache
    reader,     \* the locals of each GET request
    writer,     \* the locals of the ingest and of the review in progress
    tickets,    \* stream_tickets
    socket,     \* each browser's stream, with its place in the broadcast channel
    announced,  \* events sent
    version,    \* history: rows written so far
    known,      \* history: every summary of a request that begins now has this version
    heard,      \* history: the youngest sent_at received of each node
    spent,      \* history: how often a ticket opened a stream
    failedWrites

viewVars == <<conf, clock, table, reviews, seenAt, cache, reader, writer, tickets, socket,
              announced, version, known, heard, spent, failedWrites>>
stores == <<table, reviews, seenAt, version, heard>>
streams == <<tickets, socket, announced, spent>>

\* An upsert: f with the value v for the key k.
Put(f, k, v) == [x \in DOMAIN f \cup {k} |-> IF x = k THEN v ELSE f[x]]

-----------------------------------------------------------------------------
(* Roles                                                                    *)

Public == 0
Private == 1
NoRole == -1
Credential == {"none", "wrong", "token"}

PublicAccess(c) == c.public_enabled \/ c.public_pages # {}
ResolveRole(c, credential) ==
    IF c.token /\ credential = "token" THEN Private
    ELSE IF PublicAccess(c) THEN Public ELSE NoRole
MayRead(c, credential) == ResolveRole(c, credential) >= Public
Details == {"finding_detail", "incident_detail"}
PageMinimum(c, page) ==
    IF page = "nodes" \/ page \in c.public_pages \ Details THEN Public ELSE Private
MayView(c, credential, page) == ResolveRole(c, credential) >= PageMinimum(c, page)
MayWrite(c, credential) == c.token /\ ResolveRole(c, credential) = Private

-----------------------------------------------------------------------------
(* The keys of the rows a page shows                                        *)

Pages == {"findings", "incidents", "baseline_drifts", "active_blocks", "attack_fingerprints",
          "probe_sources", "nodes", "audit_logs", "finding_detail", "incident_detail"}
ReviewedPage == [findings |-> "finding", incidents |-> "incident", baseline_drifts |-> "baseline_drift"]

NodeColumns(role) ==
    {"last_seen_at", "node_name", "agent_version", "metrics"}
    \cup (IF role = Private THEN {"hostname", "privacy_mode", "storage"} ELSE {})
ProbeSourceColumns ==
    {"last_seen", "first_seen", "node_name", "source_ip", "ip_version", "network_prefix", "seen_count",
     "block_status", "country", "asn", "organization", "categories", "rule_ids", "latest_reason",
     "block_reason"}
ActiveBlockColumns(role) ==
    {"blocked_at", "node_name", "category", "categories"}
    \cup (IF role = Private THEN {"id", "ip", "network_prefix", "country", "asn", "organization",
                                  "rule_id", "backend", "reason", "expires_at"} ELSE {})

FindingsColumns ==
    {"id", "timestamp", "node_name", "severity", "rule_id", "category", "subject", "review_signature", "title"}
IncidentsColumns ==
    {"id", "last_seen", "node_name", "severity", "score", "title", "summary", "review_signature", "payload"}
BaselineDriftsColumns ==
    {"id", "finding_id", "timestamp", "node_name", "severity", "rule_id", "category", "tier", "subject",
     "review_signature", "review_action"}
AttackFingerprintsColumns ==
    {"id", "last_seen_at", "first_seen_at", "kind", "title", "seen_count", "node_count", "source_count",
     "rule_ids", "categories", "score", "confidence", "verdict", "summary", "conclusion"}
AuditLogsColumns == {"created_at", "action", "actor", "target_type", "target_id"}
FindingDetailColumns ==
    FindingsColumns \cup {"confidence", "dedup_key", "evidence", "impact", "recommendations", "received_at"}
IncidentDetailColumns == IncidentsColumns \cup {"first_seen", "received_at"}

\* The columns of the page's dataset, its JSON columns expanded.
Columns(page, role) ==
    CASE page = "findings" -> FindingsColumns
      [] page = "incidents" -> IncidentsColumns
      [] page = "baseline_drifts" -> BaselineDriftsColumns
      [] page = "attack_fingerprints" -> AttackFingerprintsColumns
      [] page = "audit_logs" -> AuditLogsColumns
      [] page = "active_blocks" -> ActiveBlockColumns(role)
      [] page = "probe_sources" -> ProbeSourceColumns
      [] page = "finding_detail" -> FindingDetailColumns \cup {"review"}
      [] page = "incident_detail" -> IncidentDetailColumns \cup {"review"}
      [] OTHER -> NodeColumns(role) \cup {"status"}

\* attach_panel_reviews.
ReviewKeys(page, role) ==
    IF page \notin DOMAIN ReviewedPage THEN {}
    ELSE {"review_verdict", "status"} \cup (IF role = Private THEN {"review"} ELSE {})

ShouldRedact(page, role) ==
    page # "probe_sources" /\ ~(page = "active_blocks" /\ role = Private)

\* redact_ip_text takes the addresses out of a text, public_node_name replaces a
\* name that was generated or is an address.
RedactIpText == "cleaned"
PublicNodeName == "public_name"

\* redact_panel_value.
Redacted(key) ==
    CASE key \in {"ip", "source_ip"} -> "redacted" [] key = "node_name" -> PublicNodeName
      [] OTHER -> RedactIpText

HiddenKeys(role) ==
    IF role = Private THEN {"review_signature"}
    ELSE {"active_response_backend", "backend", "dedup_key", "evidence", "finding_id", "firewall_backend",
          "firewall_present", "host_id", "hostname", "id", "impact", "ip", "payload", "raw_log",
          "recommendations", "review", "review_signature", "reviewer", "storage"}

\* Mutant: nothing more is taken from the rows of probe sources.
HiddenProbeKeysNone(page, role) == {}

\* scope_probe_source_rows.
HiddenProbeKeys(page, role) ==
    IF page = "probe_sources" /\ role = Public
    THEN {"node_name", "network_prefix", "latest_reason", "block_reason", "first_seen"} ELSE {}

\* query_page, attach_panel_reviews and scope_panel_value, in this order: what
\* is attached is not redacted.
Response(page, role) ==
    LET keys == (Columns(page, role) \cup ReviewKeys(page, role))
                \ (HiddenKeys(role) \cup HiddenProbeKeys(page, role))
    IN [k \in keys |-> IF ShouldRedact(page, role) /\ k \in Columns(page, role)
                       THEN Redacted(k) ELSE "raw"]

-----------------------------------------------------------------------------
(* Reviews                                                                  *)

FalsePositives(type) ==
    {i \in DOMAIN reviews : Item[i].type = type /\ reviews[i].verdict = "false_positive"}

\* review_not_false_positive_filter.
Counted(type) ==
    {i \in DOMAIN table :
        /\ Item[i].type = type
        /\ \A f \in FalsePositives(type) :
              f # i /\ ~(reviews[f].signature # "" /\ reviews[f].signature = table[i])}

\* panel_review_value, or else panel_review_by_signature.
ShownVerdict(i) ==
    LET similar == {j \in DOMAIN reviews :
                      /\ Item[j].type = Item[i].type
                      /\ table[i] # "" /\ reviews[j].signature = table[i]}
        latest == CHOOSE j \in similar : \A k \in similar : reviews[j].at >= reviews[k].at
    IN IF i \in DOMAIN reviews THEN reviews[i].verdict
       ELSE IF similar = {} THEN "needs_review" ELSE reviews[latest].verdict

-----------------------------------------------------------------------------
(* Nodes                                                                    *)

NodeStatus(sent) ==
    LET age == clock - sent
    IN IF age < 0 \/ age > RetiredAfter THEN "retired" ELSE IF age > OfflineAfter THEN "offline"
       ELSE IF age > Freshness THEN "stale" ELSE "fresh"

\* latest_node_rows: per name the row that was seen last.
LatestSeen(name) == Max({seenAt[n] : n \in {m \in DOMAIN seenAt : NodeRows[m] = name}})
ListedNames == {NodeRows[n] : n \in DOMAIN seenAt} \ Placeholders
Statuses == {NodeStatus(LatestSeen(name)) : name \in ListedNames}

\* Mutant: nodes that were given up do not count.
HealthWithoutRetired ==
    IF "offline" \in Statuses THEN "degraded" ELSE IF "stale" \in Statuses THEN "attention" ELSE "healthy"

\* build_data_health, without the errors of the agents' collectors.
Health ==
    IF Statuses \cap {"offline", "retired"} # {} THEN "degraded"
    ELSE IF "stale" \in Statuses THEN "attention" ELSE "healthy"

Silent(name) == clock - heard[name] > Freshness

-----------------------------------------------------------------------------
(* The summary                                                              *)

NoSummary == [until |-> 0]
Usable(c, time) == c # NoSummary /\ c.until > time
Waiting == [pc |-> "idle"]
Building(r) == r.pc \in {"counts", "store"}

\* Once the cache is cleared or has expired, and no summary is being built, every
\* later one is built from what is written now.
Learn(cleared) ==
    known' = IF (cleared \/ ~Usable(cache', clock')) /\ \A r \in Reader : ~Building(reader'[r])
             THEN version' ELSE known

Answer(r, value, since) ==
    [reader EXCEPT ![r] = [pc |-> "answered", seen |-> value.seen, since |-> since]]

\* Mutant: cached_summary ignores the age of what it finds.
CachedForever == cache # NoSummary
Cached == Usable(cache, clock)

\* summary: the cache, or the first queries of build_summary (by_severity).
AskSummary(r, credential) ==
    /\ reader[r].pc = "idle" /\ MayRead(conf, credential)
    /\ IF Cached
       THEN reader' = Answer(r, cache, known) /\ UNCHANGED cache
       ELSE /\ cache' = NoSummary
            /\ reader' = [reader EXCEPT ![r] = [pc |-> "counts", seen |-> version, since |-> known]]
    /\ UNCHANGED <<conf, clock, stores, writer, streams, failedWrites>> /\ Learn(FALSE)

\* The counts (Counted) and data_health (Health), after the other queries.
ReadCounts(r) ==
    /\ reader[r].pc = "counts" /\ reader' = [reader EXCEPT ![r].pc = "store"]
    /\ UNCHANGED <<conf, clock, stores, cache, writer, streams, failedWrites>> /\ Learn(FALSE)

StoreSummaryCache(r) ==
    /\ reader[r].pc = "store"
    /\ cache' = [until |-> clock + CacheTtl, seen |-> reader[r].seen]
    /\ reader' = Answer(r, reader[r], reader[r].since)
    /\ UNCHANGED <<conf, clock, stores, writer, streams, failedWrites>> /\ Learn(FALSE)

\* paginated_dataset, the pages like it, and the details of one row.
ViewPage(r, page, credential) ==
    /\ reader[r].pc = "idle" /\ MayView(conf, credential, page)
    /\ LET role == ResolveRole(conf, credential)
       IN reader' = [reader EXCEPT ![r] = [pc |-> "shown", role |-> role, page |-> page,
                                           keys |-> Response(page, role)]]
    /\ UNCHANGED <<conf, clock, stores, cache, writer, streams, failedWrites>> /\ Learn(FALSE)

Finish(r) ==
    /\ reader[r].pc \in {"answered", "shown"}
    /\ reader' = [reader EXCEPT ![r] = Waiting]
    /\ UNCHANGED <<conf, clock, stores, cache, writer, streams, failedWrites>> /\ Learn(FALSE)

-----------------------------------------------------------------------------
(* Writes: what an ingest or a review leaves behind, step by step           *)

Writers == {"ingest", "review"}
To(w, next) == [writer EXCEPT ![w].pc = next]
Wrote == version' = version + 1
OnlyWrites == UNCHANGED <<conf, clock, cache, reader, streams, failedWrites>>

\* upsert_node: whatever came last wins.
StoreNode(n, delay) ==
    /\ writer["ingest"].pc = "idle" /\ version < MaxWrites
    /\ n \notin LegacyNodes /\ delay <= clock
    /\ LET sent == clock - delay
           name == NodeRows[n]
           before == IF name \in DOMAIN heard THEN {heard[name]} ELSE {}
       IN /\ seenAt' = Put(seenAt, n, sent)
          /\ heard' = Put(heard, name, Max(before \cup {sent}))
    /\ Wrote /\ writer' = To("ingest", "rows")
    /\ OnlyWrites /\ UNCHANGED <<table, reviews>> /\ Learn(FALSE)

\* upsert_finding, upsert_incident and upsert_drift with its review signature.
StoreItem(i) ==
    /\ writer["ingest"].pc = "rows" /\ version < MaxWrites
    /\ table' = Put(table, i, Item[i].signature)
    /\ Wrote /\ writer' = To("ingest", "clear")
    /\ OnlyWrites /\ UNCHANGED <<reviews, seenAt, heard>> /\ Learn(FALSE)

NoItems ==
    /\ writer["ingest"].pc = "rows" /\ writer' = To("ingest", "clear")
    /\ OnlyWrites /\ UNCHANGED stores /\ Learn(FALSE)

\* target_review_signature: an old row gets its signature.
SignTarget(i, verdict, credential) ==
    /\ writer["review"].pc = "idle" /\ version < MaxWrites
    /\ MayWrite(conf, credential) /\ i \in DOMAIN table
    /\ table' = [table EXCEPT ![i] = IF @ = "" THEN Item[i].signature ELSE @]
    /\ writer' = [writer EXCEPT !["review"] =
          [pc |-> "write", item |-> i,
           review |-> [verdict |-> verdict, signature |-> table'[i], at |-> clock]]]
    /\ Wrote /\ OnlyWrites /\ UNCHANGED <<reviews, seenAt, heard>> /\ Learn(FALSE)

\* write_panel_review_row; the feedback and the audit follow.
WritePanelReview ==
    /\ writer["review"].pc = "write" /\ version < MaxWrites
    /\ reviews' = Put(reviews, writer["review"].item, writer["review"].review)
    /\ writer' = [writer EXCEPT !["review"] = [pc |-> "clear"]]
    /\ Wrote /\ OnlyWrites /\ UNCHANGED <<table, seenAt, heard>> /\ Learn(FALSE)

\* A statement fails: the rows stay, the cache is not cleared, nothing is announced.
FailWrite(w) ==
    /\ writer[w].pc # "idle" /\ writer[w].pc # "announce" /\ failedWrites < MaxFailedWrites
    /\ writer' = [writer EXCEPT ![w] = Waiting] /\ failedWrites' = failedWrites + 1
    /\ UNCHANGED <<conf, clock, stores, cache, reader, streams>> /\ Learn(FALSE)

ClearedCache == NoSummary

InvalidateSummaryCache(w) ==
    /\ writer[w].pc = "clear" /\ cache' = ClearedCache
    /\ writer' = To(w, "announce")
    /\ UNCHANGED <<conf, clock, stores, reader, streams, failedWrites>> /\ Learn(TRUE)

-----------------------------------------------------------------------------
(* The event stream                                                         *)

Closed == [pc |-> "closed"]

\* A receiver that is ChannelCapacity events behind loses the oldest.
Delivered(s) ==
    IF s.pc # "open" THEN s
    ELSE IF s.pending = ChannelCapacity THEN [s EXCEPT !.lagged = TRUE]
    ELSE [s EXCEPT !.pending = @ + 1]

\* events.send.
Announce(w) ==
    /\ writer[w].pc = "announce" /\ announced < MaxAnnouncements
    /\ announced' = announced + 1
    /\ socket' = [s \in Socket |-> Delivered(socket[s])]
    /\ writer' = [writer EXCEPT ![w] = Waiting]
    /\ UNCHANGED <<conf, clock, stores, cache, reader, tickets, spent, failedWrites>> /\ Learn(FALSE)

Unexpired == {t \in DOMAIN tickets : tickets[t].expires > clock}
Only(ts) == [t \in ts |-> tickets[t]]
OnlyStreams == UNCHANGED <<conf, clock, stores, cache, reader, writer, announced, failedWrites>>

\* stream_ticket.
TakeTicket(t, credential) ==
    /\ MayRead(conf, credential) /\ t \notin DOMAIN spent
    /\ tickets' = Put(Only(Unexpired), t, [role |-> ResolveRole(conf, credential),
                                           expires |-> clock + TicketTtl])
    /\ spent' = Put(spent, t, 0)
    /\ OnlyStreams /\ UNCHANGED socket /\ Learn(FALSE)

LeftTickets(t) == Unexpired \ {t}

\* stream and consume_stream_ticket.
OpenStream(s, t) ==
    /\ socket[s].pc = "closed" /\ t \in Unexpired
    /\ tickets' = Only(LeftTickets(t))
    /\ spent' = [spent EXCEPT ![t] = @ + 1]
    /\ socket' = [socket EXCEPT ![s] = [pc |-> "upgrade", role |-> tickets[t].role]]
    /\ OnlyStreams /\ Learn(FALSE)

\* stream_socket subscribes and says hello.
Subscribe(s) ==
    /\ socket[s].pc = "upgrade"
    /\ socket' = [socket EXCEPT ![s] =
          [pc |-> "open", role |-> @.role, pending |-> 0, lagged |-> FALSE, told |-> announced]]
    /\ OnlyStreams /\ UNCHANGED <<tickets, spent>> /\ Learn(FALSE)

\* Mutant: a receiver that lagged starts afresh and says nothing.
ReceivedAfresh(s) ==
    IF s.lagged THEN [s EXCEPT !.lagged = FALSE, !.pending = 0]
    ELSE [s EXCEPT !.pending = @ - 1, !.told = announced]

\* An event, or Lagged: either way the browser is told to reload.
Received(s) ==
    [s EXCEPT !.told = announced, !.lagged = FALSE, !.pending = IF s.lagged THEN @ ELSE @ - 1]

SendRefresh(s) ==
    /\ socket[s].pc = "open" /\ (socket[s].lagged \/ socket[s].pending > 0)
    /\ socket' = [socket EXCEPT ![s] = Received(@)]
    /\ OnlyStreams /\ UNCHANGED <<tickets, spent>> /\ Learn(FALSE)

\* The browser leaves, or a send to it fails.
CloseStream(s) ==
    /\ socket[s].pc # "closed" /\ socket' = [socket EXCEPT ![s] = Closed]
    /\ OnlyStreams /\ UNCHANGED <<tickets, spent>> /\ Learn(FALSE)

-----------------------------------------------------------------------------
\* The panel stops and starts: what is only in memory is gone.
Restart ==
    /\ failedWrites < MaxFailedWrites /\ failedWrites' = failedWrites + 1
    /\ cache' = NoSummary /\ tickets' = << >>
    /\ reader' = [r \in Reader |-> Waiting] /\ writer' = [w \in Writers |-> Waiting]
    /\ socket' = [s \in Socket |-> Closed]
    /\ UNCHANGED <<conf, clock, stores, announced, spent>> /\ Learn(TRUE)

ClockTick ==
    /\ clock < MaxClock /\ clock' = clock + 1
    /\ UNCHANGED <<conf, stores, cache, reader, writer, streams, failedWrites>> /\ Learn(FALSE)

ViewInit ==
    /\ conf \in Confs /\ clock = 0 /\ version = 0 /\ known = 0 /\ announced = 0 /\ failedWrites = 0
    /\ table = [i \in LegacyItems |-> ""] /\ reviews = << >>
    /\ seenAt = [n \in LegacyNodes |-> 0] /\ heard = [name \in {NodeRows[n] : n \in LegacyNodes} |-> 0]
    /\ cache = NoSummary /\ tickets = << >> /\ spent = << >>
    /\ reader = [r \in Reader |-> Waiting] /\ writer = [w \in Writers |-> Waiting]
    /\ socket = [s \in Socket |-> Closed]

ViewNext ==
    \/ \E r \in Reader, c \in Credential : AskSummary(r, c)
    \/ \E r \in Reader : ReadCounts(r) \/ StoreSummaryCache(r) \/ Finish(r)
    \/ \E r \in Reader, c \in Credential, page \in Pages : ViewPage(r, page, c)
    \/ \E n \in DOMAIN NodeRows, d \in Delays : StoreNode(n, d)
    \/ \E i \in Items : StoreItem(i)
    \/ NoItems
    \/ \E i \in Items, v \in Verdicts, c \in Credential :
          SignTarget(i, v, c)
    \/ WritePanelReview
    \/ \E w \in Writers : FailWrite(w) \/ InvalidateSummaryCache(w) \/ Announce(w)
    \/ \E t \in Ticket, c \in Credential : TakeTicket(t, c)
    \/ \E s \in Socket, t \in Ticket : OpenStream(s, t)
    \/ \E s \in Socket : Subscribe(s) \/ SendRefresh(s) \/ CloseStream(s)
    \/ Restart \/ ClockTick

ViewSpec == ViewInit /\ [][ViewNext]_viewVars

-----------------------------------------------------------------------------
(* A summary never misses what was written before the cache was last        *)
(* cleared, or had expired, with no summary being built: a summary that is   *)
(* stored after an ingest cleared the cache, or kept because an ingest       *)
(* failed halfway, misleads for SUMMARY_CACHE_TTL_SECONDS and no longer.     *)
SummaryCurrent ==
    \A r \in Reader : reader[r].pc = "answered" => reader[r].seen >= reader[r].since

(* A finding, incident or drift the panel shows as a false positive, be it   *)
(* by its own review or by that of a similar one, is not in the counts of    *)
(* the summary: attach_panel_reviews and review_not_false_positive_filter    *)
(* agree, also for rows that got their signature late.                       *)
FalsePositivesHidden ==
    \A i \in DOMAIN table : ShownVerdict(i) = "false_positive" => i \notin Counted(Item[i].type)

(* A browser that has not been told of a change is going to be: there is an  *)
(* event waiting for its stream, or the stream has lagged and will say so.   *)
RefreshNotLost ==
    \A s \in Socket :
        socket[s].pc = "open" /\ socket[s].told < announced => socket[s].pending > 0 \/ socket[s].lagged

(* A stream ticket opens one stream, whoever else presents it and whenever   *)
(* the tickets that expired are dropped.                                     *)
TicketsSpentOnce == \A t \in DOMAIN spent : spent[t] <= 1

(* stream.rs: a stream is opened once per ticket and misses nothing.         *)
StreamSound == RefreshNotLost /\ TicketsSpentOnce

(* The summary says that something is wrong when a node has sent nothing for *)
(* too long, however its last messages were delayed and reordered, however   *)
(* long ago it was given up, and whatever older rows have its name.          *)
SilentNodesNoticed == (\E name \in ListedNames : Silent(name)) => Health # "healthy"

(* What anybody may read names no host and quotes nothing of the log: node   *)
(* names are public ones, free text has lost its addresses, and the only     *)
(* values shown as stored are the verdicts and the columns of the sources of *)
(* probes that are meant to be public.                                       *)
PublicRowsScoped ==
    \A r \in Reader :
        reader[r].pc = "shown" /\ reader[r].role = Public =>
            \A k \in DOMAIN reader[r].keys :
                /\ k \notin {"id", "hostname", "payload", "storage", "review", "backend"}
                /\ k \in {"node_name", "latest_reason", "block_reason", "reason", "title", "summary", "subject",
                          "evidence"} => reader[r].keys[k] # "raw"

(* What a page or the summary leaves out, by review or by role, stays out.   *)
RowsShownRightly == FalsePositivesHidden /\ PublicRowsScoped
=============================================================================
