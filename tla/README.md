# Verification of vps-sentinel

TLA+ models of the parts of vps-sentinel that keep state across steps that can
fail, overlap or be repeated; TLC runs that check them on small instances; and
TLAPS proofs that carry the most important properties to every instance.

`PROJECT.json` is the index: components, runs, mutants, the map from definitions
to source lines, findings, hazards and theorems. Paths below are relative to
`src/`; `agent/` stands for `crates/sentinel-agent/src/` and `panel/` for
`crates/sentinel-panel/src/`.

## 1. Inventory

vps-sentinel is a host intrusion detector. An **agent** (the `vs` binary, run as
a daemon and as a command line) scans its host and acts on what it finds; an
optional **panel** collects what many agents report.

```
            +--------------------------- agent (daemon or vs command) ---------------------------+
 logs, /proc|  collectors -> baseline diff -> detectors -> scores, maintenance, suppression     |
 bpftrace ->|      -> attack fingerprints -> ACTIVE RESPONSE -> dedup -> save -> notify -> prune |--> channels
            |            DAEMON LOOP: reload, scan, scheduled report   -> PANEL CLIENT (outbox)  |
            +----------|--------------|---------------------|----------------------------|-------+
                       v              v                     v                            | signed HTTP
                 rule_states (SQLite)  firewall (nft/iptables)                           v
                                                            +---------- panel: ingest -> repository --+
                                                            |  reviews, summary cache, event stream   |
                                                            +-----------------------------------------+
```

All agent processes share one SQLite file. `rule_states` holds one JSON document
per subsystem, loaded whole and written back whole (`load_rule_state`,
`save_rule_state`). No lock and no transaction spans load and save: this is the
source of most of the hard behaviour.

| Component | State | Operations | Hard behaviour | What makes it correct | Modules |
|---|---|---|---|---|---|
| Active response (`agent/active_response.rs`) | `BlockState` (blocks, trigger history) in `rule_states`; the host firewall | scan pass: expire, stale check, escalation, block, promote; `vs blocks unblock / unblock-all / cleanup` | several processes, commands that fail, hang or take effect late, crashes, reboots | state and firewall agree; nobody is blocked for ever without evidence; expired blocks go; no entry is forgotten | **ActiveResponse**, proved |
| Block candidates (same file, 673-1323) | none | thresholds per rule, aggregate per source, fingerprint hints | boundaries, several rules accusing one source | protected addresses are spared; one high-confidence exploit is enough | **BlockCandidates** |
| Panel client (`agent/panel.rs`) | outbox in `rule_states` | publish after a scan, `vs panel push`, `vs panel flush` | lost answers, late requests, overlapping commands, full queue | nothing queued is lost; order; bound; the queue drains | **PanelOutbox**, **UploadQueue**, proved |
| Panel receiver (`panel/ingest.rs`, `panel/repository.rs`) | panel database | verify, insert nonce, upserts, merges, reviews | concurrent requests, replays, clock skew, no transactions | acknowledged = stored; nonces once per window; merged rows invent nothing | **PanelIngest**, proved |
| Panel views (`panel/main.rs`, `stream.rs`, `auth.rs`) | summary cache, tickets, event channel | summary, pages, reviews, tickets, streams | a slow build stores a stale summary, failed writes, lagging sockets, late messages | staleness is bounded; reviewed false positives and private rows are hidden; no refresh is lost; a ticket works once; silent nodes are noticed | **PanelViews**, proved |
| Daemon loop (`agent/daemon.rs`, `agent/report.rs`, `agent/runtime_probe.rs`) | configuration in use, `scheduled_report_state`, probe handle | reload, reconcile, scan, scheduled report, shutdown | reload racing the round, crash after delivery, clock changes, channel failures | one report per slot; due reports go out; the probe follows the configuration | **Daemon**, proved |
| Detectors (`agent/detectors/`) | none | one decision per rule | counters at thresholds, evidence that explains other evidence away | more evidence is never quieter; a login attack is reported | **Findings**, **HostDetectors**, **ProcessDetector**, **NetworkDetector**, **WebDetector** |
| Merging, scores, drift, maintenance, budget, suppression, incidents | maintenance window | stages of a scan | each stage discounts, together they might silence | a sensitive change leaves the scan as a severe finding | **FindingPolicy**, composed in **Detection** |
| Dedup, notification, retention (`agent/scanner.rs`, `agent/notify/mod.rs`) | findings, dedup states, notification log | suppress, save, notify, log, prune, clear | crash between save and notify, two scanners, window boundaries | no repeat inside a window; hourly limit; a severe alert keeps coming | **ScanStore**, safety proved |
| Storage limit (`agent/storage/sqlite.rs`) | all tables | prune passes | two pruners, inserts while pruning | pruning settles, newest rows stay | **StorageLimit**, proved |
| Attack fingerprints (`agent/attack_fingerprint.rs`) | fingerprint and observation rows | match, merge, hint, verdict, prune | verdict against a scan's replace | a verdict is kept; a hint is earned; a benign method is never hinted | **FingerprintStore**, proved |
| Baseline and drift (`agent/baseline/`, `vs baseline`) | snapshots, approvals | diff, approve, refresh, reset, event budget | the host changes between look and approval, collectors fail | a snapshot holds only what the operator endorsed | **HostBaseline**, proved |
| Service profile, log integrity, process starts, local behaviour | `rule_states` rows | enrich, diff, save, refresh | overlapping and aborted scans, reconfiguration, full profiles | what is forgotten or learned was flagged | **ServiceProfile**, **ScanMemory**, proved |
| Cloudflare worker, web UI, GeoIP, notification wording, installers, `vs config`, command-line parsing | - | - | second implementation, presentation, I/O, shell | - | not modelled |

`PROJECT.json` lists all 25 components with their files, and 40 hazards at the
lines where they bite.

## 2. Modules

Conventions. A process has a program counter `pc` and a record of locals `op`
(or `report`). One action is what happens between two points at which another
process, a failure or the clock can interfere: one firewall command, one SQL
statement, one HTTP exchange, one load or save. Faults come from a set
`FaultKinds` and are counted against `MaxFaults`; every bound is a CONSTANT whose
comment starts with "bound". Variables marked *history* record what the
properties speak about; no guard reads them. Definitions after a "Mutant:"
comment are the faulty variants that `PROJECT.json` puts in place of the real
definition to show that a property can fail; the specifications do not use them.
Theorems are in the eight modules `*Proofs`, each beside the module it is about;
`HostStoreProofs` holds those of HostBaseline, FingerprintStore, StorageLimit and
ScanMemory.

### ActiveResponse

`saved` is the `BlockState` row, `firewall[b][ip]` the entry of an address in
backend `b` (with the time the kernel drops it, for nftables). A scan is
`BeginScan` (clock read), `LoadState`, `ExpireBlock`*, `BeginCheck`,
`CheckBlock`* (the stale check of `synchronize_block_state`), `Decide`
(`permanent_block_decisions` with the trigger history), then per address
`SkipCandidate`, `BlockNew` or `PromoteUnblock`+`PromoteBlock`, and `SaveState`.
`BeginCleanup` and `BeginUnblock`/`UnblockIP` are the commands. Addresses are
visited in ascending order, as the `BTreeMap` does. Each firewall command is
one step with a set of results (`BlockResults`, `UnblockResults`,
`IsBlockedResults`): done, exit status ≠ 0, killed before or after it took
effect. `Crash` loses a process's locals, `Reboot` empties the firewall too.
Which address is accused, and how strongly, is any member of `Candidate`.
`cleanup_legacy_port_guards`, with which a scan begins when it is configured, is
left out: it removes the rules of an older feature, which hold no block.

### UploadQueue and PanelOutbox

`UploadQueue` says what a user may rely on: a queued message goes only when the
panel has it or when a full queue keeps only younger ones. `PanelOutbox` is the
client: `Begin` loads the outbox, `RetryDelivered`/`RetryFailed`/`RetrySkipped`
walk it oldest first, `Build` makes the fresh message, `SendDelivered`/
`SendFailed` send or `Enqueue` it, `SaveOutbox` overwrites the row. A failed
upload may have been stored, may still arrive (`Arrive`), or is lost; `BuildFails`
is the `?` that leaves before the save. Messages are numbers in build order.
`ImplementsUploadQueue` is the refinement, with `queue <- Items(saved.items)`.

### PanelIngest

`Sign`/`Receive` deliver a signed request any number of times inside the
signature window. `insert_nonce` is one step under SQLite's lock
(`InsertNonce`) or `PurgeNonces`, `FindNonce`, `StoreNonce` on a pool, with the
clock read earlier (`ReadClock`). `persist_payload` is one action per upsert in
its order; fingerprints and probe sources are read (`ReadMerged`) and written
(`WriteMerged`) in separate steps. Reviews (`BeginReview` ... `AuditReview`)
write two review rows, the verdict and two audit rows. `Fail` ends a request at
any statement. Payload content is reduced to ids, merge keys and the merged
fields (count, members, first/last time, verdict rank).

### Daemon

`run_daemon`: `Reconcile` (three call sites), `Scan` (one step here; its content
is what the other modules model), `SkipReport` or `BeginReport`, `SendReport`,
`LogReport`, `SaveReport`, then the `select!`. `Select` is its first poll, at
which a pending SIGHUP wins because the interval is never zero
(`config.rs` validates it); later `Wake` and `ReloadWhileWaiting` compete.
Time zones are a calendar: `Midnight[z]` and `SlotAt[z][d][h]`, with `{}` for an
hour that a clock change skips (`from_local_datetime(..).earliest()`). `Option`
values are sets with at most one element. `StepClock` sets the clock anywhere;
`EditFile` may leave the file unloadable; `Restart` is systemd's.

### Detection and the modules it composes

`Detection` is one scan from events to incidents. `Collect` adds any events of
`pool`, up to `MaxEvents`; `Detect`, `Merge`, `Rate`, `Maintain`, `Budget`,
`Suppress`, `Fingerprint`, `Respond` and `Correlate` are the stages of `run_scan`
in its order; `NextScan` starts over. An event is a record whose string fields
are reduced to the tags that the patterns of the detectors yield; a finding has a
rule, subject, source, severity, confidence and the evidence later stages read
(`Findings`). `HostDetectors` has files, users, SSH, persistence, Docker,
configuration, audit, rootkit and tamper rules; `ProcessDetector`,
`NetworkDetector` and `WebDetector` one detector each; `BlockCandidates` what
active response makes of findings; `FindingPolicy` merging
(`coalesce_related_findings`), evidence, risk and drift scores, maintenance, the
resource budget, suppress rules, the timeline and incidents. What the fingerprint
store answers, how the budget breaks ties and what the firewall says stay open.
Findings are a set, so `suppress_in_scan_duplicates` has nothing to do.

### HostBaseline

`facts` is the host, `snapshots` and the approvals are rows. `CollectAll`/
`SaveAll` create a baseline; `ApproveLoad`, `ApproveKeys`, `SaveApprovals` are
`vs baseline approve`; `RefreshCollect`, `RefreshApply`, `SaveRefreshed` the
refresh; `ScanDiff` and `ShowDiff` the two users of `diff`. Two shells interleave
and may be interrupted. `ApprovalKey` hashes exactly the fields `approval.rs`
hashes; `SemanticDelta` compares line profiles and `DriftRisk` rates them;
`RawEventPriority` and the budget cut what the diff sees.

### FingerprintStore, StorageLimit

`EnrichFindings`, `SaveFingerprint`, `InsertObservation` and `TrimObservations` are
the read and the statements of a scan per finding, taken by two scans that
`AbortEnrich` may end anywhere. Between them come `SetVerdict`, the two statements of
retention (`PruneObservations`, `PruneFingerprints`), the size limit row by row
(`ShrinkObservations`, `ShrinkFingerprints`) and `vs storage clear`
(`ClearObservations`, `ClearFingerprints`). The history `ruling` holds what the
operator said of a method while no scan held its row, `untrimmed` counts scans ended
between the INSERT of an observation and the DELETE of the surplus. `StorageLimit` is
`enforce_size_limit` itself: per pass and policy one `CountRows` and one `DeleteRows`,
with a second pruner and inserts.

### ServiceProfile and ScanMemory

`ServiceProfile` has the pure functions of `service_profile.rs`: how sockets become
keyed records (a later socket fills in what the first one lacks,
`merge_missing_fields`), what is carried forward, and the evaluation, which gives the
profile to save, the findings, and the services it takes over without one.
`ScanMemory` is two scans over these rows and those of log sizes, process starts and
behaviour. `CollectView` sees the host, or part of it; `EnrichEvents` compares logs,
starts and traffic with the rows; then come `SaveBehavior`, `EvaluateServices`,
`SaveServices`, `SaveStarts`, `SaveLogs` and `SaveFound`. A load or save of behaviour
or services that fails is only warned of and the scan goes on; other errors end it
(`Abort`). Histories: `found` has the findings of scans that saved them, `signals` the
marks that only support the process detector, `lost` both of aborted scans,
`accepted` the services taken over silently with the reason, `learned` the ports that
entered unmarked, `behind` the scans whose stored log sizes another one has replaced.

### ScanStore

The second half of a scan, for the daemon and for `vs scan`, which notifies unless it
is given `--no-notify`: `Open` (migration of dedup states), `Detect`,
`SuppressRecent`, `SaveFindings`, `Notify`, `Log`, `Prune`, with
`ClearRows`/`ClearDedup`, maintenance, `Abort` and `Tick`. Rows carry the timestamp of
the detection (`stamp` is its age), so the window runs from there. `attempts` counts
the rate-limited attempts of the last hour, `limited` those planned while no other
scan had any to record. Times are ages, so that the state space is finite without a
bound on time, which the liveness property needs.

### PanelViews

`AskSummary`, `ReadCounts`, `StoreSummaryCache` are one summary request; `StoreNode`
and `StoreItem` the rows an ingest leaves; `SignTarget`, `WritePanelReview` a review;
`InvalidateSummaryCache` and `Announce` what follows a write, unless `FailWrite`
ended it; `TakeTicket`, `OpenStream`, `Subscribe`, `SendRefresh`, `CloseStream` the
event stream; `ViewPage` a page for a role. `MCPanel` composes it with PanelIngest.

## 3. Runs

| Run | Instance | Shows |
|---|---|---|
| `ar_sequential` | 2 addresses, both firewalls, `auto`, operations one after another, no faults | `FirewallMatchesState`, `BlockHolds`, `UnblockEffective`, `ScanWriteBudget` |
| `ar_faults` | 2 addresses, iptables, 2 of timeout / crash / reboot | `NoSilentRelease`; `ExpiredBlocksLifted` (liveness); `PermanentJustified` |
| `ar_backend_change` | one address, `firewall_backend` nftables then iptables | **violates** `UnblockEffective` (finding 1) |
| `po_single` | the daemon alone, 4 messages, capacity 2, one item that can never be sent, 5 faults | `ImplementsUploadQueue`, `FailedUploadsQueued`, `OutboxOrdered`, `OutboxDrains` (liveness) |
| `po_lost_upload` | daemon and command | **violates** `FailedUploadsQueued` (finding 2) |
| `pi_overlap` | 2 handlers, 1 reviewer, two nodes reporting one fingerprint, 1 failure or stop | `MergedSupported`, `ShrinksOnlyByOverlap`, `StoredWhole` (`AckedStored`), `AuditedReviewsStored` |
| `panel` | nonces: 2 handlers on a pool, clock skew -1..1, time to 4; views: 2 readers, 1 socket, 3 roles, 4 writes, 1 failed write, channel of 1 | `NonceSpacing`; `SummaryCurrent`, `RowsShownRightly` (`FalsePositivesHidden`, `PublicRowsScoped`), `StreamSound` (`RefreshNotLost`, `TicketsSpentOnce`), `SilentNodesNoticed` |
| `da_reload` | 3 configurations (hours 1 and 3, two zones, two probes), 2 edits, 1 of any fault, clock settings included | `ReportedOnce`, `ProbeMatchesConfig`; `DueReportDelivered`, `ReloadTakesEffect` (liveness) |
| `da_dingtalk` | DingTalk as the only channel | **violates** `DueReportDelivered` (finding 3) |
| `host` | every set of up to 3 events out of pools that put related rules together; 2 shells with 2 commands and 2 disturbances; 2 scans enriching 3 findings with 2 interventions; 2 pruners on 7 tables; 2 scans over changing hosts; symmetric in the shells, the scans and the pruners | detection: `SensitiveChangeReported`, `IncrementalLossless`, `MoreEvidenceNeverQuieter`, `ProtectedSourcesSpared`, `FindingsSound` (`CoalesceKeepsSeverity`, `LoginAttackReported`, `PackageNotAllowlist`); baseline: `RefreshSound` (`OnlyReviewedAccepted`, `ApprovedChangesApplied`), `DriftJudged` (`MeaningfulChangeMarked`, `SensitiveNeverRoutine`, `SensitiveDeletionReal`); fingerprints: `PrintsSound` (`VerdictKept`, `ObservationsTrimmed`), `HintEarned`, `BenignNeverHinted`; storage: `PruningSound` (`LatestKept`, `LimitSettled`); memory: `ProfilesVouched` (`ServicesVouched`, `PortsMarked`), `LogLossFlagged` |
| `alerts` | daemon and `vs scan`, both notifying, findings with and without reminders, 2 disturbances, unbounded time | `NoRepeatWithinWindow`, `AlertsBounded` (`HourlyLimitHolds`, `OverlapBounded`); `RemindersContinue` (liveness) |
| `detection_single_attempt` | probes of several families from one source | **violates** `HighConfidenceProbeAnswered` (finding 4) |

A name before parentheses is the conjunction of those in them. Type invariants
are conjuncts too: `TypeOK` of Detection in `FindingsSound`, of PanelIngest in
`StoredWhole`, `FingerprintTypeOK` in `PrintsSound`, `StoreTypeOK` in
`AlertsBounded`. Those of ActiveResponse, PanelOutbox and Daemon are proved
(section 4), and so are the inductive invariants there, each of which TLC had
checked on an instance before it was proved. Every
property of a passing run has a mutant that breaks it.

**Components side by side.** `host` and `panel` hold several components that meet
only in the database, and each leaves open what it reads of another. `MCHost` and
`MCPanel` choose one of them at the start (`focus`) and let only it move: the run
explores the sum of their state spaces instead of the product. `pi_overlap` is a
panel on SQLite with its clock standing still (`SqliteNext`); the statements of a
connection pool and the passing of time are in `panel`.

**Bounds and why they are enough.** Two addresses are the fewest for which the
per-scan budget and the order of addresses matter; escalation needs two scans in
one window and a window that has passed (`MaxEvidenceScans = 2`, time to 2).
An outbox of two with four messages overflows twice. Two handlers are what a
read-modify-write race needs, one repeated attempt what a replay needs; nonce
expiry needs time past twice the window. Two edits are the fewest that move the
report hour away and back, and the local zone crosses a midnight. Three events
are what the widest rule combination needs (a failure count, a success and a
context that may excuse them). Two shells and two disturbances let a fact change
between diff and approval and again before the refresh. Three fingerprint
observations from two sources reach the hint's thresholds; a limit of one observation
is passed by the second, and the size limit keeps one fingerprint and two
observations, fewer than the instance makes. One alert per hour is a limit that two
notifying scans exceed. Two scans over one change of the host and one failure, or two
of either, reach every order of loads and saves. A window of one tick,
a reminder of two and an hour of two order every boundary of ScanStore. One or two
faults put a failure at every step, and after it another. Where a mutant needs a
larger instance to be seen, the instance was chosen by it.

**Overlap.** In `ar_sequential` and `ar_faults` the daemon and the operator have
the same process name, so that their operations alternate. That overlapping
processes, and commands that take effect late, keep `PermanentJustified`,
`EvidenceInv`, `OutboxOrdered` and `OutboxInv` is what the theorems of section 4
say, for any number of processes.

**Deadlock** is checked where the system never stops: ActiveResponse, PanelOutbox,
Daemon and ScanStore. In `pi_overlap`, `panel` and `host` attempts, commands and
scans run out, and a system without requests rightly does nothing.

**Fairness.** `ActiveResponse!Fairness`: the daemon's loop scans again and again
(strong, because commands may take turns with the scans), an operation that has
begun runs on, time passes. `PanelOutbox!Fairness`: the same for scans and
started operations. `Daemon!Fairness`: the loop is one task that never blocks
for ever (every network call has a timeout), systemd restarts it
(`Restart=always`), and time passes. `ScanStore!StoreFairness`: the daemon scans
again after every interval, a command that was started ends, and time passes
(strong, because in the model a tick waits for the log rows of a delivery that is
under way); no operator has to act. Faults are bounded by `MaxFaults`, so they
end; no fairness is assumed for failures, users, edits or the network's late
deliveries.

## 4. Proofs

Every theorem holds for all values of the constants that satisfy the named
`ASSUME`s of the module it is about; TLC evaluates those assumptions in the runs.
Where a theorem has hypotheses of its own they are in the table.

| Theorem | Statement | Argument |
|---|---|---|
| **ActiveResponseProofs** | any addresses, candidates, limits, backends, times | |
| `TypeCorrect` | `[]TypeOK` | inductive as it stands, one lemma per group of actions |
| `EvidenceInvariant`, `PermanentBlocksJustified` | `[]EvidenceInv`, `[]PermanentJustified`, any processes and faults | *Evidence* |
| `BudgetKept`, `ScanWritesBounded` | `[]BudgetInv`, `ScanWriteBudget`, if `Sole` | *Budget* |
| `NeverReleasedSilently` | `NoSilentRelease`, if `Sole`, `OneBackend`, `Definite` | *Agreement* |
| `StateTracksFirewall` | `[]MatchInv`, if `Sole`, `OneBackend`, no faults | *Agreement* |
| `FirewallAlwaysMatches`, `UnblockAlwaysEffective`, `BlocksAlwaysHold` | `[]FirewallMatchesState`, `[]UnblockEffective`, `BlockHolds`, the same | from `MatchInv` |
| **PanelOutboxProofs** | | |
| `OutboxTypeCorrect`, `OutboxInvariant`, `OutboxAlwaysOrdered` | `[]TypeOK` (which bounds the outbox by `outbox_max_items`), `[]OutboxInv`, `[]OutboxOrdered`, any processes | *Outbox* |
| `SoleInvariant`, `FailedUploadsAlwaysQueued` | `[]SoleInv`, `[]FailedUploadsQueued`, if `Alone` | *Outbox* |
| `RefinesUploadQueue` | `ImplementsUploadQueue`, if `Alone` | every step maps to a step of UploadQueue or to a stutter |
| **PanelIngestProofs** | any requests, payloads, failures | |
| `NonceInvariant`, `NoncesSpaced` | `[]NonceInv`, `NonceSpacing` | *Nonces* |
| `StoreInvariant`, `AcknowledgedUploadsStored`, `MergedAlwaysSupported`, `AuditedReviewsAlwaysStored` | `[]StoreInv`, `[]StoredWhole`, `[]MergedSupported`, `[]AuditedReviewsStored` | *Stored rows* |
| `RowsShrinkOnlyByOverlap` | `ShrinksOnlyByOverlap` | from `StoreInv`, each writing step |
| **PanelViewsProofs** | any browsers, tickets, readers, roles, rows | |
| `StreamsSound`, `SummaryAlwaysCurrent`, `SilentNodesAlwaysNoticed`, `RowsAlwaysShownRightly` | `[]StreamSound`, `[]SummaryCurrent`, `[]SilentNodesNoticed`, `[]RowsShownRightly` | *Views* |
| **DaemonProofs** | any calendar, configurations | |
| `DaemonInvariant`, `SlotsReportedOnce` | `[]DaemonInv`, `[]ReportedOnce`, if `"clock" \notin FaultKinds` or `Tolerance = 0` | *Scheduled report* |
| `ProbesMatchConfig` | `[]ProbeMatchesConfig`, with clock settings | inductive with the type invariant |
| **ScanStoreProofs** | any findings, channels, limits | |
| `AttemptsRecorded`, `AlertsAlwaysBounded` | `[](StoreTypeOK /\ LimitInv)`, `[]AlertsBounded` | *Alerts* |
| `SavesRemembered`, `NeverRepeatsWithinWindow` | `[]Remembered`, `NoRepeatWithinWindow` | *Alerts* |
| **HostStoreProofs** | any facts, files, terminals, number of scans or pruners | |
| `ApprovalsBacked`, `RefreshAlwaysSound` | `[]BaselineInv`, `[]RefreshSound` | *Baseline* |
| `DriftAlwaysJudged` | `[]DriftJudged` | *Drift* |
| `FingerprintsAccounted`, `PrintsAlwaysSound`, `HintsAlwaysEarned`, `BenignIsNeverHinted` | `[]PrintInv`, `[]PrintsSound`, `[]HintEarned`, `BenignNeverHinted` | *Fingerprints* |
| `PruningAlwaysSound` | `[]PruningSound` | *Pruning* |
| `MemoryAccounted`, `ProfilesAlwaysVouched`, `LogLossAlwaysFlagged` | `[]MemoryInv`, `[]ProfilesVouched`, `LogLossFlagged` | *Memory* |
| **DetectionProofs** | any hosts, configurations | |
| `IncrementalScanLossless`, `ProtectedSourcesAlwaysSpared` | `[]IncrementalLossless`, `[]ProtectedSourcesSpared` | *Detection* |
| `SensitiveChangesAlwaysReported` | `[]SensitiveChangeReported` | *Sensitive changes* |
| `FindingsAlwaysSound` | `[]FindingsSound` | *Findings* |
| `MoreEvidenceIsNeverQuieter` | `[]MoreEvidenceNeverQuieter` | *More evidence* |

*Evidence.* `PermanentJustified` speaks of the persisted row, but that row is
overwritten by copies that other operations loaded long before. `EvidenceInv`
says the same of every copy, and also that each stored trigger count is covered
by triggers that happened in its window, and that an address about to be promoted
has its decision behind it. `JustifiedByGrows` shows that later evidence never
takes a justification away, so a stale copy stays justified; `CountCovered` is
the arithmetic of the sliding window.

*Budget and agreement* are proved for `Sole`: there is one process name, so that
operations alternate (section 3, Overlap); without it both are false (section 6).
`BudgetInv` counts the records a scan has written, plus one between the two
commands of a promotion, against its write counter. For the agreement the row is
the wrong thing to look at while an operation runs: `MatchInv` says that the copy
it works on (`Current`) fits the firewall at every step, except for an address
that is just being promoted, which has no entry; how each record of the copy can
differ from the row (`KeptRecord`, which is what a kernel timeout in mid-operation
needs); and how far each loop has come (`Progress`). That the configured backend is
where every record and entry is (`HomeOperation`) needs `OneBackend`: all configured
values mean the same backend, which is what finding 1 violates. `Definite` leaves
out exit statuses that lie and commands that take effect after they were given up;
timeouts, crashes and reboots are in. Each action first gets a lemma that says what
it does to the records, the entries and the locals (`ExpireEffect` and so on); all
invariants of this section use those.

*Outbox.* An operation that holds a fresh message may append it to a copy loaded
before another process saved. `GoodOperation` keeps for each operation that what
it has kept, what it has still to try and the message in hand are increasing in
this order, so that retaining, dropping the oldest and appending all preserve it.
`Alone` is one publishing process; with two, finding 2 shows the loss. `SoleInv`
accounts for every message of the loaded row: kept, still to try, delivered, or
evicted by younger ones.

*Nonces.* `NonceInv` ties the history of acceptances to the table and to the
clock each handler read, including a handler that has purged or looked up a nonce
but not yet stored it: this is what makes the two ways `insert_nonce` runs safe
for any number of handlers.

*Stored rows.* `StoreInv` says for every handler that the tables before the one it
is at hold its rows, and that a merged row read and not yet written is covered by
what was stored: members, counts and times that uploads brought. The same for a
reviewer and the two review tables. Rows are never deleted, so a slow request's
claim cannot go stale.

*Views.* Four independent invariants. `StreamInv`: a socket that is behind has a
message pending or is marked as lagged. `SummaryInv`: what a reader under
construction has seen is no older than the last clearing of the cache. `NodeInv`: a
node row is no younger than the youngest message of its node, however messages were
reordered. `ReviewInv` and `PageInv`: pages were filtered with the rows of their
time, by review and by role.

*Scheduled report.* `RecordInv` says that a delivered slot is covered by the
recorded time, is being recorded, or was lost by a failure. The assumption is
needed: with the 5-minute tolerance and a clock that is set back across midnight
the property is false for `scheduled_hour = 0` (section 6).

*Alerts.* `LimitInv` counts attempts of each hour against log rows. The difference is
what the daemon and `vs scan` have sent and not logged yet: all of it is covered by
what the two hold in hand, and of `limited` only the part of the scan that planned
alone. A scan that plans adds at most what the rows leave of the limit, so the
attempts planned alone stay within it and two scans together within twice the limit.
`Remembered` says that the dedup state, or a row from which `Open` rebuilds it, knows
the detection time of each key's last saved row, which size pruning could otherwise
hide.

*Baseline.* `BaselineInv` ties approved keys to values the operator endorsed
(`Backs`) and says so of the copies that interrupted and interleaved commands
hold; it needs that the approval key determines the fields it hashes.

*Drift.* `DriftJudged` is about functions: the diff, the semantic comparison of
line profiles, the risk, the priority and the budget of raw events. `Facts` is
finite and the budget at least 1 (`config.rs` validates it). That the budget keeps
what has priority is an argument by the least element that was cut, in place of an
induction. The proof attempt found that `SensitiveDeletionReal` as first stated was
false for hosts with several sensitive files, which the instance of `host` did not
have; it now speaks of a budget that authentication events fill.

*Fingerprints.* `PrintInv` accounts for each row, stored or about to be, by the
observations behind it, says that a ruling given while no scan held the row is in it
(and in the copy of a scan that read it later) as long as no clear and no size limit
took it, and bounds the observations of a method by the limit and the scans that
stand, or were ended, between INSERT and DELETE.

*Pruning.* `SizeInv` bounds what each sweep counted by the rows it may delete, and
remembers why a sweep that is done stopped. It needs a positive batch and policies
whose `min_pass` is reached before the last pass, as the table in `sqlite.rs` has.

*Memory.* `MemoryInv` says of each scan's copies, the behaviour it has loaded and the
evaluation it is about to save, what `ProfilesVouched` says of the stored rows: a
scan's copy may be older than the rows another scan saved since, and replaces them.
Flags are only ever moved (to `found`, `signals` or `lost`) and reasons only added, so
a copy stays accounted for. For services the work is in `NextEvaluation`: a public key
that the diff passes over was there before with the same identity, is trusted after
package activity, belongs to a family that the stored profile already has, or has an
unknown owner still within its grace. For logs the invariant says that a scan nobody
overtook (`behind`) has flagged every drop and every missing log between the stored
sizes and its view. Nothing is assumed about how scope and public exposure of an
address relate.

*Detection.* Every detector either ignores file snapshots or asks of one something
`SnapshotNeeded` keeps (a changed path, `authorized_keys`, a content marker, an
executable or script below a web root), and what is kept is unchanged as a set of
joined facts. That a protected source is spared goes through every way to a
candidate: its own finding, the fingerprint's hint, a policy and the aggregate.

*Sensitive changes.* The property speaks of the end of a scan; `SensitiveInv` says
of every stage what the next one needs. `DetectedShape` walks through all detectors
and collects what a finding under a rule named later looks like (`Shape`);
`SensitiveDetected` shows that a sensitive change is reported at all. Coalescing is
the hard stage: a change may end up inside a finding about an account, a resource or
a process (`MergedAccount`, `MergedResource`, `MergedProcess`), which must still
cover it, be as severe and be one that maintenance mode may not hide. From there on
nothing lowers it below High. A budget cuts only what is no more severe than all
that stays, and the second one decides by key, so the invariant also says that
findings with the same key cover the same changes (`Twins`): what is cut while its
key stays is still told of. `Apart` keeps cut and suppressed findings from the ones
that are left. `InputsAssumption` asks that operator rules have a severity, that
their prefix keeps their ids apart from the built-in rules (`EXT-`, `YARA-`), that
the scoring weights are unsigned, and that file events name a path, account events a
user and processes the facts the rules read, as the collectors build them.

*Findings.* `SoundInv`, kept together with `SensitiveInv`, has three parts. Every
finding is `WellFormed`, its drift and unified scores up to 100: they start from risk
scores, sums and maxima over sets of signals, folds whose induction is replaced by a
least counterexample among the naturals (`LeastNatural`, `AddsUpToAll`, `AddsNat`,
`MaxNat`). Every source
a finding or candidate names was named by a detector (`Traced`). Every login after
too many failures is accused by a finding that is left, suppressed or cut; that the
budget keeps its key is why `WellFormed` ties the subject of `SSH-007` to its source.
That merging keeps severities is `CoalesceSevere`. Package activity reaches a finding
only as a mark: `Alike` relates a process enriched with and without it, and every fact,
combination and score of the process rules is the same for both (`AlikeFacts` to
`AlikePath`), so the findings agree in rule and subject (`PackageMatched`). Only a rule
of the operator may match the package event itself, which `PackageNotAllowlist` says.

*More evidence.* The property compares what the built-in detectors say of two sets of
events, so its inductive part is small (`InputInv`: the events come from the input)
and the work is in the operators. `MapThenSumSet` adds in an order of its own for
each set; `AddsAny` shows by a least counterexample among the set sizes that the order
does not matter, so the counts of failed logins, requests, peers and GPU memory only
grow (`EventSumsGrow`) and so do the sums and maxima of signals (`ScoresGrow`). What is
joined to a process grows: `Gains` relates it with and without the event, and every
signal of its rules that was present stays present (`GainedFacts` to `GainedPath`). The
one fact that argues for the process, `low_risk_interactive_network_operation`, needs
a connection; a process without one had no signal that it could take away
(`GainedRisk`). A listener gains the context of its process (`Aggravates`), and the rule
about suspicious listeners replaces only milder ones (`MoreListener`); a source that
probes is no longer reported for its errors, but no more mildly (`MoreRequests`).
`CountsAssumption` asks that thresholds and counts are unsigned, that a process
carries at most the outbound count the rules tell apart, and that a scan has one
snapshot per pid (`collect_processes` makes one for each directory of `/proc`): with
two, a listener would be judged by either. An event that explains things away, the
firewall's state or package activity, is excepted, as in the property.

**Only model-checked.** The liveness properties `ExpiredBlocksLifted`,
`OutboxDrains`, `DueReportDelivered`, `ReloadTakesEffect` and `RemindersContinue`:
fairness and `ENABLED` are outside what the prover supports. Every invariant and every
action property of the passing runs is also proved. What a recursive definition
computes for every input would need induction over data, which the prover cannot do
either; no module with a theorem uses a RECURSIVE operator, and the folds of the
community modules are reasoned about through `LeastNatural`.

## 5. Findings

1. `ar_backend_change`: `README.md:74` says `vs blocks unblock <ip>` removes a
   block. After `firewall_backend` has changed from one explicit backend to the
   other, `available_for_unblock` (`agent/active_response.rs:1412`) looks only at
   the new one: the command reports success and forgets the record, and the old
   entry keeps blocking.
2. `po_lost_upload`: `docs/panel-architecture.md:7` says failed uploads are queued
   locally. `save_outbox` (`agent/panel.rs:635`) overwrites the row, so an
   overlapping `vs panel flush` can write away what the daemon queued.
3. `da_dingtalk`: `README.md:27` promises daily reports through DingTalk and
   Feishu too. `any_notification_channel_enabled` (`agent/daemon.rs:188`) leaves
   these two out, so alone they never get the scheduled report.
4. `detection_single_attempt`: the test
   `high_confidence_web_exploit_blocks_on_single_attempt`
   (`agent/active_response.rs:2014`) states that one such request blocks. The
   finding of a source keeps only its strongest family and response
   (`agent/detectors/web_rules.rs:369`), and `web_probe_candidate` takes its
   threshold from them: a second, higher-ranked probe hides the exploit.

## 6. Limits of what holds

- State and firewall agree (`FirewallMatchesState`) only as long as operations
  do not overlap; overlapping saves lose each other's records.
- `NoSilentRelease` is not claimed for the faults `status` and `late`: a listing
  that fails reads as "not blocked", and the stale check then forgets the record.
- The refinement of `UploadQueue` holds for one process; with two it fails
  (finding 2).
- A clock that is set back across midnight by no more than the tolerance repeats
  the previous report when `scheduled_hour = 0`. A clock that was far ahead and
  is corrected stops reports until real time catches up with the recorded one.
- Ctrl-C is heard only in the `select!`; the model's stop action has the same
  restriction.
- `NoRepeatWithinWindow` excepts a scan that another process overtook between its
  check and its save. Within the window a durable finding is recognised by rule
  and subject alone (`agent/scanner.rs:1231`), so new evidence about the same
  subject waits for the reminder, although `docs/config-reference.md:40` allows it
  to notify.
- An alert saved but not sent, by a crash or by `vs scan --no-notify`, comes back only
  if it is a durable finding with reminders.
- The hourly limit is exceeded when the daemon and `vs scan` both read what is left of
  it (`agent/scanner.rs:1098`) before either has logged: up to one limit for each
  (`OverlapBounded`). Attempts whose log row could not be written are not counted
  either, and `vs storage clear notification-logs` or `all-history`, which empties the
  log and so gives the hour its whole limit again, is not modelled.
- `OnlyReviewedAccepted` covers the uid of a user only: the approval key of
  `user_modified` (`agent/baseline/approval.rs:200`) has no other field, so a shell
  or home that changed after the approval is accepted too.
- `SensitiveDeletionReal` excepts failed collectors and a budget that
  authentication events fill alone; both make present files look deleted.
- `VerdictKept` excepts a scan that read the row before the verdict and writes it
  after; `LatestKept` two pruners between each other's count and delete;
  `LogLossFlagged` a scan whose stored sizes another one replaced after it compared
  with them. In each of these cases the loss happens.
- Retention keeps fingerprints that were ruled malicious, the size limit does not: it
  takes the rows seen longest ago whatever their verdict (`agent/storage/sqlite.rs:68`),
  and so does `vs storage clear all-history`.
- A scan that ends between the two statements of `save_attack_observation` leaves one
  observation more than the limit until the next one of that fingerprint.
- A log that was replaced by a symbolic link is not a drop, since only regular files
  are compared (`agent/scanner.rs:1530`); the tamper detector looks at its target
  instead. A log that is no longer configured is not missed.
- The service profile is saved before the findings: those of a scan that ends in
  between are lost, and the next scan takes the service for known
  (`lost` in `Flagged`).
- Another executable of a family of dynamic UDP services that is known is adopted
  without a finding when its key is new (`agent/service_profile.rs:459`).
- `SummaryCurrent` allows one cache lifetime; `RefreshNotLost` starts at
  `subscribe`.
- A full port profile marks nothing more (`agent/local_behavior.rs:128`), and ports of
  connections without a process event are learned unmarked. A mark is evidence for
  the process detector, not a finding: a new port alone is not reported
  (the test at `agent/detectors/process_rules.rs:1985`).

## 7. What is not modelled

Components with status `not_modelled` in `PROJECT.json` carry their reason:
wording and layout of reports and notifications, GeoIP downloads, the web UI, the
installers, TOML parsing and rewriting (`vs config`) and command-line parsing are
data or I/O without the control a model checker adds to. The Cloudflare worker is
a second implementation of the panel in another language. Inside the modelled
parts the following are left out: string matching in collectors and detectors
(events carry the tags it yields); the persisted incident index, which only
listings and uploads read; errors of `try_wait` on the probe, and a report state
written by an old version (`last_scheduled_for` missing); the probe's output
file, truncated at every start; HTTP routing, body limits and the HMAC itself (a
request is signed correctly or is refused); the content of an upload; the removal of
port rules of an older version (`cleanup_legacy_port_guards`), which holds no block.

## 8. Plan

Composition of PanelOutbox and PanelIngest: `AckedStored` is what PanelOutbox
assumes of a delivered upload.

Runs are kept few: a new module joins the run of the components it belongs to,
and gets one of its own only for a different question.
