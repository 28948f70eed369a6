------------------------------ MODULE ScanStore ------------------------------
(***************************************************************************)
(* What a scan does with the findings the detectors left it: duplicate      *)
(* suppression, the save, notification and retention (sentinel-agent        *)
(* scanner.rs from line 333 on, storage/sqlite.rs, notify/mod.rs,           *)
(* maintenance.rs), with the processes that share the SQLite file: the      *)
(* daemon, `vs scan`, which notifies too unless it is given --no-notify, and *)
(* `vs storage clear findings`.                                             *)
(*                                                                         *)
(* Time is kept as ages in ticks, so that the store stays finite however    *)
(* long the host runs; an age of Forever stands for "never".  Of the rows    *)
(* of the findings table only the youngest of each kind is kept: no query   *)
(* the scan makes tells the older ones apart.  A finding kind is a record   *)
(*   key     its dedup_key             subject  its rule id and subject      *)
(*   state   is_state_finding          sev      its severity                 *)
(*   drift   maintenance mode hides it group    the web source it is grouped *)
(*   status  the active response note           by, or None                  *)
(***************************************************************************)
EXTENDS Integers, FiniteSets, FiniteSetsExt

CONSTANTS
    Finding,         \* Finding[f]: the fields of a finding of kind f
    Situations,      \* sets of kinds the detectors may report together
    Legacy,          \* sets of kinds an older version may have left in the findings table
    None,            \* the group of a finding that is not a web finding
    MinSeverity,     \* MinSeverity[c]: the lowest severity channel c is sent
    BypassSeverity,  \* rate_limit_bypass_min_severity, quiet_hours_bypass_min_severity
    DedupWindow, ReminderInterval, Hour, Retention,  \* durations in ticks
    MaxAlertsPerHour,
    KeepLatest,      \* KEEP_LATEST_FINDINGS
    MaxMaintenance,  \* maintenance.max_duration_seconds in ticks
    MaxDisturbances  \* bound: changes of the situation, commands of the operator, faults

Kinds == DOMAIN Finding
Forever == Retention + 1
Age == 0 .. Forever
KeysOf == {Finding[f].key : f \in Kinds}
Channel == DOMAIN MinSeverity
Delivery == Kinds \X Channel
Hours == 0 .. Hour - 1

ASSUME ScanStoreAssumption ==
    /\ {DedupWindow, ReminderInterval} \subseteq 1 .. Retention
    /\ Retention \in Nat
    /\ {Hour, MaxAlertsPerHour, MaxMaintenance} \subseteq Nat \ {0}
    /\ MaxDisturbances \in Nat
    /\ Situations \cup Legacy \subseteq SUBSET Kinds
    /\ IsFiniteSet(Kinds) /\ IsFiniteSet(Channel)

VARIABLES
    present,      \* what the detectors report now
    quiet,        \* the clock is inside noise_control.quiet_hours
    maintenance,  \* ticks until maintenance mode expires, 0 when it is off
    rows,         \* age of the youngest findings row of a kind
    dedup,        \* age of finding_dedup_state.last_seen_at of a key
    logs,         \* notification_logs: attempts recorded at each age below an hour
    scan,         \* the locals of each process's run_scan
    notify,       \* options.notify of each process's run_scan
    stamp,        \* age of the timestamps of the findings a scan has not saved yet
    clearing,     \* `vs storage clear findings` has deleted the findings rows only
    disturbances, \* bounded environment steps so far
    lastSaved,    \* history: age of the row of a key saved last since the last clear
    attempts,     \* history: rate-limited attempts at each age below an hour,
                  \* without those whose record was lost
    limited       \* history: those of them that were planned while no other scan
                  \* had attempts of its own to record

storeVars == <<present, quiet, maintenance, rows, dedup, logs, scan, notify, stamp, clearing,
               disturbances, lastSaved, attempts, limited>>
tables == <<rows, dedup, logs>>
host == <<present, quiet, maintenance>>
counts == <<attempts, limited>>
Disturb == disturbances < MaxDisturbances /\ disturbances' = disturbances + 1

Process == {"daemon", "manual"}
Stages == {"idle", "detect", "check", "save", "notify", "log", "prune"}
NotifyOptions(p) == IF p = "daemon" THEN {TRUE} ELSE BOOLEAN
Locals(pc, found, raced, sent) == [pc |-> pc, found |-> found, raced |-> raced, sent |-> sent]
Idle == Locals("idle", {}, FALSE, {})

\* A new database, or one of a version that had no finding_dedup_state yet.
StoreInit ==
    /\ present \in Situations
    /\ quiet = FALSE
    /\ maintenance = 0
    /\ \E old \in Legacy :
          /\ rows = [f \in Kinds |-> IF f \in old THEN 0 ELSE Forever]
          /\ lastSaved = [k \in KeysOf |-> IF \E f \in old : Finding[f].key = k THEN 0 ELSE Forever]
    /\ dedup = [k \in KeysOf |-> Forever]
    /\ logs = [h \in Hours |-> 0]
    /\ scan = [p \in Process |-> Idle]
    /\ notify = [p \in Process |-> FALSE]
    /\ stamp = [p \in Process |-> 0]
    /\ clearing = FALSE
    /\ disturbances = 0
    /\ attempts = [h \in Hours |-> 0]
    /\ limited = [h \in Hours |-> 0]

At(p, pc) == scan[p].pc = pc
\* The rows of the last hour that counts stands for, and COUNT( * ) of them.
RowsOf(c) == UNION {{h} \X (1 .. c[h]) : h \in Hours}
Total(c) == Cardinality(RowsOf(c))

-----------------------------------------------------------------------------
(* Opening the store and finding what is new                                *)

\* SqliteStore::migrate rebuilds finding_dedup_state from the findings table
\* on every open: INSERT OR REPLACE ... SELECT dedup_key, MAX(timestamp).
Migrated ==
    [k \in KeysOf |->
        LET ages == {rows[f] : f \in {g \in Kinds : Finding[g].key = k}} \ {Forever}
        IN IF ages = {} THEN dedup[k] ELSE Min(ages)]

Open(p) ==
    /\ At(p, "idle")
    /\ IF p = "manual" THEN Disturb ELSE UNCHANGED disturbances
    /\ dedup' = Migrated
    /\ \E chosen \in NotifyOptions(p) : notify' = [notify EXCEPT ![p] = chosen]
    /\ scan' = [scan EXCEPT ![p] = Locals("detect", {}, FALSE, {})]
    /\ UNCHANGED <<host, rows, logs, stamp, clearing, lastSaved, counts>>

SuppressionWindow(f) ==
    IF Finding[f].state THEN Max({DedupWindow, ReminderInterval}) ELSE DedupWindow

SeenSince(f, window) == dedup[Finding[f].key] <= window
IdentitySeenSince(f, window) ==
    \E g \in Kinds : Finding[g].subject = Finding[f].subject /\ rows[g] <= window

\* Mutant: repeats are recognised by their rule and subject alone.
RecentlySeenByIdentity(f) == Finding[f].state /\ IdentitySeenSince(f, SuppressionWindow(f))

RecentlySeen(f) ==
    \/ SeenSince(f, SuppressionWindow(f))
    \/ Finding[f].state /\ IdentitySeenSince(f, SuppressionWindow(f))

\* The detectors' findings, without those apply_maintenance_policy drops.
Detected == {f \in present : ~(maintenance > 0 /\ Finding[f].drift)}

\* The stages up to suppress_recent_duplicates; the Detection module has them in
\* full, here they decide what the rest of the scan works on.  A finding keeps the
\* timestamp it is made with.
Detect(p) ==
    /\ At(p, "detect")
    /\ scan' = [scan EXCEPT ![p] = Locals("check", Detected, FALSE, {})]
    /\ UNCHANGED <<host, tables, notify, stamp, clearing, disturbances, lastSaved, counts>>

\* Mutant: what is suppressed counts as seen again.
SuppressRecentRefreshing(p) ==
    /\ At(p, "check")
    /\ LET repeated == {f \in scan[p].found : RecentlySeen(f)}
       IN /\ scan' = [scan EXCEPT ![p] = Locals("save", scan[p].found \ repeated, FALSE, {})]
          /\ dedup' = [k \in KeysOf |-> IF \E f \in repeated : Finding[f].key = k THEN 0 ELSE dedup[k]]
    /\ UNCHANGED <<host, rows, logs, notify, stamp, clearing, disturbances, lastSaved, counts>>

SuppressRecent(p) ==
    /\ At(p, "check")
    /\ scan' = [scan EXCEPT ![p] = Locals("save", {f \in scan[p].found : ~RecentlySeen(f)}, FALSE, {})]
    /\ UNCHANGED <<host, tables, notify, stamp, clearing, disturbances, lastSaved, counts>>

\* Another process writes while a scan is between its check and its save.
Overtaken ==
    [q \in Process |-> Locals(scan[q].pc, scan[q].found,
                              IF scan[q].pc = "save" THEN TRUE ELSE scan[q].raced, scan[q].sent)]

\* save_findings, one transaction: rows and dedup states carry the findings' own
\* timestamps, and a dedup state never gets an older one than it has.
SaveFindings(p) ==
    /\ At(p, "save")
    /\ LET found == scan[p].found
           keys == {Finding[f].key : f \in found}
           age == stamp[p]
       IN /\ rows' = [f \in Kinds |-> IF f \in found THEN Min({age, rows[f]}) ELSE rows[f]]
          /\ dedup' = [k \in KeysOf |-> IF k \in keys THEN Min({age, dedup[k]}) ELSE dedup[k]]
          /\ lastSaved' = [k \in KeysOf |-> IF k \in keys THEN age ELSE lastSaved[k]]
    /\ scan' = [Overtaken EXCEPT ![p] = IF notify[p] THEN Locals("notify", scan[p].found, FALSE, {})
                                        ELSE Locals("prune", {}, FALSE, {})]
    /\ stamp' = [stamp EXCEPT ![p] = 0]
    /\ UNCHANGED <<host, logs, notify, clearing, disturbances, counts>>

-----------------------------------------------------------------------------
(* Notification                                                             *)

QuietAllowed(found) == IF quiet THEN {f \in found : Finding[f].sev >= BypassSeverity} ELSE found
NotHandled(found) == {f \in found : Finding[f].status \notin {"already_blocked",
                                                     "already_permanently_blocked"}}
NotificationRank(f) ==
    CASE Finding[f].status = "permanently_blocked" -> 4 [] Finding[f].status = "blocked" -> 3
      [] Finding[f].status = "failed" -> 2 [] Finding[f].status = "skipped_limit" -> 1 [] OTHER -> 0

\* coalesce_web_notification_findings: of the web findings of one source only
\* the one of the highest rank, then severity, is sent.
Grouped(found) ==
    {f \in found : Finding[f].group = None \/
        ~\E g \in found \ {f} :
            /\ Finding[g].group = Finding[f].group
            /\ \/ NotificationRank(g) > NotificationRank(f)
               \/ NotificationRank(g) = NotificationRank(f) /\ Finding[g].sev > Finding[f].sev}

NotificationFindings(found) == Grouped(NotHandled(QuietAllowed(found)))
Meets(d) == Finding[d[1]].sev >= MinSeverity[d[2]]
Bypasses(d) == Finding[d[1]].sev >= BypassSeverity

\* Mutant: a limit that forgets what the last hour already used.
DeliveryLimitFresh == MaxAlertsPerHour

\* notification_delivery_limit: attempts recorded in the last hour, failed
\* ones included, count against the limit.
DeliveryLimit == Max({0, MaxAlertsPerHour - Total(logs)})

\* notify_all_with_budget: the severe deliveries all happen, of the others as
\* many as the limit allows, in the order of the findings.
Plans(found) ==
    LET planned == {d \in NotificationFindings(found) \X Channel : Meets(d)}
        capped == {d \in planned : ~Bypasses(d)}
        n == Min({DeliveryLimit, Cardinality(capped)})
    IN {(planned \ capped) \cup chosen : chosen \in kSubset(n, capped)}

\* Of the deliveries ds those that count against the limit.
Limited(ds) == {d \in ds : ~Bypasses(d)}
\* Another scan has sent what it has not recorded yet.
Delivering(p) == \E q \in Process \ {p} : scan[q].sent # {}

\* notification_delivery_limit and notify_all_with_budget.  Whether a delivery
\* succeeds only changes the status of its log row, which nothing reads back.
Notify(p) ==
    /\ At(p, "notify")
    /\ \E plan \in Plans(scan[p].found) :
          /\ scan' = [scan EXCEPT ![p] = Locals("log", {}, Delivering(p), plan)]
          /\ attempts' = [attempts EXCEPT ![0] = @ + Cardinality(Limited(plan))]
          /\ limited' = IF Delivering(p) THEN limited
                        ELSE [limited EXCEPT ![0] = @ + Cardinality(Limited(plan))]
    /\ UNCHANGED <<host, tables, notify, stamp, clearing, disturbances, lastSaved>>

\* Log rows beyond what all processes may send make no difference, and the size
\* limit keeps more of them than the limit counts (KEEP_LATEST_NOTIFICATION_LOGS).
MostAttempts == MaxAlertsPerHour * Cardinality(Process)
a (+) b == Min({a + b, MostAttempts})

\* The attempts lost by p have no record.
Forget(p, lost) ==
    /\ attempts' = [attempts EXCEPT ![0] = @ - Cardinality(Limited(lost))]
    /\ limited' = IF scan[p].raced THEN limited
                  ELSE [limited EXCEPT ![0] = @ - Cardinality(Limited(lost))]

\* record_notification_log of every result, once all deliveries have returned.
\* A failed write is a warning; the attempt stays uncounted.
Log(p) ==
    /\ At(p, "log")
    /\ \E failed \in SUBSET scan[p].sent :
          /\ IF failed = {} THEN UNCHANGED disturbances ELSE Disturb
          /\ logs' = [logs EXCEPT ![0] = @ (+) Cardinality(scan[p].sent \ failed)]
          /\ Forget(p, failed)
    /\ scan' = [scan EXCEPT ![p] = Locals("prune", {}, FALSE, {})]
    /\ UNCHANGED <<host, rows, dedup, notify, stamp, clearing, lastSaved>>

-----------------------------------------------------------------------------
(* Retention                                                                *)

Expire(ages) == [x \in DOMAIN ages |-> IF ages[x] > Retention THEN Forever ELSE ages[x]]

\* What delete_oldest_rows_keep_latest may take from the findings table.
SizePruned(ages) ==
    LET stored == {f \in Kinds : ages[f] # Forever}
    IN {gone \in SUBSET stored :
          /\ gone = {} \/ Cardinality(stored \ gone) >= KeepLatest
          /\ \A f \in gone, g \in stored \ gone : ages[f] >= ages[g]}

\* prune_older_than; when the file is above its limit, enforce_size_limit also
\* drops the oldest findings rows but never a dedup state.
Prune(p) ==
    /\ At(p, "prune")
    /\ dedup' = Expire(dedup)
    /\ \E gone \in SizePruned(Expire(rows)) :
          rows' = [f \in Kinds |-> IF f \in gone THEN Forever ELSE Expire(rows)[f]]
    /\ scan' = [scan EXCEPT ![p] = Idle]
    /\ notify' = [notify EXCEPT ![p] = FALSE]
    /\ UNCHANGED <<host, logs, stamp, clearing, disturbances, lastSaved, counts>>

\* clear_storage deletes table by table, each DELETE a transaction of its own.
ClearRows ==
    /\ ~clearing /\ Disturb
    /\ clearing' = TRUE
    /\ rows' = [f \in Kinds |-> Forever]
    /\ lastSaved' = [k \in KeysOf |-> Forever]
    /\ scan' = Overtaken
    /\ UNCHANGED <<host, dedup, logs, notify, stamp, counts>>

ClearDedup ==
    /\ clearing
    /\ clearing' = FALSE
    /\ dedup' = [k \in KeysOf |-> Forever]
    /\ lastSaved' = [k \in KeysOf |-> Forever]
    /\ scan' = Overtaken
    /\ UNCHANGED <<host, rows, logs, notify, stamp, disturbances, counts>>

\* A storage error ends run_scan early; a kill ends the process.  Either way
\* the locals are gone, and with them the attempts not yet recorded.
Abort(p) ==
    /\ ~At(p, "idle")
    /\ Disturb
    /\ Forget(p, scan[p].sent)
    /\ scan' = [scan EXCEPT ![p] = Idle]
    /\ notify' = [notify EXCEPT ![p] = FALSE]
    /\ stamp' = [stamp EXCEPT ![p] = 0]
    /\ UNCHANGED <<host, tables, clearing, lastSaved>>

-----------------------------------------------------------------------------
(* The operator and the clock                                               *)

\* start_maintenance clamps the duration to 1 .. max_duration_seconds.
StartMaintenance ==
    /\ Disturb
    /\ \E requested \in 0 .. MaxMaintenance + 1 :
          maintenance' = Max({1, Min({requested, MaxMaintenance})})
    /\ UNCHANGED <<present, quiet, tables, scan, notify, stamp, clearing, lastSaved, counts>>

EndMaintenance ==
    /\ maintenance > 0
    /\ maintenance' = 0
    /\ UNCHANGED <<present, quiet, tables, scan, notify, stamp, clearing, disturbances, lastSaved, counts>>

Change ==
    /\ Disturb
    /\ \/ present' \in Situations \ {present} /\ UNCHANGED quiet
       \/ quiet' = ~quiet /\ UNCHANGED present
    /\ UNCHANGED <<maintenance, tables, scan, notify, stamp, clearing, lastSaved, counts>>

Older(ages) == [x \in DOMAIN ages |-> Min({ages[x] + 1, Forever})]
Shift(c) == [h \in Hours |-> IF h = 0 THEN 0 ELSE c[h - 1]]
Stamped(p) == At(p, "check") \/ At(p, "save")

\* Deliveries and their records fall within one tick.
Tick ==
    /\ \A p \in Process : ~At(p, "log")
    /\ maintenance' = Max({0, maintenance - 1})
    /\ rows' = Older(rows) /\ dedup' = Older(dedup) /\ lastSaved' = Older(lastSaved)
    /\ logs' = Shift(logs) /\ attempts' = Shift(attempts) /\ limited' = Shift(limited)
    /\ stamp' = [p \in Process |-> IF Stamped(p) THEN Older(stamp)[p] ELSE 0]
    /\ UNCHANGED <<present, quiet, scan, notify, clearing, disturbances>>

ScanStep(p) ==
    \/ Open(p) \/ Detect(p) \/ SuppressRecent(p) \/ SaveFindings(p)
    \/ Notify(p) \/ Log(p) \/ Prune(p)

StoreNext ==
    \/ \E p \in Process : ScanStep(p) \/ Abort(p)
    \/ ClearRows \/ ClearDedup
    \/ StartMaintenance \/ EndMaintenance \/ Change \/ Tick

\* The daemon's loop scans again after every interval, a command that was
\* started ends, and time passes; nothing makes an operator start one.
StoreFairness ==
    /\ WF_storeVars(ScanStep("daemon"))
    /\ WF_storeVars(~At("manual", "idle") /\ ScanStep("manual"))
    /\ WF_storeVars(ClearDedup) /\ SF_storeVars(Tick)

StoreSpec == StoreInit /\ [][StoreNext]_storeVars /\ StoreFairness

-----------------------------------------------------------------------------
StoreTypeOK ==
    /\ present \in SUBSET Kinds /\ quiet \in BOOLEAN /\ maintenance \in 0 .. MaxMaintenance
    /\ rows \in [Kinds -> Age]
    /\ dedup \in [KeysOf -> Age] /\ lastSaved \in [KeysOf -> Age]
    /\ {logs, attempts, limited} \subseteq [Hours -> Nat]
    /\ scan \in [Process -> [pc : Stages, found : SUBSET Kinds, raced : BOOLEAN,
                             sent : SUBSET Delivery]]
    /\ notify \in [Process -> BOOLEAN] /\ stamp \in [Process -> Age]
    /\ clearing \in BOOLEAN /\ disturbances \in Nat

\* suppress_recent_duplicates: no scan saves, and so none notifies, a finding when
\* the row of its dedup key saved last is younger than its window, whatever was
\* aborted, pruned or rebuilt in between and however long after its detection the
\* row was saved; only a scan that another process overtook may.
NoRepeatWithinWindow ==
    [][\A p \in Process : \A f \in scan[p].found :
          At(p, "save") /\ ~scan[p].raced /\ scan'[p].pc \in {"notify", "prune"}
            => lastSaved[Finding[f].key] > SuppressionWindow(f)]_storeVars

\* notification_delivery_limit: however scans, failures and restarts follow each
\* other, no hour has more rate-limited attempts than max_alerts_per_hour but for
\* those a scan planned while another scan's were not on record yet, and those
\* whose own record was lost.
HourlyLimitHolds == Total(limited) <= MaxAlertsPerHour

\* The daemon and a `vs scan` read the remaining limit before either records what it
\* sends: together they send at most the limit once each, however they overlap.
OverlapBounded == Total(attempts) <= MostAttempts

\* Alerts are held back no longer than a maintenance window may last and sent no
\* more often than notification_delivery_limit allows.
AlertsBounded == StoreTypeOK /\ HourlyLimitHolds /\ OverlapBounded

\* A severe durable finding that stays is notified over and over, through quiet
\* hours, maintenance and the hourly limit: an aborted scan, or a `vs scan
\* --no-notify` that took the alert without sending it, only delays the reminder.
Delivered(f) == \E p \in Process, c \in Channel : <<f, c>> \in scan[p].sent
RemindersContinue ==
    \A f \in {g \in Kinds : Finding[g].state /\ Finding[g].sev >= BypassSeverity} :
        <>[](f \in present /\ \A g \in present \ {f} : Finding[g].subject # Finding[f].subject)
            => []<>Delivered(f)
=============================================================================
