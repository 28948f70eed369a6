----------------------------- MODULE Detection ------------------------------
(* One scan from its events to its findings: the stages of run_scan that     *)
(* judge, in the order scanner.rs runs them.  The events are any small part  *)
(* of what a host may show; the verdicts of the attack-fingerprint store,    *)
(* the tie-breaks of the finding budget and the firewall's answers are open. *)
(* Findings are a set.  Of findings with one dedup key, which are about the  *)
(* same rule and subject, suppress_in_scan_duplicates keeps the first; here  *)
(* two that differ in other evidence both stay.                              *)
EXTENDS FindingPolicy

CONSTANTS Inputs,       \* pairs of a configuration and the events a host may show under it
          MaxEvents     \* events of one scan

ASSUME MaxEventsAssumption == MaxEvents \in Nat \ {0}

\* Built-in rules that merging, rating and the timeline know by name.
NamedRules == UserRules \cup ResourceRules \cup ProcessRules \cup {"SSH-005", "SSH-007"}

\* The scoring weights are unsigned; a rule of the operator has a prefix of its
\* own and a severity; of the events, changes of files and persistence entries
\* name a path and no user, changes of accounts name a user, and processes have
\* the facts the rules about processes read.
ASSUME InputsAssumption ==
    \A input \in Inputs :
        /\ input[1].threat_intel_bonus \in Nat /\ input[1].active_response_bonus \in Nat
        /\ input[1].rootkit_bonus \in Nat /\ input[1].state_drift_deduction \in Nat
        /\ \A r \in input[1].external_rules : r.severity \in Info .. Critical /\ "EXT-" \o r.id \notin NamedRules
        /\ \A m \in input[1].yara_matches : "YARA-" \o m[1] \notin NamedRules
        /\ \A e \in input[2] :
              /\ e.kind \in FileDiffKinds \cup {"persistence_created", "persistence_modified"} => "user" \notin DOMAIN e
              /\ e.kind \in {"user_created", "user_uid_changed_to_zero"} => "user" \in DOMAIN e
              /\ e.kind \in {"process_snapshot", "process_exec"} =>
                    {"exe", "cwd", "cmd", "name", "pid", "sockets", "outbound", "tags"} \subseteq DOMAIN e

\* Thresholds and counts are unsigned, a process carries at most the outbound
\* count its rules tell apart, and /proc has one directory per pid.
ASSUME CountsAssumption ==
    \A input \in Inputs :
        /\ input[1].failed_login_threshold \in Nat /\ input[1].error_burst_threshold \in Nat
        /\ input[1].behavior_min_score \in Nat /\ input[1].mining_min_score \in Nat
        /\ \A e \in input[2] :
              /\ e.kind \in {"ssh_auth", "ssh_auth_aggregate"} => e.count \in Nat
              /\ e.kind = "web_access" => e.n \in Nat
              /\ e.kind = "outbound_connection" => e.peers \in Nat
              /\ e.kind = "gpu_compute_process" => e.memory \in Nat
              /\ e.kind \in {"process_snapshot", "process_exec"} => e.outbound \in 0 .. FanoutOutbound
        /\ \A p, q \in {e \in input[2] : e.kind = "process_snapshot"} : p.pid = q.pid => p = q

VARIABLES
    conf,        \* the configuration the scan was started with
    pool,        \* what may still be collected
    events,      \* collected and baseline-diff events
    stage,       \* the stage that ran last
    detected,    \* what the detectors reported
    findings,    \* what is left of it
    hidden,      \* dropped by maintenance mode
    trimmed,     \* dropped by the resource budget
    withheld,    \* dropped by suppress_rules
    candidates,  \* addresses active response planned to block, with their reason
    incidents    \* what the findings were grouped into

vars == <<conf, pool, events, stage, detected, findings, hidden, trimmed, withheld, candidates, incidents>>

-----------------------------------------------------------------------------
(* The detectors                                                             *)

ChangedPaths(es) == {e.path : e \in {f \in es : f.kind \in FileDiffKinds}}

\* Mutant: only a changed file is looked at.
SnapshotChanged(e, es) == e.path # "" /\ e.path \in ChangedPaths(es)

\* file_snapshot_needed_for_detection
SnapshotNeeded(e, es) ==
    /\ e.path # ""
    /\ \/ e.path \in ChangedPaths(es) \cup AuthorizedKeysPaths
       \/ e.tags \cap ContentMarkers # {}
       \/ "is_web_path" \in e.tags /\ ("executable" \in e.tags \/ e.path \in WebScriptPaths)

\* retain_incremental_file_events
RetainIncremental(es, c) ==
    IF c.incremental THEN {e \in es : e.kind # "file_snapshot" \/ SnapshotNeeded(e, es)} ELSE es

\* rule_matches_event, with the field conditions as facts of the event
RuleMatches(rule, e) == rule.kind \in {"", e.kind} /\ rule.fields \subseteq e.tags

\* load_external_rules, valid_external_rule: a file that cannot be read or
\* parsed gives no rule, a rule without an id or a condition is left out.
LoadedRules(c) == {r \in c.external_rules : r.readable /\ r.id # "" /\ (r.kind # "" \/ r.fields # {})}

\* rule_finding; the id of the event stands in for a subject the event does
\* not have.
RuleFinding(rule, e) ==
    F("EXT-" \o rule.id, rule.category, rule.severity,
      IF "path" \in DOMAIN e THEN <<e.path>>
      ELSE IF "exe" \in DOMAIN e THEN <<e.exe>>
      ELSE IF "ip" \in DOMAIN e THEN <<e.ip>> ELSE <<"event">>, {})

ExternalFindings(es, c) ==
    {RuleFinding(p[1], p[2]) : p \in {q \in LoadedRules(c) \X es : RuleMatches(q[1], q[2])}}

\* run_yara over the files its rules match
YaraFindings(c) == {PathFinding("YARA-" \o m[1], "FileIntegrity", High, m[2], {}) : m \in c.yara_matches}

BuiltinFindings(es, c) ==
    HostFindings(es, c) \cup ProcessFindings(es, c) \cup NetworkFindings(es, c) \cup WebFindings(es, c)

Detectors(es, c) == BuiltinFindings(es, c) \cup ExternalFindings(es, c) \cup YaraFindings(c)

-----------------------------------------------------------------------------
Init ==
    /\ \E input \in Inputs : conf = input[1] /\ pool = input[2]
    /\ events = {}
    /\ stage = "collect"
    /\ detected = {} /\ findings = {} /\ hidden = {} /\ trimmed = {} /\ withheld = {}
    /\ candidates = {} /\ incidents = {}

Advance(from, to) == stage = from /\ stage' = to
KeepInput == UNCHANGED <<conf, pool, events>>

\* collect_raw_events and diff_snapshots put one more event on the list.
Collect(e) ==
    /\ stage = "collect"
    /\ Cardinality(events) < MaxEvents
    /\ e \in pool \ events
    /\ events' = events \cup {e}
    /\ UNCHANGED <<conf, pool, stage, detected, findings, hidden, trimmed, withheld, candidates, incidents>>

\* The incremental filter and all detectors.
Detect ==
    /\ Advance("collect", "detected")
    /\ events # {}
    /\ detected' = Detectors(RetainIncremental(events, conf), conf)
    /\ findings' = detected'
    /\ KeepInput /\ UNCHANGED <<hidden, trimmed, withheld, candidates, incidents>>

\* coalesce_related_findings
Merge ==
    /\ Advance("detected", "merged")
    /\ findings' = Coalesce(findings)
    /\ KeepInput /\ UNCHANGED <<detected, hidden, trimmed, withheld, candidates, incidents>>

\* Baseline drift, threat intelligence, evidence and unified risk score.
Rate ==
    /\ Advance("merged", "rated")
    /\ findings' = {EnrichFinding(f, conf) : f \in findings}
    /\ KeepInput /\ UNCHANGED <<detected, hidden, trimmed, withheld, candidates, incidents>>

\* apply_maintenance_policy
Maintain ==
    /\ Advance("rated", "maintained")
    /\ findings' = ApplyMaintenance(findings, conf)
    /\ hidden' = findings \ findings'
    /\ KeepInput /\ UNCHANGED <<detected, trimmed, withheld, candidates, incidents>>

\* apply_resource_budget
Budget ==
    /\ Advance("maintained", "budgeted")
    /\ findings' \in WithinBudget(findings, conf)
    /\ trimmed' = findings \ findings'
    /\ KeepInput /\ UNCHANGED <<detected, hidden, withheld, candidates, incidents>>

\* apply_suppress_rules
Suppress ==
    /\ Advance("budgeted", "suppressed")
    /\ withheld' = {f \in findings : SuppressMatch(f, conf)}
    /\ findings' = findings \ withheld'
    /\ KeepInput /\ UNCHANGED <<detected, hidden, trimmed, candidates, incidents>>

\* enrich_and_persist_findings marks the findings about a source with the
\* verdict and the action hint its fingerprint has in the store.
Verdicts == {{}, {"fingerprint_benign"}, {"fingerprint_malicious", "fingerprint_block_hint"}, {"fingerprint_block_hint"}}

Fingerprint ==
    /\ Advance("suppressed", "marked")
    /\ \E verdict \in [{f.source : f \in findings} \ {""} -> Verdicts] :
          findings' = {IF f.source = "" THEN f ELSE [f EXCEPT !.ev = @ \cup verdict[f.source]] : f \in findings}
    /\ KeepInput /\ UNCHANGED <<detected, hidden, trimmed, withheld, candidates, incidents>>

\* annotate_active_response, or one summary when more blocks were applied than
\* notification_detail_limit
Annotated(fs, planned, blocked, c) ==
    IF Cardinality(blocked) > c.notification_detail_limit
    THEN fs \cup {F("ACTIVE-001", "System", High, <<"active-response">>, {"blocked"})}
    ELSE {IF \E b \in planned : b.ip = f.source THEN [f EXCEPT !.ev = @ \cup {"blocked"}] ELSE f : f \in fs}

\* apply_active_response: one candidate per address; an address the firewall
\* refuses is reported as failed.  The budget applies again.
Respond ==
    /\ Advance("marked", "responded")
    /\ LET ips == {f.source : f \in findings} \ {""}
           targets == {ip \in ips : CandidatesFor(ip, findings, conf) # {}}
       IN \E pick \in [targets -> UNION {CandidatesFor(ip, findings, conf) : ip \in targets}],
             refused \in {{}, targets} :
            /\ \A ip \in targets : pick[ip] \in CandidatesFor(ip, findings, conf)
            /\ candidates' = {pick[ip] : ip \in targets}
            /\ findings' \in WithinBudget(
                   Annotated(findings, candidates', {b \in candidates' : b.ip \notin refused}, conf), conf)
            /\ trimmed' = trimmed \cup (findings \ {f \in findings : \E g \in findings' :
                                                      g.rule = f.rule /\ g.subject = f.subject})
    /\ KeepInput /\ UNCHANGED <<detected, hidden, withheld, incidents>>

\* correlate_timelines; correlate_findings
Correlate ==
    /\ Advance("responded", "done")
    /\ findings' = findings \cup TimelineFindings(findings, conf)
    /\ incidents' = Incidents(findings', conf)
    /\ KeepInput /\ UNCHANGED <<detected, hidden, trimmed, withheld, candidates>>

\* The next scan starts from fresh events.
NextScan ==
    /\ Advance("done", "collect")
    /\ events' = {} /\ detected' = {} /\ findings' = {} /\ hidden' = {} /\ trimmed' = {} /\ withheld' = {}
    /\ candidates' = {} /\ incidents' = {}
    /\ UNCHANGED <<conf, pool>>

Next ==
    \/ \E e \in pool : Collect(e)
    \/ Detect \/ Merge \/ Rate \/ Maintain \/ Budget \/ Suppress \/ Fingerprint \/ Respond \/ Correlate
    \/ NextScan

Spec == Init /\ [][Next]_vars

-----------------------------------------------------------------------------
(* Properties                                                                *)

Stages ==
    {"collect", "detected", "merged", "rated", "maintained", "budgeted", "suppressed", "marked", "responded", "done"}

\* Every stage works on findings with a known severity and confidence, and a
\* candidate always names a source some finding is about.
TypeOK ==
    /\ stage \in Stages
    /\ \A f \in findings \cup hidden \cup trimmed \cup withheld :
          f.sev \in Info..Critical /\ f.conf \in 1..3 /\ f.unified \in 0..100 /\ f.drift \in 0..100
    /\ \A b \in candidates : \E f \in detected : f.source = b.ip

\* A change to authorized_keys, an identity file or sudoers, a preload entry,
\* or an account with uid 0 that the operator did not allowlist.
SensitiveChange(e, c) ==
    \/ e.kind \in FileDiffKinds /\ e.path \in SecuritySensitivePaths \ c.file_allowlist
    \/ e.kind \in {"persistence_created", "persistence_modified"} /\ "ld_preload" \in e.tags
       /\ e.path \notin c.file_allowlist
    \/ /\ e.kind = "user_uid_changed_to_zero" \/ (e.kind = "user_created" /\ e.uid = 0)
       /\ e.user \notin c.allowed_users \cup {"root", ""}

Covers(f, e) ==
    IF "user" \in DOMAIN e THEN e.user \in ToSet(f.subject)
    ELSE f.path = e.path \/ (e.path \in AccountFiles /\ "identity_files" \in f.ev)

\* Whatever package activity, merging with related findings, drift rating and
\* maintenance mode do, a sensitive change leaves the scan as a finding of at
\* least high severity; only the operator's suppress_rules or a budget full of
\* findings as severe may drop it.
SensitiveChangeReported ==
    stage = "done" =>
        \A e \in events : SensitiveChange(e, conf) =>
            \E f \in findings \cup withheld \cup trimmed :
                /\ Covers(f, e)
                /\ f.sev >= High
                /\ f \in trimmed =>
                      \A g \in findings : g.sev >= High \/ g.rule = "TIMELINE-001"

\* Incremental mode only saves work: the built-in detectors report what they
\* would report on every file snapshot.
IncrementalLossless ==
    stage = "detected" => BuiltinFindings(events, conf) \subseteq detected

\* Findings that coalesce_related_findings puts together.
Related(f, g) ==
    \/ f.rule = g.rule /\ f.subject = g.subject
    \/ AccountDrift(f) /\ g.rule \in ToSet(AccountPriority)
    \/ {f.rule, g.rule} \subseteq ResourceRules /\ f.path = g.path
    \/ {f.rule, g.rule} \subseteq ProcessRules /\ f.pid = g.pid

\* Merging never lowers the severity of what it absorbs.
CoalesceKeepsSeverity ==
    stage = "merged" => \A f \in detected : \E g \in findings : Related(f, g) /\ g.sev >= f.sev

\* A source that logs in after enough failures is reported as a possible
\* compromise, in maintenance mode too.
LoginAttackReported ==
    stage = "done" =>
        \A e \in Logins(events, conf) :
            e.outcome = "success" /\ Failures(events, e.ip, conf) >= conf.failed_login_threshold =>
                \E f \in findings \cup withheld \cup trimmed : f.rule = "SSH-007" /\ f.source = e.ip

\* Active response never plans to block an allowlisted address, a trusted
\* proxy or a private address, whichever rule, fingerprint or aggregate asks.
ProtectedSourcesSpared ==
    \A b \in candidates : b.ip \in conf.public_ips \ (conf.allowed_ips \cup conf.trusted_proxies)

\* "Package context [...] is not an automatic allowlist"
\* (docs/false-positive.md:20): with it the detectors report the same subjects
\* under the same rules; only a rule of the operator may say something of the
\* package activity itself.
Keys(fs) == {<<f.rule, f.subject>> : f \in fs}
PackageNotAllowlist ==
    stage = "detected" =>
        LET seen == RetainIncremental(events, conf)
            without == Detectors({e \in seen : e.kind # "package_manager_activity"}, conf)
        IN /\ Keys(without) \subseteq Keys(detected)
           /\ Keys(detected) \subseteq Keys(without) \cup Keys(ExternalFindings(seen, conf))

\* What the stages hand on is well formed and no stage silences another:
\* coalesce_related_findings keeps severities, maintenance mode keeps login
\* attacks, and package_activity_context only annotates.
FindingsSound == TypeOK /\ CoalesceKeepsSeverity /\ LoginAttackReported /\ PackageNotAllowlist

\* An event more never makes the detectors quieter about a subject: joining
\* outbound connections, GPU use, processes, logins or requests to it keeps a
\* finding at least as severe.  A protecting firewall and package activity are
\* meant to explain things away.
MoreEvidenceNeverQuieter ==
    stage = "detected" =>
        \A e \in {x \in events : x.kind \notin {"firewall_state", "package_manager_activity"}} :
            \A f \in BuiltinFindings(events \ {e}, conf) :
                \E g \in BuiltinFindings(events, conf) : g.subject = f.subject /\ g.sev >= f.sev

\* "high_confidence_web_exploit_blocks_on_single_attempt"
\* (src/crates/sentinel-agent/src/active_response.rs:2014): outside the strict
\* strategy one request of such a family makes its source a candidate.
HighConfidenceProbeAnswered ==
    stage = "responded" /\ conf.strategy # "strict" /\ conf.policies = <<>> =>
        \A e \in WebEvents(events, conf) :
            /\ Family(e) \in SingleAttemptFamilies
            /\ e.ip \in conf.public_ips \ (conf.allowed_ips \cup conf.trusted_proxies)
            /\ \E f \in findings : f.rule = "WEB-001" /\ f.source = e.ip /\ ~Benign(f) /\ ~Unresolved(f)
            => \E b \in candidates : b.ip = e.ip

=============================================================================
