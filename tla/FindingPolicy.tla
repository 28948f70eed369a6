--------------------------- MODULE FindingPolicy ----------------------------
(* What a scan does with the findings of its detectors before it stores and  *)
(* sends them: related findings are merged, baseline drift is re-rated, all  *)
(* are scored, maintenance mode, the resource budget and suppress_rules drop *)
(* some, and correlated ones add a timeline finding and form incidents.      *)
EXTENDS BlockCandidates

-----------------------------------------------------------------------------
(* findings.rs                                                               *)

UserRules == {"USER-001", "USER-002", "USER-003"}
ResourceRules == {"FILE-001", "PERSIST-001", "PERSIST-003"}
ProcessRules == {"PROC-001", "PROC-002", "PROC-003", "PROC-004", "PROC-005", "PROC-006"}

AccountDrift(f) == f.rule \in UserRules \/ (f.rule = "FILE-001" /\ f.path \in AccountFiles)

\* The primary finding of a group is the first rule of its list.
AccountPriority == <<"USER-002", "USER-003", "USER-001", "FILE-001">>
ResourcePriority == <<"PERSIST-003", "PERSIST-001", "FILE-001">>
DeletedFirstPriority ==   \* mutant: the deleted executable speaks for the process
    <<"PROC-002", "PROC-003", "PROC-006", "PROC-004", "PROC-005", "PROC-001">>
ProcessPriority == <<"PROC-003", "PROC-006", "PROC-004", "PROC-002", "PROC-005", "PROC-001">>

Priority(list, f) == CHOOSE i \in DOMAIN list : list[i] = f.rule
Primary(list, group) == CHOOSE f \in group : \A o \in group : Priority(list, f) <= Priority(list, o)

Evidences(group) == UNION {f.ev : f \in group}

\* account_group_subject
AccountSubject(group) ==
    LET users == UNION {ToSet(f.subject) : f \in {g \in group : g.rule \in UserRules}}
    IN IF users = {} THEN <<"identity database">> ELSE SetToSeq(users)

\* merge_account_evidence: the uid is the first one in order of priority.
AccountEvidence(primary, group) ==
    (Evidences(group) \cap {"change", "package_activity"})
        \cup (primary.ev \cap {"uid0"})
        \cup When(\E f \in group : f.path \in AccountFiles, {"identity_files"})

\* merge_account_findings: severity and confidence are the group's maxima.
MergeAccount(group) ==
    LET primary == Primary(AccountPriority, group)
    IN IF Cardinality(group) = 1 THEN primary
       ELSE [primary EXCEPT
               !.sev = Max({f.sev : f \in group}), !.conf = Max({f.conf : f \in group}),
               !.subject = AccountSubject(group), !.path = "", !.ev = AccountEvidence(primary, group)]

\* merge_evidence: the semantic deltas of the parts are gone.
ResourceEvidence(primary, group) ==
    (Evidences(group) \cap {"change", "package_activity", "sensitive_path"}) \cup (primary.ev \cap {"ld_preload"})

\* merge_resource_findings keeps the primary's rating.
MergeResource(group) ==
    LET primary == Primary(ResourcePriority, group)
    IN IF Cardinality(group) = 1 THEN primary
       ELSE [primary EXCEPT !.ev = ResourceEvidence(primary, group)]

\* merge_process_evidence: the drift of the process's history is gone.
MergedProcessEvidence(group) == Evidences(group) \cap {"package_activity", "execution_intent", "risk"}

\* merge_process_findings: the highest risk score of the group, the rating of
\* the primary.
MergeProcess(group) ==
    LET primary == Primary(ProcessPriority, group)
    IN IF Cardinality(group) = 1 THEN primary
       ELSE [primary EXCEPT !.score = Max({f.score : f \in group}), !.ev = MergedProcessEvidence(group)]

\* coalesce_related_findings
Coalesce(findings) ==
    LET account == {f \in findings : AccountDrift(f)}
        resource == {f \in findings \ account : f.rule \in ResourceRules}
        process == {f \in findings : f.rule \in ProcessRules}
    IN (findings \ (account \cup resource \cup process))
       \cup When(account # {}, {MergeAccount(account)})
       \cup {MergeResource({f \in resource : f.path = p}) : p \in {f.path : f \in resource}}
       \cup {MergeProcess({f \in process : f.pid = p}) : p \in {f.pid : f \in process}}

-----------------------------------------------------------------------------
(* baseline/drift.rs                                                         *)

DriftRules ==
    UserRules \cup ResourceRules \cup {"SSH-005", "NET-001", "NET-002", "SERVICE-001", "SERVICE-002"}

\* baseline_drift_finding
DriftFinding(f) == f.rule \in DriftRules \/ f.ev \cap {"change", "service_profile_identity"} # {}

\* Mutant: only the rule counts, not the evidence a merged finding carries.
ProtectedByRule(f) == f.rule \in {"SSH-005", "USER-002", "PERSIST-003"}

\* protected_high_signal
Protected(f) ==
    \/ f.rule \in {"SSH-005", "USER-002", "PERSIST-003"}
    \/ f.ev \cap {"identity_files", "uid0", "sensitive_path"} # {}

\* finding_base_score
DriftBase(cat) ==
    CASE cat = "Ssh" -> 85
      [] cat \in {"User", "Persistence"} -> 70
      [] cat \in {"Network", "FileIntegrity"} -> 55
      [] OTHER -> 45

\* finding_signals: additions stop at 100, deductions follow and stop at 0.
DriftScore(f) ==
    LET Ev(e) == e \in f.ev
        raised == SumScore({<<DriftBase(f.cat), "base", TRUE>>,
                            <<35, "protected", Protected(f)>>,
                            <<25, "ld_preload", Ev("ld_preload")>>,
                            <<12, "public", f.ev \cap {"public_addr", "public_exposure"} # {}>>,
                            <<12, "owner", Ev("owner_changed")>>,
                            <<18, "semantic", Ev("semantic_delta")>>,
                            <<25, "risky", Ev("risky_semantic")>>,
                            <<25, "risk_score", f.score >= 70>>,
                            <<15, "risk", Ev("risk")>>})
        lowered == SumScore({<<25, "package", Ev("package_activity")>>,
                             <<18, "private", Ev("not_public")>>,
                             <<40, "udp", Ev("dynamic_udp_listener")>>,
                             <<30, "managed", f.rule = "NET-001" /\ Ev("managed_service_listener")>>,
                             <<8, "firewall", Ev("firewall_status")>>})
        score == Min({100, raised})
    IN IF Protected(f) THEN score ELSE IF score > lowered THEN score - lowered ELSE 0

\* drift_tier and adjust_drift_severity
AdjustDrift(f) ==
    LET score == DriftScore(f)
    IN IF ~DriftFinding(f) THEN f
       ELSE IF Protected(f) \/ score >= 65 THEN [f EXCEPT !.drift = score]
       ELSE IF score < 40 THEN [f EXCEPT !.drift = score, !.sev = Low, !.conf = 1]
       ELSE [f EXCEPT !.drift = score, !.sev = Min({@, Medium}), !.conf = Min({@, 2})]

-----------------------------------------------------------------------------
(* threat_intel.rs, evidence_score.rs, risk_score.rs                         *)

\* threat_intel::enrich_findings
MatchIntel(f, c) ==
    IF {f.source, f.path} \cap c.threat_indicators # {} THEN [f EXCEPT !.ev = @ \cup {"threat_intel"}] ELSE f

VolumeWeight(n) == IF n >= 50 THEN 18 ELSE IF n >= 10 THEN 12 ELSE IF n >= 3 THEN 6 ELSE 3
ScoreWeight(s) == IF s >= 90 THEN 24 ELSE IF s >= 75 THEN 18 ELSE IF s >= 55 THEN 10 ELSE 4

\* normalize_finding_evidence, canonical_key: the web rules' "ip" is source_ip
\* by the time it is read.
SourceIp(f) == f.source # ""

\* evidence_score::assess_finding, for the evidence the model keeps
EvidenceScore(f) ==
    LET raised == SumScore({<<20, "base", TRUE>>,
                            <<8, "source_ip", SourceIp(f)>>,
                            <<18, "anti_forensics", "log_file_missing" \in f.ev>>,
                            <<22, "risky_log_target", "risky_symlink" \in f.ev>>,
                            <<12, "execution_intent", "execution_intent" \in f.ev>>,
                            <<VolumeWeight(f.count), "volume", f.count > 0>>,
                            <<ScoreWeight(f.score), "detector_score", f.score > 0>>,
                            <<20, "threat_intel", "threat_intel" \in f.ev>>})
        lowered == SumScore({<<12, "package", "package_activity" \in f.ev>>,
                             <<20, "proxy", Unresolved(f)>>})
        score == Min({100, raised})
    IN IF score > lowered THEN score - lowered ELSE 0

SeverityScore(sev) == <<10, 30, 55, 75, 90>>[sev]
ConfidenceScore(conf) == <<35, 60, 80>>[conf]

\* score_finding_with_scoring
UnifiedScore(f, c) ==
    LET base == Max({SeverityScore(f.sev), ConfidenceScore(f.conf), Min({100, f.score}), f.drift, EvidenceScore(f)})
        bonus == SumScore({<<c.threat_intel_bonus, "threat_intel", "threat_intel" \in f.ev>>,
                           <<c.active_response_bonus, "active_response", "blocked" \in f.ev>>})
        raised == Min({100, base + bonus})
        settled == IF "state_drift" \notin f.ev THEN raised
                   ELSE IF raised > c.state_drift_deduction THEN raised - c.state_drift_deduction ELSE 0
    IN Min({100, settled + (IF f.cat = "Rootkit" THEN c.rootkit_bonus ELSE 0)})

\* baseline enrichment, threat intelligence and both scores, in this order
EnrichFinding(f, c) ==
    LET g == MatchIntel(AdjustDrift(f), c) IN [g EXCEPT !.unified = UnifiedScore(g, c)]

-----------------------------------------------------------------------------
(* maintenance.rs, resource_budget.rs, suppress_rules.rs                     *)

\* suppressible_maintenance_finding
Suppressible(f, c) ==
    \/ /\ c.suppress_baseline_drift
       /\ f.sev <= Medium
       /\ f.rule \in {"FILE-001", "PERSIST-001", "PERSIST-002", "NET-001", "NET-002", "SERVICE-001", "SERVICE-002"}
    \/ c.suppress_interactive_logins /\ f.rule \in {"SSH-001", "SSH-002", "SSH-004"}

ApplyMaintenance(findings, c) ==
    IF c.maintenance THEN {f \in findings : ~Suppressible(f, c)} ELSE findings

\* finding_rank; ties are broken by time and key
RankedBefore(f, g) ==
    \/ f.sev > g.sev
    \/ f.sev = g.sev /\ f.unified > g.unified
    \/ f.sev = g.sev /\ f.unified = g.unified /\ f.conf >= g.conf

\* apply_resource_budget: the sets it may keep
WithinBudget(findings, c) ==
    IF Cardinality(findings) <= c.max_findings_per_scan THEN {findings}
    ELSE {K \in kSubset(c.max_findings_per_scan, findings) :
            \A f \in K, g \in findings \ K : RankedBefore(f, g)}

\* SuppressRulesPolicy::matches, expired entries left out
SuppressMatch(f, c) ==
    \/ f.rule \in c.suppressed_rules
    \/ \E entry \in c.suppress_entries :
          /\ ~entry.expired
          /\ f.rule \in entry.rules
          /\ entry.subjects = {} \/ f.subject \in entry.subjects

-----------------------------------------------------------------------------
(* timeline.rs and the grouping of incident.rs                               *)

HighValueRules ==
    ProcessRules \cup {"WEB-001", "WEB-002", "SSH-003", "SSH-007", "PERSIST-002",
                       "TAMPER-001", "TAMPER-002", "TAMPER-003", "ROOTKIT-001"}

\* phase_name
Phase(f) ==
    CASE f.cat = "Web" -> "web_probe"
      [] f.cat = "Ssh" -> "ssh_access"
      [] f.cat = "Process" -> "process_execution"
      [] f.cat = "Persistence" -> "persistence"
      [] f.cat = "FileIntegrity" -> "file_change"
      [] f.cat = "Network" -> "network_exposure"
      [] f.cat = "Rootkit" -> "rootkit_signal"
      [] f.cat = "System" /\ f.rule \in {"TAMPER-001", "TAMPER-002", "TAMPER-003"} -> "anti_forensics"
      [] OTHER -> ""

\* is_timeline_candidate and correlation_keys
TimelineKeys(f) ==
    LET candidate == /\ f.cat \in {"Web", "Ssh", "Process", "Persistence", "FileIntegrity", "Network", "Rootkit", "System"}
                     /\ f.rule # "TIMELINE-001"
                     /\ f.sev >= Medium \/ f.rule \in HighValueRules \/ "blocked" \in f.ev
    IN When(candidate, When(SourceIp(f), {<<"source_ip", f.source>>})
                       \cup When(f.path # "", {<<"path", f.path>>})
                       \cup When(f.process # "", {<<"process", f.process>>}))

\* chain_stage_score
StageScore(phases) ==
    SumScore({<<1, "access", phases \cap {"web_probe", "ssh_access"} # {}>>,
              <<2, "execution", "process_execution" \in phases>>,
              <<2, "persistence", "persistence" \in phases>>,
              <<1, "change", phases \cap {"file_change", "network_exposure"} # {}>>,
              <<2, "cover", phases \cap {"anti_forensics", "rootkit_signal"} # {}>>})

\* qualified_group
QualifiedGroup(group) ==
    LET phases == {Phase(f) : f \in group} \ {""}
        execution == phases \cap {"process_execution", "persistence", "anti_forensics", "rootkit_signal"} # {}
        external == phases \cap {"web_probe", "ssh_access"} # {}
        drift == phases \cap {"file_change", "network_exposure", "persistence"} # {}
        high == \E f \in group : f.sev >= High \/ f.rule \in HighValueRules
    IN /\ Cardinality(group) >= 2 /\ Cardinality(phases) >= 2
       /\ \/ execution /\ high
          \/ external /\ drift /\ Cardinality(phases) >= 3
          \/ StageScore(phases) >= 5 /\ high

\* timeline_finding: the phases are the evidence its attack stages come from.
TimelineFinding(key, group) ==
    LET score == Min({300, MapThenSumSet(LAMBDA f : f.unified, group)})
    IN F("TIMELINE-001", "System", IF score >= 180 THEN High ELSE Medium, <<key[2]>>, {Phase(f) : f \in group} \ {""})

\* correlate_timelines
TimelineFindings(findings, c) ==
    LET Group(k) == {f \in findings : k \in TimelineKeys(f)}
        keys == {k \in UNION {TimelineKeys(f) : f \in findings} : QualifiedGroup(Group(k))}
    IN When(c.incidents_enabled, {EnrichFinding(TimelineFinding(k, Group(k)), c) : k \in keys})

\* correlation_key of incident.rs: processes and audit records name their
\* executable, and only listeners a process_name.
IncidentKey(f) ==
    IF f.source # "" THEN <<"ip", f.source>>
    ELSE IF f.path # ""
    THEN <<IF f.rule \in ProcessRules \cup {"AUDIT-001", "AUDIT-002"} THEN "exe_path" ELSE "path", f.path>>
    ELSE IF f.process # "" /\ f.rule \notin ProcessRules THEN <<"process_name", f.process>>
    ELSE <<IF f.cat \in {"Ssh", "Web", "Network"} THEN f.cat ELSE f.rule>> \o f.subject

\* timeline_phase_attack_stage
PhaseStage(phase) ==
    CASE phase \in {"web_probe", "ssh_access"} -> "initial_access"
      [] phase = "process_execution" -> "execution"
      [] phase = "persistence" -> "persistence"
      [] phase = "file_change" -> "discovery"
      [] phase = "network_exposure" -> "command_and_control"
      [] phase = "anti_forensics" -> "impact"
      [] phase = "rootkit_signal" -> "privilege_escalation"

\* RuleAttackStage::from_signal, by the prefix of the rule id
RuleStage(f) ==
    IF f.cat \in {"Ssh", "Web"} THEN "initial_access"
    ELSE IF f.rule \in ProcessRules THEN "execution"
    ELSE IF f.rule \in UserRules \cup {"ROOTKIT-003"} THEN "privilege_escalation"
    ELSE IF f.cat = "Persistence" THEN "persistence"
    ELSE IF f.rule \in {"NET-001", "NET-002", "NET-003"} THEN "command_and_control"
    ELSE IF f.rule \in {"ACTIVE-001", "TAMPER-001", "TAMPER-002", "TAMPER-003"} THEN "impact"
    ELSE IF f.cat \in {"Docker", "ConfigRisk", "FileIntegrity"} THEN "discovery"
    ELSE "from_text"

\* expanded_attack_stage_keys
StagesOf(f) ==
    IF f.rule = "TIMELINE-001" /\ f.ev \ {"risk"} # {} THEN {PhaseStage(p) : p \in f.ev \ {"risk"}} ELSE {RuleStage(f)}

\* build_attack_chain: each stage with the severest finding in it
AttackChain(group) ==
    {<<stage, Max({f.sev : f \in {g \in group : stage \in StagesOf(g)}})>> :
        stage \in UNION {StagesOf(f) : f \in group}}

\* build_incident
Incident(key, group) ==
    [key |-> key, severity |-> Max({f.sev : f \in group}), score |-> Max({f.unified : f \in group}),
     chain |-> AttackChain(group)]

\* correlate_findings: within one window
Incidents(findings, c) ==
    When(c.incidents_enabled,
         {Incident(k, {f \in findings : IncidentKey(f) = k}) : k \in {IncidentKey(f) : f \in findings}})

=============================================================================
