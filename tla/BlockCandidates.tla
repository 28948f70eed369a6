-------------------------- MODULE BlockCandidates ---------------------------
(* Which sources a scan asks the firewall to block: block_candidates of      *)
(* active_response.rs.  The module ActiveResponse takes the outcome, any     *)
(* candidate per address, as its input.                                      *)
EXTENDS WebDetector

NoCandidate == [kind |-> "none"]
Candidate(kind, f) ==
    [kind |-> kind, ip |-> f.source, rule |-> f.rule, action |-> "block", ttl |-> 0, permanent_after |-> 0]

Unresolved(f) == "proxy_source_unresolved" \in f.ev
Benign(f) == "fingerprint_benign" \in f.ev
Malicious(f) == "fingerprint_malicious" \in f.ev
BlockHint(f) == "fingerprint_block_hint" \in f.ev

\* web_probe_threshold
WebProbeThreshold(probe, c) ==
    IF probe.response = "successful_response" THEN 1
    ELSE IF c.strategy # "strict" /\ probe.family \in SingleAttemptFamilies THEN 1
    ELSE IF probe.family \in ExploitFamilies THEN c.web_exploit_block_threshold
    ELSE IF c.strategy = "strict" THEN 2 * c.web_probe_block_threshold ELSE c.web_probe_block_threshold

WebProbeCandidate(f, c) ==
    IF c.web_enabled /\ ~Unresolved(f) /\ f.count >= WebProbeThreshold(f.probe, c)
    THEN Candidate("web_probe", f) ELSE NoCandidate

WebErrorCandidate(f, c) ==
    IF /\ c.web_enabled /\ ~Unresolved(f)
       /\ f.count >= (IF c.strategy = "strict" THEN 2 ELSE 1) * c.web_probe_block_threshold
    THEN Candidate("web_error", f) ELSE NoCandidate

SshBruteforceCandidate(f, c) ==
    IF /\ c.ssh_enabled
       /\ f.count >= (IF c.strategy = "strict"
                      THEN Max({c.ssh_failed_login_block_threshold, 2 * c.failed_login_threshold})
                      ELSE c.ssh_failed_login_block_threshold)
    THEN Candidate("ssh_bruteforce", f) ELSE NoCandidate

RuleCandidate(f, c) ==
    CASE f.rule = "WEB-001" -> WebProbeCandidate(f, c)
      [] f.rule = "WEB-002" -> WebErrorCandidate(f, c)
      [] f.rule \in {"SSH-003", "SSH-007"} -> SshBruteforceCandidate(f, c)
      [] OTHER -> NoCandidate

\* attack_fingerprint_candidate
FingerprintCandidate(f, c) ==
    IF c.fingerprint_response_enabled /\ BlockHint(f) /\ ~Unresolved(f) /\ f.source # ""
    THEN Candidate("attack_fingerprint", f) ELSE NoCandidate

\* layered_ttl_seconds, layered_permanent_after
LayeredTtl(c, multiplier) == Min({c.block_ttl * multiplier, c.max_layered_ttl})
LayeredPermanentAfter(c, target) == Min({Max({c.permanent_block_threshold, 1}), target})

\* response_layer and web_probe_response_layer: <<ttl multiplier, evidence
\* before a permanent block, permanent at once>>, <<1, 0, FALSE>> for no layer.
ResponseLayer(b, f, c) ==
    CASE Malicious(f) -> <<4, LayeredPermanentAfter(c, 1), TRUE>>
      [] ~Malicious(f) /\ (BlockHint(f) \/ b.kind = "web_aggregate") -> <<2, LayeredPermanentAfter(c, 2), FALSE>>
      [] ~Malicious(f) /\ ~BlockHint(f) /\ f.rule = "SSH-007" -> <<4, LayeredPermanentAfter(c, 2), FALSE>>
      [] /\ ~Malicious(f) /\ ~BlockHint(f) /\ f.rule = "SSH-003"
         /\ f.count >= 2 * c.ssh_failed_login_block_threshold -> <<2, LayeredPermanentAfter(c, 2), FALSE>>
      [] /\ ~Malicious(f) /\ ~BlockHint(f) /\ f.rule = "WEB-001" /\ b.kind # "web_aggregate"
         /\ \/ f.probe.response = "successful_response"
            \/ f.probe.family \in ExploitFamilies ->
            <<IF f.probe.response = "successful_response" THEN 4
              ELSE IF f.probe.family \in SingleAttemptFamilies THEN 3 ELSE 2,
              LayeredPermanentAfter(c, 2), FALSE>>
      [] ~Malicious(f) /\ ~BlockHint(f) /\ f.rule = "WEB-002" -> <<2, LayeredPermanentAfter(c, 3), FALSE>>
      [] OTHER -> <<1, 0, FALSE>>

\* apply_response_layer
ApplyResponseLayer(b, f, c) ==
    LET layer == ResponseLayer(b, f, c)
    IN [b EXCEPT !.ttl = IF layer[1] > 1 THEN LayeredTtl(c, layer[1]) ELSE @,
                 !.permanent_after = layer[2],
                 !.action = IF layer[3] THEN "permanent_block" ELSE @]

ConfidencePercent(f) == <<40, 65, 85>>[f.conf]

\* apply_response_policy: the first enabled policy of the rule or category; a
\* finding below one of its minima is not a candidate at all.
ApplyResponsePolicy(b, f, c) ==
    LET named == SelectSeq(c.policies, LAMBDA p : p.enabled /\ (f.rule \in p.rules \/ f.cat \in p.categories))
        p == Head(named)
    IN IF named = <<>> THEN b
       ELSE IF \/ f.sev < p.min_severity
               \/ ConfidencePercent(f) < p.min_confidence
               \/ f.unified < p.min_unified_score
       THEN NoCandidate
       ELSE [b EXCEPT !.action = p.action,
                      !.ttl = IF p.ttl = 0 THEN @ ELSE p.ttl,
                      !.permanent_after = IF p.permanent_after = 0 THEN @ ELSE p.permanent_after]

\* Mutant: the trusted proxies are not asked about.
FilterAllowlistOnly(b, c) ==
    IF b # NoCandidate /\ b.ip \notin c.allowed_ips /\ b.ip \in c.public_ips THEN b ELSE NoCandidate

\* filter_block_candidate
FilterCandidate(b, c) ==
    IF b # NoCandidate /\ b.ip \notin c.allowed_ips \cup c.trusted_proxies /\ b.ip \in c.public_ips
    THEN b ELSE NoCandidate

Decide(b, f, c) ==
    IF b = NoCandidate THEN NoCandidate
    ELSE FilterCandidate(ApplyResponsePolicy(ApplyResponseLayer(b, f, c), f, c), c)

\* block_candidate
BlockCandidate(f, c) ==
    IF Benign(f) THEN NoCandidate
    ELSE Decide(IF RuleCandidate(f, c) # NoCandidate THEN RuleCandidate(f, c) ELSE FingerprintCandidate(f, c), f, c)

\* multi_family_web_probe_threshold
MultiFamilyThreshold(c) == Max({(c.web_probe_block_threshold * 4 + 4) \div 5, 3})

\* aggregate_web_candidate, over one source's WEB-001 findings.  Neither the
\* verdict on the findings nor an unresolved proxy is looked at here.
AggregateCandidate(f, c) ==
    LET families == Cardinality(f.probe.families)
    IN Decide(IF /\ f.rule = "WEB-001" /\ c.web_enabled
                 /\ \/ families >= 3 /\ f.count >= MultiFamilyThreshold(c)
                    \/ families >= 2 /\ f.count >= 2 * c.web_probe_block_threshold
              THEN Candidate("web_aggregate", f) ELSE NoCandidate, f, c)

\* block_candidates: the first candidate of an address wins, those of single
\* findings come before the aggregates.
CandidatesFor(ip, findings, c) ==
    LET mine == {f \in findings : f.source = ip}
        single == {BlockCandidate(f, c) : f \in mine} \ {NoCandidate}
        aggregate == {AggregateCandidate(f, c) : f \in mine} \ {NoCandidate}
    IN IF single # {} THEN single ELSE aggregate

=============================================================================
