---------------------------- MODULE WebDetector -----------------------------
(* web_rules.rs.  A web_access event stands for `n` equal requests: it       *)
(* carries the source address, the payload markers of its path, the class of *)
(* its status and the facts about the proxy it came through.                 *)
EXTENDS NetworkDetector, SequencesExt

\* The payloads NormalizedPath recognises in the raw or the decoded path.
PayloadClasses(m) ==
    When({"shell_operator", "shell_command"} \subseteq m, {"command_payload"})
    \cup When(m \cap {"../", "..\\", "%2e%2e"} # {}, {"traversal"})
    \cup When({"<?", "php_call"} \subseteq m, {"php_code"})
    \cup When("metadata_host" \in m \/ {"metadata_address", "metadata_path"} \subseteq m, {"cloud_metadata"})
    \cup When("7*7" \in m \/ {"braces", "template_marker"} \subseteq m, {"template_expression"})

\* classify_probe_path: the first family whose markers are all there.
ProbeFamilies ==
    <<<<{"cgi-bin", "bin/sh"}, "cgi_shell_traversal">>,
      <<{"command_payload"}, "command_injection">>,
      <<{"pearcmd", "config-create"}, "php_config_injection">>,
      <<{"traversal", "php_code", "/tmp/"}, "php_config_injection">>,
      <<{"traversal", "php_code", "config-create"}, "php_config_injection">>,
      <<{"traversal", "/etc/passwd"}, "lfi_file_read">>,
      <<{"php_stream_wrapper"}, "php_stream_wrapper">>,
      <<{"jndi"}, "java_jndi_injection">>,
      <<{"cloud_metadata"}, "ssrf_metadata">>,
      <<{"template_expression"}, "template_injection">>,
      <<{"serialized_object"}, "deserialization_probe">>,
      <<{"sql_payload"}, "sql_injection">>,
      <<{"vendor/phpunit", "eval-stdin.php"}, "phpunit_eval_stdin">>,
      <<{".env"}, "env_file">>, <<{"/.git"}, "git_exposure">>, <<{"wp-admin"}, "wordpress_admin">>,
      <<{"phpmyadmin"}, "phpmyadmin">>, <<{"boaform"}, "boaform">>, <<{"actuator"}, "actuator">>,
      <<{"server-status"}, "server_status">>, <<{"/etc/passwd"}, "path_traversal">>,
      <<{"../"}, "path_traversal">>, <<{"cgi-bin"}, "generic_cgi">>>>

ClassifyProbePath(markers) ==
    LET hits == SelectSeq(ProbeFamilies, LAMBDA p : p[1] \subseteq markers \cup PayloadClasses(markers))
    IN IF hits = <<>> THEN "" ELSE Head(hits)[2]

\* blocks_on_single_attempt, is_exploit, and the families of the three
\* severity tables.
SingleAttemptFamilies ==
    {"cgi_shell_traversal", "command_injection", "php_config_injection", "lfi_file_read",
     "php_stream_wrapper", "java_jndi_injection", "ssrf_metadata", "phpunit_eval_stdin"}
ExploitFamilies == SingleAttemptFamilies \cup {"template_injection", "deserialization_probe", "sql_injection"}
ExposureFamilies == ExploitFamilies \cup {"env_file", "git_exposure", "path_traversal"}

BaseSeverity(family) == IF family \in ExploitFamilies \ {"phpunit_eval_stdin"} THEN Medium ELSE Low
SuccessSeverity(family) == IF family \in ExposureFamilies THEN High ELSE Medium
ProtectedSeverity(family) == IF family \in ExposureFamilies THEN Medium ELSE Low

\* ResponseProfile::from_status
ResponseProfile(status) ==
    CASE status \in 200..299 -> "successful_response"
      [] status \in {401, 403} -> "protected_response"
      [] status \in 300..399 -> "redirected_response"
      [] status \in (400..499) \ {401, 403} -> "missing_or_rejected"
      [] status \in 500..599 -> "server_error"
      [] OTHER -> "unknown_response"

\* severity_for
ProbeSeverity(family, response) ==
    CASE response = "successful_response" -> SuccessSeverity(family)
      [] response = "protected_response" -> ProtectedSeverity(family)
      [] response = "server_error" -> Medium
      [] OTHER -> BaseSeverity(family)

\* risk_rank
ResponseRank(response) ==
    CASE response = "successful_response" -> 5
      [] response = "protected_response" -> 4
      [] response = "server_error" -> 3
      [] response = "missing_or_rejected" -> 2
      [] response = "redirected_response" -> 1
      [] OTHER -> 0

\* probe_pair_rank, with severities counted from 0 as severity_rank does
ProbeRank(family, response) ==
    (ProbeSeverity(family, response) - 1) * 100 + ResponseRank(response) * 10
        + (SuccessSeverity(family) - 1) * 2 + (IF family \in ExploitFamilies THEN 1 ELSE 0)

Family(e) == ClassifyProbePath(e.markers)

\* The events detect_web_events does not skip.
WebEvents(events, c) ==
    {e \in events : /\ e.kind = "web_access"
                    /\ e.ip \notin c.allowed_ips
                    /\ ~("proxy_source_unresolved" \in e.tags /\ c.suppress_unresolved_trusted_proxy)}

\* ProbeGroup::push over the probes of one source: the pair of the highest
\* rank.  Of two probes of equal rank the one first in the log wins; either may
\* be first.
Strongest(probes) ==
    LET Rank(e) == ProbeRank(Family(e), ResponseProfile(e.status))
    IN CHOOSE e \in probes : \A o \in probes : Rank(e) >= Rank(o)

\* web_probe_group: the severity is the maximum, family and response are those
\* of the strongest probe, the count is of all of them.
ProbeFinding(ip, probes) ==
    LET strongest == Strongest(probes)
        severity == Max({ProbeSeverity(Family(e), ResponseProfile(e.status)) : e \in probes})
    IN [SourceFinding("WEB-001", "Web", severity, <<ip>>, ip)
          EXCEPT !.count = MapThenSumSet(LAMBDA e : e.n, probes),
                 !.probe = [family |-> Family(strongest), response |-> ResponseProfile(strongest.status),
                            families |-> {Family(e) : e \in probes}],
                 !.ev = (UNION {e.tags : e \in probes}) \cap {"proxy_source_unresolved"}]

WebErrorBurst(ip, errors) == [SourceFinding("WEB-002", "Web", Low, <<ip>>, ip) EXCEPT !.count = errors]

\* Per source: its probes, or its errors when it sent none.
SourceFindings(web, c) ==
    LET Probes(ip) == {e \in web : e.ip = ip /\ Family(e) # ""}
        Errors(ip) == MapThenSumSet(LAMBDA e : e.n, {e \in web : e.ip = ip /\ e.status \in {403, 404}})
        sources == {e.ip : e \in web}
    IN {ProbeFinding(ip, Probes(ip)) : ip \in {s \in sources : Probes(s) # {}}}
       \cup {WebErrorBurst(ip, Errors(ip)) :
               ip \in {s \in sources : Probes(s) = {} /\ Errors(s) >= c.error_burst_threshold}}

WebFindings(events, c) == SourceFindings(WebEvents(events, c), c)

=============================================================================
