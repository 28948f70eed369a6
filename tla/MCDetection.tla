---------------------------- MODULE MCDetection -----------------------------
(* Small hosts for TLC: for each subject a pool of events that interact, and *)
(* the configurations under which they do.                                   *)
EXTENDS Detection

Path(kind, path, tags) == [kind |-> kind, path |-> path, tags |-> tags]
Account(kind, user, uid) == [kind |-> kind, user |-> user, uid |-> uid, tags |-> {}]
Login(kind, ip, user, method, outcome, count) ==
    [kind |-> kind, ip |-> ip, user |-> user, users |-> {user}, method |-> method,
     outcome |-> outcome, count |-> count, tags |-> {}]
Proc(pid, exe, tags, cmd) ==
    [kind |-> "process_snapshot", pid |-> pid, name |-> "app", exe |-> exe, cwd |-> "standard",
     sockets |-> 0, outbound |-> 0, tags |-> tags, cmd |-> cmd]
Outbound(pid, peers, tags) == [kind |-> "outbound_connection", pid |-> pid, peers |-> peers, tags |-> tags]
Gpu(pid, memory, tags) == [kind |-> "gpu_compute_process", pid |-> pid, memory |-> memory, tags |-> tags]
Listener(kind, port, pid, exe, tags) ==
    [kind |-> kind, port |-> port, pid |-> pid, name |-> "srv", exe |-> exe, cmd |-> {}, tags |-> tags]
Request(ip, markers, status, n, tags) ==
    [kind |-> "web_access", ip |-> ip, markers |-> markers, status |-> status, n |-> n, tags |-> tags]
Package == [kind |-> "package_manager_activity", tags |-> {}]

Base ==
    [incremental |-> TRUE, external_rules |-> {}, yara_matches |-> {}, notification_detail_limit |-> 1,
     webshell_min_score |-> 70, file_allowlist |-> {}, suspicious_command_min_score |-> 70,
     allowed_users |-> {}, allowed_ips |-> {"office"}, trusted_admin_ips |-> {},
     alert_on_root_login |-> TRUE, alert_on_password_login |-> TRUE, alert_on_successful_login |-> TRUE,
     alert_on_trusted_admin_login |-> FALSE, alert_on_new_listening_port |-> TRUE,
     failed_login_threshold |-> 6, auditd_enabled |-> TRUE, deleted_executable_min_score |-> 70,
     behavior_min_score |-> 70, mining_min_score |-> 80, expected_public_ports |-> {443}, public_listen_allowlist |-> {},
     allowlisted_ports |-> {}, high_risk_public_ports |-> {6379}, suppress_unresolved_trusted_proxy |-> FALSE,
     error_burst_threshold |-> 20, strategy |-> "balanced", web_enabled |-> TRUE, ssh_enabled |-> TRUE,
     web_probe_block_threshold |-> 20, web_exploit_block_threshold |-> 5,
     ssh_failed_login_block_threshold |-> 10, fingerprint_response_enabled |-> TRUE,
     block_ttl |-> 1, max_layered_ttl |-> 3, permanent_block_threshold |-> 3, policies |-> <<>>,
     trusted_proxies |-> {"proxy"}, public_ips |-> {"bad", "worse", "office", "proxy"},
     threat_indicators |-> {}, threat_intel_bonus |-> 10, active_response_bonus |-> 5, rootkit_bonus |-> 8,
     state_drift_deduction |-> 10, maintenance |-> FALSE, suppress_baseline_drift |-> TRUE,
     suppress_interactive_logins |-> TRUE, max_findings_per_scan |-> 10, suppressed_rules |-> {},
     suppress_entries |-> {}, incidents_enabled |-> TRUE]

\* Drift of files, persistence and accounts, next to package activity.
DriftEvents ==
    {Path("file_modified", "/etc/passwd", {"semantic_delta"}), Path("file_modified", "/etc/sudoers", {"risky_semantic"}),
     Path("file_deleted", "authorized_keys", {}), Path("file_created", "/etc/systemd/unit", {}),
     Path("persistence_modified", "/etc/systemd/unit", {"semantic_delta"}),
     Path("persistence_created", "/etc/ld.so.preload", {"ld_preload"}),
     Account("user_created", "deploy", 500), Account("user_created", "toor", 0), Account("user_modified", "deploy", 500),
     Package}

\* The state of files and logs.
StateEvents ==
    {Path("file_snapshot", "authorized_keys", {"group_writable"}), Path("file_modified", "/www/index.html", {}),
     Path("file_snapshot", "/www/index.html", {"is_web_path", "executable"}),
     Path("file_snapshot", "/www/shell.php", {"is_web_path", "script", "shell_exec"}),
     Path("file_created", "/www/shell.php", {}), Path("file_activity", "/etc/sudoers", {"write_operation"}),
     Path("log_file_snapshot", "/var/log/auth.log", {"log_size_drop"}),
     Path("audit_exec", "/bin/bash", {"dev_tcp", "interactive_shell", "fd_duplication"}) @@ [comm |-> "bash"],
     Path("audit_exec", "/usr/bin/su", {"su", "command_option"}) @@ [comm |-> "su"],
     Path("ssh_config_option", "sshd_config", {"root_login_permitted", "password_authentication_yes"}),
     Path("ld_preload_present", "/etc/ld.so.preload", {"entries"}), Path("docker_socket", "docker.sock", {}),
     Path("persistence_entry", "/etc/cron.d/job", {})
        @@ [lines |-> {{"downloader", "pipe_to_shell"}}]}

\* Logins and requests of two sources, an office and a proxy.
SourceEvents ==
    {Login("ssh_auth_aggregate", "bad", "", "", "failure", 8), Login("ssh_auth", "bad", "root", "password", "success", 1),
     Login("ssh_auth", "bad", "admin", "password", "failure", 3), Login("ssh_auth", "office", "root", "publickey", "success", 1),
     Login("ssh_auth_aggregate", "worse", "", "", "failure", 20),
     Request("bad", {"../", "/etc/passwd"}, 404, 1, {}), Request("bad", {"sql_payload"}, 500, 6, {}),
     Request("bad", {}, 404, 25, {}), Request("worse", {".env"}, 200, 1, {}),
     Request("proxy", {"jndi"}, 404, 1, {"proxy_source_unresolved"}), Request("proxy", {"actuator"}, 404, 30, {})}

\* One process with everything that is joined to it, and its listener.
ProcessEvents ==
    {Proc("7", "usr", {"unowned", "young", "root", "first_seen", "shell_or_scheduler_parent"}, {"args"}),
     Proc("6", "standard", {"execstart_mismatch", "start_changed"}, {"args"}),
     [Proc("8", "tmp", {"deleted", "known_tool", "cpu_above_threshold", "cpu_long_enough"}, {"args"}) EXCEPT !.sockets = ManySockets],
     [Proc("9", "none", {"kernel_thread_name", "new_remote_ports"}, {"dev_tcp", "interactive_shell", "fd_duplication"})
        EXCEPT !.cwd = "tmp"],
     Outbound("7", 1, {"remote_public"}), Outbound("6", 1, {"remote_public"}), Outbound("6", 3, {"remote_public"}), Outbound("9", 2, {"remote_public", "mining_pool_port"}),
     Gpu("9", 2, {"gpu_high_utilization"}), Gpu("7", 1, {"gpu_high_power"}),
     Listener("listening_socket", 8080, "7", "usr", {"public", "tcp", "from_baseline", "systemd_unit"}),
     Listener("listening_socket_owner_changed", 443, "6", "standard", {"public", "tcp"}),
     Listener("listening_socket", 6379, "8", "tmp", {"public", "tcp", "shell_name"}),
     Listener("listening_socket", 6379, "0", "usr", {"public", "tcp"}),
     Package, [kind |-> "firewall_state", protected |-> {6379, 8080}, tags |-> {}]}

InMaintenance(c) == [c EXCEPT !.maintenance = TRUE]
Strict(c) == [c EXCEPT !.strategy = "strict", !.policies =
    <<[enabled |-> TRUE, rules |-> {"WEB-001"}, categories |-> {}, min_severity |-> Medium, min_confidence |-> 40,
       min_unified_score |-> 60, action |-> "permanent_block", ttl |-> 2, permanent_after |-> 1]>>]

MCInputs ==
    ({Base, InMaintenance(Base), [Base EXCEPT !.max_findings_per_scan = 1, !.suppressed_rules = {"USER-001"}]} \X {DriftEvents})
    \cup ({Base, [Base EXCEPT !.incremental = FALSE, !.threat_indicators = {"/www/shell.php"},
                              !.external_rules = {[readable |-> TRUE, id |-> "web", kind |-> "file_snapshot", fields |-> {"executable"},
                                                   category |-> "Web", severity |-> Medium]},
                              !.yara_matches = {<<"shell", "/www/shell.php">>}]} \X {StateEvents})
    \cup ({Base, InMaintenance(Base), Strict(Base),
           [Base EXCEPT !.notification_detail_limit = 0,
                        !.suppress_entries = {[expired |-> FALSE, rules |-> {"SSH-003"}, subjects |-> {<<"worse">>}]}]}
          \X {SourceEvents})
    \cup ({Base} \X {ProcessEvents})

\* A scanner that tries several families, one of them a single time.
ProbeInputs ==
    {<<Base, {Request("bad", {"../", "/etc/passwd"}, 404, 1, {}), Request("bad", {".env"}, 403, 1, {}),
              Request("bad", {"sql_payload"}, 404, 2, {}), Request("bad", {"wp-admin"}, 500, 1, {})}>>}

=============================================================================
