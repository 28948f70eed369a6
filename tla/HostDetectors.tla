--------------------------- MODULE HostDetectors ----------------------------
(* The detectors that judge one host fact at a time: files, persistence,     *)
(* accounts, SSH logins, logs, audit records, sshd options, preload entries  *)
(* and the docker socket.  A raw event is a record with a kind, the thing it *)
(* is about and the set of facts (`tags`) its fields carry; a path is one    *)
(* representative of each class of paths the code tells apart.               *)
EXTENDS Findings

AuthorizedKeysPaths == {"authorized_keys"}
AccountFiles == {"/etc/passwd"}
CriticalPaths ==
    AccountFiles \cup {"/etc/sudoers", "/etc/ld.so.preload", "/etc/cron.d/job", "/etc/systemd/unit"}
WebScriptPaths == {"/www/shell.php"}
SecuritySensitivePaths == AuthorizedKeysPaths \cup AccountFiles \cup {"/etc/sudoers"}

FileDiffKinds == {"file_created", "file_modified", "file_deleted"}

\* The semantic facts that diff_evidence copies from the diff event.
DiffEvidence(e) ==
    {"change"} \cup (e.tags \cap {"semantic_delta", "risky_semantic", "ld_preload"})
        \cup When(e.path \in SecuritySensitivePaths, {"sensitive_path"})

PackageEvidence(pkg) == When(pkg, {"package_activity"})

-----------------------------------------------------------------------------
(* command_profile.rs: the combinations of command features that bridge a    *)
(* network channel into execution.                                           *)

\* assess_network_execution
NetworkExecutionScore(features) ==
    MaxScore({<<90, "dev_tcp_bridge", {"dev_tcp", "interactive_shell", "fd_duplication"} \subseteq features>>,
              <<90, "socket_dup_shell",
                {"inline_interpreter", "socket_api", "fd_duplication", "shell_target"} \subseteq features>>,
              <<85, "shell_exec_bridge", {"network_channel", "exec_bridge", "shell_target"} \subseteq features>>,
              <<75, "system_bridge", {"network_channel", "system_bridge"} \subseteq features>>,
              <<80, "tty_bridge", {"network_channel", "shell_target", "tty_allocation"} \subseteq features>>})

\* collect_features: a /dev/tcp path is a network channel as well.
CommandFeatures(markers) ==
    markers \cup When("dev_tcp" \in markers, {"network_channel"})

NetworkExecution(markers) == NetworkExecutionScore(CommandFeatures(markers)) >= 70

-----------------------------------------------------------------------------
(* file_rules.rs                                                             *)

\* The classes of content markers the collector reports.
CommandExecutionMarkers == {"system_call", "shell_exec", "passthru", "dev_tcp", "cmd_exe"}
DynamicExecutionMarkers == {"eval_call", "assert_call"}
EncodedPayloadMarkers == {"base64_decode", "long_base64"}
ContentMarkers ==
    CommandExecutionMarkers \cup DynamicExecutionMarkers \cup EncodedPayloadMarkers \cup {"other_marker"}

\* webshell_content_assessment
WebshellScore(e) ==
    LET command == e.tags \cap CommandExecutionMarkers # {}
        dynamic == e.tags \cap DynamicExecutionMarkers # {}
        encoded == e.tags \cap EncodedPayloadMarkers # {}
        context == "is_web_path" \in e.tags /\ "script" \in e.tags
        base == {<<55, "command_execution_marker", command>>,
                 <<40, "dynamic_code_marker", dynamic>>,
                 <<35, "encoded_payload_marker", encoded>>,
                 <<60, "web_script_context", context>>,
                 <<80, "web_command_execution", command /\ context>>,
                 <<85, "encoded_dynamic_execution", dynamic /\ encoded>>,
                 <<90, "encoded_command_execution", command /\ encoded>>,
                 <<75, "large_encoded_web_script", "long_base64" \in e.tags /\ context>>}
    IN MaxScore(base \cup {<<75, "hidden_suspicious_script", "hidden" \in e.tags /\ MaxScore(base) >= 55>>})

AuthorizedKeysUnsafeState(e) ==
    When(e.tags \cap {"group_writable", "risky_symlink"} # {},
         {PathFinding("SSH-006", "Ssh", High, e.path, {"sensitive_path", "risk"})})

WebshellContent(e, c) ==
    When(WebshellScore(e) >= c.webshell_min_score,
         {Scored(PathFinding("FILE-002", "FileIntegrity", High, e.path, {}), WebshellScore(e))})

ExecutableWebFile(e) ==
    When("is_web_path" \in e.tags /\ ("executable" \in e.tags \/ e.path \in WebScriptPaths),
         {PathFinding("FILE-003", "FileIntegrity", Medium, e.path, {})})

\* A file with markers is judged by its content alone.
FileSnapshotFindings(e, c) ==
    IF e.path \in AuthorizedKeysPaths THEN AuthorizedKeysUnsafeState(e)
    ELSE IF e.tags \cap ContentMarkers # {} THEN WebshellContent(e, c)
    ELSE ExecutableWebFile(e)

AuthorizedKeysChanged(e) == PathFinding("SSH-005", "Ssh", High, e.path, DiffEvidence(e))

CriticalFileChanged(e, pkg) ==
    PathFinding("FILE-001", "FileIntegrity", High, e.path, DiffEvidence(e) \cup PackageEvidence(pkg))

WebshellPathCreated(e) == PathFinding("FILE-002", "FileIntegrity", Medium, e.path, DiffEvidence(e))

FileDiffFindings(e, pkg) ==
    CASE e.path \in AuthorizedKeysPaths -> {AuthorizedKeysChanged(e)}
      [] e.path \in CriticalPaths -> {CriticalFileChanged(e, pkg)}
      [] e.path \in WebScriptPaths /\ e.kind = "file_created" -> {WebshellPathCreated(e)}
      [] OTHER -> {}

\* sensitive_file_activity_path, path_in_configured_roots
SensitiveActivityPath(e) ==
    \/ e.path \in AuthorizedKeysPaths \cup CriticalPaths
    \/ "in_web_root" \in e.tags /\ e.path \in WebScriptPaths

\* sensitive_file_activity: reads are not reported.
FileActivityFindings(e) ==
    When("write_operation" \in e.tags /\ SensitiveActivityPath(e),
         {PathFinding("FILE-004", "FileIntegrity", High, e.path,
            When(e.path \in SecuritySensitivePaths, {"sensitive_path"}))})

FileFindings(e, pkg, c) ==
    IF e.path = "" \/ e.path \in c.file_allowlist THEN {}
    ELSE CASE e.kind \in FileDiffKinds -> FileDiffFindings(e, pkg)
           [] e.kind = "file_snapshot" -> FileSnapshotFindings(e, c)
           [] e.kind = "file_activity" -> FileActivityFindings(e)
           [] OTHER -> {}

-----------------------------------------------------------------------------
(* persistence_rules.rs                                                      *)

\* assess_persistence_line; the entry's score is the maximum over its lines.
PersistenceLineScore(line) ==
    MaxScore({<<90, "network_execution_bridge", NetworkExecution(line)>>,
              <<80, "temporary_path", "temp_path" \in line>>,
              <<85, "download_to_shell", {"downloader", "pipe_to_shell"} \subseteq line>>,
              <<80, "encoded_shell_payload",
                "base64_decode" \in line /\ line \cap {"pipe_to_shell", "eval"} # {}>>})

PersistenceScore(e) == Max({0} \cup {PersistenceLineScore(line) : line \in e.lines})

PersistenceEvidence(e, pkg) == DiffEvidence(e) \cup PackageEvidence(pkg)

PersistenceChanged(e, pkg) == PathFinding("PERSIST-001", "Persistence", High, e.path, PersistenceEvidence(e, pkg))

LdPreloadChanged(e, pkg) == PathFinding("PERSIST-003", "Persistence", High, e.path, PersistenceEvidence(e, pkg))

SuspiciousEntry(e, c) ==
    When(PersistenceScore(e) >= c.suspicious_command_min_score,
         {Scored(PathFinding("PERSIST-002", "Persistence", High, e.path, {}), PersistenceScore(e))})

PersistenceFindings(e, pkg, c) ==
    IF e.path \in c.file_allowlist THEN {}
    ELSE IF e.kind = "persistence_entry" THEN SuspiciousEntry(e, c)
    ELSE IF "ld_preload" \in e.tags THEN {LdPreloadChanged(e, pkg)}
    ELSE {PersistenceChanged(e, pkg)}

-----------------------------------------------------------------------------
(* user_rules.rs                                                             *)

UserEvidence(e) == {"change"} \cup When(e.uid = 0, {"uid0"})

\* likely_package_managed_system_user: only an account below the regular uids.
PackageManagedUser(e, pkg) == pkg /\ e.uid > 0 /\ e.uid < 1000

NewUser(e, pkg) ==
    F("USER-001", "User", IF PackageManagedUser(e, pkg) THEN Low ELSE Medium, <<e.user>>,
      UserEvidence(e) \cup PackageEvidence(pkg))

UidZeroUser(e) == F("USER-002", "Privilege", Critical, <<e.user>>, UserEvidence(e))

UserModified(e) == F("USER-003", "Privilege", High, <<e.user>>, UserEvidence(e))

UserFindings(e, pkg, c) ==
    IF e.user = "" \/ e.user \in c.allowed_users THEN {}
    ELSE CASE e.kind = "user_created" ->
                IF e.uid = 0 /\ e.user # "root" THEN {UidZeroUser(e)} ELSE {NewUser(e, pkg)}
           [] e.kind = "user_uid_changed_to_zero" -> {UidZeroUser(e)}
           [] e.kind = "user_modified" -> {UserModified(e)}
           [] OTHER -> {}

-----------------------------------------------------------------------------
(* ssh_rules.rs: over all login events of the scan.                          *)

Logins(events, c) ==
    {e \in events : /\ e.kind \in {"ssh_auth", "ssh_auth_aggregate"}
                    /\ e.ip \notin c.allowed_ips
                    /\ e.user \notin c.allowed_users}

\* trusted_admin_publickey_login
TrustedAdmin(e, c) == e.user = "root" /\ e.method = "publickey" /\ e.ip \in c.trusted_admin_ips

LoginSubject(e) == <<e.user, e.ip>>

RootLogin(e) == SourceFinding("SSH-001", "Ssh", High, LoginSubject(e), e.ip)
PasswordLogin(e) == SourceFinding("SSH-002", "Ssh", Medium, LoginSubject(e), e.ip)
SuccessfulLogin(e) == SourceFinding("SSH-004", "Ssh", Info, LoginSubject(e), e.ip)

\* A trusted login is reported as information or not at all; another one by the
\* first option that applies.
SuccessFindings(e, c) ==
    CASE TrustedAdmin(e, c) -> When(c.alert_on_trusted_admin_login, {SuccessfulLogin(e)})
      [] ~TrustedAdmin(e, c) /\ c.alert_on_root_login /\ e.user = "root" -> {RootLogin(e)}
      [] /\ ~TrustedAdmin(e, c) /\ ~(c.alert_on_root_login /\ e.user = "root")
         /\ c.alert_on_password_login /\ e.method = "password" -> {PasswordLogin(e)}
      [] OTHER -> When(c.alert_on_successful_login, {SuccessfulLogin(e)})

\* An aggregate whose users are all allowlisted is skipped as a whole; one that
\* keeps a user counts all its failures.
FailureCount(e, c) ==
    IF e.kind = "ssh_auth_aggregate" /\ e.users # {} /\ e.users \subseteq c.allowed_users
    THEN 0 ELSE e.count

Failures(events, ip, c) ==
    MapThenSumSet(LAMBDA e : FailureCount(e, c),
                  {e \in Logins(events, c) : e.outcome = "failure" /\ e.ip = ip})

BruteForce(ip, failures) == [SourceFinding("SSH-003", "Ssh", High, <<ip>>, ip) EXCEPT !.count = failures]

BruteForceSuccess(ip, failures) == [SourceFinding("SSH-007", "Ssh", High, <<ip>>, ip) EXCEPT !.count = failures]

SshFindings(events, c) ==
    LET logins == Logins(events, c)
        successes == {e \in logins : e.outcome = "success"}
        bruteforce == {ip \in {e.ip : e \in logins} : Failures(events, ip, c) >= c.failed_login_threshold}
    IN (UNION {SuccessFindings(e, c) : e \in successes})
       \cup {BruteForce(ip, Failures(events, ip, c)) : ip \in bruteforce}
       \cup {BruteForceSuccess(ip, Failures(events, ip, c)) : ip \in bruteforce \cap {e.ip : e \in successes}}

-----------------------------------------------------------------------------
(* tamper_rules.rs, audit_rules.rs, config_rules.rs, rootkit_rules.rs,       *)
(* docker_rules.rs                                                           *)

\* common_log_evidence
LogEvidence(e) == e.tags \cap {"log_file_missing", "risky_symlink"}

LogRedirected(e) == PathFinding("TAMPER-001", "System", Critical, e.path, LogEvidence(e))
LogTruncated(e) == PathFinding("TAMPER-002", "System", High, e.path, LogEvidence(e))
LogMissing(e) == PathFinding("TAMPER-003", "System", High, e.path, LogEvidence(e))

TamperFindings(e) ==
    When("risky_symlink" \in e.tags, {LogRedirected(e)})
    \cup When("log_size_drop" \in e.tags /\ "recent_rotated_sibling" \notin e.tags, {LogTruncated(e)})
    \cup When("log_file_missing" \in e.tags, {LogMissing(e)})

\* privilege_command_with_noninteractive_shell: `su -c` needs no shell token.
PrivilegeShell(tags) ==
    /\ tags \cap {"sudo", "su", "pkexec"} # {}
    /\ "command_option" \in tags
    /\ "su" \in tags \/ "shell_token" \in tags

\* audit_common_evidence
AuditFinding(rule, cat, sev, e) ==
    [PathFinding(rule, cat, sev, e.path, When(NetworkExecution(e.tags), {"execution_intent"})) EXCEPT !.process = e.comm]

AuditNetworkExecution(e) ==
    Scored(AuditFinding("AUDIT-001", "Process", High, e), NetworkExecutionScore(CommandFeatures(e.tags)))
AuditPrivilegeExecution(e) == Scored(AuditFinding("AUDIT-002", "Privilege", Medium, e), 65)

AuditFindings(e, c) ==
    When(c.auditd_enabled,
         When(NetworkExecution(e.tags), {AuditNetworkExecution(e)})
         \cup When(PrivilegeShell(e.tags), {AuditPrivilegeExecution(e)}))

PasswordAuthEnabled(e) == PathFinding("CONFIG-001", "ConfigRisk", Medium, e.path, {})
RootLoginEnabled(e) == PathFinding("CONFIG-004", "ConfigRisk", High, e.path, {})

ConfigFindings(e) ==
    When("password_authentication_yes" \in e.tags, {PasswordAuthEnabled(e)})
    \cup When("root_login_permitted" \in e.tags, {RootLoginEnabled(e)})

RootkitFindings(e) ==
    When("entries" \in e.tags, {PathFinding("ROOTKIT-003", "Rootkit", High, e.path, {})})

DockerFindings(e) == {PathFinding("DOCKER-001", "Docker", Info, e.path, {})}

-----------------------------------------------------------------------------
PackageActivity(events) == \E e \in events : e.kind = "package_manager_activity"

EventFindings(e, pkg, c) ==
    CASE e.kind \in FileDiffKinds \cup {"file_snapshot", "file_activity"} -> FileFindings(e, pkg, c)
      [] e.kind \in {"persistence_created", "persistence_modified", "persistence_entry"} ->
            PersistenceFindings(e, pkg, c)
      [] e.kind \in {"user_created", "user_uid_changed_to_zero", "user_modified"} -> UserFindings(e, pkg, c)
      [] e.kind = "log_file_snapshot" -> TamperFindings(e)
      [] e.kind = "audit_exec" -> AuditFindings(e, c)
      [] e.kind = "ssh_config_option" -> ConfigFindings(e)
      [] e.kind = "ld_preload_present" -> RootkitFindings(e)
      [] e.kind = "docker_socket" -> DockerFindings(e)
      [] OTHER -> {}

HostFindings(events, c) ==
    SshFindings(events, c) \cup UNION {EventFindings(e, PackageActivity(events), c) : e \in events}

=============================================================================
