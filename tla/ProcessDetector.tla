-------------------------- MODULE ProcessDetector ---------------------------
(* process_rules.rs with behavior_profile.rs.  A process event carries the   *)
(* class of its executable path (`exe`) and of its working directory         *)
(* (`cwd`), its socket count, its public outbound count and the set of its   *)
(* other facts (`tags`); `cmd` holds the features of its command line.       *)
(* Outbound connections and GPU use are joined to the process by pid.        *)
EXTENDS HostDetectors

SuspiciousDirs == {"run", "tmp", "suspicious"}       \* path_in_suspicious_dirs
SomeSockets == 1                                     \* below and at the thresholds
ManySockets == 2
FewOutbound == 1                                     \* at most two peers
FanoutOutbound == 3

Has(p, tag) == tag \in p.tags
Bridge(p) == NetworkExecution(p.cmd)

\* is_deleted_executable_path, is_memfd_or_anonymous_path
Deleted(p) == Has(p, "deleted")
Anonymous(p) == Has(p, "memfd")

\* path_in_web_roots: below a broad root (/opt, /srv) only web content counts.
InWebRoots(p) == p.exe = "web" \/ (p.exe = "broad_root" /\ Has(p, "web_content_segment"))

\* suspicious_executable_path_signal
PathSignal(p) ==
    CASE p.exe = "run" -> "runtime_executable_path"
      [] p.exe = "tmp" -> "temporary_executable_path"
      [] OTHER -> "configured_suspicious_executable_path"

\* known_tool_match: the words of the command line count only when nothing
\* names the process.
KnownTool(p) ==
    \/ Has(p, "known_tool")
    \/ Has(p, "tool_in_cmdline") /\ p.exe = "none" /\ p.name = "" /\ ~Has(p, "argv")

\* source_build_context
SourceBuild(p) ==
    /\ p.tags \cap {"rust_tool", "rust_build_artifact"} # {}
    /\ p.tags \cap {"cargo_parent", "build_workdir"} # {}

\* The allowlists of process paths and of command fragments.
Allowlisted(p) == p.tags \cap {"allowlisted_path", "allowlisted_command"} # {}

\* looks_like_kernel_thread_name on a process that has an executable
KernelThreadMasquerade(p) == Has(p, "kernel_thread_name") /\ p.exe # "none" /\ p.cmd # {}

HighCpu(p) == {"cpu_above_threshold", "cpu_long_enough"} \subseteq p.tags
ShellParent(p) == Has(p, "shell_or_scheduler_parent")

\* Mutant: every connection replaces what the earlier ones of its pid said.
OutboundProfileLast(events, pid) ==
    LET mine == {e \in events : e.kind = "outbound_connection" /\ e.pid = pid}
        last == {e \in mine : e = CHOOSE c \in mine : TRUE}
        public == {e \in last : "remote_public" \in e.tags}
    IN [outbound |-> Min({FanoutOutbound, MapThenSumSet(LAMBDA e : e.peers, public)}),
        mining |-> \E e \in last : "mining_pool_port" \in e.tags]

\* outbound_profiles_by_pid: the public peers of one pid, up to the fan-out
\* threshold, and whether one of its connections goes to a mining port.
OutboundProfile(events, pid) ==
    LET mine == {e \in events : e.kind = "outbound_connection" /\ e.pid = pid}
        public == {e \in mine : "remote_public" \in e.tags}
    IN [outbound |-> Min({FanoutOutbound, MapThenSumSet(LAMBDA e : e.peers, public)}),
        mining |-> \E e \in mine : "mining_pool_port" \in e.tags]

\* gpu_context_by_pid: the memory adds up, the utilisation is a maximum.
GpuTags(events, pid) ==
    LET mine == {e \in events : e.kind = "gpu_compute_process" /\ e.pid = pid}
    IN When(MapThenSumSet(LAMBDA e : e.memory, mine) >= 2, {"gpu_memory"})
       \cup UNION {e.tags \cap {"gpu_high_utilization", "gpu_high_power"} : e \in mine}

\* should_query_package_identity: only then is a missing owner noticed.
QueriesPackage(p) ==
    /\ p.exe # "none"
    /\ \/ p.exe \in SuspiciousDirs
       \/ p.tags \cap {"hidden", "kernel_thread_name", "execstart_mismatch"} # {}
       \/ p.outbound > 0
       \/ p.sockets = ManySockets
       \/ HighCpu(p)

\* detect_process_events: the event is enriched before it is judged.
Enriched(p, events) ==
    LET o == OutboundProfile(events, p.pid)
        tags == p.tags \cup GpuTags(events, p.pid) \cup When(o.mining, {"mining_pool_port"})
                    \cup PackageEvidence(PackageActivity(events))
        q == [p EXCEPT !.outbound = Max({p.outbound, o.outbound}), !.tags = tags]
    IN IF QueriesPackage(q) THEN q ELSE [q EXCEPT !.tags = tags \ {"unowned"}]

\* executable_path_assessment
ExecutablePathScore(p) ==
    LET base ==
        {<<IF p.exe = "run" THEN 45 ELSE IF p.exe = "tmp" THEN 75 ELSE 70, PathSignal(p), TRUE>>,
         <<25, "hidden_executable_name", Has(p, "hidden")>>,
         <<30, "deleted_executable_path", Deleted(p)>>,
         <<60, "network_execution_bridge", Bridge(p)>>,
         <<80, "known_bad_tool", KnownTool(p)>>,
         <<20, "public_outbound_connections", p.outbound > 0>>,
         <<20, "many_socket_fds", p.sockets = ManySockets>>,
         <<10, "socket_activity", p.sockets = SomeSockets>>,
         <<25, "sustained_high_cpu", HighCpu(p)>>}
    IN SumScore(base \cup {<<10, "privileged_runtime_process", Has(p, "root") /\ SumScore(base) >= 45>>})

\* deleted_executable_assessment
DeletedScore(p) ==
    MaxScore({<<90, "anonymous_deleted_executable", Anonymous(p)>>,
              <<80, "deleted_suspicious_path", p.exe \in SuspiciousDirs>>,
              <<70, "hidden_nonstandard_executable", Has(p, "hidden") /\ p.exe # "standard">>,
              <<85, "network_execution_bridge", Bridge(p)>>,
              <<85, "known_bad_tool", KnownTool(p)>>,
              <<55, "sustained_high_cpu", HighCpu(p)>>,
              <<45, "shell_process", Has(p, "shell_name")>>})

\* low_risk_interactive_network_operation
LowRiskInteractive(p) ==
    /\ ShellParent(p)
    /\ p.outbound = FewOutbound
    /\ p.sockets < ManySockets
    /\ Has(p, "young")
    /\ p.exe \notin SuspiciousDirs \cup {"none"}
    /\ ~InWebRoots(p)
    /\ p.tags \cap {"hidden", "execstart_mismatch", "kernel_thread_name", "deleted", "memfd"} = {}
    /\ ~HighCpu(p)

\* The signals of behavior_cluster_assessment that do not depend on the score.
ClusterSignals(p) ==
    LET started == ShellParent(p) /\ ~LowRiskInteractive(p)
    IN {<<55, "kernel_thread_masquerade", KernelThreadMasquerade(p)>>,
        <<40, "web_path_executable", InWebRoots(p)>>,
        <<25, "hidden_executable_name", Has(p, "hidden")>>,
        <<10, "runtime_cwd", p.cwd = "run">>,
        <<30, "suspicious_cwd", p.cwd \in SuspiciousDirs \ {"run"}>>,
        <<30, "many_socket_fds", p.sockets = ManySockets>>,
        <<15, "socket_activity", p.sockets = SomeSockets>>,
        <<25, "sustained_high_cpu", HighCpu(p)>>,
        <<20, "public_outbound_connections", p.outbound > 0>>,
        <<35, "public_outbound_fanout", p.outbound = FanoutOutbound>>,
        <<35, "systemd_execstart_mismatch", Has(p, "execstart_mismatch")>>,
        <<45, "unpackaged_network_process",
          /\ Has(p, "unowned") /\ p.outbound > 0
          /\ \/ started
             \/ HighCpu(p)
             \/ p.tags \cap {"hidden", "execstart_mismatch", "kernel_thread_name"} # {}>>,
        <<20, "shell_or_scheduler_parent", started /\ (p.outbound > 0 \/ Has(p, "hidden"))>>}

\* ... and those that are added, in this order, only on top of a score.
ClusterScore(p) ==
    LET s0 == SumScore(ClusterSignals(p))
        networked == p.outbound > 0 \/ p.sockets > 0
        s1 == s0 + (IF Has(p, "start_changed") /\ s0 >= 40 THEN 10 ELSE 0)
        s2 == s1 + (IF Has(p, "new_remote_ports") /\ networked THEN 15 ELSE 0)
                 + (IF Has(p, "public_fanout_drift") /\ p.outbound > 0 THEN 25 ELSE 0)
        s3 == s2 + (IF Has(p, "first_seen") /\ s2 >= 55 /\ networked THEN 5 ELSE 0)
    IN s3 + (IF Has(p, "root") /\ s3 >= 55 THEN 15 ELSE 0)

PrimarySignals ==
    {"kernel_thread_masquerade", "web_path_executable", "hidden_executable_name", "suspicious_cwd",
     "systemd_execstart_mismatch", "unpackaged_network_process"}

Clustered(p) ==
    /\ p.exe # "none" \/ p.cmd # {}
    /\ Features(ClusterSignals(p)) \cap PrimarySignals # {}

\* mining_pool_remote_ports is not empty.
MiningPool(p) == Has(p, "mining_pool_port")

HighGpuUtilization(p) == Has(p, "gpu_high_utilization")
HighGpuPower(p) == Has(p, "gpu_high_power")

\* looks_like_interactive_ml_workspace
MlWorkspace(p) == {"workspace_cwd", "ml_command"} \subseteq p.tags

\* The clusters of gpu_mining_assessment.
PrivilegedGpuCluster(p) == Has(p, "root") /\ p.outbound > 0 /\ HighCpu(p)
ShellStartedGpuCluster(p) == ShellParent(p) /\ p.outbound > 0 /\ ~MlWorkspace(p)
UtilizedMiningCluster(p) == HighGpuUtilization(p) /\ MiningPool(p)
UtilizedIdentityCluster(p) ==
    /\ HighGpuUtilization(p)
    /\ Has(p, "hidden") \/ Deleted(p) \/ Anonymous(p) \/ p.exe \in SuspiciousDirs

\* gpu_mining_assessment
GpuScore(p) ==
    MaxScore({<<90, "known_gpu_miner_identity", KnownTool(p)>>,
              <<90, "gpu_deleted_executable", Deleted(p)>>,
              <<95, "gpu_anonymous_executable", Anonymous(p)>>,
              <<85, "gpu_suspicious_path", p.exe \in SuspiciousDirs>>,
              <<85, "mining_pool_remote_port", MiningPool(p)>>,
              <<90, "gpu_network_execution_bridge", Bridge(p)>>,
              <<55, "gpu_hidden_executable_name", Has(p, "hidden")>>,
              <<35, "gpu_public_outbound_connections", p.outbound > 0>>,
              <<35, "gpu_high_utilization", HighGpuUtilization(p)>>,
              <<25, "gpu_high_power_draw", HighGpuPower(p)>>,
              <<35, "gpu_sustained_high_cpu", HighCpu(p)>>,
              <<45, "gpu_shell_or_scheduler_parent", ShellParent(p)>>,
              <<80, "privileged_gpu_network_cpu_cluster", PrivilegedGpuCluster(p)>>,
              <<80, "shell_started_gpu_public_network_cluster", ShellStartedGpuCluster(p)>>,
              <<80, "hidden_gpu_process_with_public_outbound", Has(p, "hidden") /\ p.outbound > 0>>,
              <<70, "gpu_high_utilization_mining_port_cluster", UtilizedMiningCluster(p)>>,
              <<65, "gpu_high_utilization_suspicious_identity_cluster", UtilizedIdentityCluster(p)>>})

\* process_subject: the path, else the command line, else the name.
ProcessSubject(p) ==
    IF p.exe # "none" THEN <<p.exe>> ELSE IF p.cmd # {} THEN <<"cmdline", p.name>> ELSE <<p.name>>

\* process_evidence, of what later stages read: drift of the process's own
\* history and recent package activity.
ProcessEvidence(p) ==
    When(p.tags \cap {"start_changed", "new_remote_ports", "public_fanout_drift"} # {}, {"state_drift"})
        \cup (p.tags \cap {"package_activity"})
        \cup When(Bridge(p), {"execution_intent"})

ProcessFinding(rule, sev, p, score) ==
    Scored([F(rule, "Process", sev, ProcessSubject(p), ProcessEvidence(p))
              EXCEPT !.path = IF p.exe = "none" THEN "" ELSE p.exe, !.process = p.name, !.pid = p.pid], score)

DeletedExecutable(p, c) ==
    When(Deleted(p) /\ DeletedScore(p) >= c.deleted_executable_min_score,
         {ProcessFinding("PROC-002", High, p, DeletedScore(p))})

\* A source build only excuses the path and the cluster rule.
TempProcess(p, c) ==
    When(p.exe \in SuspiciousDirs /\ ~SourceBuild(p) /\ ExecutablePathScore(p) >= c.behavior_min_score,
         {ProcessFinding("PROC-001", High, p, ExecutablePathScore(p))})

NetworkExecutionBridge(p) ==
    When(Bridge(p), {ProcessFinding("PROC-003", Critical, p, NetworkExecutionScore(CommandFeatures(p.cmd)))})

MinerOrScanner(p) ==
    When(KnownTool(p), {ProcessFinding("PROC-004", Critical, p, IF HighCpu(p) THEN 90 ELSE 70)})

GpuComputeProcess(p, c) ==
    When(Has(p, "gpu_memory") /\ GpuScore(p) >= c.mining_min_score,
         {ProcessFinding("PROC-006", Critical, p, GpuScore(p))})

BehaviorCluster(p, c) ==
    When(Clustered(p) /\ ~SourceBuild(p) /\ ClusterScore(p) >= c.behavior_min_score,
         {ProcessFinding("PROC-005", High, p, ClusterScore(p))})

\* The rules are independent of each other.
ProcessRuleFindings(p, c) ==
    DeletedExecutable(p, c) \cup TempProcess(p, c) \cup NetworkExecutionBridge(p)
        \cup MinerOrScanner(p) \cup GpuComputeProcess(p, c) \cup BehaviorCluster(p, c)

ProcessFindings(events, c) ==
    UNION {ProcessRuleFindings(Enriched(p, events), c) :
             p \in {e \in events : e.kind \in {"process_snapshot", "process_exec"} /\ ~Allowlisted(e)}}

=============================================================================
