-------------------------- MODULE NetworkDetector ---------------------------
(* network_rules.rs: public listeners, judged together with the process      *)
(* snapshot and the outbound connections of their pid and with the firewall  *)
(* state.  A listener event carries its port (0 when it does not parse), the *)
(* class of its executable (`exe`), the features of its command line (`cmd`) *)
(* and its other facts (`tags`).                                             *)
EXTENDS ProcessDetector

ListenerKinds == {"listening_socket", "listening_socket_owner_changed"}
NoContext == [outbound |-> 0, tags |-> {}]

\* enrich_listener_package_identity: a missing package owner is noticed only
\* when it was asked for.
ProcessContext(p, events) ==
    LET outbound == OutboundProfile(events, p.pid).outbound
        queried == /\ p.exe # "none"
                   /\ \/ p.exe \in SuspiciousDirs
                      \/ p.tags \cap {"hidden", "shell_or_scheduler_parent", "execstart_match",
                                      "execstart_mismatch"} # {}
                      \/ outbound > 0
                      \/ p.sockets = ManySockets
    IN [outbound |-> outbound, tags |-> IF queried THEN p.tags ELSE p.tags \ {"unowned"}]

\* process_context_by_pid
ListenerContext(e, events) ==
    LET owners == {p \in events : p.kind = "process_snapshot" /\ p.pid = e.pid}
    IN IF owners = {} THEN NoContext ELSE ProcessContext(CHOOSE p \in owners : TRUE, events)

ExecStartMismatch(ctx) == Has(ctx, "execstart_mismatch")

\* ListenerRiskProfile::from_event.  The score of the listener alone decides
\* which facts of its process count.
ListenerScore(e, ctx) ==
    LET traits == {<<50, "suspicious_executable_path", e.exe \in SuspiciousDirs>>,
                   <<40, "deleted_listener_executable", Deleted(e)>>,
                   <<70, "network_execution_bridge", Bridge(e)>>,
                   <<70, "known_bad_tool", KnownTool(e)>>,
                   <<35, "interactive_shell_listener", Has(e, "shell_name")>>,
                   <<30, "systemd_execstart_mismatch", ExecStartMismatch(ctx)>>}
        s0 == SumScore(traits)
        s1 == s0 + (IF ctx.outbound = FanoutOutbound THEN 30
                    ELSE IF ctx.outbound > 0 /\ s0 > 0 THEN 15 ELSE 0)
        s2 == s1 + (IF /\ Has(ctx, "unowned")
                       /\ s0 > 0 \/ Has(e, "hidden") \/ ShellParent(ctx)
                    THEN 35 ELSE 0)
        s3 == s2 + (IF ShellParent(ctx) /\ (s2 > 0 \/ ctx.outbound > 0) THEN 20 ELSE 0)
        s4 == s3 + (IF Has(ctx, "root") /\ ~Has(ctx, "container") /\ s3 >= 45 THEN 15 ELSE 0)
    IN IF Allowlisted(e) THEN 0
       ELSE s4 + (IF e.kind = "listening_socket_owner_changed" /\ s4 > 0 THEN 20 ELSE 0)

\* managed_service_listener
ManagedListener(e) ==
    /\ e.tags \cap {"systemd_unit", "container"} # {}
    /\ e.exe \notin SuspiciousDirs \cup {"none"}
    /\ e.tags \cap {"hidden", "shell_name"} = {}
    /\ ~Bridge(e)

\* firewall_context, protects_tcp_port: the first firewall_state event counts.
FirewallEvents(events) == {f \in events : f.kind = "firewall_state"}
ProtectedByFirewall(e, events) ==
    Has(e, "tcp") /\ \E f \in FirewallEvents(events) : e.port \in f.protected

\* socket_evidence_with_context
SocketEvidence(e, events) ==
    {"public_addr"}
        \cup When(e.kind = "listening_socket_owner_changed", {"owner_changed"})
        \cup When(FirewallEvents(events) # {}, {"firewall_status"})

\* listener_subject: wildcard addresses are written alike.
ListenerFinding(rule, cat, sev, e, events) ==
    [F(rule, cat, sev, <<"*", ToString(e.port)>>, SocketEvidence(e, events)) EXCEPT !.process = e.name]

PublicListen(e, events) ==
    [ListenerFinding("NET-001", "Network", Medium, e, events)
       EXCEPT !.ev = @ \cup When(ManagedListener(e), {"managed_service_listener"})]
OwnerChanged(e, events) == ListenerFinding("NET-002", "Network", Medium, e, events)
SuspiciousListener(e, events, score) == Scored(ListenerFinding("NET-003", "Network", High, e, events), score)
RiskyPort(e, events) == ListenerFinding("CONFIG-003", "ConfigRisk", High, e, events)

\* PortPolicy: both lists of expected ports count.
ExpectedPublic(port, c) == port \in c.expected_public_ports \cup c.public_listen_allowlist

\* detect_network_events: the first rule that applies; the firewall excuses an
\* exposed port, never a suspicious process.
ListenerFindings(e, events, c) ==
    LET score == ListenerScore(e, ListenerContext(e, events))
        exposed == ~ExpectedPublic(e.port, c) /\ ~ProtectedByFirewall(e, events)
    IN IF \/ e.port = 0
          \/ ~Has(e, "public")
          \/ e.port \in c.allowlisted_ports
       THEN {}
       ELSE IF score >= 50 THEN {SuspiciousListener(e, events, score)}
       ELSE IF e.port \in c.high_risk_public_ports THEN When(exposed, {RiskyPort(e, events)})
       ELSE IF e.kind = "listening_socket_owner_changed" THEN {OwnerChanged(e, events)}
       ELSE When(exposed /\ Has(e, "from_baseline") /\ c.alert_on_new_listening_port /\ Has(e, "tcp"),
                 {PublicListen(e, events)})

\* One finding per listener_alert_key: findings about one listener and owner
\* with the same rule are one finding here.
NetworkFindings(events, c) ==
    UNION {ListenerFindings(e, events, c) : e \in {f \in events : f.kind \in ListenerKinds}}

=============================================================================
