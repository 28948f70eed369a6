------------------------------ MODULE ScanMemory ------------------------------
(***************************************************************************)
(* What scans remember of the host from one to the next in rule_state rows  *)
(* and compare the host with: the service profile, the sizes of log files,  *)
(* the start times of processes and the behaviour of process identities     *)
(* (sentinel-agent scanner.rs, service_profile.rs, local_behavior.rs).      *)
(*                                                                         *)
(* The rows are written one by one before the findings of the scan are      *)
(* saved; the daemon's scan and `vs scan` may overlap, and either may be    *)
(* aborted between two writes.                                              *)
(*                                                                         *)
(* A host is [sockets, packages, logs, starts, traffic]: logs maps a path   *)
(* to [size, rotated, file], where file says that it is a regular file,     *)
(* starts a process identity to a start time, traffic a process identity to *)
(* [ports, fanout, process], where process says that the scan has an event  *)
(* of the process itself and not of its connections only.                   *)
(***************************************************************************)
EXTENDS ServiceProfile

CONSTANTS
    Scanner,                     \* processes that scan: the daemon and `vs scan`
    Hosts, FirstHost,            \* what the host may be, and is to begin with
    Configs,                     \* [minPort, paths]: dynamic_udp_min_port, log_integrity.paths
    MinDropBytes, DropPercent,   \* log_integrity.truncate_*
    MinBehaviorObservations,     \* behavior_profile.min_observations_before_drift
    MaxRemotePorts, MaxIdentities, MaxBehaviorAge, FanoutMultiplier, FanoutMinDelta,
    MaxScans, MaxMemoryDisturbances   \* host changes, partial views, failures and aborts

ASSUME ScanMemoryAssumption ==
    /\ FirstHost \in Hosts /\ Configs # {}
    /\ \A c \in Configs : c.minPort \in Nat
    /\ \A h \in Hosts : h.sockets \in Seq(Range(h.sockets))
    /\ {MinDropBytes, DropPercent, MinBehaviorObservations, MaxRemotePorts, MaxIdentities, MaxBehaviorAge,
        FanoutMultiplier, FanoutMinDelta, MaxScans, MaxMemoryDisturbances} \subseteq Nat

VARIABLES
    host,
    config,     \* what a scan that starts now reads
    memory,     \* the rule_state rows: services, logs, starts and behavior
    scans,      \* the locals of each scanner
    found,      \* findings of the scans that saved theirs
    signals,    \* history: what those scans marked for the process detector
    lost,       \* history: the findings and marks of aborted scans
    accepted,   \* history: services the saved profiles took over without a finding
    learned,    \* history: pairs of process identity and port that entered unmarked
    behind,     \* history: scans whose log sizes another scan has replaced since
                \* they compared them
    used        \* bounded steps so far

histories == <<found, signals, lost, accepted, learned, behind>>
memoryVars == <<host, config, memory, scans, histories, used>>

Use(what, bound) == used[what] < bound /\ used' = [used EXCEPT ![what] = @ + 1]
Fails == Use("disturbances", MaxMemoryDisturbances)
Nothing == << >>       \* an empty map, or no row at all

-----------------------------------------------------------------------------
(* Logs and process starts                                                  *)

SignificantDrop(old, cur) ==
    /\ old.file /\ cur.file
    /\ cur.size < old.size /\ old.size - cur.size >= MinDropBytes
    /\ ((old.size - cur.size) * 100) \div old.size >= DropPercent

Dropped(prev, logs) ==
    {p \in DOMAIN prev \cap DOMAIN logs : SignificantDrop(prev[p], logs[p]) /\ ~logs[p].rotated}
Missing(prev, logs, paths) == (DOMAIN prev \cap paths) \ DOMAIN logs

\* Mutant: only the logs that are still there are compared.
LogFlagsPresent(prev, logs, paths) == {<<"log_size_drop", p, prev[p].size>> : p \in Dropped(prev, logs)}

\* enrich_log_integrity_state: what the tamper detector makes findings of.
LogFlags(prev, logs, paths) ==
    {<<"log_size_drop", p, prev[p].size>> : p \in Dropped(prev, logs)}
    \cup {<<"log_file_missing", p, prev[p].size>> : p \in Missing(prev, logs, paths)}

\* enrich_process_start_drift.
StartFlags(prev, starts) ==
    {<<"process_start_changed", i, starts[i]>> :
        i \in {j \in DOMAIN prev \cap DOMAIN starts : prev[j] # starts[j]}}

\* save_process_start_state, save_log_integrity_state: an empty view keeps the row.
Remembered(old, seen) == IF seen = Nothing THEN old ELSE seen

-----------------------------------------------------------------------------
(* The behaviour of process identities                                      *)

FreshIdentity == [count |-> 0, ports |-> {}, fanout |-> 0, seen |-> 0]
Mature(r) == r.count >= MinBehaviorObservations
Saturated(r) == Cardinality(r.ports) >= MaxRemotePorts
FanoutDrift(cur, max) == cur > 0 /\ cur > max * FanoutMultiplier + FanoutMinDelta

\* enrich_events: what the process detector is told, of processes it has an event of.
BehaviorFlags(prev, traffic) ==
    LET mature == {i \in DOMAIN prev \cap DOMAIN traffic : traffic[i].process /\ Mature(prev[i])}
    IN UNION {{<<"new_remote_port", i, p>> :
                 p \in traffic[i].ports \ prev[i].ports} :
              i \in {j \in mature : ~Saturated(prev[j])}}
       \cup {<<"public_fanout", i, traffic[i].fanout>> :
               i \in {j \in mature : FanoutDrift(traffic[j].fanout, prev[j].fanout)}}

\* prune_state, by age and then down to the identities seen last; an identity
\* is a number, its place in the order of names.
Pruned(records, now) ==
    LET young == {i \in DOMAIN records : records[i].seen + MaxBehaviorAge >= now}
        before(i, j) == \/ records[i].seen > records[j].seen
                        \/ records[i].seen = records[j].seen /\ i < j
    IN Restrict(records, {i \in young : Cardinality({j \in young : before(j, i)}) < MaxIdentities})

\* next_state.
NextBehavior(prev, traffic, now) ==
    LET old(i) == IF i \in DOMAIN prev THEN prev[i] ELSE FreshIdentity
        merged(i) == [count |-> old(i).count + 1, seen |-> now,
                      ports |-> Smallest(old(i).ports \cup traffic[i].ports, MaxRemotePorts),
                      fanout |-> Max({old(i).fanout, traffic[i].fanout})]
    IN Pruned([i \in DOMAIN prev \cup DOMAIN traffic |->
                  IF i \in DOMAIN traffic THEN merged(i) ELSE prev[i]], now)

-----------------------------------------------------------------------------
(* The scan                                                                 *)

\* The locals of a scan: row is the behaviour it has loaded, or the evaluation
\* of the services it will save.
ScanLocals(pc, view, conf, flags, row) ==
    [pc |-> pc, view |-> view, config |-> conf, flags |-> flags, row |-> row]
\* The rule_state rows of scans; profiled says that there is one of services,
\* which may be empty.
Remembering(profiled, services, logs, starts, behavior) ==
    [profiled |-> profiled, services |-> services, logs |-> logs, starts |-> starts, behavior |-> behavior]
AnyConfig == CHOOSE c \in Configs : TRUE
Idle == ScanLocals("idle", FirstHost, AnyConfig, {}, Nothing)
ScanAt(p, pc) == scans[p].pc = pc
Go(p, locals) == scans' = [scans EXCEPT ![p] = locals]
Continue(p, pc) == Go(p, ScanLocals(pc, scans[p].view, scans[p].config, scans[p].flags, Nothing))

\* collect_raw_events and apply_raw_event_budget: the logs the configuration
\* names; log snapshots are the first of these events to be dropped, and a
\* collector may fail.
ViewOf(sockets, logs) ==
    [sockets |-> sockets, packages |-> host.packages, logs |-> logs, starts |-> host.starts,
     traffic |-> host.traffic]
FullView == ViewOf(host.sockets, Restrict(host.logs, DOMAIN host.logs \cap config.paths))
PartialViews ==
    {ViewOf(host.sockets, Nothing), ViewOf(Nothing, FullView.logs)}
    \cup {ViewOf(host.sockets, Restrict(host.logs, {p})) : p \in DOMAIN FullView.logs}

CollectView(p) ==
    /\ ScanAt(p, "idle") /\ used.scans < MaxScans
    /\ \E view \in {FullView} \cup PartialViews :
          LET partial == IF view = FullView THEN 0 ELSE 1
          IN /\ used.disturbances + partial <= MaxMemoryDisturbances
             /\ used' = [used EXCEPT !.scans = @ + 1, !.disturbances = @ + partial]
             /\ Go(p, ScanLocals("enrich", view, config, {}, Nothing))
    /\ UNCHANGED <<host, config, memory, histories>>

\* enrich_process_start_drift, enrich_log_integrity_state, and enrich_local_behavior
\* up to its save.  Without a stored row nothing is flagged; a behaviour that
\* cannot be loaded is only warned of.
EnrichEvents(p) ==
    /\ ScanAt(p, "enrich")
    /\ LET view == scans[p].view
           conf == scans[p].config
           flags == LogFlags(memory.logs, view.logs, conf.paths) \cup StartFlags(memory.starts, view.starts)
           drift == BehaviorFlags(memory.behavior, view.traffic)
       IN \/ /\ Go(p, ScanLocals("save_behavior", view, conf, flags \cup drift, memory.behavior))
             /\ UNCHANGED used
          \/ Go(p, ScanLocals("services", view, conf, flags, Nothing)) /\ Fails
    /\ behind' = behind \ {p}
    /\ UNCHANGED <<host, config, memory, found, signals, lost, accepted, learned>>

\* Ports enter unmarked while the identity is learned, when the profile is full,
\* and from connections of which the scan has no process.
UnmarkedPorts(prev, next, traffic) ==
    LET unmarked == {i \in DOMAIN next :
                        \/ i \notin DOMAIN prev
                        \/ ~Mature(prev[i])
                        \/ Saturated(prev[i])
                        \/ i \in DOMAIN traffic /\ ~traffic[i].process}
    IN UNION {{<<i, port>> : port \in next[i].ports} : i \in unmarked}

\* The save of enrich_local_behavior, which may fail with a warning.
SaveBehavior(p) ==
    /\ ScanAt(p, "save_behavior")
    /\ LET loaded == scans[p].row
           traffic == scans[p].view.traffic
           next == NextBehavior(loaded, traffic, used.scans)
       IN \/ traffic = Nothing /\ UNCHANGED <<memory, learned, used>>
          \/ /\ traffic # Nothing
             /\ memory' = [memory EXCEPT !.behavior = next]
             /\ learned' = learned \cup UnmarkedPorts(loaded, next, traffic)
             /\ UNCHANGED used
          \/ traffic # Nothing /\ Fails /\ UNCHANGED <<memory, learned>>
    /\ Continue(p, "services")
    /\ UNCHANGED <<host, config, found, signals, lost, accepted, behind>>

\* evaluate_service_profile, up to the save.  A load that fails is only warned of.
EvaluateServices(p) ==
    /\ ScanAt(p, "services")
    /\ LET view == scans[p].view
           conf == scans[p].config
           seen == CurrentProfile(view.sockets, conf.minPort)
           evaluation == IF memory.profiled
                         THEN NextEvaluation(memory.services, seen, view.packages, conf.minPort)
                         ELSE FirstEvaluation(seen)
       IN \/ seen = Nothing /\ Continue(p, "save_starts") /\ UNCHANGED used
          \/ /\ seen # Nothing
             /\ Go(p, ScanLocals("save_services", view, conf, scans[p].flags, evaluation))
             /\ UNCHANGED used
          \/ seen # Nothing /\ Continue(p, "save_starts") /\ Fails
    /\ UNCHANGED <<host, config, memory, histories>>

\* The findings of the evaluation are returned only when the profile was saved.
SaveServices(p) ==
    /\ ScanAt(p, "save_services")
    /\ LET evaluation == scans[p].row
       IN \/ /\ memory' = Remembering(TRUE, evaluation.profile, memory.logs, memory.starts, memory.behavior)
             /\ accepted' = accepted \cup evaluation.accepted
             /\ Go(p, ScanLocals("save_starts", scans[p].view, scans[p].config,
                                 scans[p].flags \cup evaluation.findings, Nothing))
             /\ UNCHANGED used
          \/ Continue(p, "save_starts") /\ Fails /\ UNCHANGED <<memory, accepted>>
    /\ UNCHANGED <<host, config, found, signals, lost, learned, behind>>

\* run_scan's persist stage: process starts, log sizes, then the findings.
SaveStarts(p) ==
    /\ ScanAt(p, "save_starts")
    /\ memory' = [memory EXCEPT !.starts = Remembered(@, scans[p].view.starts)]
    /\ Continue(p, "save_logs")
    /\ UNCHANGED <<host, config, histories, used>>

Compared == {"save_behavior", "services", "save_services", "save_starts", "save_logs"}
SaveLogs(p) ==
    /\ ScanAt(p, "save_logs")
    /\ memory' = [memory EXCEPT !.logs = Remembered(@, scans[p].view.logs)]
    /\ behind' = IF scans[p].view.logs = Nothing THEN behind
                 ELSE behind \cup {o \in Scanner : scans[o].pc \in Compared}
    /\ Continue(p, "save_found")
    /\ UNCHANGED <<host, config, found, signals, lost, accepted, learned, used>>

\* The marks of processes only add to the evidence of the process detector.
FindingRules == {"new", "drift", "log_size_drop", "log_file_missing"}
SaveFound(p) ==
    /\ ScanAt(p, "save_found")
    /\ LET findings == {f \in scans[p].flags : f[1] \in FindingRules}
       IN found' = found \cup findings /\ signals' = signals \cup (scans[p].flags \ findings)
    /\ Go(p, Idle)
    /\ UNCHANGED <<host, config, memory, lost, accepted, learned, behind, used>>

\* A crash, a signal, or another error of the storage.
Abort(p) ==
    /\ ~ScanAt(p, "idle") /\ Fails
    /\ lost' = lost \cup scans[p].flags
    /\ Go(p, Idle)
    /\ UNCHANGED <<host, config, memory, found, signals, accepted, learned, behind>>

\* `vs service-profile refresh` replaces the profile whole.
RefreshServiceProfile ==
    /\ Use("scans", MaxScans)
    /\ LET now == CurrentProfile(host.sockets, config.minPort)
       IN /\ memory' = Remembering(TRUE, now, memory.logs, memory.starts, memory.behavior)
          /\ accepted' = accepted \cup Accept(now, DOMAIN now, "baseline")
    /\ UNCHANGED <<host, config, scans, found, signals, lost, learned, behind>>

HostMoves ==
    /\ Fails
    /\ \/ \E h \in Hosts \ {host} : host' = h /\ UNCHANGED config
       \/ \E c \in Configs \ {config} : config' = c /\ UNCHANGED host
    /\ UNCHANGED <<memory, scans, histories>>

\* The first scan of an installation, or one after a scan of FirstHost.
MemoryInit ==
    /\ host = FirstHost /\ config \in Configs
    /\ \/ /\ memory = Remembering(FALSE, Nothing, Nothing, Nothing, Nothing)
          /\ accepted = {} /\ learned = {}
       \/ LET first == CurrentProfile(FirstHost.sockets, config.minPort)
              behavior == NextBehavior(Nothing, FirstHost.traffic, 0)
          IN /\ memory = Remembering(TRUE, first, FullView.logs, FirstHost.starts, behavior)
             /\ accepted = Accept(first, DOMAIN first, "baseline")
             /\ learned = UnmarkedPorts(Nothing, behavior, FirstHost.traffic)
    /\ scans = [p \in Scanner |-> Idle]
    /\ found = {} /\ signals = {} /\ lost = {} /\ behind = {}
    /\ used = [what \in {"scans", "disturbances"} |-> 0]

MemoryNext ==
    \/ \E p \in Scanner :
          \/ CollectView(p) \/ EnrichEvents(p) \/ SaveBehavior(p) \/ EvaluateServices(p) \/ SaveServices(p)
          \/ SaveStarts(p) \/ SaveLogs(p) \/ SaveFound(p) \/ Abort(p)
    \/ RefreshServiceProfile \/ HostMoves

MemorySpec == MemoryInit /\ [][MemoryNext]_memoryVars

-----------------------------------------------------------------------------
\* Flagged by a scan that saved its findings, has still to save them, or was aborted.
Flagged == found \cup signals \cup lost \cup UNION {scans[p].flags : p \in Scanner}

\* What says that service k with identity id is known: a finding, or a profile
\* that took it over as a baseline or after package activity.
ToldOf(k, id, flags) == \E rule \in {"new", "drift"} : <<rule, k, id>> \in flags
TakenOver(k, id, taken) == \E reason \in {"baseline", "package"} : <<k, id, reason>> \in taken
\* The same of a process family, on whatever port and with whatever executable.
FamilyKnown(family, flags, taken) ==
    \/ \E f \in flags : f[1] \in {"new", "drift"} /\ f[3].family = family
    \/ \E t \in taken : t[3] \in {"baseline", "package"} /\ t[2].family = family

Accounted(k, r, flags, taken) ==
    \/ r.dynamic /\ ~KnownIdentity(r) /\ r.count < Grace
    \/ ToldOf(k, r.identity, flags) \/ TakenOver(k, r.identity, taken)
    \/ /\ <<k, r.identity, "family">> \in taken
       /\ FamilyKnown(r.identity.family, flags, taken)
AllAccounted(profile, flags, taken) ==
    \A k \in DOMAIN profile :
        profile[k].socket.addr.public => Accounted(k, profile[k], flags, taken)

\* evaluate_service_profile: whatever scans overlap, fail or abort and whatever
\* the configuration becomes, a public service is in the stored profile with an
\* identity that a scan has flagged, or that was taken over as a baseline or
\* after package activity; two exceptions are made, for an owner that is unknown
\* and has not been met Grace times, and for another executable of a family of
\* dynamic UDP services that is itself known.
ServicesVouched == AllAccounted(memory.services, Flagged, accepted)

\* enrich_local_behavior: a port is in the profile of an identity only when a
\* scan has marked it, or when it entered while the identity was learned, while
\* its profile was full, or from connections without an event of the process.
AllMarked(behavior, flags, unmarked) ==
    \A i \in DOMAIN behavior : \A port \in behavior[i].ports :
        <<i, port>> \in unmarked \/ <<"new_remote_port", i, port>> \in flags
PortsMarked == AllMarked(memory.behavior, Flagged, learned)

\* What scans remember of services and ports they will not flag again
\* (evaluate_service_profile, enrich_local_behavior): it was flagged, by a scan
\* that saved its findings, will save them or was aborted, or it is there for
\* one of the reasons the code has for being silent.
ProfilesVouched == ServicesVouched /\ PortsMarked

\* save_log_integrity_state: a scan that replaces the stored sizes of logs has
\* flagged every log that shrank by MinDropBytes and DropPercent from the stored
\* size to the new one, wiped logs included, without having been rotated, and
\* every log it was configured to look at and that is gone; unless another scan
\* has replaced the sizes it compared with.
LogLossFlagged ==
    [][\A s \in Scanner :
          (/\ ScanAt(s, "save_logs") /\ ScanAt(s, "save_found")'
           /\ memory.logs' # memory.logs /\ s \notin behind) =>
             \A p \in Dropped(memory.logs, memory.logs')
                      \cup Missing(memory.logs, memory.logs', scans[s].config.paths) :
                \E f \in scans[s].flags : f[1] \in {"log_size_drop", "log_file_missing"} /\ f[2] = p
      ]_memoryVars
=============================================================================
