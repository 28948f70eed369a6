------------------------------- MODULE Daemon -------------------------------
(***************************************************************************)
(* The daemon's loop (sentinel-agent/src/daemon.rs): reconcile the runtime *)
(* probe, scan, send the scheduled report when its slot is due, then wait   *)
(* for the interval, a reload (SIGHUP) or Ctrl-C.                           *)
(*                                                                         *)
(* Every `.await` and every write the loop can die between is a step of its *)
(* own.  An Option is modelled by a set with at most one element.  The      *)
(* calendar (chrono) and the supervisor (systemd) are external.             *)
(***************************************************************************)
EXTENDS Integers, FiniteSets

CONSTANTS
    Config,          \* configurations SentinelConfig::load accepts
    Midnight,        \* Midnight[z]: the instants at which a day of zone z begins
    SlotAt,          \* SlotAt[z][d][h]: the instant of hour h of the day that begins at d,
                     \* or {} when the clock change skips that hour
    Tolerance,       \* the five minutes maybe_send_scheduled_report allows the clock to lag
    FaultKinds,      \* which faults happen: subset of AllFaultKinds
    MaxFaults,       \* bound: faults per behaviour
    MaxEdits,        \* bound: edits of the configuration file
    MaxTime          \* bound: the last instant

AllFaultKinds == {"storage", "channel", "log", "save", "spawn", "probe", "crash", "clock"}
Zone == DOMAIN Midnight
AllChannel == {"telegram", "email", "webhook", "ntfy", "gotify", "bark", "serverchan",
               "dingtalk", "feishu"}
Instant == UNION {UNION {UNION {SlotAt[z][d][h] : h \in DOMAIN SlotAt[z][d]} :
                            d \in Midnight[z]} : z \in Zone}

ASSUME DaemonAssumption ==
    /\ \A c \in Config :
          /\ c.scheduled \in BOOLEAN
          /\ c.zone \in Zone
          /\ \A d \in Midnight[c.zone] : c.hour \in DOMAIN SlotAt[c.zone][d]
          /\ c.channels \subseteq AllChannel
    /\ \A z \in Zone : Midnight[z] \subseteq Int /\ DOMAIN SlotAt[z] = Midnight[z]
    /\ \A z \in Zone : \A d \in Midnight[z] : \A h \in DOMAIN SlotAt[z][d] :
          /\ \A s \in SlotAt[z][d][h] : s \in Int /\ d <= s
          /\ \A r, s \in SlotAt[z][d][h] : r = s
    /\ FaultKinds \subseteq AllFaultKinds
    /\ {Tolerance, MaxFaults, MaxEdits, MaxTime} \subseteq Nat

VARIABLES
    file,        \* the configuration the file holds, {} when it does not load
    config,      \* the configuration in use
    pc,          \* what the loop does next
    now,         \* the wall clock
    hup,         \* a SIGHUP the daemon has not yet received
    report,      \* the report being sent: the locals of maybe_send_scheduled_report
    sentAt,      \* scheduled_report_state.last_sent_at
    sentSlot,    \* scheduled_report_state.last_scheduled_for
    probe,       \* the runtime probe handle, with whether its child still runs
    faults, edits,  \* bounded environment steps so far
    deliveries,  \* history: how often the report of a slot reached a channel
    unrecorded   \* history: how often such a delivery could not be recorded

vars == <<file, config, pc, now, hup, report, sentAt, sentSlot, probe,
          faults, edits, deliveries, unrecorded>>

reportVars == <<report, sentAt, sentSlot, deliveries, unrecorded>>
envVars == <<file, now, edits>>

-----------------------------------------------------------------------------
(* Configuration and slots.                                                 *)

\* any_notification_channel_enabled
ReportChannel == {"telegram", "email", "webhook", "ntfy", "gotify", "bark", "serverchan"}
AnyChannelEnabled(c) == c.channels \cap ReportChannel # {}

\* The day of zone z that instant t falls in.
InDay(z, d, t) ==
    /\ d \in Midnight[z]
    /\ d <= t
    /\ \A e \in Midnight[z] : e <= t => e <= d

\* scheduled_report_due_slot_at: the slot of t's day, once t has reached it.
DueSlot(c, t) ==
    {s \in UNION {SlotAt[c.zone][d][c.hour] : d \in {e \in Midnight[c.zone] : InDay(c.zone, e, t)}} :
        s <= t}

\* Mutant: only the recorded slot counts.
AlreadySentBySlotOnly(c, s) == s \in sentSlot

\* report_already_sent_for_slot: by the recorded slot, or because the last report was
\* sent when this slot was the due one.
AlreadySent(c, s) == s \in sentSlot \/ \E t \in sentAt : s \in DueSlot(c, t)

\* "scheduled report state is in the future; skipping this scan"
StateInFuture == \E t \in sentAt : t > now + Tolerance

NoReport == [slot |-> 0, started |-> 0, delivered |-> FALSE]

-----------------------------------------------------------------------------
(* Faults.                                                                  *)

Fault(kind) == kind \in FaultKinds /\ faults < MaxFaults /\ faults' = faults + 1

-----------------------------------------------------------------------------
(* The probe.                                                               *)

ProbeOf(launch) == [launch |-> launch, alive |-> TRUE]

\* Mutant: any running probe will do.
ProbeCurrentIfAlive == \E p \in probe : p.alive

\* handle.launch() == &desired && handle.is_running()
ProbeCurrent == \E l \in config.probe : probe = {ProbeOf(l)}

\* reconcile_runtime_probe.  A stale or dead probe is stopped before a new one is
\* spawned; a handle that is dropped stops its child too.
ReconcileProbe ==
    \/ /\ config.probe = {}
       /\ probe' = {}
       /\ UNCHANGED faults
    \/ /\ ProbeCurrent
       /\ UNCHANGED <<probe, faults>>
    \/ /\ config.probe # {} /\ ~ProbeCurrent
       /\ \/ probe' = {ProbeOf(l) : l \in config.probe} /\ UNCHANGED faults
          \/ probe' = {} /\ Fault("spawn")

\* bpftrace ends by itself.
ProbeExits ==
    /\ \E p \in probe : p.alive /\ probe' = {[p EXCEPT !.alive = FALSE]}
    /\ Fault("probe")
    /\ UNCHANGED <<config, pc, hup, reportVars, envVars>>

-----------------------------------------------------------------------------
(* The loop.                                                                *)

\* The daemon reconciles when it starts, at the head of every round and after a reload.
Reconcile ==
    /\ pc \in {"start", "loop", "reloaded"}
    /\ ReconcileProbe
    /\ pc' = IF pc = "loop" THEN "scan" ELSE "loop"
    /\ UNCHANGED <<config, hup, reportVars, envVars>>

\* run_scan: whether it succeeds or fails, the round goes on.
Scan ==
    /\ pc = "scan"
    /\ pc' = "report"
    /\ UNCHANGED <<config, hup, probe, faults, reportVars, envVars>>

\* The early returns of maybe_send_scheduled_report.
SkipReport ==
    /\ pc = "report"
    /\ \/ /\ \/ ~config.scheduled
             \/ ~AnyChannelEnabled(config)
             \/ DueSlot(config, now) = {}
             \/ \E s \in DueSlot(config, now) : AlreadySent(config, s)
             \/ StateInFuture
          /\ UNCHANGED faults
       \/ /\ config.scheduled /\ AnyChannelEnabled(config) /\ DueSlot(config, now) # {}
          /\ Fault("storage")   \* the store cannot be opened, read or summarised
    /\ pc' = "select"
    /\ UNCHANGED <<config, hup, probe, reportVars, envVars>>

\* The slot is due and not yet reported: `now` is read here, once.
BeginReport ==
    /\ pc = "report"
    /\ config.scheduled
    /\ AnyChannelEnabled(config)
    /\ \E s \in DueSlot(config, now) :
          /\ ~AlreadySent(config, s)
          /\ report' = [slot |-> s, started |-> now, delivered |-> FALSE]
    /\ ~StateInFuture
    /\ pc' = "send"
    /\ UNCHANGED <<config, hup, probe, faults, sentAt, sentSlot, deliveries, unrecorded, envVars>>

\* notify_all_channels: the report goes to every channel before anything is logged.
SendReport ==
    /\ pc = "send"
    /\ \/ UNCHANGED faults /\ report' = [report EXCEPT !.delivered = TRUE]
       \/ /\ Fault("channel")   \* some channels fail, or all of them
          /\ \E got \in (IF Cardinality(config.channels) > 1 THEN BOOLEAN ELSE {FALSE}) :
                report' = [report EXCEPT !.delivered = got]
    /\ deliveries' = IF report'.delivered
                     THEN [deliveries EXCEPT ![report.slot] = @ + 1] ELSE deliveries
    /\ pc' = "log"
    /\ UNCHANGED <<config, hup, probe, sentAt, sentSlot, unrecorded, envVars>>

\* A delivery the state never learns of.
Unrecord ==
    unrecorded' = IF pc \in {"log", "save"} /\ report.delivered
                  THEN [unrecorded EXCEPT ![report.slot] = @ + 1] ELSE unrecorded

\* Mutant: the state is saved although no channel took the report.
LogReportAlwaysSave ==
    /\ pc = "log"
    /\ pc' = "save"
    /\ UNCHANGED <<config, hup, probe, faults, reportVars, envVars>>

\* record_notification_log: an error leaves send_report_finding, and the state unsaved.
LogReport ==
    /\ pc = "log"
    /\ \/ /\ pc' = IF report.delivered THEN "save" ELSE "select"
          /\ report' = IF report.delivered THEN report ELSE NoReport
          /\ UNCHANGED <<faults, unrecorded>>
       \/ /\ Fault("log")
          /\ pc' = "select"
          /\ report' = NoReport
          /\ Unrecord
    /\ UNCHANGED <<config, hup, probe, sentAt, sentSlot, deliveries, envVars>>

\* store.save_rule_state(scheduled_report_state)
SaveReport ==
    /\ pc = "save"
    /\ \/ /\ sentAt' = {report.started}
          /\ sentSlot' = {report.slot}
          /\ UNCHANGED <<faults, unrecorded>>
       \/ /\ Fault("save")
          /\ Unrecord
          /\ UNCHANGED <<sentAt, sentSlot>>
    /\ report' = NoReport
    /\ pc' = "select"
    /\ UNCHANGED <<config, hup, probe, deliveries, envVars>>

\* reload_config: a file that does not load leaves the configuration alone.
ReloadConfig ==
    /\ \/ file = {} /\ UNCHANGED config
       \/ config' \in file
    /\ hup' = FALSE
    /\ pc' = "reloaded"
    /\ UNCHANGED <<probe, faults, reportVars, envVars>>

\* Mutant: the interval is preferred to a pending reload.
SelectIntervalFirst ==
    /\ pc = "select"
    /\ pc' = "wait"
    /\ UNCHANGED <<config, hup, probe, faults, reportVars, envVars>>

\* The first poll of tokio::select!: the interval (never zero) has not passed yet, so a
\* reload that is already pending is taken.
Select ==
    /\ pc = "select"
    /\ \/ hup /\ ReloadConfig
       \/ ~hup /\ pc' = "wait" /\ UNCHANGED <<config, hup, probe, faults, reportVars, envVars>>

\* While the daemon waits, the interval and a reload may be ready together.
Wake ==
    /\ pc = "wait"
    /\ pc' = "loop"
    /\ UNCHANGED <<config, hup, probe, faults, reportVars, envVars>>

ReloadWhileWaiting == pc = "wait" /\ hup /\ ReloadConfig

\* Ctrl-C is listened for only while the daemon waits; dropping the handle stops the probe.
CtrlC ==
    /\ pc = "wait"
    /\ pc' = "down"
    /\ probe' = {}
    /\ hup' = FALSE
    /\ UNCHANGED <<config, faults, reportVars, envVars>>

\* The process dies; bpftrace loses the reader of its output and ends.
Crash ==
    /\ pc # "down"
    /\ Fault("crash")
    /\ Unrecord
    /\ pc' = "down"
    /\ report' = NoReport
    /\ probe' = {}
    /\ hup' = FALSE
    /\ UNCHANGED <<config, sentAt, sentSlot, deliveries, envVars>>

\* systemd starts the daemon again (Restart=always), which loads the file or exits.
Restart ==
    /\ pc = "down"
    /\ \/ file = {} /\ UNCHANGED <<pc, config>>
       \/ config' \in file /\ pc' = "start"
    /\ UNCHANGED <<hup, probe, faults, reportVars, envVars>>

-----------------------------------------------------------------------------
(* Environment.                                                             *)

Tick ==
    /\ now < MaxTime
    /\ now' = now + 1
    /\ UNCHANGED <<file, config, pc, hup, probe, faults, edits, reportVars>>

\* The administrator or NTP sets the clock.
StepClock ==
    /\ now' \in 0..MaxTime
    /\ Fault("clock")
    /\ UNCHANGED <<file, config, pc, hup, probe, edits, reportVars>>

EditFile ==
    /\ edits < MaxEdits
    /\ edits' = edits + 1
    /\ file' \in {{}} \cup {{c} : c \in Config}
    /\ file' # file
    /\ UNCHANGED <<config, pc, now, hup, probe, faults, reportVars>>

\* kill -HUP: pending until the daemon waits; several coalesce.
SendHup ==
    /\ pc # "down" /\ ~hup
    /\ hup' = TRUE
    /\ UNCHANGED <<config, pc, probe, faults, reportVars, envVars>>

-----------------------------------------------------------------------------
Init ==
    /\ config \in Config
    /\ file = {config}
    /\ pc = "start"
    /\ now = 0
    /\ hup = FALSE
    /\ report = NoReport
    /\ sentAt = {} /\ sentSlot = {}
    /\ probe = {}
    /\ faults = 0 /\ edits = 0
    /\ deliveries = [s \in Instant |-> 0]
    /\ unrecorded = [s \in Instant |-> 0]

DaemonStep ==
    \/ Reconcile \/ Scan \/ SkipReport \/ BeginReport \/ SendReport \/ LogReport
    \/ SaveReport \/ Select \/ Wake \/ ReloadWhileWaiting

Next ==
    \/ DaemonStep \/ CtrlC \/ Crash \/ Restart
    \/ ProbeExits \/ Tick \/ StepClock \/ EditFile \/ SendHup

Spec == Init /\ [][Next]_vars

\* The loop runs on, systemd restarts it, and time passes.
Fairness == WF_vars(DaemonStep) /\ WF_vars(Restart) /\ WF_vars(Tick)

LiveSpec == Spec /\ Fairness

-----------------------------------------------------------------------------
(* Properties.                                                              *)

Phase == {"start", "loop", "reloaded", "scan", "report", "send", "log", "save",
          "select", "wait", "down"}

\* Every variable stays within its type.
TypeOK ==
    /\ file \subseteq Config /\ config \in Config
    /\ pc \in Phase
    /\ now \in 0..MaxTime
    /\ hup \in BOOLEAN
    /\ report \in [slot : Instant \cup {0}, started : 0..MaxTime, delivered : BOOLEAN]
    /\ sentAt \subseteq 0..MaxTime /\ sentSlot \subseteq Instant
    /\ probe \subseteq [launch : UNION {c.probe : c \in Config}, alive : BOOLEAN]
    /\ faults \in 0..MaxFaults /\ edits \in 0..MaxEdits
    /\ deliveries \in [Instant -> Nat] /\ unrecorded \in [Instant -> Nat]

\* scheduled_report_state: the report of a slot is delivered a second time only when an
\* earlier delivery could not be recorded - whatever hours, time zones and channels
\* reloads switch between, and however long a delivery takes.
ReportedOnce == \A s \in Instant : deliveries[s] <= 1 + unrecorded[s]

\* reconcile_runtime_probe: no round scans while a probe runs that the configuration in
\* use does not ask for, and none runs while the daemon is down.
ProbeMatchesConfig ==
    /\ pc = "scan" => \A p \in probe : p.launch \in config.probe
    /\ pc = "down" => probe = {}

\* docs/config-reference.md "[reports]": a slot that is due under the configuration in
\* use is reported through whichever channels are enabled, unless a report was delivered
\* at or after the slot, the day or the configuration moves on (or no longer loads), or
\* the clock was set back behind the last report.
DueReportDelivered ==
    \A c \in Config : \A s \in Instant :
        (config = c /\ c.scheduled /\ c.channels # {} /\ s \in DueSlot(c, now))
            ~> (\/ deliveries[s] > 0
                \/ \E t \in sentAt : t >= s /\ \E r \in Instant : deliveries[r] > 0
                \/ config # c \/ file = {} \/ s \notin DueSlot(c, now)
                \/ StateInFuture)

\* recv_reload_signal: a reload signalled at any moment of a round takes effect, unless
\* the file changes again or the daemon goes down.
ReloadTakesEffect ==
    \A c \in Config : (hup /\ file = {c}) ~> (config = c \/ file # {c} \/ pc = "down")

=============================================================================
