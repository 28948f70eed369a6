---------------------------- MODULE DaemonProofs ----------------------------
(***************************************************************************)
(* The daemon reports a slot twice only when a delivery was not recorded:   *)
(* for every calendar, every set of configurations that reloads choose      *)
(* from, every pattern of failures and crashes - as long as the clock is    *)
(* not set, or a recorded time the clock lags behind at all stops reports.  *)
(***************************************************************************)
EXTENDS Daemon, TLAPS

\* The delivery of slot s that the running round still has to record.
Pending(s) == pc \in {"log", "save"} /\ report.delivered /\ report.slot = s

Sending == pc \in {"send", "log", "save"}

\* The recorded time covers every delivery that is neither pending nor lost: this is
\* what report_already_sent_for_slot relies on when the hour or the zone has changed.
RecordInv ==
    /\ "clock" \notin FaultKinds => \A t \in sentAt : t <= now
    /\ \A s \in Instant :
          deliveries[s] > unrecorded[s] => Pending(s) \/ \E t \in sentAt : s <= t
    /\ Sending =>
          /\ report.slot \in Instant
          /\ report.slot <= report.started
          /\ "clock" \notin FaultKinds => report.started <= now
          /\ \A t \in sentAt : t <= report.started
          /\ deliveries[report.slot] > unrecorded[report.slot] => Pending(report.slot)

DaemonInv == TypeOK /\ RecordInv /\ ReportedOnce

-----------------------------------------------------------------------------
(* The calendar.                                                            *)

\* A slot lies in the calendar and is not in the future.
LEMMA DueSlotType ==
    ASSUME NEW c \in Config, NEW t \in Int, NEW s \in DueSlot(c, t)
    PROVE  s \in Instant /\ s \in Int /\ s <= t
<1>1. PICK d \in Midnight[c.zone] : s \in SlotAt[c.zone][d][c.hour]
  BY DEF DueSlot
<1>2. c.zone \in Zone /\ c.hour \in DOMAIN SlotAt[c.zone][d]
  BY DaemonAssumption
<1>3. s \in Instant
  BY <1>1, <1>2 DEF Instant
<1>4. s \in Int
  BY <1>1, <1>2, DaemonAssumption
<1>5. s <= t
  BY DEF DueSlot
<1> QED BY <1>3, <1>4, <1>5

\* Between the slot and any later instant of its day, the slot stays the due one.
LEMMA SlotStaysDue ==
    ASSUME NEW c \in Config, NEW t \in Int, NEW u \in Int,
           NEW s \in DueSlot(c, t), s <= u, u <= t
    PROVE  s \in DueSlot(c, u)
<1>1. PICK d \in Midnight[c.zone] : InDay(c.zone, d, t) /\ s \in SlotAt[c.zone][d][c.hour]
  BY DEF DueSlot
<1>2. c.zone \in Zone /\ c.hour \in DOMAIN SlotAt[c.zone][d]
  BY DaemonAssumption
<1>3. d \in Int /\ s \in Int /\ d <= s
  BY <1>1, <1>2, DaemonAssumption
<1>4. \A e \in Midnight[c.zone] : e \in Int
  BY <1>2, DaemonAssumption
<1>5. InDay(c.zone, d, u)
  BY <1>1, <1>3, <1>4 DEF InDay
<1> QED BY <1>1, <1>5 DEF DueSlot

\* The bounds are natural numbers.
LEMMA BoundsType == {Tolerance, MaxFaults, MaxEdits, MaxTime} \subseteq Nat
BY DaemonAssumption

\* Slots are instants of the calendar, hence integers.
LEMMA InstantType == Instant \subseteq Int
BY DaemonAssumption DEF Instant

-----------------------------------------------------------------------------
(* The invariant holds initially and every step preserves it.               *)

LEMMA InitInv == Init => DaemonInv
<1> SUFFICES ASSUME Init PROVE DaemonInv
  OBVIOUS
<1>1. TypeOK
  <2>1. report \in [slot : Instant \cup {0}, started : 0..MaxTime, delivered : BOOLEAN]
    BY BoundsType DEF Init, NoReport
  <2>2. deliveries \in [Instant -> Nat] /\ unrecorded \in [Instant -> Nat]
    BY DEF Init
  <2>3. now \in 0..MaxTime /\ faults \in 0..MaxFaults /\ edits \in 0..MaxEdits
    BY BoundsType DEF Init
  <2>4. file \subseteq Config /\ config \in Config /\ pc \in Phase /\ hup \in BOOLEAN
    BY DEF Init, Phase
  <2> QED BY <2>1, <2>2, <2>3, <2>4 DEF Init, TypeOK
<1>2. RecordInv
  BY DEF Init, RecordInv, Sending
<1>3. ReportedOnce
  BY DEF Init, ReportedOnce
<1> QED BY <1>1, <1>2, <1>3 DEF DaemonInv

\* A step that leaves the report alone outside a delivery, and lets time pass forwards.
LEMMA QuietStep ==
    ASSUME DaemonInv, TypeOK', UNCHANGED <<sentAt, sentSlot, deliveries, unrecorded>>,
           "clock" \notin FaultKinds => now' >= now,
           \/ UNCHANGED <<pc, report>>
           \/ pc \notin {"send", "log", "save"} /\ ~Sending'
    PROVE  RecordInv' /\ ReportedOnce'
<1>1. now \in Int /\ now' \in Int
  BY DEF DaemonInv, TypeOK
<1>2. \A t \in sentAt : t \in Int
  BY DEF DaemonInv, TypeOK
<1>3. report.started \in Int
  BY DEF DaemonInv, TypeOK
<1>4. ReportedOnce'
  BY DEF DaemonInv, ReportedOnce
<1>5. CASE UNCHANGED <<pc, report>>
  BY <1>1, <1>2, <1>3, <1>4, <1>5 DEF DaemonInv, RecordInv, Sending, Pending
<1>6. CASE pc \notin {"send", "log", "save"} /\ ~Sending'
  BY <1>1, <1>2, <1>4, <1>6 DEF DaemonInv, RecordInv, Sending, Pending
<1> QED BY <1>5, <1>6

\* Counting a delivery or a loss keeps the counters of the slots natural numbers.
LEMMA CounterType ==
    ASSUME NEW f \in [Instant -> Nat], NEW s \in Instant
    PROVE  /\ [f EXCEPT ![s] = @ + 1] \in [Instant -> Nat]
           /\ [f EXCEPT ![s] = @ + 1][s] = f[s] + 1
           /\ \A r \in Instant : r # s => [f EXCEPT ![s] = @ + 1][r] = f[r]
OBVIOUS

\* What a step that loses a delivery does to the counters.
LEMMA UnrecordStep ==
    ASSUME DaemonInv, Unrecord
    PROVE  /\ unrecorded' \in [Instant -> Nat]
           /\ \A s \in Instant : unrecorded'[s] >= unrecorded[s]
           /\ \A s \in Instant : Pending(s) => unrecorded'[s] = unrecorded[s] + 1
<1>1. unrecorded \in [Instant -> Nat]
  BY DEF DaemonInv, TypeOK
<1>2. CASE pc \in {"log", "save"} /\ report.delivered
  <2>1. report.slot \in Instant
    BY <1>2 DEF DaemonInv, RecordInv, Sending
  <2>2. unrecorded' = [unrecorded EXCEPT ![report.slot] = @ + 1]
    BY <1>2 DEF Unrecord
  <2> QED BY <1>1, <2>1, <2>2 DEF Pending
<1>3. CASE ~(pc \in {"log", "save"} /\ report.delivered)
  BY <1>1, <1>3 DEF Unrecord, Pending
<1> QED BY <1>2, <1>3

\* A step that ends a delivery without recording it.
LEMMA LosingStep ==
    ASSUME DaemonInv, TypeOK', Unrecord, ~Sending',
           UNCHANGED <<sentAt, sentSlot, deliveries, now>>
    PROVE  RecordInv' /\ ReportedOnce'
<1>1. /\ \A s \in Instant : unrecorded'[s] >= unrecorded[s]
      /\ \A s \in Instant : Pending(s) => unrecorded'[s] = unrecorded[s] + 1
      /\ unrecorded' \in [Instant -> Nat]
  BY UnrecordStep
<1>2. deliveries \in [Instant -> Nat] /\ unrecorded \in [Instant -> Nat]
  BY DEF DaemonInv, TypeOK
<1>3. ReportedOnce'
  BY <1>1, <1>2 DEF DaemonInv, ReportedOnce
<1>4. \A s \in Instant :
         deliveries[s] > unrecorded'[s] => \E t \in sentAt : s <= t
  <2> SUFFICES ASSUME NEW s \in Instant, deliveries[s] > unrecorded'[s]
               PROVE  \E t \in sentAt : s <= t
    OBVIOUS
  <2>1. ~Pending(s)
    BY <1>1, <1>2 DEF DaemonInv, ReportedOnce
  <2>2. deliveries[s] > unrecorded[s]
    BY <1>1, <1>2
  <2> QED BY <2>1, <2>2 DEF DaemonInv, RecordInv
<1> QED BY <1>3, <1>4 DEF DaemonInv, RecordInv

\* Types are preserved.
LEMMA TypeStep == DaemonInv /\ [Next]_vars => TypeOK'
<1> SUFFICES ASSUME DaemonInv, [Next]_vars PROVE TypeOK'
  OBVIOUS
<1> USE BoundsType
<1>0. TypeOK
  BY DEF DaemonInv
<1>1. CASE Reconcile
  <2>1. probe' \subseteq [launch : UNION {c.probe : c \in Config}, alive : BOOLEAN]
    <3>1. CASE probe' = {ProbeOf(l) : l \in config.probe}
      <4>1. ASSUME NEW l \in config.probe
            PROVE  ProbeOf(l) \in [launch : UNION {c.probe : c \in Config}, alive : BOOLEAN]
        <5>1. l \in UNION {c.probe : c \in Config}
          BY <1>0 DEF TypeOK
        <5> QED BY <5>1 DEF ProbeOf
      <4> QED BY <3>1, <4>1
    <3>2. CASE probe' \subseteq probe
      BY <1>0, <3>2 DEF TypeOK
    <3> QED BY <1>1, <3>1, <3>2 DEF Reconcile, ReconcileProbe
  <2>2. faults' \in 0..MaxFaults
    BY <1>0, <1>1 DEF Reconcile, ReconcileProbe, Fault, TypeOK
  <2>3. pc' \in Phase
    BY <1>1 DEF Reconcile, Phase
  <2> QED BY <1>0, <1>1, <2>1, <2>2, <2>3 DEF Reconcile, reportVars, envVars, TypeOK
<1>2. CASE Scan
  BY <1>0, <1>2 DEF Scan, reportVars, envVars, TypeOK, Phase
<1>3. CASE SkipReport
  <2>1. faults' \in 0..MaxFaults
    BY <1>0, <1>3 DEF SkipReport, Fault, TypeOK
  <2> QED BY <1>0, <1>3, <2>1 DEF SkipReport, reportVars, envVars, TypeOK, Phase
<1>4. CASE BeginReport
  <2>1. PICK s \in DueSlot(config, now) :
           report' = [slot |-> s, started |-> now, delivered |-> FALSE]
    BY <1>4 DEF BeginReport
  <2>2. s \in Instant
    <3>1. config \in Config /\ now \in Int
      BY <1>0 DEF TypeOK
    <3> QED BY <3>1, DueSlotType
  <2>3. report' \in [slot : Instant \cup {0}, started : 0..MaxTime, delivered : BOOLEAN]
    BY <1>0, <2>1, <2>2 DEF TypeOK
  <2> QED BY <1>0, <1>4, <2>3 DEF BeginReport, envVars, TypeOK, Phase
<1>5. CASE SendReport
  <2>1. report' \in [slot : Instant \cup {0}, started : 0..MaxTime, delivered : BOOLEAN]
    BY <1>0, <1>5 DEF SendReport, TypeOK
  <2>2. deliveries' \in [Instant -> Nat]
    <3>1. deliveries' \in {deliveries, [deliveries EXCEPT ![report.slot] = @ + 1]}
      BY <1>5 DEF SendReport
    <3>2. deliveries \in [Instant -> Nat] /\ report.slot \in Instant
      BY <1>0, <1>5 DEF SendReport, TypeOK, DaemonInv, RecordInv, Sending
    <3> QED BY <3>1, <3>2, CounterType
  <2>3. faults' \in 0..MaxFaults
    <3>1. UNCHANGED faults \/ (faults < MaxFaults /\ faults' = faults + 1)
      BY <1>5 DEF SendReport, Fault
    <3> QED BY <1>0, <3>1 DEF TypeOK
  <2> QED BY <1>0, <1>5, <2>1, <2>2, <2>3 DEF SendReport, envVars, TypeOK, Phase
<1>6. CASE LogReport
  <2>1. report' \in [slot : Instant \cup {0}, started : 0..MaxTime, delivered : BOOLEAN]
    <3>1. report' \in {report, NoReport}
      BY <1>6 DEF LogReport
    <3>2. NoReport \in [slot : Instant \cup {0}, started : 0..MaxTime, delivered : BOOLEAN]
      BY DEF NoReport
    <3> QED BY <1>0, <3>1, <3>2 DEF TypeOK
  <2>2. unrecorded' \in [Instant -> Nat]
    BY <1>0, <1>6, UnrecordStep DEF LogReport, TypeOK
  <2>3. faults' \in 0..MaxFaults
    BY <1>0, <1>6 DEF LogReport, Fault, TypeOK
  <2>4. pc' \in Phase
    BY <1>6 DEF LogReport, Phase
  <2> QED BY <1>0, <1>6, <2>1, <2>2, <2>3, <2>4 DEF LogReport, envVars, TypeOK
<1>7. CASE SaveReport
  <2>1. report' \in [slot : Instant \cup {0}, started : 0..MaxTime, delivered : BOOLEAN]
    BY <1>0, <1>7 DEF SaveReport, NoReport, TypeOK
  <2>2. unrecorded' \in [Instant -> Nat]
    BY <1>0, <1>7, UnrecordStep DEF SaveReport, TypeOK
  <2>3. faults' \in 0..MaxFaults
    BY <1>0, <1>7 DEF SaveReport, Fault, TypeOK
  <2>4. report.slot \in Instant
    BY <1>7 DEF SaveReport, DaemonInv, RecordInv, Sending
  <2>5. sentAt' \subseteq 0..MaxTime /\ sentSlot' \subseteq Instant
    BY <1>0, <1>7, <2>4 DEF SaveReport, TypeOK
  <2> QED BY <1>0, <1>7, <2>1, <2>2, <2>3, <2>5 DEF SaveReport, envVars, TypeOK, Phase
<1>8. CASE Select
  <2>1. config' \in Config
    BY <1>0, <1>8 DEF Select, ReloadConfig, TypeOK
  <2> QED BY <1>0, <1>8, <2>1 DEF Select, ReloadConfig, reportVars, envVars, TypeOK, Phase
<1>9. CASE Wake
  BY <1>0, <1>9 DEF Wake, reportVars, envVars, TypeOK, Phase
<1>10. CASE ReloadWhileWaiting
  <2>1. config' \in Config
    BY <1>0, <1>10 DEF ReloadWhileWaiting, ReloadConfig, TypeOK
  <2> QED BY <1>0, <1>10, <2>1 DEF ReloadWhileWaiting, ReloadConfig, reportVars, envVars, TypeOK, Phase
<1>11. CASE CtrlC
  BY <1>0, <1>11 DEF CtrlC, reportVars, envVars, TypeOK, Phase
<1>12. CASE Crash
  <2>1. report' \in [slot : Instant \cup {0}, started : 0..MaxTime, delivered : BOOLEAN]
    BY <1>0, <1>12 DEF Crash, NoReport, TypeOK
  <2>2. unrecorded' \in [Instant -> Nat]
    BY <1>12, UnrecordStep DEF Crash
  <2>3. faults' \in 0..MaxFaults
    BY <1>0, <1>12 DEF Crash, Fault, TypeOK
  <2> QED BY <1>0, <1>12, <2>1, <2>2, <2>3 DEF Crash, envVars, TypeOK, Phase
<1>13. CASE Restart
  <2>1. config' \in Config /\ pc' \in Phase
    BY <1>0, <1>13 DEF Restart, TypeOK, Phase
  <2> QED BY <1>0, <1>13, <2>1 DEF Restart, reportVars, envVars, TypeOK
<1>14. CASE ProbeExits
  <2>1. probe' \subseteq [launch : UNION {c.probe : c \in Config}, alive : BOOLEAN]
    <3>1. PICK p \in probe : probe' = {[p EXCEPT !.alive = FALSE]}
      BY <1>14 DEF ProbeExits
    <3>2. p \in [launch : UNION {c.probe : c \in Config}, alive : BOOLEAN]
      BY <1>0 DEF TypeOK
    <3>3. [p EXCEPT !.alive = FALSE] \in [launch : UNION {c.probe : c \in Config}, alive : BOOLEAN]
      BY <3>2
    <3> QED BY <3>1, <3>3
  <2>2. faults' \in 0..MaxFaults
    BY <1>0, <1>14 DEF ProbeExits, Fault, TypeOK
  <2> QED BY <1>0, <1>14, <2>1, <2>2 DEF ProbeExits, reportVars, envVars, TypeOK
<1>15. CASE Tick
  BY <1>0, <1>15 DEF Tick, reportVars, TypeOK
<1>16. CASE StepClock
  BY <1>0, <1>16 DEF StepClock, Fault, reportVars, TypeOK
<1>17. CASE EditFile
  <2>1. file' \subseteq Config
    BY <1>17 DEF EditFile
  <2> QED BY <1>0, <1>17, <2>1 DEF EditFile, reportVars, TypeOK
<1>18. CASE SendHup
  BY <1>0, <1>18 DEF SendHup, reportVars, envVars, TypeOK
<1>19. CASE UNCHANGED vars
  BY <1>0, <1>19 DEF vars, TypeOK
<1> QED BY <1>1, <1>2, <1>3, <1>4, <1>5, <1>6, <1>7, <1>8, <1>9, <1>10, <1>11, <1>12,
           <1>13, <1>14, <1>15, <1>16, <1>17, <1>18, <1>19 DEF Next, DaemonStep

\* Deliveries stay covered by the record.
LEMMA RecordStep ==
    ASSUME "clock" \notin FaultKinds \/ Tolerance = 0
    PROVE  DaemonInv /\ [Next]_vars => (RecordInv /\ ReportedOnce)'
<1> SUFFICES ASSUME DaemonInv, [Next]_vars PROVE RecordInv' /\ ReportedOnce'
  OBVIOUS
<1>0. TypeOK' /\ TypeOK
  BY TypeStep DEF DaemonInv
<1>t. now \in Int /\ now' \in Int /\ Instant \subseteq Int
  BY <1>0, InstantType DEF TypeOK
<1>1. CASE Reconcile
  BY <1>0, <1>t, <1>1, QuietStep DEF Reconcile, Sending, reportVars, envVars
<1>2. CASE Scan
  BY <1>0, <1>t, <1>2, QuietStep DEF Scan, Sending, reportVars, envVars
<1>3. CASE SkipReport
  BY <1>0, <1>t, <1>3, QuietStep DEF SkipReport, Sending, reportVars, envVars
<1>4. CASE BeginReport
  <2>1. PICK s \in DueSlot(config, now) :
           /\ ~AlreadySent(config, s)
           /\ report' = [slot |-> s, started |-> now, delivered |-> FALSE]
    BY <1>4 DEF BeginReport
  <2>2. config \in Config
    BY <1>0 DEF TypeOK
  <2>3. s \in Instant /\ s \in Int /\ s <= now
    BY <1>t, <2>2, DueSlotType
  <2>0. \A t \in sentAt : t \in Int
    BY <1>0 DEF TypeOK
  <2>4. \A t \in sentAt : t <= now
    <3>1. CASE "clock" \notin FaultKinds
      BY <3>1 DEF DaemonInv, RecordInv
    <3>2. CASE Tolerance = 0
      BY <1>4, <1>t, <2>0, <3>2 DEF BeginReport, StateInFuture
    <3> QED BY <3>1, <3>2
  <2>5. ~(\E t \in sentAt : s <= t)
    BY <1>t, <2>0, <2>1, <2>2, <2>4, SlotStaysDue DEF AlreadySent
  <2>6. ~Pending(s)
    BY <1>4 DEF BeginReport, Pending
  <2>7. ~(deliveries[s] > unrecorded[s])
    BY <2>3, <2>5, <2>6 DEF DaemonInv, RecordInv
  <2>8. pc' = "send" /\ UNCHANGED <<sentAt, deliveries, unrecorded, now>>
    BY <1>4 DEF BeginReport, envVars
  <2>9. \A r \in Instant : ~Pending(r)
    BY <1>4 DEF BeginReport, Pending
  <2>10. report'.slot = s /\ report'.started = now
    BY <2>1
  <2>11. ReportedOnce'
    BY <2>8 DEF DaemonInv, ReportedOnce
  <2>12. RecordInv'
    BY <1>t, <2>0, <2>3, <2>4, <2>7, <2>8, <2>9, <2>10 DEF DaemonInv, RecordInv, Sending
  <2> QED BY <2>11, <2>12
<1>5. CASE SendReport
  <2>1. /\ pc = "send" /\ pc' = "log"
        /\ report'.slot = report.slot /\ report'.started = report.started
        /\ UNCHANGED <<sentAt, unrecorded, now>>
    BY <1>0, <1>5 DEF SendReport, envVars, TypeOK
  <2>2. /\ report.slot \in Instant
        /\ ~(deliveries[report.slot] > unrecorded[report.slot])
        /\ \A s \in Instant : ~Pending(s)
    BY <2>1 DEF DaemonInv, RecordInv, Sending, Pending
  <2>3. deliveries \in [Instant -> Nat] /\ unrecorded \in [Instant -> Nat]
    BY <1>0 DEF TypeOK
  <2>4. CASE report'.delivered
    <3>1. deliveries' = [deliveries EXCEPT ![report.slot] = @ + 1]
      BY <1>5, <2>4 DEF SendReport
    <3>2. /\ deliveries'[report.slot] = deliveries[report.slot] + 1
          /\ \A r \in Instant : r # report.slot => deliveries'[r] = deliveries[r]
      BY <2>2, <2>3, <3>1, CounterType
    <3>3. Pending(report.slot)'
      BY <2>1, <2>4 DEF Pending
    <3>4. ReportedOnce'
      BY <2>1, <2>2, <2>3, <3>2 DEF DaemonInv, ReportedOnce
    <3>5. RecordInv'
      BY <2>1, <2>2, <2>3, <3>2, <3>3 DEF DaemonInv, RecordInv, Sending
    <3> QED BY <3>4, <3>5
  <2>5. CASE ~report'.delivered
    <3>1. deliveries' = deliveries
      BY <1>5, <2>5 DEF SendReport
    <3> QED BY <2>1, <2>2, <3>1 DEF DaemonInv, RecordInv, ReportedOnce, Sending
  <2> QED BY <2>4, <2>5
<1>6. CASE LogReport
  <2>1. CASE report.delivered /\ pc' = "save" /\ UNCHANGED <<report, unrecorded>>
    BY <1>6, <2>1 DEF LogReport, envVars, DaemonInv, RecordInv, ReportedOnce, Sending, Pending
  <2>2. CASE ~report.delivered /\ pc' = "select" /\ UNCHANGED unrecorded
    BY <1>6, <2>2 DEF LogReport, envVars, DaemonInv, RecordInv, ReportedOnce, Sending, Pending
  <2>3. CASE pc' = "select" /\ Unrecord
    BY <1>0, <1>6, <2>3, LosingStep DEF LogReport, envVars, Sending
  <2> QED BY <1>6, <2>1, <2>2, <2>3 DEF LogReport
<1>7. CASE SaveReport
  <2>1. CASE Unrecord /\ UNCHANGED <<sentAt, sentSlot>>
    BY <1>0, <1>7, <2>1, LosingStep DEF SaveReport, envVars, Sending
  <2>2. CASE sentAt' = {report.started} /\ UNCHANGED unrecorded
    <3>1. /\ report.slot \in Instant /\ report.slot <= report.started
          /\ "clock" \notin FaultKinds => report.started <= now
          /\ \A t \in sentAt : t <= report.started
      BY <1>7 DEF SaveReport, DaemonInv, RecordInv, Sending
    <3>2. report.started \in Int /\ \A t \in sentAt : t \in Int
      BY <1>0 DEF TypeOK
    <3>3. UNCHANGED <<deliveries, now>> /\ pc' = "select"
      BY <1>7 DEF SaveReport, envVars
    <3>4. ASSUME NEW s \in Instant, deliveries[s] > unrecorded[s]
          PROVE  s <= report.started
      <4>1. s \in Int
        BY <1>t
      <4>2. CASE Pending(s)
        BY <3>1, <4>2 DEF Pending
      <4>3. CASE \E t \in sentAt : s <= t
        BY <3>1, <3>2, <4>1, <4>3
      <4> QED BY <3>4, <4>2, <4>3 DEF DaemonInv, RecordInv
    <3>5. ReportedOnce'
      BY <2>2, <3>3 DEF DaemonInv, ReportedOnce
    <3>6. RecordInv'
      BY <2>2, <3>1, <3>3, <3>4 DEF RecordInv, Sending
    <3> QED BY <3>5, <3>6
  <2> QED BY <1>7, <2>1, <2>2 DEF SaveReport
<1>8. CASE Select
  BY <1>0, <1>t, <1>8, QuietStep DEF Select, ReloadConfig, Sending, reportVars, envVars
<1>9. CASE Wake
  BY <1>0, <1>t, <1>9, QuietStep DEF Wake, Sending, reportVars, envVars
<1>10. CASE ReloadWhileWaiting
  BY <1>0, <1>t, <1>10, QuietStep
     DEF ReloadWhileWaiting, ReloadConfig, Sending, reportVars, envVars
<1>11. CASE CtrlC
  BY <1>0, <1>t, <1>11, QuietStep DEF CtrlC, Sending, reportVars, envVars
<1>12. CASE Crash
  BY <1>0, <1>12, LosingStep DEF Crash, Sending, envVars
<1>13. CASE Restart
  BY <1>0, <1>t, <1>13, QuietStep DEF Restart, Sending, reportVars, envVars
<1>14. CASE ProbeExits
  BY <1>0, <1>t, <1>14, QuietStep DEF ProbeExits, reportVars, envVars
<1>15. CASE Tick
  BY <1>0, <1>t, <1>15, QuietStep DEF Tick, reportVars
<1>16. CASE StepClock
  BY <1>0, <1>16, QuietStep DEF StepClock, Fault, reportVars
<1>17. CASE EditFile
  BY <1>0, <1>t, <1>17, QuietStep DEF EditFile, reportVars
<1>18. CASE SendHup
  BY <1>0, <1>t, <1>18, QuietStep DEF SendHup, reportVars, envVars
<1>19. CASE UNCHANGED vars
  BY <1>0, <1>t, <1>19, QuietStep DEF vars
<1> QED BY <1>1, <1>2, <1>3, <1>4, <1>5, <1>6, <1>7, <1>8, <1>9, <1>10, <1>11, <1>12,
           <1>13, <1>14, <1>15, <1>16, <1>17, <1>18, <1>19 DEF Next, DaemonStep

-----------------------------------------------------------------------------
\* Every behaviour of the daemon satisfies the invariant, if the clock is not set or no
\* lag of the clock is tolerated.
THEOREM DaemonInvariant ==
    ASSUME "clock" \notin FaultKinds \/ Tolerance = 0
    PROVE  Spec => []DaemonInv
<1>1. Init => DaemonInv
  BY InitInv
<1>2. DaemonInv /\ [Next]_vars => DaemonInv'
  BY TypeStep, RecordStep DEF DaemonInv
<1> QED BY <1>1, <1>2, PTL DEF Spec

\* daemon.rs, report_already_sent_for_slot: whatever configurations reloads switch
\* between and whatever fails, the report of a slot is delivered again only after a
\* delivery that could not be recorded.
THEOREM SlotsReportedOnce ==
    ASSUME "clock" \notin FaultKinds \/ Tolerance = 0
    PROVE  Spec => []ReportedOnce
<1>1. DaemonInv => ReportedOnce
  BY DEF DaemonInv
<1> QED BY <1>1, DaemonInvariant, PTL

\* daemon.rs, reconcile_runtime_probe: no scan runs beside a probe of another
\* configuration, whatever reloads, exits, failed starts and crashes came before, and
\* with any setting of the clock.
THEOREM ProbesMatchConfig == Spec => []ProbeMatchesConfig
<1>1. Init => ProbeMatchesConfig
  BY DEF Init, ProbeMatchesConfig
<1>2. ASSUME ProbeMatchesConfig, [Next]_vars
      PROVE  ProbeMatchesConfig'
  <2>1. CASE Reconcile
    <3>1. pc' # "down" /\ config' = config
      BY <2>1 DEF Reconcile
    <3>2. ASSUME NEW p \in probe', probe' = {ProbeOf(l) : l \in config.probe}
          PROVE  p.launch \in config.probe
      BY <3>2 DEF ProbeOf
    <3>3. ASSUME NEW p \in probe', ProbeCurrent, probe' = probe
          PROVE  p.launch \in config.probe
      <4>1. PICK l \in config.probe : probe = {ProbeOf(l)}
        BY <3>3 DEF ProbeCurrent
      <4>2. p = ProbeOf(l)
        BY <3>3, <4>1
      <4> QED BY <4>2 DEF ProbeOf
    <3>4. \/ probe' = {}
          \/ ProbeCurrent /\ probe' = probe
          \/ probe' = {ProbeOf(l) : l \in config.probe}
      BY <2>1 DEF Reconcile, ReconcileProbe
    <3> QED BY <3>1, <3>2, <3>3, <3>4 DEF ProbeMatchesConfig
  <2>2. CASE ProbeExits
    <3>1. PICK p \in probe : probe' = {[p EXCEPT !.alive = FALSE]}
      BY <2>2 DEF ProbeExits
    <3>2. pc' = pc /\ config' = config
      BY <2>2 DEF ProbeExits
    <3>3. pc # "down"
      BY <1>2, <3>1 DEF ProbeMatchesConfig
    <3>4. CASE pc = "scan"
      <4>1. p.launch \in config.probe
        BY <1>2, <3>4 DEF ProbeMatchesConfig
      <4>2. [p EXCEPT !.alive = FALSE].launch = p.launch
        OBVIOUS
      <4> QED BY <3>1, <3>2, <3>3, <4>1, <4>2 DEF ProbeMatchesConfig
    <3> QED BY <3>2, <3>3, <3>4 DEF ProbeMatchesConfig
  <2>3. CASE Scan \/ SkipReport \/ BeginReport \/ SendReport \/ LogReport \/ SaveReport
    BY <2>3 DEF Scan, SkipReport, BeginReport, SendReport, LogReport, SaveReport, ProbeMatchesConfig
  <2>4. CASE Select \/ Wake \/ ReloadWhileWaiting
    BY <2>4 DEF Select, Wake, ReloadWhileWaiting, ReloadConfig, ProbeMatchesConfig
  <2>5. CASE CtrlC \/ Crash
    BY <2>5 DEF CtrlC, Crash, ProbeMatchesConfig
  <2>6. CASE Restart
    BY <1>2, <2>6 DEF Restart, ProbeMatchesConfig
  <2>7. CASE Tick \/ StepClock \/ EditFile \/ SendHup
    BY <1>2, <2>7 DEF Tick, StepClock, EditFile, SendHup, envVars, ProbeMatchesConfig
  <2>8. CASE UNCHANGED vars
    BY <1>2, <2>8 DEF vars, ProbeMatchesConfig
  <2> QED BY <1>2, <2>1, <2>2, <2>3, <2>4, <2>5, <2>6, <2>7, <2>8 DEF Next, DaemonStep
<1> QED BY <1>1, <1>2, PTL DEF Spec

=============================================================================
