----------------------------- MODULE HostBaseline -----------------------------
(***************************************************************************)
(* The baseline of host facts and its approval (sentinel-agent baseline/,   *)
(* scanner/event_budget.rs, create_baseline_snapshot; `vs baseline`).       *)
(* Scans diff what the collectors see now against the latest snapshot; the  *)
(* operator looks at the diff, approves keys and refreshes.  The commands   *)
(* read and write the store in several transactions, and collectors may     *)
(* fail, in which case their facts are missing from what is seen.           *)
(*                                                                         *)
(* A fact has a class (file, user, persistence, listener); its value is     *)
(* Absent or a record:                                                      *)
(*   file, persistence  [lines, executable]   user  [uid, rest]              *)
(*   listener           [owner], "" when its process is not known            *)
(* A line of a file is a record [text, tags]; two files have the same hash  *)
(* when they have the same lines.                                           *)
(***************************************************************************)
EXTENDS Integers, FiniteSets, FiniteSetsExt, Sequences, SequencesExt

CONSTANTS
    Fact,          \* Fact[i]: class, path, public, udp and port of fact i
    Values,        \* Values[i]: what fact i may be
    FirstFacts,    \* the host to begin with
    Absent,
    Terminal,      \* shells an operator types `vs baseline` in
    RawEventLimit, \* resource_budget.max_raw_events_per_scan
    MaxCommands,   \* commands started
    MaxHostDisturbances    \* host changes, failed collectors and interrupts

Facts == DOMAIN Fact
Sees(class) == {i \in Facts : Fact[i].class = class}

ASSUME HostBaselineAssumption ==
    /\ IsFiniteSet(Facts)
    /\ FirstFacts = [i \in Facts |-> FirstFacts[i]] /\ \A i \in Facts : FirstFacts[i] \in Values[i]
    /\ RawEventLimit \in Nat \ {0} /\ {MaxCommands, MaxHostDisturbances} \subseteq Nat

VARIABLES
    facts,      \* what is true of the host
    snapshots,  \* baseline_snapshots: pairs of created_at and snapshot
    approvals,  \* the keys of the rule state "baseline_approvals"
    shell,      \* the locals of the `vs baseline` command in each terminal
    shown,      \* changes some `vs baseline diff` has shown
    drift,      \* the diff events of a scan that just ran, and how it collected
    stamp,      \* created_at of the last snapshot built
    spent,      \* bounded steps so far
    endorsed    \* history: pairs of fact and value the operator reviewed and approved,
                \* or took over whole with create and refresh --all

baseVars == <<facts, snapshots, approvals, shell, shown, drift, stamp, spent, endorsed>>

-----------------------------------------------------------------------------
(* Semantic profiles of security relevant files                             *)

RelevantTag(kind) ==
    CASE kind = "authorized_keys" -> "key" [] kind = "systemd_unit" -> "exec"
      [] kind = "sshd_config" -> "directive" [] kind = "web_server_config" -> "web_directive"
      [] kind = "apt_source" -> "repo" [] OTHER -> "entry"      \* cron, sudoers

RiskyFeatures == {"network_or_shell_command", "temporary_path", "reboot_entry", "nopasswd",
                  "broad_privilege"}

\* What profile_for_path leaves of a file: its lines without comments and decoration.
\* Keys are a set, everything else keeps its order (an entry is hashed with its
\* place); of the options of a key only the names count.
Relevant(kind, lines) == {n \in DOMAIN lines : RelevantTag(kind) \in lines[n].tags}
Hashed(kind, lines) ==
    LET place == [n \in Relevant(kind, lines) |->
                    IF kind = "authorized_keys" THEN 0
                    ELSE Cardinality({m \in Relevant(kind, lines) : m <= n})]
    IN {<<place[n], lines[n].text>> : n \in Relevant(kind, lines)}
ItemFeatures(kind, lines) == UNION {lines[n].tags \ {RelevantTag(kind)} : n \in Relevant(kind, lines)}

Profile(kind, lines) ==
    IF kind = "" \/ Relevant(kind, lines) = {}
    THEN [kind |-> "", hash |-> {}, summary |-> <<0, {}>>, features |-> {}]
    ELSE [kind |-> kind,
          hash |-> Hashed(kind, lines),
          summary |-> <<Cardinality(Relevant(kind, lines)),
                        IF kind = "authorized_keys" THEN ItemFeatures(kind, lines) ELSE {}>>,
          features |-> ItemFeatures(kind, lines)]

NoLines == [lines |-> << >>, executable |-> FALSE]
ProfileOf(i, v) == Profile(Fact[i].semantic, (IF v = Absent THEN NoLines ELSE v).lines)

SemanticDelta(i, old, new) ==
    LET before == ProfileOf(i, old)  after == ProfileOf(i, new)
    IN /\ {before.kind, after.kind} # {""}
       /\ <<before.hash, before.summary>> # <<after.hash, after.summary>>

-----------------------------------------------------------------------------
(* Diffs                                                                    *)

Event(kind, i, old, new) == [kind |-> kind, fact |-> i, old |-> old, new |-> new]

DiffFiles(prev, cur) ==
    {Event("file_created", i, Absent, cur[i]) :
        i \in {j \in Sees("file") : prev[j] = Absent /\ cur[j] # Absent}}
    \cup {Event("file_modified", i, prev[i], cur[i]) :
        i \in {j \in Sees("file") : Absent \notin {prev[j], cur[j]} /\ prev[j].lines # cur[j].lines}}
    \cup {Event("file_deleted", i, prev[i], Absent) :
        i \in {j \in Sees("file") : prev[j] # Absent /\ cur[j] = Absent}}

DiffUsers(prev, cur) ==
    {Event(IF prev[i] = Absent THEN "user_created"
           ELSE IF prev[i].uid # cur[i].uid /\ cur[i].uid = 0 THEN "user_uid_changed_to_zero"
           ELSE "user_modified", i, prev[i], cur[i]) :
        i \in {j \in Sees("user") : cur[j] # Absent /\ cur[j] # prev[j]}}

DiffPersistence(prev, cur) ==
    {Event(IF prev[i] = Absent THEN "persistence_created" ELSE "persistence_modified", i, prev[i], cur[i]) :
        i \in {j \in Sees("persistence") : /\ cur[j] # Absent
                                           /\ prev[j] = Absent \/ prev[j].lines # cur[j].lines}}

ListenerOwnerChanged(old, new) == "" \notin {old.owner, new.owner} /\ old.owner # new.owner
DiffListeners(prev, cur) ==
    {Event("listening_socket", i, Absent, cur[i]) :
        i \in {j \in Sees("listener") : prev[j] = Absent /\ cur[j] # Absent}}
    \cup {Event("listening_socket_owner_changed", i, prev[i], cur[i]) :
        i \in {j \in Sees("listener") : Absent \notin {prev[j], cur[j]} /\ ListenerOwnerChanged(prev[j], cur[j])}}

\* diff_snapshots.  A user, unit or listener that is gone is no drift.
Diff(prev, cur) ==
    DiffFiles(prev, cur) \cup DiffUsers(prev, cur) \cup DiffPersistence(prev, cur)
    \cup DiffListeners(prev, cur)

UserChange == {"user_modified", "user_uid_changed_to_zero"}

\* Mutant: the key without what the fact has become.
ApprovalKeyBySubject(e) == <<e.kind, e.fact, Absent>>

\* approval_key hashes kind, subject and the stable fields of the event; of a
\* changed user the event carries the uid alone.
ApprovalKey(e) ==
    <<e.kind, e.fact, IF e.kind \in UserChange THEN e.new.uid ELSE e.new>>

\* apply_event_to_snapshot of one event after the other: each takes its own fact over.
ApplyEvents(prev, cur, events) ==
    [i \in Facts |-> IF \E e \in events : e.fact = i THEN cur[i] ELSE prev[i]]

-----------------------------------------------------------------------------
(* The risk an approval item shows                                          *)

EventBaseScore(kind) ==
    CASE kind = "user_uid_changed_to_zero" -> 90 [] kind \in {"user_created", "user_modified"} -> 65
      [] kind \in {"persistence_created", "persistence_modified"} -> 70
      [] kind = "listening_socket_owner_changed" -> 60 [] kind = "file_modified" -> 50
      [] kind = "listening_socket" -> 50 [] OTHER -> 55

AccessPaths == {"authorized_keys", "/etc/passwd", "/etc/sudoers"}
SecuritySensitive(e) ==
    \/ Fact[e.fact].path \in AccessPaths
    \/ Fact[e.fact].path = "/etc/ld.so.preload" /\ Fact[e.fact].class = "persistence"
    \/ Fact[e.fact].class = "user" /\ e.new.uid = 0
Privileged(e) == Fact[e.fact].class = "user" /\ e.new.uid = 0
Listens(e) == Fact[e.fact].class = "listener"
DynamicUdp(e) ==
    Listens(e) /\ Fact[e.fact].udp /\ Fact[e.fact].public /\ Fact[e.fact].port >= 32768
HasContent(e) == Fact[e.fact].class \in {"file", "persistence"}

RiskSignals(e) ==
    (IF SecuritySensitive(e) THEN 35 ELSE 0)
    + (IF Fact[e.fact].path = "/etc/ld.so.preload" THEN 25 ELSE 0)
    + (IF Privileged(e) THEN 25 ELSE 0)
    + (IF e.kind = "listening_socket_owner_changed" THEN 15 ELSE 0)
    + (IF HasContent(e) /\ SemanticDelta(e.fact, e.old, e.new) THEN 18 ELSE 0)
    + (IF HasContent(e) /\ ProfileOf(e.fact, e.new).features \cap RiskyFeatures # {} THEN 25 ELSE 0)
    + (IF Listens(e) /\ Fact[e.fact].public THEN 12 ELSE 0)
RiskDiscount(e) ==
    (IF Listens(e) /\ ~Fact[e.fact].public THEN 18 ELSE 0) + (IF DynamicUdp(e) THEN 25 ELSE 0)
LateSignal(e) ==
    IF HasContent(e) /\ Absent \notin {e.old, e.new} /\ e.old.executable # e.new.executable THEN 8 ELSE 0

\* A listener on the dynamic ports, or a private one, is discounted last.
DriftRisk(e) ==
    LET raised == Min({100, EventBaseScore(e.kind) + RiskSignals(e)})
    IN Min({100, Max({0, raised - RiskDiscount(e)}) + LateSignal(e)})

DriftTier(score) ==
    IF score < 40 THEN "routine" ELSE IF score < 65 THEN "review"
    ELSE IF score < 85 THEN "suspicious" ELSE "critical"

-----------------------------------------------------------------------------
(* Collecting                                                               *)

Spend(what, bound) == spent[what] < bound /\ spent' = [spent EXCEPT ![what] = @ + 1]
CollectorOf(i) == Fact[i].class

\* A collector that fails leaves its facts out; everything else goes on.
Collected(failed) == [i \in Facts |-> IF CollectorOf(i) \in failed THEN Absent ELSE facts[i]]
Failing(failed) ==
    /\ spent.disturbances + Cardinality(failed) <= MaxHostDisturbances
    /\ spent' = [spent EXCEPT !.disturbances = @ + Cardinality(failed)]
Collectors == {CollectorOf(i) : i \in Facts}
SpendCommand(failed) ==
    /\ spent.commands < MaxCommands /\ spent.disturbances + Cardinality(failed) <= MaxHostDisturbances
    /\ spent' = [spent EXCEPT !.commands = @ + 1, !.disturbances = @ + Cardinality(failed)]

\* Mutant: sensitive paths have no priority of their own.
RawEventPriorityFlat(i) == IF Fact[i].class = "file" THEN 30 ELSE 40

\* The priority of the event that carries the fact; authentication events have 100.
RawEventPriority(i) ==
    IF Fact[i].class = "file"
    THEN IF Fact[i].path \in AccessPaths THEN 98 ELSE IF Fact[i].path = "/etc/cron.d" THEN 88 ELSE 75
    ELSE IF Fact[i].class = "listener" THEN 65 ELSE 40

\* What apply_raw_event_budget may leave of a view when `noise` events of
\* higher priority were collected with it.
Budgeted(view, noise) ==
    LET seen == {i \in Facts : view[i] # Absent}
        room == Max({0, RawEventLimit - noise})
    IN {[i \in Facts |-> IF i \in kept THEN view[i] ELSE Absent] :
          kept \in {K \in kSubset(Min({room, Cardinality(seen)}), seen) :
                      \A i \in K, j \in seen \ K : RawEventPriority(i) >= RawEventPriority(j)}}

LatestSnapshot ==
    LET newest == {s \in snapshots : \A o \in snapshots : s[1] >= o[1]} IN (CHOOSE s \in newest : TRUE)[2]
HasBaseline == snapshots # {}

NoDrift == [events |-> {}, failed |-> {}, noise |-> 0, host |-> FirstFacts]

\* run_scan up to the diff; the scan never writes the baseline, so a second one
\* that directly follows it could have come in its place and is left out.
ScanDiff ==
    /\ drift = NoDrift
    /\ \E failed \in SUBSET Collectors, noise \in {0, RawEventLimit - 1, RawEventLimit} :
          /\ Failing(failed)
          /\ \E cur \in Budgeted(Collected(failed), noise) :
                drift' = [events |-> IF HasBaseline THEN Diff(LatestSnapshot, cur) ELSE {},
                          failed |-> failed, noise |-> noise, host |-> facts]
    /\ UNCHANGED <<facts, snapshots, approvals, shell, shown, stamp, endorsed>>

-----------------------------------------------------------------------------
(* The commands                                                             *)

Done == [pc |-> "prompt"]
At_(t, pc) == shell[t].pc = pc
Whole(view) == {<<i, view[i]>> : i \in Facts}
ApprovalKeys(events) == {ApprovalKey(e) : e \in events}

\* create and refresh --all: collect, then save what was seen.
CollectAll(t) ==
    /\ At_(t, "prompt") /\ stamp' = stamp + 1
    /\ \E failed \in SUBSET Collectors :
          /\ SpendCommand(failed)
          /\ shell' = [shell EXCEPT ![t] = [pc |-> "save_all", cur |-> Collected(failed), at |-> stamp + 1]]
    /\ drift' = NoDrift /\ UNCHANGED <<facts, snapshots, approvals, shown, endorsed>>

SaveAll(t) ==
    /\ At_(t, "save_all")
    /\ snapshots' = snapshots \cup {<<shell[t].at, shell[t].cur>>}
    /\ endorsed' = endorsed \cup Whole(shell[t].cur)
    /\ shell' = [shell EXCEPT ![t] = Done]
    /\ drift' = NoDrift /\ UNCHANGED <<facts, approvals, shown, stamp, spent>>

ShowDiff ==
    /\ HasBaseline
    /\ \E failed \in SUBSET Collectors :
          LET events == Diff(LatestSnapshot, Collected(failed))
          IN Failing(failed) /\ ~(events \subseteq shown) /\ shown' = shown \cup events
    /\ drift' = NoDrift /\ UNCHANGED <<facts, snapshots, approvals, shell, stamp, endorsed>>

\* approve loads the latest snapshot, collects, and only then loads the approvals.
ApproveLoad(t) ==
    /\ At_(t, "prompt") /\ HasBaseline /\ Spend("commands", MaxCommands)
    /\ shell' = [shell EXCEPT ![t] = [pc |-> "approve", prev |-> LatestSnapshot]]
    /\ drift' = NoDrift /\ UNCHANGED <<facts, snapshots, approvals, shown, stamp, endorsed>>

Approved(t, found) ==
    shell' = [shell EXCEPT ![t] =
        IF found = {} THEN Done ELSE [pc |-> "save_approvals", keys |-> approvals \cup found]]
Endorse(events) == endorsed' = endorsed \cup {<<e.fact, e.new>> : e \in events}

\* The operator names keys a diff has shown, of which approve_keys skips those
\* that are not pending any more, or `all`.
ApproveKeys(t) ==
    /\ At_(t, "approve")
    /\ \E failed \in SUBSET Collectors :
       LET pending == Diff(shell[t].prev, Collected(failed))
       IN /\ Failing(failed)
          /\ \/ \E asked \in (SUBSET ApprovalKeys(shown)) \ {{}} :
                   /\ Approved(t, asked \cap ApprovalKeys(pending))
                   /\ Endorse({e \in shown : ApprovalKey(e) \in asked \cap ApprovalKeys(pending)})
             \/ Approved(t, ApprovalKeys(pending)) /\ Endorse(pending)
    /\ drift' = NoDrift /\ UNCHANGED <<facts, snapshots, approvals, shown, stamp>>

SaveApprovals(t) ==
    /\ At_(t, "save_approvals")
    /\ approvals' = shell[t].keys
    /\ shell' = [shell EXCEPT ![t] = Done]
    /\ drift' = NoDrift /\ UNCHANGED <<facts, snapshots, shown, stamp, spent, endorsed>>

\* refresh collects first, then loads the snapshot and the approvals.
RefreshCollect(t) ==
    /\ At_(t, "prompt")
    /\ \E failed \in SUBSET Collectors :
          /\ SpendCommand(failed)
          /\ shell' = [shell EXCEPT ![t] = [pc |-> "refresh", cur |-> Collected(failed)]]
    /\ drift' = NoDrift /\ UNCHANGED <<facts, snapshots, approvals, shown, stamp, endorsed>>

\* apply_approved_changes.
Refreshed(prev, cur, keys) ==
    ApplyEvents(prev, cur, {e \in Diff(prev, cur) : ApprovalKey(e) \in keys})

RefreshApply(t) ==
    /\ At_(t, "refresh")
    /\ LET cur == shell[t].cur
           applied == IF HasBaseline THEN approvals \cap ApprovalKeys(Diff(LatestSnapshot, cur)) ELSE {}
       IN IF applied = {}
          THEN shell' = [shell EXCEPT ![t] = Done] /\ UNCHANGED stamp
          ELSE /\ stamp' = stamp + 1
               /\ shell' = [shell EXCEPT ![t] =
                     [pc |-> "save_refreshed", cur |-> cur, at |-> stamp + 1, used |-> approvals,
                      next |-> Refreshed(LatestSnapshot, cur, approvals), keys |-> approvals \ applied]]
    /\ drift' = NoDrift /\ UNCHANGED <<facts, snapshots, approvals, shown, spent, endorsed>>

\* The snapshot first, the approvals it used up after it.
SaveRefreshed(t) ==
    /\ At_(t, "save_refreshed")
    /\ snapshots' = snapshots \cup {<<shell[t].at, shell[t].next>>}
    /\ shell' = [shell EXCEPT ![t] = [pc |-> "save_approvals", keys |-> shell[t].keys]]
    /\ drift' = NoDrift /\ UNCHANGED <<facts, approvals, shown, stamp, spent, endorsed>>

Reset(t) ==
    /\ At_(t, "prompt") /\ HasBaseline /\ Spend("commands", MaxCommands)
    /\ snapshots' = {}
    /\ drift' = NoDrift /\ UNCHANGED <<facts, approvals, shell, shown, stamp, endorsed>>

Interrupt(t) ==
    /\ ~At_(t, "prompt") /\ Spend("disturbances", MaxHostDisturbances)
    /\ shell' = [shell EXCEPT ![t] = Done]
    /\ drift' = NoDrift /\ UNCHANGED <<facts, snapshots, approvals, shown, stamp, endorsed>>

HostChanges ==
    /\ Spend("disturbances", MaxHostDisturbances)
    /\ \E i \in Facts : \E v \in Values[i] \ {facts[i]} : facts' = [facts EXCEPT ![i] = v]
    /\ drift' = NoDrift /\ UNCHANGED <<snapshots, approvals, shell, shown, stamp, endorsed>>

BaselineInit ==
    /\ facts = FirstFacts
    /\ snapshots = {<<0, FirstFacts>>} /\ approvals = {}
    /\ shell = [t \in Terminal |-> Done]
    /\ shown = {} /\ drift = NoDrift /\ stamp = 0
    /\ spent = [what \in {"commands", "disturbances"} |-> 0]
    /\ endorsed = Whole(FirstFacts)

BaselineNext ==
    \/ \E t \in Terminal :
          \/ CollectAll(t) \/ SaveAll(t) \/ ApproveLoad(t) \/ ApproveKeys(t) \/ SaveApprovals(t)
          \/ RefreshCollect(t) \/ RefreshApply(t) \/ SaveRefreshed(t) \/ Reset(t) \/ Interrupt(t)
    \/ ScanDiff \/ ShowDiff \/ HostChanges

BaselineSpec == BaselineInit /\ [][BaselineNext]_baseVars

-----------------------------------------------------------------------------
\* Reviewed(i, v): the operator approved value v of fact i after a diff had shown
\* it, or took the host over whole.
Reviewed(i, v) == <<i, v>> \in endorsed

\* apply_approved_changes and the commands around it: whatever commands run
\* beside each other, fail or are interrupted, and however long an approval
\* waits, a snapshot holds only values the operator endorsed.  Of users only
\* the uid is covered.
OnlyReviewedAccepted ==
    \A s \in snapshots : \A i \in Facts :
        IF Fact[i].class = "user" /\ s[2][i] # Absent
        THEN \E v \in Values[i] \ {Absent} : v.uid = s[2][i].uid /\ Reviewed(i, v)
        ELSE Reviewed(i, s[2][i])

\* apply_approved_changes: no change that was approved when a refresh ran is
\* still a difference between the refreshed snapshot and the host it saw.
ApprovedChangesApplied ==
    \A t \in Terminal : At_(t, "save_refreshed") =>
        ApprovalKeys(Diff(shell[t].next, shell[t].cur)) \cap shell[t].used = {}

\* apply_approved_changes: a refresh accepts what was approved, all of it and
\* nothing else.
RefreshSound == OnlyReviewedAccepted /\ ApprovedChangesApplied

\* attach_semantic_delta: a change of the keys, commands or rules in a file, not
\* only of its comments, is told apart from a cosmetic one in every diff.
MeaningOf(i, v) ==
    {l.text : l \in {x \in Range((IF v = Absent THEN NoLines ELSE v).lines) :
                        RelevantTag(Fact[i].semantic) \in x.tags}}
MeaningfulChangeMarked ==
    \A e \in shown : HasContent(e) /\ Fact[e.fact].semantic # "" =>
        (MeaningOf(e.fact, e.old) # MeaningOf(e.fact, e.new) => SemanticDelta(e.fact, e.old, e.new))

\* assess_event: what gives access or privilege is never offered for approval
\* as routine or for mere review, whatever is discounted elsewhere.
SensitiveNeverRoutine ==
    \A e \in shown : SecuritySensitive(e) => DriftTier(DriftRisk(e)) \in {"suspicious", "critical"}

\* apply_raw_event_budget: a sensitive file that exists is reported deleted only
\* when its collector failed or authentication events leave no room in the budget
\* for all sensitive files.
SensitiveFiles == {i \in Sees("file") : Fact[i].path \in AccessPaths}
SensitiveDeletionReal ==
    \A e \in drift.events :
        (/\ e.kind = "file_deleted" /\ drift.host[e.fact] # Absent
         /\ Fact[e.fact].path \in AccessPaths)
            => "file" \in drift.failed \/ drift.noise + Cardinality(SensitiveFiles) > RawEventLimit

\* What the operator and the detectors are shown of a drift: its meaning, its
\* risk (baseline/drift.rs) and, after the event budget, its truth.
DriftJudged == MeaningfulChangeMarked /\ SensitiveNeverRoutine /\ SensitiveDeletionReal
=============================================================================
