--------------------------- MODULE ActiveResponse ---------------------------
(***************************************************************************)
(* The firewall side of vps-sentinel (active_response.rs).  Operating      *)
(* system processes - the scan loop of the daemon and the `vs` commands -  *)
(* run operations that load the persisted BlockState, change the host      *)
(* firewall one command at a time, and write the whole BlockState back.    *)
(* No lock and no transaction spans an operation.                          *)
(*                                                                         *)
(* A firewall command is one step.  Its possible results are the sets      *)
(* BlockResults, UnblockResults and IsBlockedResults, which include the    *)
(* ways a command goes wrong that the code tells apart: it exits non-zero  *)
(* ("status"), or it is killed at its time limit before ("timeout") or     *)
(* after ("late") it took effect.                                          *)
(*                                                                         *)
(* cleanup_legacy_port_guards, with which synchronize_block_state begins    *)
(* when it is configured, is left out: it deletes the table and the rules   *)
(* of an older feature, none of which holds a block of an address, and what *)
(* it reports is only counted.                                              *)
(***************************************************************************)
EXTENDS Integers, Sequences, FiniteSets

CONSTANTS
    IP,                     \* source addresses, ordered as the BTreeMap keys are
    Scanner,                \* processes that scan: the daemon, `vs scan`
    Operator,               \* processes that run `vs blocks` commands
    Candidate,              \* what a finding can ask for an address: a BlockCandidate
    ConfiguredBackends,     \* values active_response.firewall_backend takes
    Installed,              \* firewall commands present on the host
    PermanentBlockEnabled,  \* permanent_block_enabled
    PermanentBlockWindow,   \* permanent_block_window_seconds
    MaxBlocksPerScan,       \* max_blocks_per_scan
    FaultKinds,             \* which faults happen: subset of AllFaultKinds
    MaxFaults,              \* bound: faults per behaviour
    MaxEvidenceScans,       \* bound: scans that carry a candidate
    MaxTime                 \* bound: the wall clock

Proc == Scanner \cup Operator
Backend == {"nftables", "iptables"}
AllFaultKinds == {"status", "timeout", "late", "crash", "reboot"}
Never == -1    \* expires_at = None, and a firewall entry without a timeout
Absent == -2   \* no record, no firewall entry
Expiry == Nat \cup {Never, Absent}

Action == {"observe", "block", "permanent_block"}
NoCandidate == [action |-> "none", ttl |-> 0, after |-> 0]

ASSUME IPAssumption == IP \subseteq Nat
ASSUME CandidateAssumption ==
    Candidate \subseteq [action : Action, ttl : Nat, after : Nat \ {0}]
ASSUME BackendAssumption ==
    /\ ConfiguredBackends \subseteq Backend \cup {"auto"}
    /\ Installed \subseteq Backend
ASSUME BoundAssumption ==
    /\ PermanentBlockEnabled \in BOOLEAN
    /\ {PermanentBlockWindow, MaxBlocksPerScan, MaxTime} \subseteq Nat
    /\ {MaxFaults, MaxEvidenceScans} \subseteq Nat
    /\ FaultKinds \subseteq AllFaultKinds

VARIABLES
    now,       \* the wall clock
    firewall,  \* firewall[b][ip]: Absent, Never, or when the kernel drops the entry
    saved,     \* the BlockState row of the rule_states table
    pc,        \* pc[p]: what process p does next
    op,        \* op[p]: the operation p runs, with its copy of the BlockState
    faults,    \* faults so far
    scans,     \* scans with evidence so far
    triggers,  \* history: triggers[ip], the scan times at which ip was counted
    ordered    \* history: addresses some candidate wanted blocked permanently

vars == <<now, firewall, saved, pc, op, faults, scans, triggers, ordered>>

-----------------------------------------------------------------------------
(* State: BlockRecord, TriggerRecord, BlockState.                           *)

NoBlock == [backend |-> "nftables", expires |-> Absent]
NoTrigger == [first |-> 0, last |-> 0, count |-> 0]
BlockRecord == [backend : Backend, expires : Expiry]
TriggerRecord == [first : Nat, last : Nat, count : Nat]
BlockState == [blocks : [IP -> BlockRecord], history : [IP -> TriggerRecord]]
EmptyState == [blocks |-> [ip \in IP |-> NoBlock], history |-> [ip \in IP |-> NoTrigger]]

Recorded(r) == r.expires # Absent
\* Mutant: the expiry comparison is one time unit early.
ExpiredEarly(r, at) == r.expires \in Nat /\ r.expires <= at + 1

Expired(r, at) == r.expires \in Nat /\ r.expires <= at
RecordedIPs(s) == {ip \in IP : Recorded(s.blocks[ip])}

DropRecord(s, ip) == [s EXCEPT !.blocks[ip] = NoBlock]
ClearHistory(s, ip) == [s EXCEPT !.history[ip] = NoTrigger]

Kind == {"none", "scan", "cleanup", "unblock", "unblock_all"}
Phase == {"idle", "load", "expire", "check", "apply", "promote", "unblock", "save"}
Operation ==
    [kind : Kind, config : Backend \cup {"auto"}, at : Nat, state : BlockState,
     cand : [IP -> Candidate \cup {NoCandidate}], requested : SUBSET IP,
     todo : SUBSET IP, decided : SUBSET IP, writes : Nat]
NoCandidates == [ip \in IP |-> NoCandidate]
NewOperation(kind, config, at, state, cand, ips, todo) ==
    [kind |-> kind, config |-> config, at |-> at, state |-> state, cand |-> cand,
     requested |-> ips, todo |-> todo, decided |-> {}, writes |-> 0]
NoOperation == NewOperation("none", "auto", 0, EmptyState, NoCandidates, {}, {})

-----------------------------------------------------------------------------
(* The firewall commands.                                                   *)

\* SystemIpBlocker::from_config: an explicit backend is not probed.
HasBackend(config) == config \in Backend \/ Installed # {}
BackendOf(config) ==
    IF config \in Backend THEN config
    ELSE IF "nftables" \in Installed THEN "nftables" ELSE "iptables"

\* Mutant: "auto" tries the second backend only.
AvailableForUnblockLast(config) ==
    (IF config \in Backend THEN {config} ELSE {"iptables"}) \cap Installed

\* SystemIpBlocker::available_for_unblock.
AvailableForUnblock(config) ==
    (IF config \in Backend THEN {config} ELSE Backend) \cap Installed

MayFault(kind) == kind \in FaultKinds /\ faults < MaxFaults

Outcome(e, res, f) == [entry |-> e, res |-> res, fault |-> f]

\* nft adds the element with a kernel timeout; iptables ignores the TTL; both
\* leave an entry that is already there as it is.
EntryAfterBlock(b, ip, ttl) ==
    IF firewall[b][ip] # Absent THEN firewall[b][ip]
    ELSE IF b = "iptables" \/ ttl = Never THEN Never ELSE now + ttl

BlockResults(b, ip, ttl) ==
    LET old == firewall[b][ip]
        new == EntryAfterBlock(b, ip, ttl)
    IN  IF b \notin Installed THEN {Outcome(old, "err", 0)}
        ELSE {Outcome(new, "ok", 0)}
             \cup (IF MayFault("status") THEN {Outcome(old, "err", 1)} ELSE {})
             \cup (IF MayFault("timeout") THEN {Outcome(old, "err", 1)} ELSE {})
             \cup (IF MayFault("late") THEN {Outcome(new, "err", 1)} ELSE {})

\* unblock_ip answers Ok(true), Ok(false) or Err.  A listing or a delete that
\* exits non-zero is Ok(false), the answer for an address that is not blocked.
UnblockResults(b, ip) ==
    LET old == firewall[b][ip]
    IN  IF b \notin Installed THEN {Outcome(old, "err", 0)}
        ELSE {Outcome(Absent, IF old = Absent THEN "false" ELSE "true", 0)}
             \cup (IF MayFault("status") THEN {Outcome(old, "false", 1)} ELSE {})
             \cup (IF MayFault("timeout") THEN {Outcome(old, "err", 1)} ELSE {})
             \cup (IF MayFault("late") THEN {Outcome(Absent, "err", 1)} ELSE {})

\* is_blocked: a listing (nft) or a check (iptables -C) that exits non-zero
\* reads as "not blocked", whatever made it fail.
IsBlockedResults(b, ip) ==
    LET old == firewall[b][ip]
    IN  IF b \notin Installed THEN {Outcome(old, "err", 0)}
        ELSE {Outcome(old, IF old = Absent THEN "false" ELSE "true", 0)}
             \cup (IF MayFault("status") THEN {Outcome(old, "false", 1)} ELSE {})
             \cup (IF MayFault("timeout") THEN {Outcome(old, "err", 1)} ELSE {})

\* One firewall command of process p on entry <<b, ip>> ended with outcome o.
Command(b, ip, o) ==
    /\ firewall' = [firewall EXCEPT ![b][ip] = o.entry]
    /\ faults' = faults + o.fault

-----------------------------------------------------------------------------
(* Starting an operation.                                                   *)

\* The next address of the loop: BTreeMap iteration is in key order.
NextIP(p, ip) == ip \in op[p].todo /\ \A j \in op[p].todo : ip <= j

\* apply_active_response up to load_rule_state: the candidates are known and
\* Utc::now() has been read, the state has not.
BeginScan(p) ==
    /\ pc[p] = "idle"
    /\ \E config \in ConfiguredBackends, cand \in [IP -> Candidate \cup {NoCandidate}] :
        LET evidence == \E ip \in IP : cand[ip] # NoCandidate
        IN  /\ HasBackend(config)
            /\ evidence => scans < MaxEvidenceScans
            /\ scans' = IF evidence THEN scans + 1 ELSE scans
            /\ op' = [op EXCEPT ![p] =
                        NewOperation("scan", config, now, EmptyState, cand, {}, {})]
            /\ ordered' = ordered \cup {ip \in IP : cand[ip].action = "permanent_block"}
    /\ pc' = [pc EXCEPT ![p] = "load"]
    /\ UNCHANGED <<now, firewall, saved, faults, triggers>>

\* Mutant: only nftables records are looked at for expiry.
LoadStateNftOnly(p) ==
    /\ pc[p] = "load"
    /\ op' = [op EXCEPT ![p].state = saved,
                        ![p].todo = {ip \in IP : /\ Expired(saved.blocks[ip], op[p].at)
                                                 /\ saved.blocks[ip].backend = "nftables"}]
    /\ pc' = [pc EXCEPT ![p] = "expire"]
    /\ UNCHANGED <<now, firewall, saved, faults, scans, triggers, ordered>>

LoadState(p) ==
    /\ pc[p] = "load"
    /\ op' = [op EXCEPT ![p].state = saved,
                        ![p].todo = {ip \in IP : Expired(saved.blocks[ip], op[p].at)}]
    /\ pc' = [pc EXCEPT ![p] = "expire"]
    /\ UNCHANGED <<now, firewall, saved, faults, scans, triggers, ordered>>

\* cleanup_active_blocks reads the clock after the state.
BeginCleanup(p) ==
    /\ pc[p] = "idle"
    /\ \E config \in ConfiguredBackends :
        op' = [op EXCEPT ![p] =
                 NewOperation("cleanup", config, now, saved, NoCandidates, {},
                              {ip \in IP : Expired(saved.blocks[ip], now)})]
    /\ pc' = [pc EXCEPT ![p] = "expire"]
    /\ UNCHANGED <<now, firewall, saved, faults, scans, triggers, ordered>>

\* unblock_active_ip and unblock_all_active_blocks up to their firewall calls.
BeginUnblock(p, kind, ips) ==
    /\ pc[p] = "idle"
    /\ \E config \in ConfiguredBackends :
        op' = [op EXCEPT ![p] =
                 NewOperation(kind, config, now, saved, NoCandidates, ips, ips)]
    /\ pc' = [pc EXCEPT ![p] = "unblock"]
    /\ UNCHANGED <<now, firewall, saved, faults, scans, triggers, ordered>>

-----------------------------------------------------------------------------
(* synchronize_block_state.                                                 *)

\* Mutant: the record is dropped although the command failed.
ExpireBlockAlways(p) ==
    /\ pc[p] = "expire"
    /\ \E ip \in IP :
        /\ NextIP(p, ip)
        /\ LET b == op[p].state.blocks[ip].backend
           IN  \E o \in UnblockResults(b, ip) :
                /\ Command(b, ip, o)
                /\ op' = [op EXCEPT ![p].todo = @ \ {ip}, ![p].state = DropRecord(@, ip)]
    /\ UNCHANGED <<now, saved, pc, scans, triggers, ordered>>

\* Lift an expired block through the backend that its record names.  Ok(_)
\* drops the record, Err keeps it.
ExpireBlock(p) ==
    /\ pc[p] = "expire"
    /\ \E ip \in IP :
        /\ NextIP(p, ip)
        /\ LET b == op[p].state.blocks[ip].backend
           IN  \E o \in UnblockResults(b, ip) :
                /\ Command(b, ip, o)
                /\ op' = [op EXCEPT
                     ![p].todo = @ \ {ip},
                     ![p].state = IF o.res = "err" THEN @ ELSE DropRecord(@, ip)]
    /\ UNCHANGED <<now, saved, pc, scans, triggers, ordered>>

BeginCheck(p) ==
    /\ pc[p] = "expire"
    /\ op[p].todo = {}
    /\ op' = [op EXCEPT ![p].todo = RecordedIPs(op[p].state)]
    /\ pc' = [pc EXCEPT ![p] = "check"]
    /\ UNCHANGED <<now, firewall, saved, faults, scans, triggers, ordered>>

\* Drop a record the firewall does not know (any more).
CheckBlock(p) ==
    /\ pc[p] = "check"
    /\ \E ip \in IP :
        /\ NextIP(p, ip)
        /\ LET b == op[p].state.blocks[ip].backend
           IN  \E o \in IsBlockedResults(b, ip) :
                /\ Command(b, ip, o)
                /\ op' = [op EXCEPT
                     ![p].todo = @ \ {ip},
                     ![p].state = IF o.res = "false" THEN DropRecord(@, ip) ELSE @]
    /\ UNCHANGED <<now, saved, pc, scans, triggers, ordered>>

\* cleanup_active_blocks goes on to save_rule_state.
EndCleanup(p) ==
    /\ pc[p] = "check" /\ op[p].kind = "cleanup"
    /\ op[p].todo = {}
    /\ pc' = [pc EXCEPT ![p] = "save"]
    /\ UNCHANGED <<now, firewall, saved, op, faults, scans, triggers, ordered>>

-----------------------------------------------------------------------------
(* permanent_block_decisions: count the trigger, decide on escalation.      *)

PruneTriggerHistory(h, at) ==
    [ip \in IP |-> IF h[ip].last <= at /\ at - h[ip].last <= 2 * PermanentBlockWindow
                   THEN h[ip] ELSE NoTrigger]

\* Mutant: the window is never checked again.
StaleTriggerNever(t, at) == t.count = 0

\* count = 0 stands for "no entry": the code never stores a zero count.
StaleTrigger(t, at) == t.count = 0 \/ at < t.first \/ at - t.first > PermanentBlockWindow

CountTrigger(t, at) ==
    [first |-> IF StaleTrigger(t, at) THEN at ELSE t.first,
     last  |-> at,
     count |-> IF StaleTrigger(t, at) THEN 1 ELSE t.count + 1]

Decide(p) ==
    /\ pc[p] = "check" /\ op[p].kind = "scan"
    /\ op[p].todo = {}
    /\ LET at == op[p].at
           cand == op[p].cand
           pruned == PruneTriggerHistory(op[p].state.history, at)
           counted == IF PermanentBlockEnabled
                      THEN {ip \in IP : cand[ip].action \in {"block", "permanent_block"}}
                      ELSE {}
           history == [ip \in IP |-> IF ip \in counted THEN CountTrigger(pruned[ip], at)
                                     ELSE pruned[ip]]
       IN  /\ op' = [op EXCEPT
                ![p].state = [@ EXCEPT !.history = history],
                ![p].decided = {ip \in counted : history[ip].count >= cand[ip].after},
                ![p].todo = {ip \in IP : cand[ip] # NoCandidate}]
           /\ triggers' = [ip \in IP |-> IF ip \in counted THEN Append(triggers[ip], at)
                                         ELSE triggers[ip]]
    /\ pc' = [pc EXCEPT ![p] = "apply"]
    /\ UNCHANGED <<now, firewall, saved, faults, scans, ordered>>

-----------------------------------------------------------------------------
(* The candidate loop of apply_with_blocker.                                *)

ShouldPermanentBlock(p, ip) ==
    op[p].cand[ip].action = "permanent_block" \/ ip \in op[p].decided

\* A candidate that asks for a firewall write: a new block, or the promotion
\* of a temporary one.
WantsWrite(p, ip) ==
    LET r == op[p].state.blocks[ip]
    IN  /\ op[p].cand[ip].action # "observe"
        /\ ~Recorded(r) \/ (ShouldPermanentBlock(p, ip) /\ r.expires # Never)

\* Mutant: off by one.
MayWriteOneMore(p) == op[p].writes <= MaxBlocksPerScan

MayWrite(p) == op[p].writes < MaxBlocksPerScan

\* Observed, AlreadyBlocked, AlreadyPermanentlyBlocked and SkippedLimit.
SkipCandidate(p) ==
    /\ pc[p] = "apply"
    /\ \E ip \in IP :
        /\ NextIP(p, ip)
        /\ WantsWrite(p, ip) => ~MayWrite(p)
        /\ op' = [op EXCEPT
             ![p].todo = @ \ {ip},
             ![p].state = IF /\ op[p].cand[ip].action # "observe"
                             /\ ShouldPermanentBlock(p, ip)
                             /\ op[p].state.blocks[ip].expires = Never
                          THEN ClearHistory(@, ip) ELSE @]
    /\ UNCHANGED <<now, firewall, saved, pc, faults, scans, triggers, ordered>>

\* The record apply_with_blocker stores for ip after a successful write.  The
\* expiry counts from the start of the scan.
StoreBlock(s, ip, b, permanent, expires) ==
    LET r == [backend |-> b, expires |-> IF permanent THEN Never ELSE expires]
        stored == [s EXCEPT !.blocks[ip] = r]
    IN  IF permanent THEN ClearHistory(stored, ip) ELSE stored

BlockNew(p) ==
    /\ pc[p] = "apply"
    /\ \E ip \in IP :
        /\ NextIP(p, ip)
        /\ WantsWrite(p, ip) /\ MayWrite(p)
        /\ ~Recorded(op[p].state.blocks[ip])
        /\ LET b == BackendOf(op[p].config)
               permanent == ShouldPermanentBlock(p, ip)
               ttl == op[p].cand[ip].ttl
           IN  \E o \in BlockResults(b, ip, IF permanent THEN Never ELSE ttl) :
                /\ Command(b, ip, o)
                /\ op' = [op EXCEPT
                     ![p].todo = @ \ {ip},
                     ![p].writes = @ + 1,
                     ![p].state = IF o.res = "ok"
                                  THEN StoreBlock(@, ip, b, permanent, op[p].at + ttl)
                                  ELSE @]
    /\ UNCHANGED <<now, saved, pc, scans, triggers, ordered>>

\* Mutant: the temporary entry is not lifted first.
PromoteUnblockSkipped(p) ==
    /\ pc[p] = "apply"
    /\ \E ip \in IP :
        /\ NextIP(p, ip)
        /\ WantsWrite(p, ip) /\ MayWrite(p)
        /\ Recorded(op[p].state.blocks[ip])
    /\ op' = [op EXCEPT ![p].writes = @ + 1]
    /\ pc' = [pc EXCEPT ![p] = "promote"]
    /\ UNCHANGED <<now, firewall, saved, faults, scans, triggers, ordered>>

\* promote_ip_to_permanent, first half: lift the temporary entry of the
\* configured backend.  On Err the candidate fails and its record stays.
PromoteUnblock(p) ==
    /\ pc[p] = "apply"
    /\ \E ip \in IP :
        /\ NextIP(p, ip)
        /\ WantsWrite(p, ip) /\ MayWrite(p)
        /\ Recorded(op[p].state.blocks[ip])
        /\ LET b == BackendOf(op[p].config)
           IN  \E o \in UnblockResults(b, ip) :
                /\ Command(b, ip, o)
                /\ op' = [op EXCEPT ![p].writes = @ + 1,
                                    ![p].todo = IF o.res = "err" THEN @ \ {ip} ELSE @]
                /\ pc' = [pc EXCEPT ![p] = IF o.res = "err" THEN @ ELSE "promote"]
    /\ UNCHANGED <<now, saved, scans, triggers, ordered>>

\* Second half: block without a TTL.  On Err the old record stays although its
\* firewall entry is gone.
PromoteBlock(p) ==
    /\ pc[p] = "promote"
    /\ \E ip \in IP :
        /\ NextIP(p, ip)
        /\ LET b == BackendOf(op[p].config)
           IN  \E o \in BlockResults(b, ip, Never) :
                /\ Command(b, ip, o)
                /\ op' = [op EXCEPT
                     ![p].todo = @ \ {ip},
                     ![p].state = IF o.res = "ok" THEN StoreBlock(@, ip, b, TRUE, Never) ELSE @]
    /\ pc' = [pc EXCEPT ![p] = "apply"]
    /\ UNCHANGED <<now, saved, scans, triggers, ordered>>

EndApply(p) ==
    /\ pc[p] = "apply"
    /\ op[p].todo = {}
    /\ pc' = [pc EXCEPT ![p] = "save"]
    /\ UNCHANGED <<now, firewall, saved, op, faults, scans, triggers, ordered>>

-----------------------------------------------------------------------------
(* Manual unblocking.                                                       *)

\* unblock_ip_from_available_backends fails when there is no backend, or when
\* one failed and none removed anything.
UnblockFails(avail, o) ==
    \/ avail = {}
    \/ (\E b \in avail : o[b].res = "err") /\ (\A b \in avail : o[b].res # "true")

\* One iteration.  A failure ends `unblock` without saving; `unblock-all` goes
\* on with the next address.
UnblockIP(p) ==
    /\ pc[p] = "unblock"
    /\ \E ip \in IP :
        LET avail == AvailableForUnblock(op[p].config)
        IN  /\ NextIP(p, ip)
            /\ \E o \in [avail -> UNION {UnblockResults(b, ip) : b \in avail}] :
                LET failed == UnblockFails(avail, o)
                    used == Cardinality({b \in avail : o[b].fault = 1})
                IN  /\ \A b \in avail : o[b] \in UnblockResults(b, ip)
                    /\ faults + used <= MaxFaults
                    /\ faults' = faults + used
                    /\ firewall' = [b \in Backend |->
                         IF b \in avail THEN [firewall[b] EXCEPT ![ip] = o[b].entry]
                         ELSE firewall[b]]
                    /\ op' = [op EXCEPT
                         ![p].todo = @ \ {ip},
                         ![p].state =
                             IF failed THEN @ ELSE ClearHistory(DropRecord(@, ip), ip)]
                    /\ pc' = [pc EXCEPT ![p] =
                         IF failed /\ op[p].kind = "unblock" THEN "idle" ELSE @]
    /\ UNCHANGED <<now, saved, scans, triggers, ordered>>

EndUnblock(p) ==
    /\ pc[p] = "unblock"
    /\ op[p].todo = {}
    /\ pc' = [pc EXCEPT ![p] = "save"]
    /\ UNCHANGED <<now, firewall, saved, op, faults, scans, triggers, ordered>>

-----------------------------------------------------------------------------
(* The end of an operation, and the environment.                            *)

\* save_rule_state overwrites the whole row.
SaveState(p) ==
    /\ pc[p] = "save"
    /\ saved' = op[p].state
    /\ pc' = [pc EXCEPT ![p] = "idle"]
    /\ op' = [op EXCEPT ![p] = NoOperation]
    /\ UNCHANGED <<now, firewall, faults, scans, triggers, ordered>>

\* The process dies, or the database refuses the load or the save: the
\* operation ends and its copy of the state is lost.
Crash(p) ==
    /\ MayFault("crash")
    /\ pc[p] # "idle"
    /\ faults' = faults + 1
    /\ pc' = [pc EXCEPT ![p] = "idle"]
    /\ op' = [op EXCEPT ![p] = NoOperation]
    /\ UNCHANGED <<now, firewall, saved, scans, triggers, ordered>>

\* The host restarts: the runtime firewall rules are gone, the database stays.
Reboot ==
    /\ MayFault("reboot")
    /\ faults' = faults + 1
    /\ firewall' = [b \in Backend |-> [ip \in IP |-> Absent]]
    /\ pc' = [p \in Proc |-> "idle"]
    /\ op' = [p \in Proc |-> NoOperation]
    /\ UNCHANGED <<now, saved, scans, triggers, ordered>>

\* Time passes; the kernel drops the nftables elements whose timeout is over.
Tick ==
    /\ now < MaxTime
    /\ now' = now + 1
    /\ firewall' = [b \in Backend |-> [ip \in IP |->
         IF firewall[b][ip] \in Nat /\ firewall[b][ip] <= now + 1
         THEN Absent ELSE firewall[b][ip]]]
    /\ UNCHANGED <<saved, pc, op, faults, scans, triggers, ordered>>

-----------------------------------------------------------------------------
Init ==
    /\ now = 0
    /\ firewall = [b \in Backend |-> [ip \in IP |-> Absent]]
    /\ saved = EmptyState
    /\ pc = [p \in Proc |-> "idle"]
    /\ op = [p \in Proc |-> NoOperation]
    /\ faults = 0
    /\ scans = 0
    /\ triggers = [ip \in IP |-> <<>>]
    /\ ordered = {}

\* The steps of an operation that has begun.
Step(p) ==
    \/ LoadState(p) \/ ExpireBlock(p) \/ BeginCheck(p) \/ CheckBlock(p) \/ EndCleanup(p)
    \/ Decide(p) \/ SkipCandidate(p) \/ BlockNew(p) \/ PromoteUnblock(p) \/ PromoteBlock(p)
    \/ EndApply(p) \/ UnblockIP(p) \/ EndUnblock(p) \/ SaveState(p)

Next ==
    \/ \E p \in Scanner : BeginScan(p)
    \/ \E p \in Operator :
        \/ BeginCleanup(p)
        \/ \E ip \in IP : BeginUnblock(p, "unblock", {ip})
        \/ BeginUnblock(p, "unblock_all", RecordedIPs(saved))
    \/ \E p \in Proc : Step(p) \/ Crash(p)
    \/ Reboot
    \/ Tick

Spec == Init /\ [][Next]_vars

\* The daemon's loop scans again and again - also when commands take turns with
\* the scans, hence strong fairness -, an operation that has begun runs on, and
\* time passes.
Fairness ==
    /\ \A p \in Scanner : SF_vars(BeginScan(p))
    /\ \A p \in Proc : WF_vars(Step(p))
    /\ WF_vars(Tick)

FairSpec == Spec /\ Fairness

-----------------------------------------------------------------------------
(* Properties.                                                              *)

\* Type correctness, and the clock readings an operation keeps never lie in
\* the future.
TypeOK ==
    /\ now \in 0..MaxTime
    /\ firewall \in [Backend -> [IP -> Expiry]]
    /\ saved \in BlockState
    /\ pc \in [Proc -> Phase]
    /\ op \in [Proc -> Operation]
    /\ faults \in 0..MaxFaults
    /\ scans \in 0..MaxEvidenceScans
    /\ triggers \in [IP -> Seq(Nat)]
    /\ ordered \in SUBSET IP

Idle == \A p \in Proc : pc[p] = "idle"

\* Between operations that neither fail nor overlap, the persisted state and
\* the firewall agree: every entry has a record naming its backend (nothing is
\* blocked that `vs blocks list` does not show and cleanup cannot lift), a
\* permanent record has an entry without timeout, and an unexpired temporary
\* one has an entry that lasts at least as long (apply_with_blocker,
\* synchronize_block_state, promote_ip_to_permanent).
FirewallMatchesState ==
    Idle => \A ip \in IP :
        LET r == saved.blocks[ip]
            entry == firewall[r.backend][ip]
        IN  /\ \A b \in Backend : firewall[b][ip] # Absent => Recorded(r) /\ r.backend = b
            /\ r.expires = Never => entry = Never
            /\ r.expires \in Nat /\ now < r.expires =>
                 entry = Never \/ (entry \in Nat /\ entry >= r.expires)

\* A recorded block that has not expired is lifted only by a manual unblock or
\* to be replaced by a permanent one: no expiry pass, stale check or kernel
\* timeout shortens it.
BlockHolds ==
    [][\A ip \in IP :
        LET r == saved.blocks[ip]
        IN  /\ firewall[r.backend][ip] # Absent
            /\ firewall'[r.backend][ip] = Absent
            => \/ r.expires \in Nat /\ r.expires <= now'
               \/ ~Recorded(r)
               \/ \E p \in Proc : pc[p] \in {"unblock", "apply"}]_vars

\* One scan adds or upgrades at most max_blocks_per_scan records, promotions
\* and new blocks counted together, dropped and re-added blocks included.
ScanWriteBudget ==
    [][Cardinality({ip \in IP : /\ Recorded(saved'.blocks[ip])
                                /\ saved'.blocks[ip] # saved.blocks[ip]})
         <= MaxBlocksPerScan]_vars

\* `vs blocks unblock <ip>` that reports success leaves the address unblocked
\* in every firewall backend (unblock_active_ip).
UnblockEffective ==
    \A p \in Proc :
        pc[p] = "save" /\ op[p].kind = "unblock" =>
            \A ip \in op[p].requested, b \in Backend : firewall[b][ip] = Absent

\* The triggers of ip that fall into the window opened at time f.
InWindow(s, f) == {i \in DOMAIN s : f <= s[i] /\ s[i] <= f + PermanentBlockWindow}

\* Evidence for a permanent block of ip: a finding asked for one, or the number
\* of scans some candidate's threshold demands accused ip within one window.
Justified(ip) ==
    \/ ip \in ordered
    \/ \E c \in Candidate, f \in 0..now : Cardinality(InWindow(triggers[ip], f)) >= c.after

\* Nobody is blocked permanently without the evidence the escalation rule
\* demands, whatever processes overlap, updates get lost, clocks were read
\* early, commands fail or crashes happen (permanent_block_decisions).
PermanentJustified ==
    \A ip \in IP : saved.blocks[ip].expires = Never => Justified(ip)

\* A record is forgotten only when its firewall entry is gone: an entry that
\* is still there is never left without the record that would lift it.
NoSilentRelease ==
    [][\A ip \in IP :
        Recorded(saved.blocks[ip]) /\ ~Recorded(saved'.blocks[ip])
            => firewall'[saved.blocks[ip].backend][ip] = Absent]_vars

\* A temporary block that has expired is eventually lifted, or replaced by a
\* new or a permanent one that is recorded - with iptables, where no kernel
\* timeout helps, too - although commands time out, scans crash and the host
\* reboots now and then (synchronize_block_state runs in every scan).
ExpiredBlocksLifted ==
    \A ip \in IP, b \in Backend :
        Expired(saved.blocks[ip], now) /\ saved.blocks[ip].backend = b
            ~> \/ firewall[b][ip] = Absent
               \/ Recorded(saved.blocks[ip]) /\ ~Expired(saved.blocks[ip], now)

-----------------------------------------------------------------------------
(* The inductive invariant behind PermanentJustified: the same claim about  *)
(* every loaded copy of the state, and the trigger counts it rests on.      *)

JustifiedState(s) ==
    \A ip \in IP :
        /\ s.blocks[ip].expires = Never => Justified(ip)
        /\ s.history[ip].first <= now
        /\ s.history[ip].count <= Cardinality(InWindow(triggers[ip], s.history[ip].first))

JustifiedOperation(p) ==
    /\ JustifiedState(op[p].state)
    /\ op[p].at <= now
    /\ \A ip \in IP :
        /\ ShouldPermanentBlock(p, ip) => Justified(ip)
        /\ pc[p] = "promote" /\ NextIP(p, ip) => ShouldPermanentBlock(p, ip)

\* Every copy of the block state, the persisted one and those that running
\* operations will write back, holds only permanent blocks and trigger counts
\* that the recorded evidence covers.
EvidenceInv ==
    /\ JustifiedState(saved)
    /\ \A p \in Proc : JustifiedOperation(p)
=============================================================================
