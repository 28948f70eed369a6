----------------------------- MODULE StorageLimit -----------------------------
(***************************************************************************)
(* SqliteStore::enforce_size_limit (sentinel-agent storage/sqlite.rs): the  *)
(* passes that delete the oldest rows of the tables until the database file *)
(* is below 80 % of its limit, while another process's passes, or its       *)
(* inserts, come between the statements, each of which is a transaction of  *)
(* its own.  Rows are counted in units of MIN_SIZE_PRUNE_BATCH for the large *)
(* tables and singly for the baselines.                                     *)
(***************************************************************************)
EXTENDS Integers, FiniteSets, FiniteSetsExt, Sequences

CONSTANTS
    Pruner,        \* processes that open the store: the daemon and the command line
    FirstCounts,   \* possible numbers of rows per table to begin with
    KeepRows,      \* KeepRows[t]: keep_latest of the policy of table t
    RowBytes,      \* RowBytes[t]: what a row adds to the file
    FixedBytes,    \* schema and tables that are never pruned
    LimitBytes,    \* max_database_size_mb
    MinBatch,      \* MIN_SIZE_PRUNE_BATCH
    MaxPasses,     \* SIZE_LIMIT_MAX_PASSES
    MaxGrowth      \* bound: rows inserted while a process prunes

SizeTables == {"raw_events", "notification_logs", "scan_runs", "attack_observations",
               "findings", "attack_fingerprints", "baseline_snapshots"}

\* SIZE_PRUNE_POLICIES in their order, with divisor and min_pass.
Policies ==
    <<[table |-> "raw_events", divisor |-> 4, min_pass |-> 0],
      [table |-> "notification_logs", divisor |-> 3, min_pass |-> 0],
      [table |-> "scan_runs", divisor |-> 3, min_pass |-> 0],
      [table |-> "attack_observations", divisor |-> 3, min_pass |-> 0],
      [table |-> "findings", divisor |-> 5, min_pass |-> 1],
      [table |-> "attack_fingerprints", divisor |-> 5, min_pass |-> 2],
      [table |-> "baseline_snapshots", divisor |-> 2, min_pass |-> 2]>>

ASSUME StorageLimitAssumption ==
    /\ FirstCounts \subseteq [SizeTables -> Nat]
    /\ KeepRows \in [SizeTables -> Nat] /\ RowBytes \in [SizeTables -> Nat]
    /\ {FixedBytes, LimitBytes, MinBatch, MaxPasses, MaxGrowth} \subseteq Nat
    /\ MinBatch > 0 /\ \A i \in DOMAIN Policies : Policies[i].min_pass < MaxPasses

VARIABLES
    count,    \* rows per table
    pruner,   \* the locals of each process's enforce_size_limit
    growth,   \* rows inserted so far
    floor     \* history: per table, what no lone pruner may go below

limitVars == <<count, pruner, growth, floor>>

Bytes(t) == count[t] * RowBytes[t]
Footprint ==
    FixedBytes + Bytes("raw_events") + Bytes("notification_logs") + Bytes("scan_runs")
    + Bytes("attack_observations") + Bytes("findings") + Bytes("attack_fingerprints")
    + Bytes("baseline_snapshots")
TargetBytes == (LimitBytes * 80) \div 100
\* deletable_count.
Surplus(t) == Max({0, count[t] - KeepRows[t]})

\* The locals of a sweep: the pass and the policy it is at, the size it works from,
\* the batch it is about to delete and the rows the pass has deleted.  History: some
\* other sweep deleted from under the batch (overlap), rows came in meanwhile (grown).
Sweep(pc, pass, policy, size, batch, deleted, overlap, grown) ==
    [pc |-> pc, pass |-> pass, policy |-> policy, size |-> size, batch |-> batch, deleted |-> deleted,
     overlap |-> overlap, grown |-> grown]
Dormant == Sweep("idle", 0, 1, 0, 0, 0, FALSE, FALSE)
NewPass(pass) == Sweep("count", pass, 1, Footprint, 0, 0, FALSE, FALSE)
MoveTo(me, pc) == Sweep(pc, me.pass, me.policy, me.size, me.batch, me.deleted, me.overlap, me.grown)

LimitInit ==
    /\ count \in FirstCounts
    /\ pruner = [p \in Pruner |-> Dormant]
    /\ growth = 0
    /\ floor = [t \in SizeTables |-> Min({count[t], KeepRows[t]})]

\* A file within its limit is left alone.
Enforce(p) ==
    /\ pruner[p].pc = "idle" /\ Footprint > LimitBytes
    /\ pruner' = [pruner EXCEPT ![p] = NewPass(0)]
    /\ UNCHANGED <<count, growth, floor>>

PressureAdjustedDivisor(divisor, size) ==
    IF TargetBytes = 0 THEN divisor
    ELSE IF size > TargetBytes * 4 THEN Min({divisor, 2})
    ELSE IF size > TargetBytes * 2 THEN Min({divisor, 3})
    ELSE divisor

BatchSize(policy, size) ==
    LET deletable == Surplus(policy.table)
    IN IF deletable = 0 THEN 0
       ELSE Min({deletable, Max({MinBatch, deletable \div PressureAdjustedDivisor(policy.divisor, size)})})

\* prune_batch_size and the count of delete_oldest_rows_keep_latest, past the
\* policies that are not due or have nothing to delete.
CountRows(p) ==
    LET me == pruner[p]
        due == {i \in me.policy .. Len(Policies) :
                   me.pass >= Policies[i].min_pass /\ BatchSize(Policies[i], me.size) > 0}
    IN /\ me.pc = "count"
       /\ pruner' = [pruner EXCEPT ![p] =
             IF due = {} THEN MoveTo(me, "vacuum")
             ELSE Sweep("delete", me.pass, Min(due), me.size, BatchSize(Policies[Min(due)], me.size),
                        me.deleted, FALSE, me.grown)]
       /\ UNCHANGED <<count, growth, floor>>

Disturbed(c) == Sweep(c.pc, c.pass, c.policy, c.size, c.batch, c.deleted, TRUE, c.grown)

\* The DELETE of a batch counted before.  Another process that still has to
\* delete has counted rows that are gone now.
DeleteRows(p) ==
    LET me == pruner[p]
        t == Policies[me.policy].table
        gone == Min({me.batch, count[t]})
        Stale(q) == pruner[q].pc = "delete" /\ pruner[q].policy = me.policy
    IN /\ me.pc = "delete"
       /\ count' = [count EXCEPT ![t] = @ - gone]
       /\ pruner' = [q \in Pruner |->
             IF q = p
             THEN Sweep("count", me.pass, me.policy + 1, me.size, 0, me.deleted + gone, FALSE, me.grown)
             ELSE IF Stale(q) THEN Disturbed(pruner[q]) ELSE pruner[q]]
       /\ floor' = [floor EXCEPT ![t] = IF me.overlap THEN Min({@, count'[t]}) ELSE @]
       /\ UNCHANGED growth

\* Mutant: a pass that deleted nothing ends the loop at once.
NoFutureCandidates(pass) == FALSE

\* has_future_size_prune_candidates.
FutureCandidates(pass) ==
    \E i \in DOMAIN Policies :
        /\ Policies[i].min_pass > pass /\ Policies[i].min_pass < MaxPasses
        /\ Surplus(Policies[i].table) > 0

\* checkpoint_and_vacuum, then the conditions that end the loop.
EndPass(p) ==
    LET me == pruner[p]
        stop == \/ Footprint <= TargetBytes
                \/ me.deleted = 0 /\ ~FutureCandidates(me.pass)
                \/ me.pass + 1 = MaxPasses
    IN /\ me.pc = "vacuum"
       /\ pruner' = [pruner EXCEPT ![p] =
             IF stop THEN MoveTo(me, "done") ELSE NewPass(me.pass + 1)]
       /\ UNCHANGED <<count, growth, floor>>

\* enforce_size_limit returns; the process scans on.
Return(p) ==
    /\ pruner[p].pc = "done"
    /\ pruner' = [pruner EXCEPT ![p] = Dormant]
    /\ UNCHANGED <<count, growth, floor>>

Grown(c) == Sweep(c.pc, c.pass, c.policy, c.size, c.batch, c.deleted, c.overlap, TRUE)

\* Another process inserts, at any time.
Grow(t) ==
    /\ growth < MaxGrowth
    /\ growth' = growth + 1
    /\ count' = [count EXCEPT ![t] = @ + 1]
    /\ floor' = [floor EXCEPT ![t] = Min({KeepRows[t], @ + 1})]
    /\ pruner' = [p \in Pruner |-> IF pruner[p].pc = "idle" THEN pruner[p] ELSE Grown(pruner[p])]

LimitNext ==
    \/ \E p \in Pruner : Enforce(p) \/ CountRows(p) \/ DeleteRows(p) \/ EndPass(p) \/ Return(p)
    \/ \E t \in SizeTables : Grow(t)

LimitSpec == LimitInit /\ [][LimitNext]_limitVars

-----------------------------------------------------------------------------
\* keep_latest: the newest rows of each table, the last baseline above all,
\* survive size pressure, unless two processes prune between each other's
\* count and delete.
LatestKept == \A t \in SizeTables : count[t] >= floor[t]

\* enforce_size_limit gives up only when the file is small enough, when no
\* table has a row left that may go (but for rows inserted during its last
\* pass), or when all passes are used up.
LimitSettled ==
    \A p \in Pruner : pruner[p].pc = "done" =>
        \/ Footprint <= TargetBytes
        \/ pruner[p].grown
        \/ \A t \in SizeTables : Surplus(t) = 0
        \/ pruner[p].pass + 1 = MaxPasses

\* enforce_size_limit deletes as much as it may and no more.
PruningSound == LatestKept /\ LimitSettled
=============================================================================
