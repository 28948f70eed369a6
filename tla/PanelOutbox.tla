----------------------------- MODULE PanelOutbox -----------------------------
(***************************************************************************)
(* The agent's panel client (sentinel-agent/src/panel.rs).  A process - the *)
(* daemon after every scan, `vs panel push`, `vs panel flush` - loads the   *)
(* persisted outbox, retries its items oldest first, sends a fresh message, *)
(* queues that message when it fails, and writes the whole outbox back.    *)
(*                                                                         *)
(* The panel is external to this module: an upload that is answered with   *)
(* success is stored there (PanelIngest checks that), one that fails may   *)
(* have been stored, may be stored later, or never.                        *)
(***************************************************************************)
EXTENDS Integers, Sequences, FiniteSets

CONSTANTS
    Agent,            \* processes that publish
    Daemon,           \* the processes of Agent that scan
    MaxRetryPerScan,  \* MAX_RETRY_PER_SCAN
    OutboxMaxItems,   \* panel.outbox_max_items
    Unsendable,       \* messages over panel.max_payload_bytes when they are retried
    FaultKinds,       \* which faults happen: subset of AllFaultKinds
    MaxFaults,        \* bound: faults per behaviour
    MaxMsg            \* bound: messages built

AllFaultKinds == {"refused", "unanswered", "build", "crash"}
Msg == 1..MaxMsg
NoMsg == 0

ASSUME OutboxAssumption ==
    /\ Daemon \subseteq Agent
    /\ {MaxRetryPerScan, MaxFaults, MaxMsg} \subseteq Nat
    /\ OutboxMaxItems \in Nat \ {0}
    /\ Unsendable \subseteq Msg
    /\ FaultKinds \subseteq AllFaultKinds

VARIABLES
    saved,     \* the panel_outbox row of the rule_states table
    built,     \* how many messages have been built: they are 1..built
    pc,        \* pc[a]: what process a does next
    op,        \* op[a]: the operation of a, with its copy of the outbox
    wire,      \* uploads given up by the agent that may still reach the panel
    stored,    \* messages the panel has persisted
    faults,    \* faults so far
    evicted,   \* history: messages dropped because the outbox was full
    abandoned  \* history: messages an aborted operation was holding

vars == <<saved, built, pc, op, wire, stored, faults, evicted, abandoned>>

-----------------------------------------------------------------------------
(* State: PanelOutboxState.                                                 *)

\* succeeded stands for last_success_at.is_some().
OutboxState == [items : Seq(Msg), succeeded : BOOLEAN]
EmptyOutbox == [items |-> <<>>, succeeded |-> FALSE]
Items(s) == {s[i] : i \in DOMAIN s}

Kind == {"none", "scan", "push", "flush"}
Phase == {"idle", "retry", "send", "save"}
Operation ==
    [kind : Kind, todo : Seq(Msg), state : OutboxState, sent : Nat, msg : Msg \cup {NoMsg}]
NoOperation ==
    [kind |-> "none", todo |-> <<>>, state |-> EmptyOutbox, sent |-> 0, msg |-> NoMsg]

MayFault(kind) == kind \in FaultKinds /\ faults < MaxFaults

-----------------------------------------------------------------------------
(* send_envelope.                                                           *)

\* The upload of m ended with ok: the panel answered 2xx.
Delivered(m) ==
    /\ stored' = stored \cup {m}
    /\ UNCHANGED <<wire, faults>>

\* It ended with an error: nothing reached the panel, or the panel has the
\* message and its answer was lost or an error, or the request is still on
\* its way when the client stops waiting for the answer.
Failed(m) ==
    \/ /\ MayFault("refused")
       /\ faults' = faults + 1
       /\ UNCHANGED <<wire, stored>>
    \/ /\ MayFault("unanswered")
       /\ faults' = faults + 1
       /\ \/ stored' = stored \cup {m} /\ UNCHANGED wire
          \/ wire' = wire \cup {m} /\ UNCHANGED stored

-----------------------------------------------------------------------------
(* publish_scan, push_snapshot, flush_outbox.                               *)

\* load_outbox; retry_outbox drains the items into its loop.
Begin(a, kind) ==
    /\ pc[a] = "idle"
    /\ op' = [op EXCEPT ![a] = [NoOperation EXCEPT
                !.kind = kind, !.todo = saved.items,
                !.state = [saved EXCEPT !.items = <<>>]]]
    /\ pc' = [pc EXCEPT ![a] = "retry"]
    /\ UNCHANGED <<saved, built, wire, stored, faults, evicted, abandoned>>

\* Mutant: it counts attempts.
MayRetryAttempts(a) ==
    op[a].kind = "scan" => op[a].sent + Len(op[a].state.items) < MaxRetryPerScan

\* The limit of retry_outbox counts successes, not attempts.
MayRetry(a) == op[a].kind = "scan" => op[a].sent < MaxRetryPerScan

\* Mutant: the retained items end up in reverse order.
RetainReversed(o) == [o EXCEPT !.todo = Tail(@), !.state.items = <<Head(o.todo)>> \o @]

Retain(o) == [o EXCEPT !.todo = Tail(@), !.state.items = Append(@, Head(o.todo))]
Discard(o) == [o EXCEPT !.todo = Tail(@), !.state.succeeded = TRUE, !.sent = @ + 1]

\* One iteration of retry_outbox.
RetryDelivered(a) ==
    /\ pc[a] = "retry" /\ op[a].todo # <<>>
    /\ MayRetry(a) /\ Head(op[a].todo) \notin Unsendable
    /\ Delivered(Head(op[a].todo))
    /\ op' = [op EXCEPT ![a] = Discard(@)]
    /\ UNCHANGED <<saved, built, pc, evicted, abandoned>>

RetryFailed(a) ==
    /\ pc[a] = "retry" /\ op[a].todo # <<>>
    /\ MayRetry(a) /\ Head(op[a].todo) \notin Unsendable
    /\ Failed(Head(op[a].todo))
    /\ op' = [op EXCEPT ![a] = Retain(@)]
    /\ UNCHANGED <<saved, built, pc, evicted, abandoned>>

\* Over the limit, or validate_payload_size refuses the item.
RetrySkipped(a) ==
    /\ pc[a] = "retry" /\ op[a].todo # <<>>
    /\ MayRetry(a) => Head(op[a].todo) \in Unsendable
    /\ op' = [op EXCEPT ![a] = Retain(@)]
    /\ UNCHANGED <<saved, built, pc, wire, stored, faults, evicted, abandoned>>

\* should_send_scan_payload: a scan without security items sends only when the
\* push interval is over (due), or when nothing was ever delivered.
WantsMessage(a, due) ==
    \/ op[a].kind = "push"
    \/ op[a].kind = "scan" /\ (due \/ ~op[a].state.succeeded)

SkipMessage(a) ==
    /\ pc[a] = "retry" /\ op[a].todo = <<>>
    /\ \E due \in BOOLEAN : ~WantsMessage(a, due) \/ built = MaxMsg
    /\ pc' = [pc EXCEPT ![a] = "save"]
    /\ UNCHANGED <<saved, built, op, wire, stored, faults, evicted, abandoned>>

\* build_scan_payload, build_snapshot_payload: a fresh message_id.
Build(a) ==
    /\ pc[a] = "retry" /\ op[a].todo = <<>>
    /\ \E due \in BOOLEAN : WantsMessage(a, due)
    /\ built < MaxMsg
    /\ built' = built + 1
    /\ op' = [op EXCEPT ![a].msg = built + 1]
    /\ pc' = [pc EXCEPT ![a] = "send"]
    /\ UNCHANGED <<saved, wire, stored, faults, evicted, abandoned>>

SendDelivered(a) ==
    /\ pc[a] = "send"
    /\ Delivered(op[a].msg)
    /\ op' = [op EXCEPT ![a].state.succeeded = TRUE]
    /\ pc' = [pc EXCEPT ![a] = "save"]
    /\ UNCHANGED <<saved, built, evicted, abandoned>>

\* Mutant: one item too many is dropped.
OverflowEarly(s) == IF Len(s) >= OutboxMaxItems THEN Len(s) - OutboxMaxItems + 1 ELSE 0

\* How many items enqueue_payload drops from the front of s.
Overflow(s) == IF Len(s) > OutboxMaxItems THEN Len(s) - OutboxMaxItems ELSE 0

\* Mutant: a full outbox refuses the new message.
EnqueueIfRoom(items, m) == IF Len(items) < OutboxMaxItems THEN Append(items, m) ELSE items
\* enqueue_payload: append, then drop what is too much.
Enqueue(items, m) ==
    LET all == Append(items, m)
    IN  SubSeq(all, 1 + Overflow(all), Len(all))

SendFailed(a) ==
    /\ pc[a] = "send"
    /\ Failed(op[a].msg)
    /\ LET kept == Enqueue(op[a].state.items, op[a].msg)
       IN  /\ op' = [op EXCEPT ![a].state.items = kept]
           /\ evicted' = evicted \cup (Items(op[a].state.items) \ Items(kept))
    /\ pc' = [pc EXCEPT ![a] = "save"]
    /\ UNCHANGED <<saved, built, abandoned>>

\* save_outbox overwrites the whole row.
SaveOutbox(a) ==
    /\ pc[a] = "save"
    /\ saved' = op[a].state
    /\ op' = [op EXCEPT ![a] = NoOperation]
    /\ pc' = [pc EXCEPT ![a] = "idle"]
    /\ UNCHANGED <<built, wire, stored, faults, evicted, abandoned>>

\* The operation ends without save_outbox: the process dies, or the database
\* refuses the write.
Abort(a) ==
    /\ op' = [op EXCEPT ![a] = NoOperation]
    /\ pc' = [pc EXCEPT ![a] = "idle"]
    /\ faults' = faults + 1
    /\ abandoned' = abandoned \cup ({op[a].msg} \ {NoMsg})
    /\ UNCHANGED <<saved, built, wire, stored, evicted>>

Crash(a) == MayFault("crash") /\ pc[a] # "idle" /\ Abort(a)

\* build_scan_payload or build_snapshot_payload fails (the database, or one
\* finding alone is over the size limit): `?` leaves before save_outbox,
\* although retry_outbox may have delivered items.
BuildFails(a) ==
    /\ MayFault("build")
    /\ pc[a] = "retry" /\ op[a].todo = <<>> /\ op[a].kind # "flush"
    /\ Abort(a)

-----------------------------------------------------------------------------
(* The network.                                                             *)

Arrive(m) ==
    /\ m \in wire
    /\ wire' = wire \ {m}
    /\ stored' \in {stored, stored \cup {m}}
    /\ UNCHANGED <<saved, built, pc, op, faults, evicted, abandoned>>

-----------------------------------------------------------------------------
Init ==
    /\ saved = EmptyOutbox
    /\ built = 0
    /\ pc = [a \in Agent |-> "idle"]
    /\ op = [a \in Agent |-> NoOperation]
    /\ wire = {} /\ stored = {} /\ evicted = {} /\ abandoned = {}
    /\ faults = 0

Step(a) ==
    \/ RetryDelivered(a) \/ RetryFailed(a) \/ RetrySkipped(a) \/ SkipMessage(a)
    \/ Build(a) \/ SendDelivered(a) \/ SendFailed(a) \/ SaveOutbox(a)

Next ==
    \/ \E a \in Daemon : Begin(a, "scan")
    \/ \E a \in Agent \ Daemon : Begin(a, "push") \/ Begin(a, "flush")
    \/ \E a \in Agent : Step(a) \/ BuildFails(a) \/ Crash(a)
    \/ \E m \in Msg : Arrive(m)

Spec == Init /\ [][Next]_vars

\* The daemon keeps scanning, a started operation runs on - sends end in success
\* once the faults are used up - and the network does not hold requests forever.
Fairness ==
    /\ \A a \in Daemon : WF_vars(Begin(a, "scan"))
    /\ \A a \in Agent : WF_vars(Step(a))
    /\ \A m \in Msg : WF_vars(Arrive(m))

FairSpec == Spec /\ Fairness

-----------------------------------------------------------------------------
(* Properties.                                                              *)

\* Type correctness; the outbox never holds more than outbox_max_items.
TypeOK ==
    /\ saved \in OutboxState /\ Len(saved.items) <= OutboxMaxItems
    /\ built \in 0..MaxMsg
    /\ pc \in [Agent -> Phase]
    /\ op \in [Agent -> Operation]
    /\ wire \subseteq Msg /\ stored \subseteq Msg
    /\ evicted \subseteq Msg /\ abandoned \subseteq Msg
    /\ faults \in 0..MaxFaults

Increasing(s) == \A i, j \in DOMAIN s : i < j => s[i] < s[j]

\* The outbox lists messages in the order they were built and none twice,
\* although several processes overwrite it: "oldest" in `vs panel outbox` and
\* "drop from the front" in enqueue_payload mean what they say.
OutboxOrdered ==
    /\ Increasing(saved.items)
    /\ \A a \in Agent :
        /\ Increasing(op[a].state.items)
        /\ Increasing(op[a].todo)
        /\ \A m \in Items(op[a].state.items), n \in Items(op[a].todo) : m < n

\* The inductive invariant behind it: what holds of an operation o at phase q
\* when n messages have been built.
GoodOperation(o, q, n) ==
    /\ Increasing(o.state.items)
    /\ Increasing(o.todo)
    /\ \A i \in DOMAIN o.state.items, j \in DOMAIN o.todo : o.state.items[i] < o.todo[j]
    /\ Len(o.state.items) + Len(o.todo) <= OutboxMaxItems
    /\ \A i \in DOMAIN o.state.items : o.state.items[i] <= n
    /\ \A i \in DOMAIN o.todo : o.todo[i] <= n
    /\ q \in {"send", "save"} => o.todo = <<>>
    /\ q = "send" => /\ o.msg \in 1..n
                     /\ \A i \in DOMAIN o.state.items : o.state.items[i] < o.msg

\* Every copy of the outbox, the persisted one and those of running operations,
\* is in order and within its bound, and a message being sent is younger than
\* all that its operation holds.
OutboxInv ==
    /\ Increasing(saved.items)
    /\ \A i \in DOMAIN saved.items : saved.items[i] <= built
    /\ \A a \in Agent : GoodOperation(op[a], pc[a], built)

Idle == \A a \in Agent : pc[a] = "idle"

\* Every message that was built is at the panel, in the persisted outbox, was
\* dropped from a full outbox, or was lost with an operation that was aborted
\* (publish_scan, push_snapshot: failed uploads are queued).
FailedUploadsQueued ==
    Idle => \A m \in 1..built :
        m \in stored \cup Items(saved.items) \cup evicted \cup abandoned

Contract == INSTANCE UploadQueue WITH
    Cap <- OutboxMaxItems, queue <- Items(saved.items)

\* A single publishing process implements the upload queue: whatever fails,
\* a queued message is forgotten only when the panel has it or when a full
\* outbox keeps only younger ones.
ImplementsUploadQueue == Contract!Spec

\* A queued message that can be sent reaches the panel or is dropped from a
\* full outbox: the limit on retries per scan and items that can never be sent
\* do not starve it (retry_outbox).
OutboxDrains ==
    \A m \in Msg \ Unsendable :
        m \in Items(saved.items) ~> m \in stored \cup evicted
=============================================================================
