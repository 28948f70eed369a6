----------------------------- MODULE UploadQueue -----------------------------
(***************************************************************************)
(* What the agent promises about uploads that failed: a queued message     *)
(* leaves the queue only when the panel has it, or when the queue is full  *)
(* and everything that stays is younger.                                   *)
(***************************************************************************)
EXTENDS Integers, FiniteSets

CONSTANTS
    Msg,    \* messages, numbered in the order they are built
    Cap     \* the capacity of the queue

VARIABLES
    queue,  \* messages the agent still has to deliver
    stored  \* messages the panel has

Init == queue = {} /\ stored = {}

\* The panel persists a message (again).
Store(m) == stored' = stored \cup {m} /\ UNCHANGED queue

\* An operation writes the queue back: at most one message is new.
Commit(q) ==
    /\ \A m \in queue \ q :
        m \in stored \/ (Cardinality(q) = Cap /\ \A k \in q : m < k)
    /\ \A m, n \in q \ queue : m = n
    /\ \A m \in q \ queue, k \in queue : k < m
    /\ Cardinality(q) <= Cap
    /\ queue' = q
    /\ UNCHANGED stored

Next == (\E m \in Msg : Store(m)) \/ (\E q \in SUBSET Msg : Commit(q))

Spec == Init /\ [][Next]_<<queue, stored>>
=============================================================================
