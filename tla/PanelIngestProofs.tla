-------------------------- MODULE PanelIngestProofs --------------------------
(***************************************************************************)
(* Proofs about PanelIngest, for any number of concurrent requests, any    *)
(* clocks and envelopes and both ways insert_nonce runs: a nonce is not    *)
(* accepted twice within the signature window; an acknowledged upload is   *)
(* stored whole; the tables that accumulate hold only what stored rows and *)
(* posted reviews say, and lose something only when two requests overlap;  *)
(* an audited review is in both review tables.                             *)
(***************************************************************************)
EXTENDS PanelIngest, TLAPS

\* pc and op are defined for every request, and the local variables of a
\* request are always the same.
ShapeInv ==
    /\ DOMAIN pc = Proc /\ DOMAIN op = Proc
    /\ \A p \in Proc : DOMAIN op[p] = DOMAIN NoOperation

\* A step that changes nothing of the other requests.
LocalStep(p) ==
    /\ DOMAIN pc' = Proc /\ DOMAIN op' = Proc
    /\ \A b \in Proc \ {p} : pc'[b] = pc[b] /\ op'[b] = op[b]
    /\ DOMAIN op'[p] = DOMAIN NoOperation

\* The phases in which insert_nonce is at work.
NoncePhase == {"clock", "purge", "find", "insert"}

\* A local step that leaves the clock and the nonces alone and ends outside
\* insert_nonce.
OutsideStep(p) ==
    /\ LocalStep(p)
    /\ pc'[p] \notin NoncePhase
    /\ UNCHANGED <<now, nonces, accepted>>

-----------------------------------------------------------------------------
(* Facts the proofs share.                                                  *)

\* What the assumption on the constants says about the window and the requests.
LEMMA ConstantFacts ==
    /\ Window \in Nat /\ MaxTime \in Nat /\ Handler \subseteq Proc /\ Reviewer \subseteq Proc
    /\ Never = -1
  BY IngestAssumption DEF Proc, Never

\* The names of a request's local variables.
LEMMA FieldNames ==
    {"req", "at", "msg", "row", "copy", "todo", "target", "rank"} = DOMAIN NoOperation
  BY DEF NoOperation

\* A local step keeps the shape of the state.
LEMMA LocalStepShape ==
    ASSUME ShapeInv, NEW p \in Proc, LocalStep(p)
    PROVE  ShapeInv'
  BY DEF ShapeInv, LocalStep

\* A step outside insert_nonce keeps the nonce invariant.
LEMMA OutsideStepNonces ==
    ASSUME NonceInv, NEW p \in Proc, OutsideStep(p)
    PROVE  NonceInv'
<1>1. \A h \in Handler : pc'[h] \in NoncePhase => pc'[h] = pc[h] /\ op'[h] = op[h]
  BY ConstantFacts DEF OutsideStep, LocalStep
<1>2. QED
  BY <1>1 DEF NonceInv, NoncePhase, OutsideStep

\* Advance ends outside insert_nonce.
LEMMA AdvanceLocal ==
    ASSUME ShapeInv, NEW h \in Proc, Advance(h)
    PROVE  LocalStep(h) /\ pc'[h] \notin NoncePhase
<1>1. CASE pc' = [pc EXCEPT ![h] = "ack"] /\ UNCHANGED op
  BY <1>1 DEF ShapeInv, LocalStep, NoncePhase
<1>2. CASE /\ pc' = [pc EXCEPT ![h] = "write"]
           /\ op' = [op EXCEPT ![h].row = @ + 1]
  <2>1. DOMAIN [op[h] EXCEPT !.row = @ + 1] = DOMAIN op[h]
    OBVIOUS
  <2>2. QED
    BY <1>2, <2>1 DEF ShapeInv, LocalStep, NoncePhase
<1>3. QED
  BY <1>1, <1>2 DEF Advance

-----------------------------------------------------------------------------
(* The actions outside insert_nonce.                                        *)

\* The upserts of persist_payload.
LEMMA UpsertOutside ==
    ASSUME ShapeInv, NEW h \in Proc,
           \/ UpsertNode(h) \/ UpsertHeartbeat(h) \/ UpsertIncident(h) \/ UpsertDrift(h)
           \/ UpsertBlock(h) \/ WriteMerged(h)
    PROVE  OutsideStep(h)
<1>1. Advance(h) /\ UNCHANGED <<now, nonces, accepted>>
  BY Zenon DEF UpsertNode, UpsertHeartbeat, UpsertIncident, UpsertDrift, UpsertBlock, WriteMerged
<1>2. QED
  BY <1>1, AdvanceLocal, Zenon DEF OutsideStep

LEMMA UpsertFindingOutside ==
    ASSUME ShapeInv, NEW h \in Proc, UpsertFinding(h)
    PROVE  OutsideStep(h)
<1>1. UNCHANGED <<now, nonces, accepted>>
  BY DEF UpsertFinding
<1>2. CASE Advance(h)
  BY <1>1, <1>2, AdvanceLocal, Zenon DEF OutsideStep
<1>3. CASE pc' = [pc EXCEPT ![h] = "read"] /\ UNCHANGED op
  BY <1>1, <1>3 DEF ShapeInv, LocalStep, NoncePhase, OutsideStep
<1>4. QED
  BY <1>2, <1>3, Zenon DEF UpsertFinding

\* The read that precedes a merge, and the answer.
LEMMA ReadMergedOutside ==
    ASSUME ShapeInv, NEW h \in Proc, ReadMerged(h)
    PROVE  OutsideStep(h)
<1> DEFINE o == [op[h] EXCEPT !.copy = merged[CurrentRow(h).key]]
<1>1. DOMAIN o = DOMAIN NoOperation
  BY DEF ShapeInv
<1>2. op' = [op EXCEPT ![h] = o]
  BY DEF ReadMerged
<1> HIDE DEF o
<1>3. QED
  BY <1>1, <1>2 DEF ReadMerged, ShapeInv, LocalStep, NoncePhase, OutsideStep

LEMMA AckOutside ==
    ASSUME ShapeInv, NEW h \in Proc, Ack(h)
    PROVE  OutsideStep(h)
  BY DEF Ack, ShapeInv, LocalStep, NoncePhase, OutsideStep

\* The steps of a review.
LEMMA BeginReviewOutside ==
    ASSUME ShapeInv, NEW v \in Proc, NEW row, BeginReview(v, row)
    PROVE  OutsideStep(v)
<1>1. PICK verdict, order : op' = [op EXCEPT ![v] = [NoOperation EXCEPT
                              !.target = row, !.todo = order, !.rank = FeedbackRank[verdict]]]
  BY Zenon DEF BeginReview
<1> DEFINE o == [NoOperation EXCEPT
                   !.target = row, !.todo = order, !.rank = FeedbackRank[verdict]]
<1>2. DOMAIN o = DOMAIN NoOperation
  OBVIOUS
<1>3. op' = [op EXCEPT ![v] = o]
  BY <1>1
<1> HIDE DEF o
<1>4. QED
  BY <1>2, <1>3 DEF BeginReview, ShapeInv, LocalStep, NoncePhase, OutsideStep

LEMMA WriteReviewOutside ==
    ASSUME ShapeInv, NEW v \in Proc, WriteReview(v)
    PROVE  OutsideStep(v)
<1> DEFINE o == [op[v] EXCEPT !.todo = Tail(@)]
           q == IF Len(op[v].todo) > 1 THEN "review"
                ELSE IF op[v].rank = 0 \/ op[v].target.key = NoKey THEN "audit" ELSE "lookup"
<1>1. DOMAIN o = DOMAIN NoOperation /\ q \notin NoncePhase
  BY DEF ShapeInv, NoncePhase
<1>2. op' = [op EXCEPT ![v] = o] /\ pc' = [pc EXCEPT ![v] = q]
  BY DEF WriteReview
<1> HIDE DEF o, q
<1>3. QED
  BY <1>1, <1>2 DEF WriteReview, ShapeInv, LocalStep, OutsideStep

LEMMA ReadVerdictOutside ==
    ASSUME ShapeInv, NEW v \in Proc, ReadVerdict(v)
    PROVE  OutsideStep(v)
<1> DEFINE o == [op[v] EXCEPT !.copy = merged[op[v].target.key]]
           q == IF merged[op[v].target.key].seen = 0 THEN "audit" ELSE "verdict"
<1>1. DOMAIN o = DOMAIN NoOperation /\ q \notin NoncePhase
  BY DEF ShapeInv, NoncePhase
<1>2. op' = [op EXCEPT ![v] = o] /\ pc' = [pc EXCEPT ![v] = q]
  BY DEF ReadVerdict
<1> HIDE DEF o, q
<1>3. QED
  BY <1>1, <1>2 DEF ReadVerdict, ShapeInv, LocalStep, OutsideStep

LEMMA VerdictOutside ==
    ASSUME ShapeInv, NEW v \in Proc, WriteVerdict(v) \/ AuditFeedback(v) \/ AuditReview(v)
    PROVE  OutsideStep(v)
<1>1. CASE WriteVerdict(v)
  BY <1>1 DEF WriteVerdict, ShapeInv, LocalStep, NoncePhase, OutsideStep
<1>2. CASE AuditFeedback(v)
  BY <1>2 DEF AuditFeedback, ShapeInv, LocalStep, NoncePhase, OutsideStep
<1>3. CASE AuditReview(v)
  BY <1>3 DEF AuditReview, ShapeInv, LocalStep, NoncePhase, OutsideStep
<1>4. QED
  BY <1>1, <1>2, <1>3

\* A request that fails or dies.
LEMMA FailOutside ==
    ASSUME ShapeInv, NEW p \in Proc, Fail(p)
    PROVE  OutsideStep(p)
  BY DEF Fail, ShapeInv, LocalStep, NoncePhase, OutsideStep

-----------------------------------------------------------------------------
(* The steps of insert_nonce, and the steps that are no request's.          *)

\* Signing and the clock touch no request; time only makes the invariant easier.
LEMMA SignTickNonces ==
    ASSUME ShapeInv, NonceInv, Tick \/ (\E r \in Attempt, m \in Message : Sign(r, m))
    PROVE  ShapeInv' /\ NonceInv' /\ UNCHANGED accepted
<1>1. UNCHANGED <<pc, op, nonces, accepted>> /\ now' \in Nat /\ now <= now'
  BY DEF NonceInv, Sign, Tick
<1>2. \A h \in Handler : pc'[h] \in {"purge", "find", "insert"} => op'[h].at \in 0..now'
  BY <1>1 DEF NonceInv
<1>3. \A r \in Attempt : accepted'[r] # Never =>
        \/ nonces'[r] = accepted'[r] + Window
        \/ nonces'[r] = Never /\ now' > accepted'[r] + Window
  BY <1>1, ConstantFacts DEF NonceInv
<1>4. NonceInv'
  BY <1>1, <1>2, <1>3 DEF NonceInv
<1>5. QED
  BY <1>1, <1>4 DEF ShapeInv

\* A verified request starts insert_nonce with its own nonce.
LEMMA ReceiveNonces ==
    ASSUME ShapeInv, NonceInv, NEW h \in Handler, NEW r \in Attempt, Receive(h, r)
    PROVE  LocalStep(h) /\ NonceInv' /\ UNCHANGED accepted
<1> DEFINE o == [NoOperation EXCEPT !.req = r, !.msg = signed[r].msg]
<1>1. DOMAIN o = DOMAIN NoOperation /\ o.req = r
  BY FieldNames
<1>2. op' = [op EXCEPT ![h] = o] /\ pc' = [pc EXCEPT ![h] = "clock"]
      /\ UNCHANGED <<now, nonces, accepted>>
  BY DEF Receive
<1> HIDE DEF o
<1>3. LocalStep(h) /\ op'[h] = o /\ pc'[h] = "clock"
  BY <1>1, <1>2, ConstantFacts DEF ShapeInv, LocalStep
<1>4. QED
  BY <1>1, <1>2, <1>3, ConstantFacts DEF NonceInv, LocalStep

\* The reading is the present time.
LEMMA ReadClockNonces ==
    ASSUME ShapeInv, NonceInv, NEW h \in Handler, ReadClock(h)
    PROVE  LocalStep(h) /\ NonceInv' /\ UNCHANGED accepted
<1> DEFINE o == [op[h] EXCEPT !.at = now]
<1>1. DOMAIN o = DOMAIN NoOperation /\ o.req = op[h].req /\ o.at = now
  BY FieldNames, ConstantFacts DEF ShapeInv
<1>2. op' = [op EXCEPT ![h] = o] /\ pc' = [pc EXCEPT ![h] = "purge"] /\ pc[h] = "clock"
      /\ UNCHANGED <<now, nonces, accepted>>
  BY DEF ReadClock
<1> HIDE DEF o
<1>3. LocalStep(h) /\ op'[h] = o /\ pc'[h] = "purge"
  BY <1>1, <1>2, ConstantFacts DEF ShapeInv, LocalStep
<1>4. QED
  BY <1>1, <1>2, <1>3, ConstantFacts DEF NonceInv, LocalStep

\* A purge with a clock reading that is not from the future forgets a nonce only
\* when the window of its acceptance is over.
LEMMA PurgedNonces ==
    ASSUME NonceInv, NEW at \in 0..now
    PROVE  LET n == Purged(nonces, at)
           IN  /\ n \in [Attempt -> Int]
               /\ \A r \in Attempt : accepted[r] # Never =>
                     \/ n[r] = accepted[r] + Window
                     \/ n[r] = Never /\ now > accepted[r] + Window
<1> DEFINE n == Purged(nonces, at)
<1>1. n \in [Attempt -> Int]
  BY DEF Purged, NonceInv, Never
<1>2. \A r \in Attempt : n[r] = IF nonces[r] < at THEN Never ELSE nonces[r]
  BY DEF Purged
<1>3. \A r \in Attempt : nonces[r] \in Int /\ accepted[r] \in Int /\ now \in Int /\ at \in Int
  BY ConstantFacts DEF NonceInv
<1> HIDE DEF n
<1>4. ASSUME NEW r \in Attempt, accepted[r] # Never
      PROVE  \/ n[r] = accepted[r] + Window
             \/ n[r] = Never /\ now > accepted[r] + Window
  BY <1>2, <1>3, <1>4, ConstantFacts DEF NonceInv
<1>5. QED
  BY <1>1, <1>4 DEF n

\* Accept, on a table n that the purge allows: the invariant is kept, and the
\* nonce that was accepted before had left its window.
LEMMA AcceptNonces ==
    ASSUME ShapeInv, NonceInv, NEW h \in Handler, NEW n \in [Attempt -> Int],
           pc[h] \in {"purge", "insert"},
           \A r \in Attempt : accepted[r] # Never =>
               \/ n[r] = accepted[r] + Window
               \/ n[r] = Never /\ now > accepted[r] + Window,
           n[op[h].req] = Never, Accept(h, n), now' = now
    PROVE  /\ LocalStep(h) /\ NonceInv'
           /\ \A r \in Attempt : accepted[r] # Never /\ accepted'[r] # accepted[r]
                                   => now > accepted[r] + Window
<1>1. op[h].req \in Attempt /\ op[h].at \in 0..now /\ now \in Nat
  BY DEF NonceInv
<1> DEFINE o == [op[h] EXCEPT !.row = 1]
           k == op[h].req
           t == op[h].at
<1>2. DOMAIN o = DOMAIN NoOperation
  BY ConstantFacts DEF ShapeInv
<1>3. /\ op' = [op EXCEPT ![h] = o] /\ pc' = [pc EXCEPT ![h] = "write"]
      /\ nonces' = [n EXCEPT ![k] = t + Window]
      /\ accepted' = [accepted EXCEPT ![k] = t]
  BY DEF Accept
<1>4. k \in Attempt /\ t \in Nat /\ t <= now /\ n[k] = Never
  BY <1>1
<1> HIDE DEF o, k, t
<1>5. LocalStep(h) /\ pc'[h] = "write"
  BY <1>2, <1>3, ConstantFacts DEF ShapeInv, LocalStep
<1>6. nonces' \in [Attempt -> Int] /\ accepted' \in [Attempt -> Nat \cup {Never}]
  BY <1>3, <1>4, ConstantFacts DEF NonceInv
<1>7. \A r \in Attempt :
        /\ nonces'[r] = IF r = k THEN t + Window ELSE n[r]
        /\ accepted'[r] = IF r = k THEN t ELSE accepted[r]
  BY <1>3 DEF NonceInv
<1>8. \A r \in Attempt : accepted'[r] # Never =>
        \/ nonces'[r] = accepted'[r] + Window
        \/ nonces'[r] = Never /\ now' > accepted'[r] + Window
  BY <1>7
<1>9. \A b \in Handler : pc'[b] \in NoncePhase => pc'[b] = pc[b] /\ op'[b] = op[b]
  BY <1>5, ConstantFacts DEF LocalStep, NoncePhase
<1>10. NonceInv'
  BY <1>6, <1>8, <1>9 DEF NonceInv, NoncePhase
<1>11. \A r \in Attempt : accepted[r] # Never /\ accepted'[r] # accepted[r] => r = k
  BY <1>7
<1>12. accepted[k] # Never => now > accepted[k] + Window
  <2>1. SUFFICES ASSUME accepted[k] # Never PROVE now > accepted[k] + Window
    OBVIOUS
  <2>2. accepted[k] \in Nat
    BY <2>1, <1>4 DEF NonceInv
  <2>3. QED
    BY <1>4, <2>1, <2>2, ConstantFacts
<1>13. QED
  BY <1>5, <1>10, <1>11, <1>12

\* Refuse, on a table n that the purge allows.
LEMMA RefuseNonces ==
    ASSUME ShapeInv, NonceInv, NEW h \in Handler, NEW n \in [Attempt -> Int],
           \A r \in Attempt : accepted[r] # Never =>
               \/ n[r] = accepted[r] + Window
               \/ n[r] = Never /\ now > accepted[r] + Window,
           Refuse(h, n), now' = now
    PROVE  LocalStep(h) /\ NonceInv' /\ UNCHANGED accepted
<1>1. LocalStep(h) /\ pc'[h] = "idle" /\ nonces' = n /\ UNCHANGED accepted
  BY ConstantFacts DEF Refuse, ShapeInv, LocalStep
<1>2. \A b \in Handler : pc'[b] \in NoncePhase => pc'[b] = pc[b] /\ op'[b] = op[b]
  BY <1>1, ConstantFacts DEF LocalStep, NoncePhase
<1>3. QED
  BY <1>1, <1>2 DEF NonceInv, NoncePhase

\* The request goes on to another statement of insert_nonce, with the table n.
LEMMA ContinueNonces ==
    ASSUME ShapeInv, NonceInv, NEW h \in Handler, NEW n \in [Attempt -> Int],
           pc[h] \in {"purge", "find"},
           NEW q \in {"find", "insert"}, pc' = [pc EXCEPT ![h] = q],
           \A r \in Attempt : accepted[r] # Never =>
               \/ n[r] = accepted[r] + Window
               \/ n[r] = Never /\ now > accepted[r] + Window,
           nonces' = n, UNCHANGED <<op, accepted, now>>
    PROVE  LocalStep(h) /\ NonceInv'
<1>1. LocalStep(h) /\ pc'[h] = q
  BY ConstantFacts DEF ShapeInv, LocalStep
<1>2. \A b \in Handler : pc'[b] \in {"purge", "find", "insert"} =>
                             pc[b] \in {"purge", "find", "insert"}
  BY <1>1, ConstantFacts DEF LocalStep
<1>3. \A b \in Handler : pc'[b] = "clock" => pc[b] = "clock"
  BY <1>1, ConstantFacts DEF LocalStep
<1>4. QED
  BY <1>1, <1>2, <1>3 DEF NonceInv

-----------------------------------------------------------------------------
(* Every step keeps the invariant, and accepts a nonce again only after its *)
(* window.                                                                  *)

\* What NonceSpacing says of one step.
Spaced ==
    \A r \in Attempt : accepted[r] # Never /\ accepted'[r] # accepted[r]
                          => now > accepted[r] + Window

\* A step of insert_nonce.
LEMMA InsertStep ==
    ASSUME ShapeInv, NonceInv, NEW h \in Handler,
           InsertNonce(h) \/ PurgeNonces(h) \/ FindNonce(h) \/ StoreNonce(h)
    PROVE  ShapeInv' /\ NonceInv' /\ Spaced
<1> DEFINE Allowed(n) == \A r \in Attempt : accepted[r] # Never =>
                             \/ n[r] = accepted[r] + Window
                             \/ n[r] = Never /\ now > accepted[r] + Window
           purged == Purged(nonces, op[h].at)
<1>1. nonces \in [Attempt -> Int] /\ Allowed(nonces)
  BY DEF NonceInv
<1>2. ASSUME pc[h] = "purge" PROVE purged \in [Attempt -> Int] /\ Allowed(purged)
  <2>1. op[h].at \in 0..now
    BY <1>2 DEF NonceInv
  <2>2. QED
    BY <2>1, PurgedNonces, Zenon
<1>3. SUFFICES LocalStep(h) /\ NonceInv' /\ Spaced
  BY LocalStepShape, ConstantFacts
<1>4. CASE InsertNonce(h)
  <2>1. pc[h] = "purge" /\ now' = now
    BY <1>4 DEF InsertNonce
  <2>2. CASE purged[op[h].req] = Never
    <3>1. Accept(h, purged)
      BY <1>4, <2>2 DEF InsertNonce
    <3>2. pc[h] \in {"purge", "insert"}
      BY <2>1
    <3> HIDE DEF purged
    <3>3. QED
      BY <1>2, <2>1, <2>2, <3>1, <3>2, AcceptNonces, Zenon DEF Spaced
  <2>3. CASE purged[op[h].req] # Never
    <3>1. Refuse(h, purged)
      BY <1>4, <2>3 DEF InsertNonce
    <3> HIDE DEF purged
    <3>2. LocalStep(h) /\ NonceInv' /\ accepted' = accepted
      BY <1>2, <2>1, <3>1, RefuseNonces, Zenon
    <3>3. QED
      BY <3>2 DEF Spaced
  <2>4. QED
    BY <2>2, <2>3
<1>5. CASE PurgeNonces(h)
  <2>1. /\ pc[h] = "purge" /\ nonces' = purged /\ pc' = [pc EXCEPT ![h] = "find"]
        /\ op' = op /\ accepted' = accepted /\ now' = now
    BY <1>5 DEF PurgeNonces
  <2>2. pc[h] \in {"purge", "find"} /\ "find" \in {"find", "insert"}
    BY <2>1
  <2> HIDE DEF purged
  <2>3. LocalStep(h) /\ NonceInv'
    BY <1>2, <2>1, <2>2, ContinueNonces, Zenon
  <2>4. QED
    BY <2>1, <2>3 DEF Spaced
<1>6. CASE FindNonce(h)
  <2>1. pc[h] = "find" /\ now' = now
    BY <1>6 DEF FindNonce
  <2>2. CASE Refuse(h, nonces)
    <3>1. LocalStep(h) /\ NonceInv' /\ accepted' = accepted
      BY <1>1, <2>1, <2>2, RefuseNonces, Zenon
    <3>2. QED
      BY <3>1 DEF Spaced
  <2>3. CASE pc' = [pc EXCEPT ![h] = "insert"] /\ UNCHANGED <<nonces, op, accepted>>
    <3>1. /\ pc[h] \in {"purge", "find"} /\ "insert" \in {"find", "insert"}
          /\ nonces' = nonces /\ op' = op /\ accepted' = accepted
      BY <2>1, <2>3
    <3>2. LocalStep(h) /\ NonceInv'
      BY <1>1, <2>1, <2>3, <3>1, ContinueNonces, Zenon
    <3>3. QED
      BY <3>1, <3>2 DEF Spaced
  <2>4. QED
    BY <1>6, <2>2, <2>3, Zenon DEF FindNonce
<1>7. CASE StoreNonce(h)
  <2>1. pc[h] \in {"purge", "insert"} /\ now' = now
    BY <1>7 DEF StoreNonce
  <2>2. CASE nonces[op[h].req] = Never
    <3>1. Accept(h, nonces)
      BY <1>7, <2>2 DEF StoreNonce
    <3>2. QED
      BY <1>1, <2>1, <2>2, <3>1, AcceptNonces, Zenon DEF Spaced
  <2>3. CASE nonces[op[h].req] # Never
    <3>1. Refuse(h, nonces)
      BY <1>7, <2>3 DEF StoreNonce
    <3>2. LocalStep(h) /\ NonceInv' /\ accepted' = accepted
      BY <1>1, <2>1, <3>1, RefuseNonces, Zenon
    <3>3. QED
      BY <3>2 DEF Spaced
  <2>4. QED
    BY <2>2, <2>3
<1>8. QED
  BY <1>4, <1>5, <1>6, <1>7

\* A step outside insert_nonce.
LEMMA OutsideNext ==
    ASSUME ShapeInv, NonceInv, NEW p \in Proc, OutsideStep(p)
    PROVE  ShapeInv' /\ NonceInv' /\ Spaced
<1>1. LocalStep(p) /\ accepted' = accepted
  BY DEF OutsideStep
<1>2. ShapeInv' /\ NonceInv'
  BY <1>1, LocalStepShape, OutsideStepNonces
<1>3. QED
  BY <1>1, <1>2 DEF Spaced

\* A step of an ingest request.
LEMMA HandlerNext ==
    ASSUME ShapeInv, NonceInv, NEW h \in Handler,
           \/ \E r \in Attempt : Receive(h, r)
           \/ ReadClock(h) \/ InsertNonce(h) \/ PurgeNonces(h) \/ FindNonce(h) \/ StoreNonce(h)
           \/ UpsertNode(h) \/ UpsertHeartbeat(h) \/ UpsertFinding(h) \/ UpsertIncident(h)
           \/ UpsertDrift(h) \/ UpsertBlock(h) \/ ReadMerged(h) \/ WriteMerged(h) \/ Ack(h)
    PROVE  ShapeInv' /\ NonceInv' /\ Spaced
<1>1. h \in Proc
  BY ConstantFacts
<1>2. CASE (\E r \in Attempt : Receive(h, r)) \/ ReadClock(h)
  <2>1. LocalStep(h) /\ NonceInv' /\ accepted' = accepted
    BY <1>2, ReceiveNonces, ReadClockNonces
  <2>2. QED
    BY <1>1, <2>1, LocalStepShape DEF Spaced
<1>3. CASE InsertNonce(h) \/ PurgeNonces(h) \/ FindNonce(h) \/ StoreNonce(h)
  BY <1>3, InsertStep
<1>4. CASE \/ UpsertNode(h) \/ UpsertHeartbeat(h) \/ UpsertFinding(h) \/ UpsertIncident(h)
           \/ UpsertDrift(h) \/ UpsertBlock(h) \/ ReadMerged(h) \/ WriteMerged(h) \/ Ack(h)
  <2>1. OutsideStep(h)
    BY <1>1, <1>4, UpsertOutside, UpsertFindingOutside, ReadMergedOutside, AckOutside
  <2>2. QED
    BY <1>1, <2>1, OutsideNext
<1>5. QED
  BY <1>2, <1>3, <1>4

\* A step of a review request.
LEMMA ReviewerNext ==
    ASSUME ShapeInv, NonceInv, NEW v \in Reviewer,
           \/ \E row \in FindingRows : BeginReview(v, row)
           \/ WriteReview(v) \/ ReadVerdict(v) \/ WriteVerdict(v)
           \/ AuditFeedback(v) \/ AuditReview(v)
    PROVE  ShapeInv' /\ NonceInv' /\ Spaced
<1>1. v \in Proc
  BY ConstantFacts
<1>2. OutsideStep(v)
  BY <1>1, BeginReviewOutside, WriteReviewOutside, ReadVerdictOutside, VerdictOutside
<1>3. QED
  BY <1>1, <1>2, OutsideNext

\* The inductive step.
LEMMA NonceStep ==
    ASSUME ShapeInv, NonceInv, [Next]_vars
    PROVE  ShapeInv' /\ NonceInv' /\ Spaced
<1>1. CASE (\E r \in Attempt, m \in Message : Sign(r, m)) \/ Tick
  BY <1>1, SignTickNonces DEF Spaced
<1>2. CASE \E h \in Handler :
             \/ \E r \in Attempt : Receive(h, r)
             \/ ReadClock(h) \/ InsertNonce(h) \/ PurgeNonces(h) \/ FindNonce(h) \/ StoreNonce(h)
             \/ UpsertNode(h) \/ UpsertHeartbeat(h) \/ UpsertFinding(h) \/ UpsertIncident(h)
             \/ UpsertDrift(h) \/ UpsertBlock(h) \/ ReadMerged(h) \/ WriteMerged(h) \/ Ack(h)
  BY <1>2, HandlerNext
<1>3. CASE \E v \in Reviewer :
             \/ \E row \in FindingRows : BeginReview(v, row)
             \/ WriteReview(v) \/ ReadVerdict(v) \/ WriteVerdict(v)
             \/ AuditFeedback(v) \/ AuditReview(v)
  BY <1>3, ReviewerNext
<1>4. CASE \E p \in Proc : Fail(p)
  BY <1>4, FailOutside, OutsideNext
<1>5. CASE UNCHANGED vars
  BY <1>5 DEF vars, ShapeInv, NonceInv, Spaced
<1>6. QED
  BY <1>1, <1>2, <1>3, <1>4, <1>5, Zenon DEF Next

LEMMA InitNonces == Init => ShapeInv /\ NonceInv
<1>1. SUFFICES ASSUME Init PROVE ShapeInv /\ NonceInv
  OBVIOUS
<1>2. ShapeInv
  BY <1>1 DEF Init, ShapeInv
<1>3. \A h \in Handler : pc[h] = "idle"
  BY <1>1, ConstantFacts DEF Init
<1>4. QED
  BY <1>1, <1>2, <1>3 DEF Init, NonceInv, Never

\* In every reachable state an accepted nonce is in ingest_nonces until its
\* window is over, and no request purges with a clock reading from the future
\* (insert_nonce, SQLite or pool).
THEOREM NonceInvariant == Spec => []NonceInv
<1>1. Init => ShapeInv /\ NonceInv
  BY InitNonces
<1>2. ShapeInv /\ NonceInv /\ [Next]_vars => (ShapeInv /\ NonceInv)'
  BY NonceStep
<1>3. QED
  BY <1>1, <1>2, PTL DEF Spec

\* insert_nonce accepts a nonce a second time only after the signature window of
\* its last acceptance, however requests interleave and stall.
THEOREM NoncesSpaced == Spec => NonceSpacing
<1>1. Init => ShapeInv /\ NonceInv
  BY InitNonces
<1>2. ShapeInv /\ NonceInv /\ [Next]_vars => (ShapeInv /\ NonceInv)'
  BY NonceStep
<1>3. ShapeInv /\ NonceInv /\ [Next]_vars =>
        [\A r \in Attempt : accepted[r] # Never /\ accepted'[r] # accepted[r]
                               => now > accepted[r] + Window]_vars
  BY NonceStep DEF Spaced
<1>4. QED
  BY <1>1, <1>2, <1>3, PTL DEF Spec, NonceSpacing

-----------------------------------------------------------------------------
(* What the panel holds: the inductive invariant.                           *)

\* A row persist_payload writes; a probe source always has a key.
RowType == [table : IngestTable, id : STRING, key : Key \cup {NoKey}, update : Update]
GoodRow == {row \in RowType : row.table = "probe_sources" => row.key # NoKey}

\* All rows of all envelopes.
AllRows == UNION {{Rows(m)[i] : i \in DOMAIN Rows(m)} : m \in Message}

\* Evidence and Supported, of a row y with key k when the rows R are stored and
\* the ranks Q were posted for it.
Known(k, R) == {row.update : row \in {x \in AllRows : x.key = k /\ RowName(x) \in R}}

Backed(k, y, R, Q) ==
    y.seen > 0 =>
        /\ \A n \in y.members : \E u \in Known(k, R) : n \in u.members
        /\ \E u \in Known(k, R) : y.first = u.first
        /\ \E u \in Known(k, R) : y.last = u.last
        /\ y.rank \in {1} \cup Q \cup {u.rank : u \in Known(k, R)}

\* A row that does not exist has no members either.
Sound(k, y, R, Q) == Backed(k, y, R, Q) /\ (y.seen = 0 => y.members = {})

HandlerPhase == NoncePhase \cup {"idle", "write", "read", "merge", "ack"}
ReviewPhase == {"idle", "review", "lookup", "verdict", "feedback", "audit", "done"}

\* An ingest request at phase q with local variables o: the rows before the one
\* it is at are stored, and the copy it is about to merge is backed.
HandlerGood(q, o, R, P) ==
    /\ q \in HandlerPhase
    /\ q \in NoncePhase => o.msg \in Message
    /\ q \in {"write", "read", "merge", "ack"} =>
         /\ o.msg \in Message /\ o.row \in 1..Len(Rows(o.msg))
         /\ \A i \in 1..(o.row - 1) : RowName(Rows(o.msg)[i]) \in R
    /\ q \in {"read", "merge"} =>
         /\ Rows(o.msg)[o.row].key # NoKey
         /\ Rows(o.msg)[o.row].table \in {"findings", "probe_sources"}
    /\ q = "merge" => Sound(Rows(o.msg)[o.row].key, o.copy, R, P[Rows(o.msg)[o.row].key])
    /\ q = "ack" => \A i \in 1..Len(Rows(o.msg)) : RowName(Rows(o.msg)[i]) \in R

\* The two review rows of finding id.
BothReviews(id) == {<<"finding_reviews", id>>, <<"panel_reviews", id>>}

\* A review request at phase q with local variables o: it has written the rows
\* that are not in todo any more, and its verdict counts as posted.
ReviewGood(q, o, R, P) ==
    /\ q \in ReviewPhase
    /\ q \notin {"idle", "done"} =>
         /\ o.target \in FindingRows
         /\ o.target.key # NoKey => o.rank \in P[o.target.key]
    /\ q = "review" =>
         \/ o.todo \in ReviewOrders
         \/ \E a, b \in {"finding_reviews", "panel_reviews"} :
              a # b /\ o.todo = <<b>> /\ <<a, o.target.id>> \in R
    /\ q \in {"lookup", "verdict", "feedback", "audit"} => BothReviews(o.target.id) \subseteq R
    /\ q \in {"lookup", "verdict"} => o.target.key # NoKey
    /\ q = "verdict" =>
         o.copy.seen > 0 /\ Sound(o.target.key, o.copy, R, P[o.target.key])

\* A finding in the audit log is in both review tables.
Audited(R) ==
    \A id \in STRING :
        {<<"review_audit", id>>, <<"fingerprint_feedback", id>>} \cap R # {} =>
            BothReviews(id) \subseteq R

\* The inductive invariant.
StoreInv ==
    /\ TypeOK
    /\ AckedStored
    /\ Audited(rows)
    /\ \A h \in Handler : HandlerGood(pc[h], op[h], rows, posted)
    /\ \A v \in Reviewer : ReviewGood(pc[v], op[v], rows, posted)
    /\ \A k \in Key : Sound(k, merged[k], rows, posted[k])

-----------------------------------------------------------------------------
(* The rows of an envelope.                                                 *)

\* The parts of an envelope become rows of their tables.
LEMMA PlainRowsGood ==
    ASSUME NEW t \in IngestTable \ {"probe_sources"}, NEW ids \in Seq(STRING)
    PROVE  PlainRows(t, ids) \in Seq(GoodRow)
<1>1. NoUpdate \in Update
  BY DEF NoUpdate, Update, Rank
<1>2. \A x \in STRING : Plain(t, x) \in GoodRow
  BY <1>1 DEF Plain, GoodRow, RowType
<1>3. \A i \in DOMAIN ids : ids[i] \in STRING
  OBVIOUS
<1>4. \A i \in DOMAIN ids : Plain(t, ids[i]) \in GoodRow
  BY <1>2, <1>3, Zenon
<1>5. QED
  BY <1>4 DEF PlainRows

LEMMA EntryRowsGood ==
    ASSUME NEW t \in IngestTable, NEW s \in Seq(Entry),
           t = "probe_sources" => \A i \in DOMAIN s : s[i].key # NoKey
    PROVE  EntryRows(t, s) \in Seq(GoodRow)
<1>1. \A i \in DOMAIN s : s[i] \in Entry
  OBVIOUS
<1>2. \A i \in DOMAIN s :
        [table |-> t, id |-> s[i].id, key |-> s[i].key, update |-> s[i].update] \in GoodRow
  BY <1>1 DEF Entry, GoodRow, RowType
<1>3. QED
  BY <1>2 DEF EntryRows

LEMMA RowsGood ==
    ASSUME NEW m \in Message
    PROVE  Rows(m) \in Seq(GoodRow) /\ Len(Rows(m)) \in Nat \ {0}
<1> DEFINE p == Payload[m]
<1>1. /\ p.node \in STRING /\ m \in STRING
      /\ p.findings \in Seq(Entry) /\ p.probes \in Seq(Entry)
      /\ p.incidents \in Seq(STRING) /\ p.drifts \in Seq(STRING) /\ p.blocks \in Seq(STRING)
      /\ \A i \in DOMAIN p.probes : p.probes[i].key # NoKey
  BY IngestAssumption
<1> DEFINE head == <<Plain("nodes", p.node), Plain("heartbeats", m)>>
           a == EntryRows("findings", p.findings)
           b == PlainRows("incidents", p.incidents)
           c == PlainRows("baseline_drifts", p.drifts)
           d == PlainRows("active_blocks", p.blocks)
           e == EntryRows("probe_sources", p.probes)
<1>2. NoUpdate \in Update
  BY DEF NoUpdate, Update, Rank
<1>3. head \in Seq(GoodRow) /\ Len(head) = 2
  BY <1>1, <1>2 DEF Plain, GoodRow, RowType, IngestTable
<1>4. a \in Seq(GoodRow) /\ e \in Seq(GoodRow)
  BY <1>1, EntryRowsGood DEF IngestTable
<1>5. b \in Seq(GoodRow) /\ c \in Seq(GoodRow) /\ d \in Seq(GoodRow)
  BY <1>1, PlainRowsGood DEF IngestTable
<1>6. Rows(m) = head \o a \o b \o c \o d \o e
  BY DEF Rows
<1> HIDE DEF head, a, b, c, d, e
<1>7. QED
  BY <1>3, <1>4, <1>5, <1>6, SMTT(30)

\* What is known of a row of an envelope.
LEMMA RowFacts ==
    ASSUME NEW m \in Message, NEW i \in 1..Len(Rows(m))
    PROVE  LET row == Rows(m)[i]
           IN  /\ row \in GoodRow /\ row \in RowType /\ row \in AllRows
               /\ row.table \in IngestTable /\ row.id \in STRING /\ row.update \in Update
               /\ row.key \in Key \cup {NoKey}
               /\ row.table = "probe_sources" => row.key # NoKey
               /\ RowName(row) = <<row.table, row.id>>
               /\ RowName(row) \in Table \X STRING
<1>1. DOMAIN Rows(m) = 1..Len(Rows(m)) /\ Rows(m)[i] \in GoodRow
  BY RowsGood
<1>2. Rows(m)[i] \in AllRows
  BY <1>1 DEF AllRows
<1>3. ASSUME NEW row \in GoodRow
      PROVE  /\ row \in RowType /\ row.table \in IngestTable /\ row.id \in STRING
             /\ row.update \in Update /\ row.key \in Key \cup {NoKey}
             /\ row.table = "probe_sources" => row.key # NoKey
    <2>1. row \in RowType /\ (row.table = "probe_sources" => row.key # NoKey)
      BY DEF GoodRow
    <2>2. row.table \in IngestTable /\ row.id \in STRING /\ row.update \in Update
          /\ row.key \in Key \cup {NoKey}
      BY <2>1 DEF RowType
    <2>3. QED
      BY <2>1, <2>2
<1>4. QED
  BY <1>1, <1>2, <1>3 DEF RowName, Table

\* The findings an operator can review.
LEMMA FindingFacts ==
    ASSUME NEW row \in FindingRows
    PROVE  row \in AllRows /\ row.id \in STRING /\ row.key \in Key \cup {NoKey}
<1>1. PICK m \in Message : \E i \in DOMAIN Rows(m) : row = Rows(m)[i]
  BY DEF FindingRows
<1>2. DOMAIN Rows(m) = 1..Len(Rows(m))
  BY RowsGood
<1>3. QED
  BY <1>1, <1>2, RowFacts

-----------------------------------------------------------------------------
(* Stored rows and posted verdicts only become more, and so does what they  *)
(* support.                                                                 *)

LEMMA SoundGrows ==
    ASSUME NEW k, NEW y, NEW R, NEW S, NEW P, NEW Q, R \subseteq S, P \subseteq Q,
           Sound(k, y, R, P)
    PROVE  Sound(k, y, S, Q)
<1>1. Known(k, R) \subseteq Known(k, S)
  BY DEF Known
<1>2. QED
  BY <1>1 DEF Sound, Backed

LEMMA HandlerGrows ==
    ASSUME NEW q, NEW o, NEW R, NEW S, NEW P, NEW Q, R \subseteq S,
           \A k \in Key : P[k] \subseteq Q[k],
           HandlerGood(q, o, R, P)
    PROVE  HandlerGood(q, o, S, Q)
<1>1. q = "merge" => Sound(Rows(o.msg)[o.row].key, o.copy, S, Q[Rows(o.msg)[o.row].key])
  <2>1. SUFFICES ASSUME q = "merge"
                 PROVE  Sound(Rows(o.msg)[o.row].key, o.copy, S, Q[Rows(o.msg)[o.row].key])
    OBVIOUS
  <2>2. PICK k : k = Rows(o.msg)[o.row].key
    OBVIOUS
  <2>3. k \in Key
    BY <2>1, <2>2, RowFacts DEF HandlerGood
  <2>4. QED
    BY <2>1, <2>2, <2>3, SoundGrows DEF HandlerGood
<1>2. QED
  BY <1>1 DEF HandlerGood

LEMMA ReviewGrows ==
    ASSUME NEW q, NEW o, NEW R, NEW S, NEW P, NEW Q, R \subseteq S,
           \A k \in Key : P[k] \subseteq Q[k],
           ReviewGood(q, o, R, P)
    PROVE  ReviewGood(q, o, S, Q)
<1>1. q \notin {"idle", "done"} => o.target \in FindingRows
  BY DEF ReviewGood
<1>2. q \notin {"idle", "done"} /\ o.target.key # NoKey => o.target.key \in Key
  BY <1>1, FindingFacts
<1>3. q = "verdict" => Sound(o.target.key, o.copy, S, Q[o.target.key])
  <2>1. SUFFICES ASSUME q = "verdict" PROVE Sound(o.target.key, o.copy, S, Q[o.target.key])
    OBVIOUS
  <2>2. o.target.key \in Key /\ Sound(o.target.key, o.copy, R, P[o.target.key])
    BY <1>2, <2>1 DEF ReviewGood
  <2>3. QED
    BY <2>2, SoundGrows
<1>4. q = "review" =>
         \/ o.todo \in ReviewOrders
         \/ \E a, b \in {"finding_reviews", "panel_reviews"} :
              a # b /\ o.todo = <<b>> /\ <<a, o.target.id>> \in S
  BY DEF ReviewGood
<1>5. q \notin {"idle", "done"} /\ o.target.key # NoKey => o.rank \in Q[o.target.key]
  BY <1>2 DEF ReviewGood
<1>6. QED
  BY <1>1, <1>3, <1>4, <1>5 DEF ReviewGood

-----------------------------------------------------------------------------
(* A step of request p, which leaves it at phase q with local variables o.  *)

\* The parts of TypeOK that no request's local variables are in.
TableTypes ==
    /\ now \in 0..MaxTime
    /\ signed \in [Attempt -> [msg : Message, stamp : Int] \cup {NoRequest}]
    /\ nonces \in [Attempt -> Int]
    /\ rows \subseteq Table \X STRING
    /\ lastSeen \in [{Payload[m].node : m \in Message} -> Nat \cup {Never}]
    /\ merged \in [Key -> MergedRow]
    /\ acked \subseteq Message
    /\ posted \in [Key -> SUBSET Rank]
    /\ accepted \in [Attempt -> Nat \cup {Never}]
    /\ faults \in 0..MaxFaults

\* pc and op change at p only, to values that fit what is stored after the step.
Moves(p, q, o) ==
    /\ pc' = [pc EXCEPT ![p] = q] /\ op' = [op EXCEPT ![p] = o]
    /\ q \in Phase /\ o \in Operation
    /\ p \in Handler => HandlerGood(q, o, rows', posted')
    /\ p \in Reviewer => ReviewGood(q, o, rows', posted')

\* Nothing is lost from the tables.
Grows == rows \subseteq rows' /\ \A k \in Key : posted[k] \subseteq posted'[k]

LEMMA StoreUpdate ==
    ASSUME StoreInv, TableTypes', AckedStored', Audited(rows'), Grows,
           NEW p \in Proc, NEW q, NEW o, Moves(p, q, o),
           \A k \in Key : Sound(k, merged'[k], rows', posted'[k])
    PROVE  StoreInv'
<1>1. pc \in [Proc -> Phase] /\ op \in [Proc -> Operation]
  BY DEF StoreInv, TypeOK
<1>2. pc' \in [Proc -> Phase] /\ op' \in [Proc -> Operation] /\ pc'[p] = q /\ op'[p] = o
  BY <1>1 DEF Moves
<1>3. \A b \in Proc \ {p} : pc'[b] = pc[b] /\ op'[b] = op[b]
  BY <1>1 DEF Moves
<1>4. ASSUME NEW h \in Handler PROVE HandlerGood(pc'[h], op'[h], rows', posted')
  <2>1. CASE h = p
    BY <2>1, <1>2 DEF Moves
  <2>2. CASE h # p
    BY <2>2, <1>3, HandlerGrows, ConstantFacts DEF StoreInv, Grows
  <2>3. QED
    BY <2>1, <2>2
<1>5. ASSUME NEW v \in Reviewer PROVE ReviewGood(pc'[v], op'[v], rows', posted')
  <2>1. CASE v = p
    BY <2>1, <1>2 DEF Moves
  <2>2. CASE v # p
    BY <2>2, <1>3, ReviewGrows, ConstantFacts DEF StoreInv, Grows
  <2>3. QED
    BY <2>1, <2>2
<1>6. \A h \in Handler : pc'[h] \in {"write", "read", "merge", "ack"} =>
         op'[h].msg \in Message /\ op'[h].row \in DOMAIN Rows(op'[h].msg)
  <2>1. \A m \in Message : DOMAIN Rows(m) = 1..Len(Rows(m))
    BY RowsGood
  <2>2. QED
    BY <1>4, <2>1 DEF HandlerGood
<1>7. TypeOK'
  BY <1>2, <1>6 DEF TypeOK, TableTypes
<1>8. QED
  BY <1>4, <1>5, <1>7 DEF StoreInv

-----------------------------------------------------------------------------
(* Local variables.                                                         *)

LEMMA NoOperationType == NoOperation \in Operation
<1>1. NoRow \in MergedRow /\ 0 \in Rank
  BY DEF NoRow, MergedRow, Rank
<1>2. <<>> \in Seq(ReviewTable)
  OBVIOUS
<1>3. QED
  BY <1>1, <1>2 DEF NoOperation, Operation

\* What the assignments to local variables do.
LEMMA OperationFields ==
    ASSUME NEW o \in Operation
    PROVE  /\ o.req \in Attempt \cup {""} /\ o.msg \in Message \cup {""} /\ o.at \in Nat
           /\ o.row \in Nat /\ o.copy \in MergedRow /\ o.todo \in Seq(ReviewTable)
           /\ o.target \in FindingRows \cup {Plain("findings", "")} /\ o.rank \in Rank
  BY DEF Operation

LEMMA SetAt ==
    ASSUME NEW o \in Operation, NEW t \in Nat
    PROVE  LET n == [o EXCEPT !.at = t] IN n \in Operation /\ n.msg = o.msg
  BY DEF Operation

LEMMA SetRow ==
    ASSUME NEW o \in Operation, NEW i \in Nat
    PROVE  LET n == [o EXCEPT !.row = i] IN n \in Operation /\ n.msg = o.msg /\ n.row = i
  BY DEF Operation

LEMMA SetCopy ==
    ASSUME NEW o \in Operation, NEW y \in MergedRow
    PROVE  LET n == [o EXCEPT !.copy = y]
           IN  /\ n \in Operation /\ n.msg = o.msg /\ n.row = o.row /\ n.copy = y
               /\ n.target = o.target /\ n.rank = o.rank
  BY DEF Operation

LEMMA SetTodo ==
    ASSUME NEW o \in Operation, NEW s \in Seq(ReviewTable)
    PROVE  LET n == [o EXCEPT !.todo = s]
           IN  n \in Operation /\ n.todo = s /\ n.target = o.target /\ n.rank = o.rank
  BY DEF Operation

\* What the invariant says of request p.
LEMMA RequestFacts ==
    ASSUME StoreInv, NEW p \in Proc
    PROVE  /\ pc \in [Proc -> Phase] /\ op \in [Proc -> Operation]
           /\ pc[p] \in Phase /\ op[p] \in Operation
           /\ p \in Handler => HandlerGood(pc[p], op[p], rows, posted)
           /\ p \in Reviewer => ReviewGood(pc[p], op[p], rows, posted)
           /\ op = [op EXCEPT ![p] = op[p]]
  BY DEF StoreInv, TypeOK

\* A step that writes no row.
LEMMA MoveOnly ==
    ASSUME StoreInv, TableTypes', UNCHANGED <<rows, merged, acked, posted>>,
           NEW p \in Proc, NEW q, NEW o, Moves(p, q, o)
    PROVE  StoreInv'
<1>1. AckedStored' /\ Audited(rows') /\ Grows
  BY DEF StoreInv, AckedStored, Grows
<1>2. \A k \in Key : Sound(k, merged'[k], rows', posted'[k])
  BY DEF StoreInv
<1>3. QED
  BY <1>1, <1>2, StoreUpdate

\* A request that ends: it has no local variables and no obligations.
LEMMA EndMoves ==
    ASSUME StoreInv, NEW p \in Proc, NEW q, op' = [op EXCEPT ![p] = NoOperation],
           pc' = [pc EXCEPT ![p] = q],
           q = "idle" \/ (q = "done" /\ p \in Reviewer)
    PROVE  Moves(p, q, NoOperation)
<1>1. q \in Phase /\ NoOperation \in Operation
  BY NoOperationType DEF Phase
<1>2. q = "idle" => HandlerGood(q, NoOperation, rows', posted')
  BY DEF HandlerGood, HandlerPhase, NoncePhase
<1>3. ReviewGood(q, NoOperation, rows', posted')
  BY DEF ReviewGood, ReviewPhase
<1>4. p \in Reviewer => p \notin Handler
  BY IngestAssumption
<1>5. QED
  BY <1>1, <1>2, <1>3, <1>4 DEF Moves

\* The types that are left alone with the tables.
LEMMA TypesKept ==
    ASSUME StoreInv
    PROVE  TableTypes
  BY DEF StoreInv, TypeOK, TableTypes

-----------------------------------------------------------------------------
(* The steps up to insert_nonce write no row of the envelope.               *)

LEMMA SignTickStore ==
    ASSUME StoreInv, Tick \/ (\E r \in Attempt, m \in Message : Sign(r, m))
    PROVE  StoreInv'
<1>1. UNCHANGED <<nonces, rows, lastSeen, merged, pc, op, acked, posted, accepted, faults>>
  BY DEF Sign, Tick
<1>2. now' \in 0..MaxTime
  BY ConstantFacts DEF Sign, Tick, StoreInv, TypeOK
<1>3. signed' \in [Attempt -> [msg : Message, stamp : Int] \cup {NoRequest}]
  <2>1. CASE Tick
    BY <2>1 DEF Tick, StoreInv, TypeOK
  <2>2. CASE \E r \in Attempt, m \in Message : Sign(r, m)
    <3>1. PICK r \in Attempt, m \in Message, skew \in Skews :
            signed' = [signed EXCEPT ![r] = [msg |-> m, stamp |-> now + skew]]
      BY <2>2 DEF Sign
    <3>2. now + skew \in Int
      BY IngestAssumption, SMTT(30) DEF StoreInv, TypeOK
    <3>3. [msg |-> m, stamp |-> now + skew] \in [msg : Message, stamp : Int]
      BY <3>2
    <3>4. QED
      BY <3>1, <3>3 DEF StoreInv, TypeOK
  <2>3. QED
    BY <2>1, <2>2
<1>4. TypeOK'
  BY <1>1, <1>2, <1>3 DEF StoreInv, TypeOK
<1>5. QED
  BY <1>1, <1>4 DEF StoreInv, AckedStored

LEMMA ReceiveStore ==
    ASSUME StoreInv, NEW h \in Handler, NEW r \in Attempt, Receive(h, r)
    PROVE  StoreInv'
<1>1. PICK o : o = [NoOperation EXCEPT !.req = r, !.msg = signed[r].msg]
  OBVIOUS
<1>2. signed[r].msg \in Message
  BY DEF Receive, ValidSignature, StoreInv, TypeOK
<1>3. o \in Operation /\ o.msg \in Message
  BY <1>1, <1>2, NoOperationType DEF Operation
<1>4. op' = [op EXCEPT ![h] = o] /\ pc' = [pc EXCEPT ![h] = "clock"]
  BY <1>1 DEF Receive
<1>5. "clock" \in Phase /\ HandlerGood("clock", o, rows', posted') /\ h \notin Reviewer
  BY <1>3, IngestAssumption DEF HandlerGood, HandlerPhase, NoncePhase, Phase
<1>6. Moves(h, "clock", o)
  BY <1>3, <1>4, <1>5 DEF Moves
<1>7. TableTypes' /\ UNCHANGED <<rows, merged, acked, posted>>
  BY TypesKept DEF Receive, TableTypes
<1>8. QED
  BY <1>6, <1>7, MoveOnly, ConstantFacts

\* A request at insert_nonce stays there, or goes on to its first row.
LEMMA NoncePhaseMoves ==
    ASSUME StoreInv, NEW h \in Handler, pc[h] \in NoncePhase,
           NEW q \in NoncePhase \cup {"write"}, NEW o \in Operation,
           o.msg = op[h].msg, q = "write" => o.row = 1,
           op' = [op EXCEPT ![h] = o], pc' = [pc EXCEPT ![h] = q]
    PROVE  Moves(h, q, o)
<1>1. op[h].msg \in Message
  BY RequestFacts, ConstantFacts DEF HandlerGood
<1>2. 1 \in 1..Len(Rows(op[h].msg)) /\ 1..(1 - 1) = {}
  BY <1>1, RowsGood
<1>3. q \in Phase /\ h \notin Reviewer
  BY IngestAssumption DEF Phase, NoncePhase
<1>4. HandlerGood(q, o, rows', posted')
  BY <1>1, <1>2 DEF HandlerGood, HandlerPhase, NoncePhase
<1>5. QED
  BY <1>3, <1>4 DEF Moves

LEMMA ReadClockStore ==
    ASSUME StoreInv, NEW h \in Handler, ReadClock(h)
    PROVE  StoreInv'
<1>1. PICK o : o = [op[h] EXCEPT !.at = now]
  OBVIOUS
<1>2. now \in Nat /\ op[h] \in Operation
  BY RequestFacts, ConstantFacts DEF StoreInv, TypeOK
<1>3. o \in Operation /\ o.msg = op[h].msg
  BY <1>1, <1>2, SetAt
<1>4. op' = [op EXCEPT ![h] = o] /\ pc' = [pc EXCEPT ![h] = "purge"]
  BY <1>1 DEF ReadClock
<1>5. Moves(h, "purge", o)
  BY <1>3, <1>4, NoncePhaseMoves DEF ReadClock, NoncePhase
<1>6. TableTypes' /\ UNCHANGED <<rows, merged, acked, posted>>
  BY TypesKept DEF ReadClock, TableTypes
<1>7. QED
  BY <1>5, <1>6, MoveOnly, ConstantFacts

LEMMA PurgedType ==
    ASSUME StoreInv, NEW t
    PROVE  Purged(nonces, t) \in [Attempt -> Int]
  BY ConstantFacts DEF Purged, StoreInv, TypeOK

LEMMA AcceptStore ==
    ASSUME StoreInv, NEW h \in Handler, pc[h] \in NoncePhase, NEW n \in [Attempt -> Int],
           Accept(h, n), UNCHANGED <<now, signed, rows, lastSeen, merged, acked, posted, faults>>
    PROVE  StoreInv'
<1>1. PICK o : o = [op[h] EXCEPT !.row = 1]
  OBVIOUS
<1>2. op[h] \in Operation /\ op[h].at \in Nat
  BY RequestFacts, OperationFields, ConstantFacts
<1>3. o \in Operation /\ o.msg = op[h].msg /\ o.row = 1
  BY <1>1, <1>2, SetRow
<1>4. op' = [op EXCEPT ![h] = o] /\ pc' = [pc EXCEPT ![h] = "write"]
  BY <1>1 DEF Accept
<1>5. Moves(h, "write", o)
  BY <1>3, <1>4, NoncePhaseMoves
<1>6. nonces' \in [Attempt -> Int] /\ accepted' \in [Attempt -> Nat \cup {Never}]
  <2>1. accepted \in [Attempt -> Nat \cup {Never}]
    BY DEF StoreInv, TypeOK
  <2>2. op[h].at + Window \in Int
    BY <1>2, ConstantFacts
  <2>3. QED
    BY <1>2, <2>1, <2>2 DEF Accept
<1>7. TableTypes'
  BY <1>6, TypesKept DEF TableTypes
<1>8. QED
  BY <1>5, <1>7, MoveOnly, ConstantFacts

LEMMA RefuseStore ==
    ASSUME StoreInv, NEW h \in Handler, NEW n \in [Attempt -> Int],
           Refuse(h, n), UNCHANGED <<now, signed, rows, lastSeen, merged, acked, posted, faults>>
    PROVE  StoreInv'
<1>1. Moves(h, "idle", NoOperation)
  BY EndMoves, ConstantFacts DEF Refuse
<1>2. TableTypes'
  BY TypesKept DEF TableTypes, Refuse
<1>3. QED
  BY <1>1, <1>2, MoveOnly, ConstantFacts

LEMMA InsertNonceStore ==
    ASSUME StoreInv, NEW h \in Handler,
           InsertNonce(h) \/ PurgeNonces(h) \/ FindNonce(h) \/ StoreNonce(h)
    PROVE  StoreInv'
<1>1. PICK n : n = Purged(nonces, op[h].at)
  OBVIOUS
<1>2. n \in [Attempt -> Int] /\ nonces \in [Attempt -> Int]
  BY <1>1, PurgedType DEF StoreInv, TypeOK
<1>3. h \in Proc /\ op[h] \in Operation /\ op = [op EXCEPT ![h] = op[h]]
  BY RequestFacts, ConstantFacts
<1>4. CASE InsertNonce(h)
  <2>1. pc[h] \in NoncePhase /\ (Accept(h, n) \/ Refuse(h, n))
        /\ UNCHANGED <<now, signed, rows, lastSeen, merged, acked, posted, faults>>
    BY <1>1, <1>4 DEF InsertNonce, NoncePhase
  <2>2. QED
    BY <1>2, <2>1, AcceptStore, RefuseStore
<1>5. CASE PurgeNonces(h)
  <2>1. Moves(h, "find", op[h])
    <3>1. op' = [op EXCEPT ![h] = op[h]] /\ pc' = [pc EXCEPT ![h] = "find"]
          /\ pc[h] \in NoncePhase /\ "find" \in NoncePhase \cup {"write"}
      BY <1>3, <1>5 DEF PurgeNonces, NoncePhase
    <3>2. QED
      BY <1>3, <3>1, NoncePhaseMoves
  <2>2. TableTypes' /\ UNCHANGED <<rows, merged, acked, posted>>
    BY <1>1, <1>2, <1>5, TypesKept DEF PurgeNonces, TableTypes
  <2>3. QED
    BY <1>3, <2>1, <2>2, MoveOnly
<1>6. CASE FindNonce(h)
  <2>1. pc[h] = "find" /\ UNCHANGED <<now, signed, rows, lastSeen, merged, acked, posted, faults>>
    BY <1>6 DEF FindNonce
  <2>2. CASE Refuse(h, nonces)
    BY <1>2, <2>1, <2>2, RefuseStore
  <2>3. CASE pc' = [pc EXCEPT ![h] = "insert"] /\ UNCHANGED <<nonces, op, accepted>>
    <3>1. op' = [op EXCEPT ![h] = op[h]] /\ pc' = [pc EXCEPT ![h] = "insert"]
          /\ pc[h] \in NoncePhase /\ "insert" \in NoncePhase \cup {"write"}
      BY <1>3, <2>1, <2>3 DEF NoncePhase
    <3>2. Moves(h, "insert", op[h])
      BY <1>3, <3>1, NoncePhaseMoves
    <3>3. TableTypes'
      BY <2>1, <2>3, TypesKept DEF TableTypes
    <3>4. QED
      BY <1>3, <2>1, <3>2, <3>3, MoveOnly
  <2>4. QED
    BY <1>6, <2>2, <2>3, Zenon DEF FindNonce
<1>7. CASE StoreNonce(h)
  <2>1. pc[h] \in NoncePhase /\ (Accept(h, nonces) \/ Refuse(h, nonces))
        /\ UNCHANGED <<now, signed, rows, lastSeen, merged, acked, posted, faults>>
    BY <1>7 DEF StoreNonce, NoncePhase
  <2>2. QED
    BY <1>2, <2>1, AcceptStore, RefuseStore
<1>8. QED
  BY <1>4, <1>5, <1>6, <1>7

-----------------------------------------------------------------------------
(* The statements of persist_payload.                                       *)

\* What the invariant says of the row a request is at.
LEMMA CurrentRowFacts ==
    ASSUME StoreInv, NEW h \in Handler, pc[h] \in {"write", "read", "merge", "ack"}
    PROVE  /\ op[h] \in Operation /\ op[h].msg \in Message
           /\ op[h].row \in 1..Len(Rows(op[h].msg)) /\ Len(Rows(op[h].msg)) \in Nat
           /\ \A i \in 1..(op[h].row - 1) : RowName(Rows(op[h].msg)[i]) \in rows
           /\ CurrentRow(h) \in AllRows /\ CurrentRow(h).table \in IngestTable
           /\ CurrentRow(h).id \in STRING /\ CurrentRow(h).update \in Update
           /\ CurrentRow(h).key \in Key \cup {NoKey}
           /\ CurrentRow(h).table = "probe_sources" => CurrentRow(h).key # NoKey
           /\ RowName(CurrentRow(h)) = <<CurrentRow(h).table, CurrentRow(h).id>>
           /\ RowName(CurrentRow(h)) \in Table \X STRING
<1>1. /\ op[h] \in Operation /\ HandlerGood(pc[h], op[h], rows, posted)
  BY RequestFacts, ConstantFacts
<1>2. /\ op[h].msg \in Message /\ op[h].row \in 1..Len(Rows(op[h].msg))
      /\ \A i \in 1..(op[h].row - 1) : RowName(Rows(op[h].msg)[i]) \in rows
  BY <1>1 DEF HandlerGood
<1>3. Len(Rows(op[h].msg)) \in Nat
  BY <1>2, RowsGood
<1>4. QED
  BY <1>1, <1>2, <1>3, RowFacts DEF CurrentRow

\* One more row is stored.
LEMMA RowStored ==
    ASSUME StoreInv, NEW t \in Table, NEW id \in STRING, rows' = rows \cup {<<t, id>>},
           UNCHANGED <<acked, posted>>,
           t \in {"review_audit", "fingerprint_feedback"} => BothReviews(id) \subseteq rows'
    PROVE  rows' \subseteq Table \X STRING /\ AckedStored' /\ Audited(rows') /\ Grows
<1>1. rows' \subseteq Table \X STRING /\ Grows
  BY DEF StoreInv, TypeOK, Grows
<1>2. AckedStored'
  BY DEF StoreInv, AckedStored
<1>3. Audited(rows')
  <2>1. SUFFICES ASSUME NEW x \in STRING,
                        {<<"review_audit", x>>, <<"fingerprint_feedback", x>>} \cap rows' # {}
                 PROVE  BothReviews(x) \subseteq rows'
    BY DEF Audited
  <2>2. CASE {<<"review_audit", x>>, <<"fingerprint_feedback", x>>} \cap rows # {}
    BY <2>2 DEF StoreInv, Audited
  <2>3. CASE <<t, id>> \in {<<"review_audit", x>>, <<"fingerprint_feedback", x>>}
    BY <2>3
  <2>4. QED
    BY <2>1, <2>2, <2>3
<1>4. QED
  BY <1>1, <1>2, <1>3

LEMMA CurrentRowStored ==
    ASSUME StoreInv, NEW h \in Handler, pc[h] \in {"write", "read", "merge", "ack"},
           rows' = rows \cup {RowName(CurrentRow(h))}, UNCHANGED <<acked, posted>>
    PROVE  /\ rows' \subseteq Table \X STRING /\ AckedStored' /\ Audited(rows') /\ Grows
           /\ RowName(CurrentRow(h)) \in rows'
<1>1. PICK t, id : t = CurrentRow(h).table /\ id = CurrentRow(h).id
  OBVIOUS
<1>2. t \in Table /\ t \notin {"review_audit", "fingerprint_feedback"} /\ id \in STRING
  BY <1>1, CurrentRowFacts DEF Table, IngestTable
<1>3. rows' = rows \cup {<<t, id>>}
  BY <1>1, CurrentRowFacts
<1>4. QED
  BY <1>2, <1>3, RowStored

\* What the tables accumulated is as sound with more rows and more reviews.
LEMMA MergedKept ==
    ASSUME StoreInv, Grows, UNCHANGED merged
    PROVE  \A k \in Key : Sound(k, merged'[k], rows', posted'[k])
  BY SoundGrows DEF StoreInv, Grows

\* Advance: the row the request was at is stored, it goes on with the next.
LEMMA AdvanceMoves ==
    ASSUME StoreInv, NEW h \in Handler, pc[h] \in {"write", "read", "merge"}, Grows,
           RowName(CurrentRow(h)) \in rows', Advance(h)
    PROVE  \E q, o : Moves(h, q, o)
<1> DEFINE m == op[h].msg
           i == op[h].row
<1>1. /\ op[h] \in Operation /\ m \in Message /\ i \in 1..Len(Rows(m)) /\ Len(Rows(m)) \in Nat
      /\ \A j \in 1..(i - 1) : RowName(Rows(m)[j]) \in rows'
      /\ RowName(Rows(m)[i]) \in rows'
  BY CurrentRowFacts DEF Grows, CurrentRow
<1>2. \A j \in 1..i : RowName(Rows(m)[j]) \in rows'
  BY <1>1
<1>3. h \notin Reviewer /\ h \in Proc /\ op = [op EXCEPT ![h] = op[h]]
  BY IngestAssumption, RequestFacts, ConstantFacts
<1>4. CASE i = Len(Rows(m))
  <2>1. pc' = [pc EXCEPT ![h] = "ack"] /\ op' = [op EXCEPT ![h] = op[h]]
    BY <1>3, <1>4 DEF Advance
  <2>2. HandlerGood("ack", op[h], rows', posted')
    BY <1>1, <1>2, <1>4 DEF HandlerGood, HandlerPhase, NoncePhase
  <2>3. Moves(h, "ack", op[h])
    BY <1>1, <1>3, <2>1, <2>2 DEF Moves, Phase
  <2>4. QED
    BY <2>3
<1>5. CASE i # Len(Rows(m))
  <2>1. PICK o : o = [op[h] EXCEPT !.row = i + 1]
    OBVIOUS
  <2>2. o \in Operation /\ o.msg = m /\ o.row = i + 1
    <3>1. i + 1 \in Nat
      BY <1>1
    <3>2. QED
      BY <1>1, <2>1, <3>1, SetRow
  <2>3. pc' = [pc EXCEPT ![h] = "write"] /\ op' = [op EXCEPT ![h] = o]
    BY <1>5, <2>1 DEF Advance
  <2>4. i + 1 \in 1..Len(Rows(m)) /\ (i + 1) - 1 = i
    BY <1>1, <1>5
  <2> HIDE DEF m, i
  <2>5. HandlerGood("write", o, rows', posted')
    BY <1>1, <1>2, <2>2, <2>4 DEF HandlerGood, HandlerPhase, NoncePhase
  <2>6. Moves(h, "write", o)
    BY <1>3, <2>2, <2>3, <2>5 DEF Moves, Phase
  <2>7. QED
    BY <2>6
<1>6. QED
  BY <1>4, <1>5

LEMMA UpsertStore ==
    ASSUME StoreInv, NEW h \in Handler,
           \/ UpsertNode(h) \/ UpsertHeartbeat(h) \/ UpsertIncident(h) \/ UpsertDrift(h)
           \/ UpsertBlock(h)
    PROVE  StoreInv'
<1>1. /\ pc[h] = "write" /\ rows' = rows \cup {RowName(CurrentRow(h))} /\ Advance(h)
      /\ UNCHANGED <<now, signed, nonces, merged, acked, posted, accepted, faults>>
  BY Zenon DEF UpsertNode, UpsertHeartbeat, UpsertIncident, UpsertDrift, UpsertBlock, Upsert
<1>2. lastSeen' \in [{Payload[m].node : m \in Message} -> Nat \cup {Never}]
  <2>1. Payload[op[h].msg].sent \in Nat
    <3>1. op[h].msg \in Message
      BY <1>1, CurrentRowFacts
    <3>2. QED
      BY <3>1, IngestAssumption
  <2>2. CASE UpsertNode(h)
    BY <2>1, <2>2 DEF UpsertNode, StoreInv, TypeOK
  <2>3. CASE UNCHANGED lastSeen
    BY <2>3 DEF StoreInv, TypeOK
  <2>4. QED
    BY <2>2, <2>3 DEF UpsertHeartbeat, UpsertIncident, UpsertDrift, UpsertBlock
<1>3. rows' \subseteq Table \X STRING /\ AckedStored' /\ Audited(rows') /\ Grows
      /\ RowName(CurrentRow(h)) \in rows'
  BY <1>1, CurrentRowStored
<1>4. TableTypes'
  BY <1>1, <1>2, <1>3, TypesKept DEF TableTypes
<1>5. PICK q, o : Moves(h, q, o)
  BY <1>1, <1>3, AdvanceMoves
<1>6. QED
  BY <1>1, <1>3, <1>4, <1>5, MergedKept, StoreUpdate, ConstantFacts

LEMMA UpsertFindingStore ==
    ASSUME StoreInv, NEW h \in Handler, UpsertFinding(h)
    PROVE  StoreInv'
<1>1. /\ pc[h] = "write" /\ rows' = rows \cup {RowName(CurrentRow(h))}
      /\ CurrentRow(h).table = "findings"
      /\ UNCHANGED <<now, signed, nonces, lastSeen, merged, acked, posted, accepted, faults>>
  BY DEF UpsertFinding, Upsert
<1>2. rows' \subseteq Table \X STRING /\ AckedStored' /\ Audited(rows') /\ Grows
      /\ RowName(CurrentRow(h)) \in rows'
  BY <1>1, CurrentRowStored
<1>3. TableTypes'
  BY <1>1, <1>2, TypesKept DEF TableTypes
<1>4. \E q, o : Moves(h, q, o)
  <2>1. CASE CurrentRow(h).key = NoKey
    <3>1. Advance(h)
      BY <2>1 DEF UpsertFinding
    <3>2. QED
      BY <1>1, <1>2, <3>1, AdvanceMoves
  <2>2. CASE CurrentRow(h).key # NoKey
    <3>1. pc' = [pc EXCEPT ![h] = "read"] /\ op' = op
      BY <2>2 DEF UpsertFinding
    <3>2. h \notin Reviewer /\ h \in Proc /\ op = [op EXCEPT ![h] = op[h]]
      BY IngestAssumption, RequestFacts, ConstantFacts
    <3>3. HandlerGood("read", op[h], rows', posted')
      <4>1. /\ op[h].msg \in Message /\ op[h].row \in 1..Len(Rows(op[h].msg))
            /\ \A i \in 1..(op[h].row - 1) : RowName(Rows(op[h].msg)[i]) \in rows'
        BY <1>1, <1>2, CurrentRowFacts DEF Grows
      <4>2. QED
        BY <1>1, <2>2, <4>1 DEF HandlerGood, HandlerPhase, NoncePhase, CurrentRow
    <3>4. Moves(h, "read", op[h])
      BY <1>1, <3>1, <3>2, <3>3, CurrentRowFacts DEF Moves, Phase
    <3>5. QED
      BY <3>4
  <2>3. QED
    BY <2>1, <2>2
<1>5. QED
  BY <1>1, <1>2, <1>3, <1>4, MergedKept, StoreUpdate, ConstantFacts

-----------------------------------------------------------------------------
(* The tables that accumulate.                                              *)

\* Merging the update u into the row y: every field comes from one of the two,
\* and from u alone when y is no row.
LEMMA MergeFields ==
    ASSUME NEW t, NEW y \in MergedRow, NEW u \in Update, y.seen = 0 => y.members = {}
    PROVE  LET z == Merge(t, y, u)
           IN  /\ z \in MergedRow /\ z.seen > 0 /\ Covers(z, y)
               /\ y.seen = 0 => z.members = u.members /\ z.first = u.first /\ z.last = u.last
                                /\ z.rank \in {1, u.rank}
               /\ y.seen > 0 => z.members = y.members \cup u.members
                                /\ z.first \in {y.first, u.first} /\ z.last \in {y.last, u.last}
                                /\ z.rank \in {y.rank, u.rank}
<1>1. /\ y.seen \in Nat /\ y.members \subseteq STRING /\ y.first \in Nat /\ y.last \in Nat
      /\ y.rank \in Rank /\ y.rank \in Int
  BY DEF MergedRow, Rank
<1>2. /\ u.seen \in Nat /\ u.seen > 0 /\ u.members \subseteq STRING /\ u.first \in Nat
      /\ u.last \in Nat /\ u.rank \in Rank /\ u.rank \in Int /\ 1 \in Rank
  BY DEF Update, Rank
<1>3. \A i, j \in Int : /\ Greater(i, j) \in {i, j} /\ Greater(i, j) >= i
                        /\ Greater(i, j) >= j
                        /\ Smaller(i, j) \in {i, j} /\ Smaller(i, j) <= i
  BY DEF Greater, Smaller
<1>4. CASE t = "findings"
  <2>1. PICK z : z = MergeFingerprint(y, u)
    OBVIOUS
  <2>2. /\ z.seen = Greater(y.seen + 1, u.seen) /\ z.members = y.members \cup u.members
        /\ z.first = IF y.seen = 0 THEN u.first ELSE Smaller(y.first, u.first)
        /\ z.last = IF y.seen = 0 THEN u.last ELSE Greater(y.last, u.last)
        /\ z.rank = Greater(IF y.seen = 0 THEN 1 ELSE y.rank, u.rank)
    BY <2>1 DEF MergeFingerprint
  <2>3. /\ z.seen \in Nat /\ z.seen > y.seen /\ z.seen > 0
        /\ z.first \in Nat /\ z.last \in Nat /\ z.rank \in Rank
    BY <1>1, <1>2, <1>3, <2>2
  <2>4. z \in MergedRow
    <3>1. z = [seen |-> z.seen, members |-> z.members, first |-> z.first, last |-> z.last,
               rank |-> z.rank]
      BY <2>1 DEF MergeFingerprint
    <3>2. z.members \in SUBSET STRING
      BY <1>1, <1>2, <2>2
    <3>3. QED
      BY <2>3, <3>1, <3>2 DEF MergedRow
  <2>5. Covers(z, y)
    BY <1>1, <1>2, <1>3, <2>2, <2>3 DEF Covers
  <2>6. y.seen = 0 => z.members = u.members /\ z.first = u.first /\ z.last = u.last
                      /\ z.rank \in {1, u.rank}
    BY <1>1, <1>2, <1>3, <2>2
  <2>7. y.seen > 0 => /\ z.members = y.members \cup u.members
                      /\ z.first \in {y.first, u.first} /\ z.last \in {y.last, u.last}
                      /\ z.rank \in {y.rank, u.rank}
    BY <1>1, <1>2, <1>3, <2>2
  <2>8. Merge(t, y, u) = z
    BY <1>4, <2>1 DEF Merge
  <2>9. QED
    BY <2>3, <2>4, <2>5, <2>6, <2>7, <2>8
<1>5. CASE t # "findings" /\ y.seen = 0
  <2>1. Merge(t, y, u) = u /\ u \in MergedRow
    BY <1>5 DEF Merge, MergeProbeSource, Update, MergedRow
  <2>2. Covers(u, y)
    BY <1>5 DEF Covers
  <2>3. QED
    BY <1>2, <1>5, <2>1, <2>2
<1>6. CASE t # "findings" /\ y.seen # 0
  <2>1. PICK z : z = MergeProbeSource(y, u)
    OBVIOUS
  <2>2. /\ z.seen = y.seen + u.seen /\ z.members = y.members \cup u.members
        /\ z.first = Smaller(y.first, u.first) /\ z.last = Greater(y.last, u.last)
        /\ z.rank = Greater(y.rank, u.rank)
    BY <1>6, <2>1 DEF MergeProbeSource
  <2>3. /\ z.seen \in Nat /\ z.seen > y.seen /\ z.seen > 0
        /\ z.first \in Nat /\ z.last \in Nat /\ z.rank \in Rank
    BY <1>1, <1>2, <1>3, <2>2
  <2>4. z \in MergedRow
    <3>1. z = [seen |-> z.seen, members |-> z.members, first |-> z.first, last |-> z.last,
               rank |-> z.rank]
      BY <1>6, <2>1 DEF MergeProbeSource
    <3>2. z.members \in SUBSET STRING
      BY <1>1, <1>2, <2>2
    <3>3. QED
      BY <2>3, <3>1, <3>2 DEF MergedRow
  <2>5. Covers(z, y)
    BY <1>1, <1>2, <1>3, <2>2, <2>3 DEF Covers
  <2>6. QED
    BY <1>1, <1>2, <1>3, <1>6, <2>1, <2>2, <2>3, <2>4, <2>5 DEF Merge
<1>7. QED
  BY <1>4, <1>5, <1>6

\* Merging a stored update into a backed row gives a backed row.
LEMMA MergeSound ==
    ASSUME NEW k, NEW t, NEW y \in MergedRow, NEW u \in Update, NEW R, NEW Q,
           u \in Known(k, R), Sound(k, y, R, Q)
    PROVE  LET z == Merge(t, y, u)
           IN  z \in MergedRow /\ z.seen > 0 /\ Sound(k, z, R, Q) /\ Covers(z, y)
<1>1. PICK z : z = Merge(t, y, u)
  OBVIOUS
<1>2. y.seen \in Nat /\ (y.seen = 0 => y.members = {})
  BY DEF MergedRow, Sound
<1>3. /\ z \in MergedRow /\ z.seen > 0 /\ Covers(z, y)
      /\ y.seen = 0 => z.members = u.members /\ z.first = u.first /\ z.last = u.last
                       /\ z.rank \in {1, u.rank}
      /\ y.seen > 0 => z.members = y.members \cup u.members
                       /\ z.first \in {y.first, u.first} /\ z.last \in {y.last, u.last}
                       /\ z.rank \in {y.rank, u.rank}
  BY <1>1, <1>2, MergeFields
<1>4. z.seen \in Nat
  BY <1>3 DEF MergedRow
<1>5. CASE y.seen = 0
  BY <1>1, <1>3, <1>4, <1>5 DEF Sound, Backed
<1>6. CASE y.seen > 0
  BY <1>1, <1>3, <1>4, <1>6 DEF Sound, Backed
<1>7. QED
  BY <1>2, <1>5, <1>6

LEMMA ReadMergedStore ==
    ASSUME StoreInv, NEW h \in Handler, ReadMerged(h)
    PROVE  StoreInv'
<1>1. PICK k : k = CurrentRow(h).key
  OBVIOUS
<1>2. PICK o : o = [op[h] EXCEPT !.copy = merged[k]]
  OBVIOUS
<1>3. pc[h] \in {"write", "read"} /\ (pc[h] = "write" => CurrentRow(h).table = "probe_sources")
  BY DEF ReadMerged
<1>4. h \in Proc /\ h \notin Reviewer /\ HandlerGood(pc[h], op[h], rows, posted)
  BY IngestAssumption, RequestFacts, ConstantFacts
<1>5. k \in Key /\ CurrentRow(h).table \in {"findings", "probe_sources"}
  <2>1. CurrentRow(h).key # NoKey /\ CurrentRow(h).table \in {"findings", "probe_sources"}
    BY <1>3, <1>4, CurrentRowFacts DEF HandlerGood, CurrentRow
  <2>2. QED
    BY <1>1, <1>3, <2>1, CurrentRowFacts
<1>6. merged[k] \in MergedRow /\ Sound(k, merged[k], rows, posted[k])
  BY <1>5 DEF StoreInv, TypeOK
<1>7. o \in Operation /\ o.msg = op[h].msg /\ o.row = op[h].row /\ o.copy = merged[k]
  BY <1>2, <1>3, <1>6, CurrentRowFacts, SetCopy
<1>8. op' = [op EXCEPT ![h] = o] /\ pc' = [pc EXCEPT ![h] = "merge"]
      /\ UNCHANGED <<now, signed, nonces, rows, lastSeen, merged, acked, posted, accepted, faults>>
  BY <1>1, <1>2 DEF ReadMerged
<1>9. HandlerGood("merge", o, rows', posted')
  <2>1. /\ o.msg \in Message /\ o.row \in 1..Len(Rows(o.msg))
        /\ \A i \in 1..(o.row - 1) : RowName(Rows(o.msg)[i]) \in rows'
    BY <1>3, <1>7, <1>8, CurrentRowFacts
  <2>2. Rows(o.msg)[o.row].key = k /\ k # NoKey
        /\ Rows(o.msg)[o.row].table \in {"findings", "probe_sources"}
    BY <1>1, <1>5, <1>7, IngestAssumption DEF CurrentRow
  <2>3. Sound(k, o.copy, rows', posted'[k])
    BY <1>6, <1>7, <1>8
  <2>4. QED
    BY <2>1, <2>2, <2>3 DEF HandlerGood, HandlerPhase, NoncePhase
<1>10. Moves(h, "merge", o)
  BY <1>4, <1>7, <1>8, <1>9 DEF Moves, Phase
<1>11. TableTypes'
  BY <1>8, TypesKept DEF TableTypes
<1>12. QED
  BY <1>4, <1>8, <1>10, <1>11, MoveOnly

\* What WriteMerged stores: a row backed by the update that is stored with it,
\* which covers the copy it was made from.
LEMMA WriteMergedRow ==
    ASSUME StoreInv, NEW h \in Handler, WriteMerged(h)
    PROVE  /\ CurrentRow(h).key \in Key
           /\ LET z == merged'[CurrentRow(h).key]
              IN  /\ z \in MergedRow
                  /\ Sound(CurrentRow(h).key, z, rows', posted[CurrentRow(h).key])
                  /\ Covers(z, op[h].copy)
           /\ merged' = [merged EXCEPT ![CurrentRow(h).key] = merged'[CurrentRow(h).key]]
<1>1. PICK k, u, t, y : k = CurrentRow(h).key /\ u = CurrentRow(h).update
                        /\ t = CurrentRow(h).table /\ y = op[h].copy
  OBVIOUS
<1>2. pc[h] = "merge" /\ merged' = [merged EXCEPT ![k] = Merge(t, y, u)]
      /\ rows' = rows \cup {RowName(CurrentRow(h))}
  BY <1>1 DEF WriteMerged
<1>3. HandlerGood(pc[h], op[h], rows, posted) /\ op[h] \in Operation
  BY RequestFacts, ConstantFacts
<1>4. k \in Key /\ Sound(k, y, rows, posted[k]) /\ y \in MergedRow /\ u \in Update
  <2>1. k # NoKey /\ Sound(k, y, rows, posted[k])
    BY <1>1, <1>2, <1>3 DEF HandlerGood, CurrentRow
  <2>2. QED
    BY <1>1, <1>2, <1>3, <2>1, CurrentRowFacts, OperationFields
<1>5. rows \subseteq rows' /\ u \in Known(k, rows')
  BY <1>1, <1>2, CurrentRowFacts DEF Known
<1>6. Sound(k, y, rows', posted[k])
  BY <1>4, <1>5, SoundGrows
<1>7. PICK z : z = Merge(t, y, u)
  OBVIOUS
<1>8. z \in MergedRow /\ Sound(k, z, rows', posted[k]) /\ Covers(z, y)
  BY <1>4, <1>5, <1>6, <1>7, MergeSound
<1>9. merged'[k] = z
  BY <1>2, <1>4, <1>7 DEF StoreInv, TypeOK
<1>10. QED
  BY <1>1, <1>2, <1>4, <1>7, <1>8, <1>9

LEMMA WriteMergedStore ==
    ASSUME StoreInv, NEW h \in Handler, WriteMerged(h)
    PROVE  StoreInv'
<1>1. /\ pc[h] = "merge" /\ rows' = rows \cup {RowName(CurrentRow(h))} /\ Advance(h)
      /\ UNCHANGED <<now, signed, nonces, lastSeen, acked, posted, accepted, faults>>
  BY DEF WriteMerged
<1>2. PICK k, z : k = CurrentRow(h).key /\ z = merged'[k]
  OBVIOUS
<1>3. k \in Key /\ z \in MergedRow /\ Sound(k, z, rows', posted[k])
      /\ merged' = [merged EXCEPT ![k] = z]
  BY <1>2, WriteMergedRow
<1>4. rows' \subseteq Table \X STRING /\ AckedStored' /\ Audited(rows') /\ Grows
      /\ RowName(CurrentRow(h)) \in rows'
  BY <1>1, CurrentRowStored
<1>5. merged' \in [Key -> MergedRow]
  BY <1>3 DEF StoreInv, TypeOK
<1>6. ASSUME NEW j \in Key PROVE Sound(j, merged'[j], rows', posted'[j])
  <2>1. CASE j = k
    BY <2>1, <1>1, <1>2, <1>3
  <2>2. CASE j # k
    <3>1. merged'[j] = merged[j] /\ Sound(j, merged[j], rows, posted[j])
      BY <2>2, <1>3 DEF StoreInv, TypeOK
    <3>2. QED
      BY <1>1, <1>4, <3>1, SoundGrows DEF Grows
  <2>3. QED
    BY <2>1, <2>2
<1>7. TableTypes'
  BY <1>1, <1>4, <1>5, TypesKept DEF TableTypes
<1>8. PICK q, o : Moves(h, q, o)
  BY <1>1, <1>4, AdvanceMoves
<1>9. QED
  BY <1>4, <1>6, <1>7, <1>8, StoreUpdate, ConstantFacts

\* The panel answers ok when the last row is stored.
LEMMA AckStore ==
    ASSUME StoreInv, NEW h \in Handler, Ack(h)
    PROVE  StoreInv'
<1>1. PICK m : m = op[h].msg
  OBVIOUS
<1>2. m \in Message /\ \A i \in 1..Len(Rows(m)) : RowName(Rows(m)[i]) \in rows
  BY <1>1, RequestFacts, ConstantFacts DEF HandlerGood, Ack
<1>3. DOMAIN Rows(m) = 1..Len(Rows(m))
  BY <1>2, RowsGood
<1>4. /\ acked' = acked \cup {m}
      /\ UNCHANGED <<now, signed, nonces, rows, lastSeen, merged, posted, accepted, faults>>
  BY <1>1 DEF Ack
<1>5. AckedStored'
  BY <1>2, <1>3, <1>4 DEF StoreInv, AckedStored
<1>6. TableTypes'
  BY <1>2, <1>4, TypesKept DEF TableTypes
<1>7. Moves(h, "idle", NoOperation)
  BY EndMoves, ConstantFacts DEF Ack
<1>8. Audited(rows') /\ Grows
  BY <1>4 DEF StoreInv, Grows
<1>9. QED
  BY <1>4, <1>5, <1>6, <1>7, <1>8, MergedKept, StoreUpdate, ConstantFacts

-----------------------------------------------------------------------------
(* The steps of a review.                                                   *)

\* The rows a review has yet to write.
LEMMA TodoFacts ==
    ASSUME NEW S, NEW a \in S, NEW b \in S
    PROVE  /\ <<a, b>> \in Seq(S) /\ <<b>> \in Seq(S) /\ <<>> \in Seq(S)
           /\ Head(<<a, b>>) = a /\ Tail(<<a, b>>) = <<b>> /\ Len(<<a, b>>) = 2
           /\ Head(<<b>>) = b /\ Tail(<<b>>) = <<>> /\ Len(<<b>>) = 1
<1>1. <<b>> \in Seq(S) /\ Len(<<b>>) = 1 /\ Head(<<b>>) = b
  OBVIOUS
<1>2. Tail(<<b>>) \in Seq(S) /\ Len(Tail(<<b>>)) = 0
  BY <1>1
<1>3. Tail(<<b>>) = <<>> /\ <<>> \in Seq(S)
  BY <1>2
<1>4. <<a, b>> \in Seq(S) /\ Len(<<a, b>>) = 2 /\ Head(<<a, b>>) = a
  OBVIOUS
<1>5. Tail(<<a, b>>) = <<b>>
  OBVIOUS
<1>6. QED
  BY <1>1, <1>3, <1>4, <1>5

LEMMA FeedbackRanks ==
    ASSUME NEW verdict \in DOMAIN FeedbackRank
    PROVE  FeedbackRank[verdict] \in Rank
<1>1. verdict \in {"confirmed", "false_positive", "needs_review"}
  BY DEF FeedbackRank
<1>2. FeedbackRank["confirmed"] = 3 /\ FeedbackRank["false_positive"] = 2
      /\ FeedbackRank["needs_review"] = 0
  BY DEF FeedbackRank
<1>3. QED
  BY <1>1, <1>2 DEF Rank

LEMMA BeginReviewStore ==
    ASSUME StoreInv, NEW v \in Reviewer, NEW row \in FindingRows, BeginReview(v, row)
    PROVE  StoreInv'
<1>1. PICK verdict \in DOMAIN FeedbackRank, order \in ReviewOrders :
        /\ op' = [op EXCEPT ![v] = [NoOperation EXCEPT
                    !.target = row, !.todo = order, !.rank = FeedbackRank[verdict]]]
        /\ posted' = IF row.key = NoKey THEN posted
                     ELSE [posted EXCEPT ![row.key] = @ \cup {FeedbackRank[verdict]}]
  BY Zenon DEF BeginReview
<1>2. PICK n : n = FeedbackRank[verdict]
  OBVIOUS
<1>3. n \in Rank /\ row.key \in Key \cup {NoKey}
  BY <1>2, FeedbackRanks, FindingFacts
<1>4. PICK o : o = [NoOperation EXCEPT !.target = row, !.todo = order, !.rank = n]
  OBVIOUS
<1>5. order \in Seq(ReviewTable)
  <2>1. "finding_reviews" \in ReviewTable /\ "panel_reviews" \in ReviewTable
    BY DEF ReviewTable
  <2>2. QED
    BY <2>1, TodoFacts, SMTT(30) DEF ReviewOrders
<1>6. o \in Operation /\ o.target = row /\ o.todo = order /\ o.rank = n
  BY <1>3, <1>4, <1>5, NoOperationType DEF Operation
<1>7. /\ op' = [op EXCEPT ![v] = o] /\ pc' = [pc EXCEPT ![v] = "review"]
      /\ posted' = IF row.key = NoKey THEN posted
                   ELSE [posted EXCEPT ![row.key] = posted[row.key] \cup {n}]
      /\ UNCHANGED <<now, signed, nonces, rows, lastSeen, merged, acked, accepted, faults>>
  BY <1>1, <1>2, <1>4 DEF BeginReview
<1>8. posted \in [Key -> SUBSET Rank]
  BY DEF StoreInv, TypeOK
<1>9. posted' \in [Key -> SUBSET Rank] /\ (row.key # NoKey => n \in posted'[row.key])
      /\ \A k \in Key : posted[k] \subseteq posted'[k]
  BY <1>3, <1>7, <1>8
<1>10. v \in Proc /\ v \notin Handler
  BY IngestAssumption, ConstantFacts
<1>11. ReviewGood("review", o, rows', posted')
  BY <1>6, <1>9 DEF ReviewGood, ReviewPhase
<1>12. Moves(v, "review", o)
  BY <1>6, <1>7, <1>10, <1>11 DEF Moves, Phase
<1>13. TableTypes'
  BY <1>7, <1>9, TypesKept DEF TableTypes
<1>14. AckedStored' /\ Audited(rows') /\ Grows
  BY <1>7, <1>9 DEF StoreInv, AckedStored, Grows
<1>15. QED
  BY <1>7, <1>10, <1>12, <1>13, <1>14, MergedKept, StoreUpdate

\* What the invariant says of a review under way.
LEMMA ReviewFacts ==
    ASSUME StoreInv, NEW v \in Reviewer, pc[v] \notin {"idle", "done"}
    PROVE  /\ v \in Proc /\ v \notin Handler
           /\ op[v] \in Operation /\ ReviewGood(pc[v], op[v], rows, posted)
           /\ op[v].target \in FindingRows /\ op[v].target.id \in STRING
           /\ op[v].target.key \in Key \cup {NoKey}
<1>1. v \in Proc /\ v \notin Handler
  BY IngestAssumption, ConstantFacts
<1>2. op[v] \in Operation /\ ReviewGood(pc[v], op[v], rows, posted)
  BY <1>1, RequestFacts
<1>3. op[v].target \in FindingRows
  BY <1>2 DEF ReviewGood
<1>4. QED
  BY <1>1, <1>2, <1>3, FindingFacts

LEMMA WriteReviewStore ==
    ASSUME StoreInv, NEW v \in Reviewer, WriteReview(v)
    PROVE  StoreInv'
<1>1. PICK o, q, t, id :
        /\ o = [op[v] EXCEPT !.todo = Tail(op[v].todo)]
        /\ q = IF Len(op[v].todo) > 1 THEN "review"
               ELSE IF op[v].rank = 0 \/ op[v].target.key = NoKey THEN "audit" ELSE "lookup"
        /\ t = Head(op[v].todo) /\ id = op[v].target.id
  OBVIOUS
<1>2. /\ pc[v] = "review" /\ rows' = rows \cup {<<t, id>>}
      /\ op' = [op EXCEPT ![v] = o] /\ pc' = [pc EXCEPT ![v] = q]
      /\ UNCHANGED <<now, signed, nonces, lastSeen, merged, acked, posted, accepted, faults>>
  BY <1>1 DEF WriteReview
<1>3. /\ v \in Proc /\ v \notin Handler
      /\ op[v] \in Operation /\ ReviewGood("review", op[v], rows, posted)
      /\ op[v].target \in FindingRows /\ id \in STRING
  BY <1>1, <1>2, ReviewFacts
<1> DEFINE T == {"finding_reviews", "panel_reviews"}
<1>4. PICK a, b \in T :
        a # b /\ \/ op[v].todo = <<a, b>>
                 \/ op[v].todo = <<b>> /\ <<a, id>> \in rows
  BY <1>1, <1>3 DEF ReviewGood, ReviewOrders
<1>5. T = {a, b} /\ BothReviews(id) = {<<a, id>>, <<b, id>>}
  BY <1>4 DEF BothReviews
<1>6. \/ op[v].todo = <<a, b>> /\ t = a /\ q = "review" /\ Tail(op[v].todo) = <<b>>
      \/ /\ op[v].todo = <<b>> /\ <<a, id>> \in rows /\ t = b /\ Tail(op[v].todo) = <<>>
         /\ q \in {"audit", "lookup"} /\ (q = "lookup" => op[v].target.key # NoKey)
  <2>1. CASE op[v].todo = <<a, b>>
    BY <1>1, <2>1, TodoFacts
  <2>2. CASE op[v].todo = <<b>> /\ <<a, id>> \in rows
    <3>1. Len(op[v].todo) = 1 /\ Head(op[v].todo) = b /\ Tail(op[v].todo) = <<>>
      BY <2>2, TodoFacts
    <3>2. t = b /\ q \in {"audit", "lookup"} /\ (q = "lookup" => op[v].target.key # NoKey)
      BY <1>1, <3>1
    <3>3. QED
      BY <2>2, <3>1, <3>2
  <2>3. QED
    BY <1>4, <2>1, <2>2
<1>7. Tail(op[v].todo) \in Seq(ReviewTable) /\ t \in Table
      /\ t \notin {"review_audit", "fingerprint_feedback"}
  <2>1. a \in ReviewTable /\ b \in ReviewTable /\ t \in T
    BY <1>4, <1>6 DEF ReviewTable
  <2>2. <<b>> \in Seq(ReviewTable) /\ <<>> \in Seq(ReviewTable)
    BY <2>1, TodoFacts
  <2>3. t \in Table /\ t \notin {"review_audit", "fingerprint_feedback"}
    BY <2>1 DEF ReviewTable, Table
  <2>4. QED
    BY <1>6, <2>2, <2>3
<1>8. o \in Operation /\ o.todo = Tail(op[v].todo) /\ o.target = op[v].target
      /\ o.rank = op[v].rank
  BY <1>1, <1>3, <1>7, SetTodo
<1>9. rows' \subseteq Table \X STRING /\ AckedStored' /\ Audited(rows') /\ Grows
  BY <1>2, <1>3, <1>7, RowStored
<1>10. ReviewGood(q, o, rows', posted')
  <2>1. o.target.key # NoKey => o.rank \in posted'[o.target.key]
    BY <1>2, <1>3, <1>8 DEF ReviewGood
  <2>2. CASE op[v].todo = <<a, b>> /\ t = a /\ q = "review" /\ Tail(op[v].todo) = <<b>>
    <3>1. o.todo = <<b>> /\ <<a, o.target.id>> \in rows'
      BY <1>1, <1>2, <1>8, <2>2
    <3>2. QED
      BY <1>3, <1>4, <1>8, <2>1, <2>2, <3>1 DEF ReviewGood, ReviewPhase
  <2>3. CASE /\ <<a, id>> \in rows /\ t = b
             /\ q \in {"audit", "lookup"} /\ (q = "lookup" => op[v].target.key # NoKey)
    <3>1. BothReviews(o.target.id) \subseteq rows'
      BY <1>1, <1>2, <1>5, <1>8, <2>3
    <3>2. QED
      BY <1>3, <1>8, <2>1, <2>3, <3>1 DEF ReviewGood, ReviewPhase
  <2>4. QED
    BY <1>6, <2>2, <2>3
<1>11. Moves(v, q, o)
  BY <1>2, <1>3, <1>6, <1>8, <1>10 DEF Moves, Phase
<1>12. TableTypes'
  BY <1>2, <1>9, TypesKept DEF TableTypes
<1>13. QED
  BY <1>2, <1>3, <1>9, <1>11, <1>12, MergedKept, StoreUpdate

LEMMA ReadVerdictStore ==
    ASSUME StoreInv, NEW v \in Reviewer, ReadVerdict(v)
    PROVE  StoreInv'
<1>1. PICK k, o, q : /\ k = op[v].target.key
                     /\ o = [op[v] EXCEPT !.copy = merged[k]]
                     /\ q = IF merged[k].seen = 0 THEN "audit" ELSE "verdict"
  OBVIOUS
<1>2. /\ pc[v] = "lookup" /\ op' = [op EXCEPT ![v] = o] /\ pc' = [pc EXCEPT ![v] = q]
      /\ UNCHANGED <<now, signed, nonces, rows, lastSeen, merged, acked, posted, accepted, faults>>
  BY <1>1 DEF ReadVerdict
<1>3. /\ v \in Proc /\ v \notin Handler
      /\ op[v] \in Operation /\ ReviewGood("lookup", op[v], rows, posted)
      /\ op[v].target \in FindingRows /\ op[v].target.key \in Key \cup {NoKey}
  BY <1>2, ReviewFacts
<1>4. k \in Key /\ merged[k] \in MergedRow /\ Sound(k, merged[k], rows, posted[k])
  BY <1>1, <1>3 DEF ReviewGood, StoreInv, TypeOK
<1>5. o \in Operation /\ o.copy = merged[k] /\ o.target = op[v].target /\ o.rank = op[v].rank
  BY <1>1, <1>3, <1>4, SetCopy
<1>6. ReviewGood(q, o, rows', posted')
  <2>1. q \in {"audit", "verdict"} /\ (q = "verdict" => o.copy.seen > 0)
    BY <1>1, <1>4, <1>5 DEF MergedRow
  <2>2. o.target.key = k /\ Sound(k, o.copy, rows', posted'[k])
    BY <1>1, <1>2, <1>4, <1>5
  <2>3. /\ k # NoKey /\ o.target \in FindingRows /\ o.rank \in posted'[k]
        /\ BothReviews(o.target.id) \subseteq rows'
    BY <1>1, <1>2, <1>3, <1>5 DEF ReviewGood
  <2>4. QED
    BY <2>1, <2>2, <2>3 DEF ReviewGood, ReviewPhase
<1>7. Moves(v, q, o)
  BY <1>1, <1>2, <1>3, <1>5, <1>6 DEF Moves, Phase
<1>8. TableTypes'
  BY <1>2, TypesKept, SMTT(30) DEF TableTypes
<1>9. QED
  BY <1>2, <1>3, <1>7, <1>8, MoveOnly

\* What WriteVerdict stores: the row it finds, with a verdict that is backed and
\* at least as strong as the copy's.
LEMMA WriteVerdictRow ==
    ASSUME StoreInv, NEW v \in Reviewer, WriteVerdict(v)
    PROVE  \E k \in Key, n \in Rank :
             /\ k = op[v].target.key
             /\ n >= op[v].copy.rank
             /\ merged' = [merged EXCEPT ![k] = [merged[k] EXCEPT !.rank = n]]
             /\ [merged[k] EXCEPT !.rank = n] \in MergedRow
             /\ Sound(k, [merged[k] EXCEPT !.rank = n], rows, posted[k])
<1>1. PICK k, n : k = op[v].target.key /\ n = Greater(op[v].copy.rank, op[v].rank)
  OBVIOUS
<1>2. pc[v] = "verdict" /\ merged' = [merged EXCEPT ![k] = [merged[k] EXCEPT !.rank = n]]
  BY <1>1 DEF WriteVerdict
<1>3. op[v] \in Operation /\ ReviewGood("verdict", op[v], rows, posted)
      /\ op[v].target.key \in Key \cup {NoKey}
  BY <1>2, ReviewFacts
<1>4. /\ k \in Key /\ op[v].rank \in posted[k] /\ op[v].copy.seen > 0
      /\ Sound(k, op[v].copy, rows, posted[k])
  BY <1>1, <1>3 DEF ReviewGood
<1>5. op[v].rank \in Rank /\ op[v].copy.rank \in Rank
  BY <1>3, OperationFields DEF MergedRow
<1>6. n \in Rank /\ n >= op[v].copy.rank /\ n \in {op[v].rank, op[v].copy.rank}
  BY <1>1, <1>5 DEF Greater, Rank
<1>7. n \in {1} \cup posted[k] \cup {u.rank : u \in Known(k, rows)}
  BY <1>4, <1>6 DEF Sound, Backed
<1>8. merged[k] \in MergedRow /\ Sound(k, merged[k], rows, posted[k])
  BY <1>4 DEF StoreInv, TypeOK
<1>9. PICK z : z = [merged[k] EXCEPT !.rank = n]
  OBVIOUS
<1>10. /\ z \in MergedRow /\ z.rank = n /\ z.seen = merged[k].seen
       /\ z.members = merged[k].members /\ z.first = merged[k].first /\ z.last = merged[k].last
  BY <1>6, <1>8, <1>9 DEF MergedRow
<1>11. Sound(k, z, rows, posted[k])
  BY <1>7, <1>8, <1>10 DEF Sound, Backed
<1>12. QED
  BY <1>1, <1>2, <1>4, <1>6, <1>9, <1>10, <1>11

\* A review that only moves on to phase q, with a row it may have stored.
LEMMA ReviewMoves ==
    ASSUME StoreInv, NEW v \in Reviewer, pc[v] \in {"verdict", "feedback"},
           NEW q \in {"feedback", "audit"}, pc' = [pc EXCEPT ![v] = q],
           UNCHANGED <<op, posted>>, rows \subseteq rows'
    PROVE  Moves(v, q, op[v])
<1>1. /\ v \in Proc /\ v \notin Handler
      /\ op[v] \in Operation /\ ReviewGood(pc[v], op[v], rows, posted)
      /\ op[v].target \in FindingRows
  BY ReviewFacts
<1>2. op' = [op EXCEPT ![v] = op[v]]
  BY <1>1, RequestFacts
<1>3. ReviewGood(q, op[v], rows', posted')
  BY <1>1 DEF ReviewGood, ReviewPhase
<1>4. QED
  BY <1>1, <1>2, <1>3 DEF Moves, Phase

LEMMA WriteVerdictStore ==
    ASSUME StoreInv, NEW v \in Reviewer, WriteVerdict(v)
    PROVE  StoreInv'
<1>1. /\ pc[v] = "verdict" /\ pc' = [pc EXCEPT ![v] = "feedback"]
      /\ UNCHANGED <<now, signed, nonces, rows, lastSeen, op, acked, posted, accepted, faults>>
  BY DEF WriteVerdict
<1>2. PICK k \in Key, z \in MergedRow :
        merged' = [merged EXCEPT ![k] = z] /\ Sound(k, z, rows, posted[k])
  BY WriteVerdictRow
<1>3. merged \in [Key -> MergedRow]
  BY DEF StoreInv, TypeOK
<1>4. merged' \in [Key -> MergedRow]
      /\ \A j \in Key : Sound(j, merged'[j], rows', posted'[j])
  BY <1>1, <1>2, <1>3 DEF StoreInv
<1>5. Moves(v, "feedback", op[v])
  BY <1>1, ReviewMoves
<1>6. TableTypes'
  BY <1>1, <1>4, TypesKept DEF TableTypes
<1>7. AckedStored' /\ Audited(rows') /\ Grows
  BY <1>1 DEF StoreInv, AckedStored, Grows
<1>8. QED
  BY <1>4, <1>5, <1>6, <1>7, StoreUpdate, ConstantFacts

\* The audit log follows the two review rows.
LEMMA AuditFeedbackStore ==
    ASSUME StoreInv, NEW v \in Reviewer, AuditFeedback(v)
    PROVE  StoreInv'
<1>1. PICK id : id = op[v].target.id
  OBVIOUS
<1>2. /\ pc[v] = "feedback" /\ pc' = [pc EXCEPT ![v] = "audit"]
      /\ rows' = rows \cup {<<"fingerprint_feedback", id>>}
      /\ UNCHANGED <<now, signed, nonces, lastSeen, merged, op, acked, posted, accepted, faults>>
  BY <1>1 DEF AuditFeedback
<1>3. id \in STRING /\ BothReviews(id) \subseteq rows /\ "fingerprint_feedback" \in Table
  BY <1>1, <1>2, ReviewFacts DEF ReviewGood, Table, ReviewTable
<1>4. rows' \subseteq Table \X STRING /\ AckedStored' /\ Audited(rows') /\ Grows
  BY <1>2, <1>3, RowStored
<1>5. Moves(v, "audit", op[v])
  BY <1>2, ReviewMoves
<1>6. TableTypes'
  BY <1>2, <1>4, TypesKept DEF TableTypes
<1>7. QED
  BY <1>2, <1>4, <1>5, <1>6, MergedKept, StoreUpdate, ConstantFacts

LEMMA AuditReviewStore ==
    ASSUME StoreInv, NEW v \in Reviewer, AuditReview(v)
    PROVE  StoreInv'
<1>1. PICK id : id = op[v].target.id
  OBVIOUS
<1>2. /\ pc[v] = "audit" /\ pc' = [pc EXCEPT ![v] = "done"]
      /\ op' = [op EXCEPT ![v] = NoOperation]
      /\ rows' = rows \cup {<<"review_audit", id>>}
      /\ UNCHANGED <<now, signed, nonces, lastSeen, merged, acked, posted, accepted, faults>>
  BY <1>1 DEF AuditReview
<1>3. id \in STRING /\ BothReviews(id) \subseteq rows /\ "review_audit" \in Table
  BY <1>1, <1>2, ReviewFacts DEF ReviewGood, Table, ReviewTable
<1>4. rows' \subseteq Table \X STRING /\ AckedStored' /\ Audited(rows') /\ Grows
  BY <1>2, <1>3, RowStored
<1>5. Moves(v, "done", NoOperation)
  BY <1>2, EndMoves, ConstantFacts
<1>6. TableTypes'
  BY <1>2, <1>4, TypesKept DEF TableTypes
<1>7. QED
  BY <1>2, <1>4, <1>5, <1>6, MergedKept, StoreUpdate, ConstantFacts

\* A request that fails leaves what it has written.
LEMMA FailStore ==
    ASSUME StoreInv, NEW p \in Proc, Fail(p)
    PROVE  StoreInv'
<1>1. PICK q : q = IF p \in Handler THEN "idle" ELSE "done"
  OBVIOUS
<1>2. /\ op' = [op EXCEPT ![p] = NoOperation] /\ pc' = [pc EXCEPT ![p] = q]
      /\ faults < MaxFaults /\ faults' = faults + 1
      /\ UNCHANGED <<now, signed, nonces, rows, lastSeen, merged, acked, posted, accepted>>
  BY <1>1 DEF Fail, Fault
<1>3. Moves(p, q, NoOperation)
  BY <1>1, <1>2, EndMoves DEF Proc
<1>4. faults' \in 0..MaxFaults
  BY <1>2, IngestAssumption DEF StoreInv, TypeOK
<1>5. TableTypes'
  BY <1>2, <1>4, TypesKept DEF TableTypes
<1>6. QED
  BY <1>2, <1>3, <1>5, MoveOnly

-----------------------------------------------------------------------------
(* The inductive step, and what it means.                                   *)

LEMMA StoreStep ==
    ASSUME StoreInv, [Next]_vars
    PROVE  StoreInv'
<1>1. CASE (\E r \in Attempt, m \in Message : Sign(r, m)) \/ Tick
  BY <1>1, SignTickStore
<1>2. CASE \E h \in Handler :
             \/ \E r \in Attempt : Receive(h, r)
             \/ ReadClock(h) \/ InsertNonce(h) \/ PurgeNonces(h) \/ FindNonce(h) \/ StoreNonce(h)
             \/ UpsertNode(h) \/ UpsertHeartbeat(h) \/ UpsertFinding(h) \/ UpsertIncident(h)
             \/ UpsertDrift(h) \/ UpsertBlock(h) \/ ReadMerged(h) \/ WriteMerged(h) \/ Ack(h)
  BY <1>2, ReceiveStore, ReadClockStore, InsertNonceStore, UpsertStore, UpsertFindingStore,
     ReadMergedStore, WriteMergedStore, AckStore
<1>3. CASE \E v \in Reviewer :
             \/ \E row \in FindingRows : BeginReview(v, row)
             \/ WriteReview(v) \/ ReadVerdict(v) \/ WriteVerdict(v)
             \/ AuditFeedback(v) \/ AuditReview(v)
  BY <1>3, BeginReviewStore, WriteReviewStore, ReadVerdictStore, WriteVerdictStore,
     AuditFeedbackStore, AuditReviewStore
<1>4. CASE \E p \in Proc : Fail(p)
  BY <1>4, FailStore
<1>5. CASE UNCHANGED vars
  BY <1>5 DEF vars, StoreInv, TypeOK, AckedStored
<1>6. QED
  BY <1>1, <1>2, <1>3, <1>4, <1>5, Zenon DEF Next

LEMMA InitStore == Init => StoreInv
<1>1. SUFFICES ASSUME Init PROVE StoreInv
  OBVIOUS
<1>2. NoOperation \in Operation /\ NoRow \in MergedRow /\ "idle" \in Phase
  BY NoOperationType DEF NoRow, MergedRow, Rank, Phase
<1>3. \A p \in Proc : pc[p] = "idle"
  BY <1>1 DEF Init
<1>4. TypeOK
  <2>1. \A h \in Handler : pc[h] = "idle"
    BY <1>3, ConstantFacts
  <2>2. 0 \in 0..MaxTime /\ 0 \in 0..MaxFaults
    BY IngestAssumption
  <2>3. QED
    BY <1>1, <1>2, <2>1, <2>2, ConstantFacts DEF Init, TypeOK
<1>5. AckedStored /\ Audited(rows)
  BY <1>1 DEF Init, AckedStored, Audited
<1>6. \A h \in Handler : HandlerGood(pc[h], op[h], rows, posted)
  BY <1>3, ConstantFacts DEF HandlerGood, HandlerPhase, NoncePhase
<1>7. \A v \in Reviewer : ReviewGood(pc[v], op[v], rows, posted)
  BY <1>3, ConstantFacts DEF ReviewGood, ReviewPhase
<1>8. \A k \in Key : Sound(k, merged[k], rows, posted[k])
  BY <1>1 DEF Init, NoRow, Sound, Backed
<1>9. QED
  BY <1>4, <1>5, <1>6, <1>7, <1>8 DEF StoreInv

\* In every reachable state, whatever requests overlap, fail or are repeated,
\* every request has stored the rows before the one it is at, works with a copy
\* that is backed by stored rows, and an audited review is in both tables.
THEOREM StoreInvariant == Spec => []StoreInv
<1>1. Init => StoreInv
  BY InitStore
<1>2. StoreInv /\ [Next]_vars => StoreInv'
  BY StoreStep
<1>3. QED
  BY <1>1, <1>2, PTL DEF Spec

\* An upload the panel acknowledged has every row stored, for any number of
\* concurrent requests, envelopes and faults (persist_payload, ingest).
THEOREM AcknowledgedUploadsStored == Spec => []StoredWhole
<1>1. StoreInv => StoredWhole
  BY DEF StoreInv, StoredWhole
<1>2. QED
  BY <1>1, StoreInvariant, PTL

\* Attack fingerprints and probe sources invent nothing: members, times and
\* verdict come from stored rows and posted reviews, although the tables are
\* read and overwritten without a transaction.
THEOREM MergedAlwaysSupported == Spec => []MergedSupported
<1>1. \A k : Evidence(k) = Known(k, rows)
  BY DEF Evidence, Known, AllRows
<1>2. StoreInv => MergedSupported
  BY <1>1 DEF StoreInv, MergedSupported, Supported, Sound, Backed
<1>3. QED
  BY <1>2, StoreInvariant, PTL

\* A review in the audit log is in both review tables, although its statements
\* are no transaction and the two endpoints write the tables in opposite orders.
THEOREM AuditedReviewsAlwaysStored == Spec => []AuditedReviewsStored
<1>1. StoreInv => AuditedReviewsStored
  BY FindingFacts DEF StoreInv, Audited, AuditedReviewsStored, BothReviews
<1>2. QED
  BY <1>1, StoreInvariant, PTL

-----------------------------------------------------------------------------
(* What an accumulating row may lose.                                       *)

\* What ShrinksOnlyByOverlap says of one step.
Overlapped ==
    \A k \in Key :
        ~Covers(merged'[k], merged[k]) =>
            \E p \in Proc : pc[p] \in {"merge", "verdict"} /\ op[p].copy # merged[k]

LEMMA CoversItself == ASSUME NEW y \in MergedRow PROVE Covers(y, y)
  BY DEF Covers, MergedRow, Rank

\* A step that leaves the accumulating tables alone.
LEMMA UnchangedOverlapped ==
    ASSUME StoreInv, UNCHANGED merged
    PROVE  Overlapped
  BY CoversItself DEF StoreInv, TypeOK, Overlapped

LEMMA WriteMergedOverlapped ==
    ASSUME StoreInv, NEW h \in Handler, WriteMerged(h)
    PROVE  Overlapped
<1>1. PICK c : c = CurrentRow(h).key
  OBVIOUS
<1>2. c \in Key /\ Covers(merged'[c], op[h].copy)
      /\ merged' = [merged EXCEPT ![c] = merged'[c]]
  BY <1>1, WriteMergedRow
<1>3. merged \in [Key -> MergedRow] /\ h \in Proc /\ pc[h] = "merge"
  BY ConstantFacts DEF StoreInv, TypeOK, WriteMerged
<1>4. ASSUME NEW k \in Key, ~Covers(merged'[k], merged[k])
      PROVE  k = c /\ op[h].copy # merged[k]
  <2>1. k # c => merged'[k] = merged[k]
    BY <1>2, <1>3
  <2>2. k = c
    BY <1>3, <1>4, <2>1, CoversItself
  <2>3. QED
    BY <1>2, <1>4, <2>2
<1>5. QED
  BY <1>3, <1>4 DEF Overlapped

LEMMA WriteVerdictOverlapped ==
    ASSUME StoreInv, NEW v \in Reviewer, WriteVerdict(v)
    PROVE  Overlapped
<1>1. PICK c \in Key, n \in Rank :
        /\ n >= op[v].copy.rank
        /\ merged' = [merged EXCEPT ![c] = [merged[c] EXCEPT !.rank = n]]
  BY WriteVerdictRow, ZenonT(60)
<1>2. merged \in [Key -> MergedRow] /\ v \in Proc /\ pc[v] = "verdict"
  BY ConstantFacts DEF StoreInv, TypeOK, WriteVerdict
<1>3. ASSUME NEW k \in Key, ~Covers(merged'[k], merged[k])
      PROVE  op[v].copy # merged[k]
  <2>1. k # c => merged'[k] = merged[k]
    BY <1>1, <1>2
  <2>2. k = c
    BY <1>2, <1>3, <2>1, CoversItself
  <2>3. merged'[k] = [merged[k] EXCEPT !.rank = n] /\ merged[k] \in MergedRow
    BY <1>1, <1>2, <2>2
  <2>4. SUFFICES ASSUME op[v].copy = merged[k] PROVE Covers(merged'[k], merged[k])
    BY <1>3
  <2>5. QED
    BY <1>1, <2>3, <2>4 DEF Covers, MergedRow, Rank
<1>4. QED
  BY <1>2, <1>3 DEF Overlapped

LEMMA OverlapStep ==
    ASSUME StoreInv, [Next]_vars
    PROVE  Overlapped
<1>1. CASE UNCHANGED merged
  BY <1>1, UnchangedOverlapped
<1>2. CASE \E h \in Handler : WriteMerged(h)
  BY <1>2, WriteMergedOverlapped
<1>3. CASE \E v \in Reviewer : WriteVerdict(v)
  BY <1>3, WriteVerdictOverlapped, SMTT(30)
<1>4. \/ UNCHANGED merged \/ (\E h \in Handler : WriteMerged(h))
      \/ (\E v \in Reviewer : WriteVerdict(v))
  BY DEF Next, vars, Sign, Tick, Receive, ReadClock, InsertNonce, PurgeNonces, FindNonce,
         StoreNonce, UpsertNode, UpsertHeartbeat, UpsertFinding, UpsertIncident, UpsertDrift,
         UpsertBlock, ReadMerged, Ack, BeginReview, WriteReview, ReadVerdict, AuditFeedback,
         AuditReview, Fail
<1>5. QED
  BY <1>1, <1>2, <1>3, <1>4

\* An accumulating row loses a count, a member, a time or a verdict only in a
\* step whose request read the row before another one changed it
\* (upsert_attack_fingerprint, merge_probe_source,
\* update_attack_fingerprint_verdict).
THEOREM RowsShrinkOnlyByOverlap == Spec => ShrinksOnlyByOverlap
<1>1. StoreInv /\ [Next]_vars =>
        [\A k \in Key :
           ~Covers(merged'[k], merged[k]) =>
               \E p \in Proc : pc[p] \in {"merge", "verdict"} /\ op[p].copy # merged[k]]_vars
  BY OverlapStep DEF Overlapped
<1>2. QED
  BY <1>1, StoreInvariant, PTL DEF Spec, ShrinksOnlyByOverlap
=============================================================================
