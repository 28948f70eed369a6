-------------------------- MODULE PanelOutboxProofs --------------------------
(***************************************************************************)
(* Proofs about PanelOutbox, for every number of processes, messages and   *)
(* faults, and every capacity of the outbox.                               *)
(***************************************************************************)
EXTENDS PanelOutbox, FiniteSetTheorems, TLAPS

LEMMA SeqFacts ==
    ASSUME NEW s \in Seq(Msg)
    PROVE  Len(s) \in Nat /\ DOMAIN s = 1..Len(s) /\ \A i \in 1..Len(s) : s[i] \in Nat
<1>1. \A i \in 1..Len(s) : s[i] \in Msg
  OBVIOUS
<1>2. QED
  BY <1>1 DEF Msg

LEMMA TailFacts ==
    ASSUME NEW s \in Seq(Msg), s # <<>>
    PROVE  /\ Len(s) > 0 /\ Head(s) = s[1] /\ Head(s) \in Msg
           /\ Tail(s) \in Seq(Msg) /\ Len(Tail(s)) = Len(s) - 1
           /\ DOMAIN Tail(s) = 1..(Len(s) - 1)
           /\ \A i \in 1..(Len(s) - 1) : i + 1 \in 1..Len(s) /\ Tail(s)[i] = s[i + 1]
<1>1. Len(s) > 0 /\ Head(s) = s[1] /\ s[1] \in Msg
  OBVIOUS
<1>2. Tail(s) \in Seq(Msg) /\ Len(Tail(s)) = Len(s) - 1 /\ DOMAIN Tail(s) = 1..(Len(s) - 1)
  BY <1>1
<1>3. \A i \in 1..(Len(s) - 1) : i + 1 \in 1..Len(s) /\ Tail(s)[i] = s[i + 1]
  BY <1>1, <1>2
<1>4. QED
  BY <1>1, <1>2, <1>3

LEMMA IncreasingTail ==
    ASSUME NEW s \in Seq(Msg), s # <<>>, Increasing(s)
    PROVE  Increasing(Tail(s)) /\ \A i \in DOMAIN Tail(s) : s[1] < Tail(s)[i]
<1>1. ASSUME NEW i \in DOMAIN Tail(s), NEW j \in DOMAIN Tail(s), i < j
      PROVE  Tail(s)[i] < Tail(s)[j]
  <2>1. i + 1 \in DOMAIN s /\ j + 1 \in DOMAIN s /\ i + 1 < j + 1
    BY <1>1, SeqFacts, TailFacts
  <2>2. s[i + 1] < s[j + 1]
    BY <2>1 DEF Increasing
  <2>3. QED
    BY <2>2, SeqFacts, TailFacts
<1>2. ASSUME NEW i \in DOMAIN Tail(s)
      PROVE  s[1] < Tail(s)[i]
  <2>1. 1 \in DOMAIN s /\ i + 1 \in DOMAIN s /\ 1 < i + 1
    BY <1>2, SeqFacts, TailFacts
  <2>2. s[1] < s[i + 1]
    BY <2>1 DEF Increasing
  <2>3. QED
    BY <2>2, SeqFacts, TailFacts
<1>3. QED
  BY <1>1, <1>2 DEF Increasing

LEMMA IncreasingAppend ==
    ASSUME NEW s \in Seq(Msg), NEW m \in Msg, Increasing(s), \A i \in DOMAIN s : s[i] < m
    PROVE  /\ Append(s, m) \in Seq(Msg) /\ Len(Append(s, m)) = Len(s) + 1
           /\ \A i \in 1..Len(s) : Append(s, m)[i] = s[i]
           /\ Append(s, m)[Len(s) + 1] = m
           /\ Increasing(Append(s, m))
<1>1. /\ Append(s, m) \in Seq(Msg) /\ Len(Append(s, m)) = Len(s) + 1
      /\ \A i \in 1..Len(s) : Append(s, m)[i] = s[i]
      /\ Append(s, m)[Len(s) + 1] = m
      /\ DOMAIN Append(s, m) = 1..(Len(s) + 1)
  OBVIOUS
<1>2. ASSUME NEW i \in 1..(Len(s) + 1), NEW j \in 1..(Len(s) + 1), i < j
      PROVE  Append(s, m)[i] < Append(s, m)[j]
  <2>1. i \in DOMAIN s /\ Append(s, m)[i] = s[i]
    BY <1>1, <1>2, SeqFacts
  <2>2. CASE j = Len(s) + 1
    BY <1>1, <2>1, <2>2
  <2>3. CASE j # Len(s) + 1
    <3>1. j \in DOMAIN s /\ Append(s, m)[j] = s[j]
      BY <1>1, <1>2, <2>3, SeqFacts
    <3>2. QED
      BY <1>2, <2>1, <3>1 DEF Increasing
  <2>4. QED
    BY <2>2, <2>3
<1>3. QED
  BY <1>1, <1>2 DEF Increasing

LEMMA OperationFacts ==
    ASSUME NEW o \in Operation
    PROVE  /\ o.todo \in Seq(Msg) /\ o.state.items \in Seq(Msg) /\ o.state \in OutboxState
           /\ o.sent \in Nat /\ o.kind \in Kind /\ o.msg \in Msg \cup {NoMsg}
           /\ o.state.succeeded \in BOOLEAN
  BY DEF Operation, OutboxState

\* Moving the head of todo to the end of items keeps an operation in order.
LEMMA RetainGood ==
    ASSUME NEW o \in Operation, NEW n \in Nat, o.todo # <<>>,
           GoodOperation(o, "retry", n)
    PROVE  Retain(o) \in Operation /\ GoodOperation(Retain(o), "retry", n)
<1> DEFINE r == Retain(o)
           s == o.state.items
           t == o.todo
<1>1. /\ s \in Seq(Msg) /\ t \in Seq(Msg) /\ o.state \in OutboxState
      /\ Len(t) > 0 /\ Head(t) = t[1] /\ Head(t) \in Msg
  BY OperationFacts, TailFacts
<1>2. Append(s, Head(t)) \in Seq(Msg) /\ Tail(t) \in Seq(Msg)
  BY <1>1
<1>3. [o.state EXCEPT !.items = Append(s, Head(t))] \in OutboxState
  BY <1>1, <1>2 DEF OutboxState
<1>4. r = [o EXCEPT !.todo = Tail(t), !.state = [o.state EXCEPT !.items = Append(s, Head(t))]]
  BY DEF Retain, Operation, OutboxState
<1>5. r \in Operation
  BY <1>2, <1>3, <1>4 DEF Operation
<1>6. r.todo = Tail(t) /\ r.state.items = Append(s, Head(t)) /\ r.msg = o.msg
  BY <1>1, <1>4 DEF Operation, OutboxState
<1> HIDE DEF r, s, t
<1>7. GoodOperation(r, "retry", n)
  <2> DEFINE u == Append(s, Head(t))
             v == Tail(t)
  <2>1. /\ Increasing(s) /\ Increasing(t)
        /\ \A i \in DOMAIN s, j \in DOMAIN t : s[i] < t[j]
        /\ Len(s) + Len(t) <= OutboxMaxItems
        /\ \A i \in DOMAIN s : s[i] <= n
        /\ \A i \in DOMAIN t : t[i] <= n
    BY DEF GoodOperation, s, t
  <2>2. DOMAIN s = 1..Len(s) /\ DOMAIN t = 1..Len(t) /\ Len(s) \in Nat /\ Len(t) \in Nat
    BY <1>1, SeqFacts
  <2>3. t # <<>> /\ \A i \in DOMAIN s : s[i] < Head(t)
    BY <1>1, <2>1, <2>2
  <2>4. Increasing(v) /\ \A j \in DOMAIN v : t[1] < v[j]
    BY <1>1, <2>1, <2>3, IncreasingTail
  <2>5. /\ u \in Seq(Msg) /\ Len(u) = Len(s) + 1 /\ Increasing(u)
        /\ \A i \in 1..Len(s) : u[i] = s[i]
        /\ u[Len(s) + 1] = t[1]
    BY <1>1, <2>1, <2>3, IncreasingAppend
  <2>6. /\ v \in Seq(Msg) /\ Len(v) = Len(t) - 1 /\ DOMAIN v = 1..(Len(t) - 1)
        /\ \A i \in DOMAIN v : i + 1 \in DOMAIN t /\ v[i] = t[i + 1]
    BY <1>1, <2>2, <2>3, TailFacts
  <2> HIDE DEF u, v
  <2>7. DOMAIN u = 1..(Len(s) + 1)
    BY <2>5
  <2>8. ASSUME NEW i \in DOMAIN u, NEW j \in DOMAIN v PROVE u[i] < v[j]
    <3>1. CASE i = Len(s) + 1
      BY <2>4, <2>5, <3>1
    <3>2. CASE i # Len(s) + 1
      <4>1. i \in DOMAIN s /\ u[i] = s[i]
        BY <2>2, <2>5, <2>7, <3>2
      <4>2. j + 1 \in DOMAIN t /\ v[j] = t[j + 1]
        BY <2>6
      <4>3. QED
        BY <2>1, <4>1, <4>2
    <3>3. QED
      BY <3>1, <3>2
  <2>9. ASSUME NEW i \in DOMAIN u PROVE u[i] <= n
    <3>1. 1 \in DOMAIN t
      BY <1>1, <2>2
    <3>2. i = Len(s) + 1 \/ (i \in DOMAIN s /\ u[i] = s[i])
      BY <2>2, <2>5, <2>7
    <3>3. QED
      BY <2>1, <2>5, <3>1, <3>2
  <2>10. ASSUME NEW i \in DOMAIN v PROVE v[i] <= n
    BY <2>1, <2>6
  <2>11. Len(u) + Len(v) <= OutboxMaxItems
    BY <2>1, <2>2, <2>5, <2>6
  <2>12. QED
    BY <1>6, <2>4, <2>5, <2>8, <2>9, <2>10, <2>11 DEF GoodOperation, u, v
<1>8. QED
  BY <1>5, <1>7 DEF r

\* So does dropping the head of todo.
LEMMA DiscardGood ==
    ASSUME NEW o \in Operation, NEW n \in Nat, o.todo # <<>>,
           GoodOperation(o, "retry", n)
    PROVE  Discard(o) \in Operation /\ GoodOperation(Discard(o), "retry", n)
<1> DEFINE r == Discard(o)
           t == o.todo
<1>1. /\ t \in Seq(Msg) /\ o.state.items \in Seq(Msg) /\ o.state \in OutboxState
      /\ Len(t) > 0 /\ Tail(t) \in Seq(Msg) /\ o.sent + 1 \in Nat
  BY OperationFacts, TailFacts
<1>2. r = [o EXCEPT !.todo = Tail(t), !.state = [o.state EXCEPT !.succeeded = TRUE],
                    !.sent = o.sent + 1]
  BY DEF Discard, Operation, OutboxState
<1>3. [o.state EXCEPT !.succeeded = TRUE] \in OutboxState
  BY <1>1 DEF OutboxState
<1>4. r \in Operation
  BY <1>1, <1>2, <1>3 DEF Operation
<1>5. r.todo = Tail(t) /\ r.state.items = o.state.items
  BY <1>1, <1>2 DEF Operation, OutboxState
<1> HIDE DEF r, t
<1>6. GoodOperation(r, "retry", n)
  <2> DEFINE s == o.state.items
             v == Tail(t)
  <2>1. /\ Increasing(s) /\ Increasing(t)
        /\ \A i \in DOMAIN s, j \in DOMAIN t : s[i] < t[j]
        /\ Len(s) + Len(t) <= OutboxMaxItems
        /\ \A i \in DOMAIN s : s[i] <= n
        /\ \A i \in DOMAIN t : t[i] <= n
    BY DEF GoodOperation, t
  <2>2. t # <<>> /\ DOMAIN t = 1..Len(t) /\ Len(s) \in Nat /\ Len(t) \in Nat
    BY <1>1, SeqFacts
  <2>3. Increasing(v)
    BY <1>1, <2>1, <2>2, IncreasingTail
  <2>4. /\ Len(v) = Len(t) - 1
        /\ \A i \in DOMAIN v : i + 1 \in DOMAIN t /\ v[i] = t[i + 1]
    BY <1>1, <2>2, TailFacts
  <2> HIDE DEF s, v
  <2>5. ASSUME NEW i \in DOMAIN s, NEW j \in DOMAIN v PROVE s[i] < v[j]
    BY <2>1, <2>4
  <2>6. ASSUME NEW j \in DOMAIN v PROVE v[j] <= n
    BY <2>1, <2>4
  <2>7. Len(s) + Len(v) <= OutboxMaxItems
    BY <2>1, <2>2, <2>4, OutboxAssumption
  <2>8. QED
    BY <1>5, <2>1, <2>3, <2>5, <2>6, <2>7 DEF GoodOperation, s, v
<1>7. QED
  BY <1>4, <1>6 DEF r

\* What enqueue_payload does to an ordered outbox: the new message is kept, the
\* order too, and what is dropped is older than all that stays in a full outbox.
LEMMA EnqueueGood ==
    ASSUME NEW s \in Seq(Msg), NEW m \in Msg, Increasing(s),
           \A i \in DOMAIN s : s[i] < m
    PROVE  LET k == Enqueue(s, m)
           IN  /\ k \in Seq(Msg) /\ Len(k) <= OutboxMaxItems /\ Increasing(k)
               /\ \A i \in DOMAIN k : k[i] \in Items(s) \cup {m}
               /\ m \in Items(k)
               /\ \A x \in Items(s) \ Items(k) :
                    Len(k) = OutboxMaxItems /\ \A i \in DOMAIN k : x < k[i]
<1> DEFINE all == Append(s, m)
           c == Overflow(all)
           k == Enqueue(s, m)
<1>1. /\ all \in Seq(Msg) /\ Len(all) = Len(s) + 1
      /\ OutboxMaxItems \in Nat /\ OutboxMaxItems > 0
      /\ \A i \in 1..Len(s) : all[i] = s[i]
      /\ all[Len(s) + 1] = m
  BY OutboxAssumption, IncreasingAppend
<1>2. \A i, j \in 1..Len(all) : i < j => all[i] < all[j]
  BY <1>1, IncreasingAppend DEF Increasing
<1>3. c \in 0..(Len(all) - 1) /\ Len(all) - c <= OutboxMaxItems
      /\ (c > 0 => Len(all) - c = OutboxMaxItems)
  BY <1>1 DEF Overflow
<1>4. k = SubSeq(all, 1 + c, Len(all))
  BY DEF Enqueue
<1> HIDE DEF all, c, k
<1>5. /\ k \in Seq(Msg) /\ Len(k) = Len(all) - c /\ Len(k) \in Nat /\ DOMAIN k = 1..Len(k)
      /\ \A i \in 1..Len(k) : k[i] = all[c + i] /\ c + i \in 1..Len(all)
  BY <1>1, <1>3, <1>4
<1>a. Len(s) \in Nat /\ DOMAIN s = 1..Len(s) /\ \A i \in 1..Len(all) : all[i] \in Nat
  BY <1>1, SeqFacts
<1>6. Increasing(k)
  <2>1. ASSUME NEW i \in DOMAIN k, NEW j \in DOMAIN k, i < j PROVE k[i] < k[j]
    <3>1. k[i] = all[c + i] /\ k[j] = all[c + j]
      BY <1>5
    <3>2. c + i \in 1..Len(all) /\ c + j \in 1..Len(all) /\ c + i < c + j
      BY <1>3, <1>5, <2>1
    <3>3. QED
      BY <1>2, <3>1, <3>2
  <2>2. QED
    BY <2>1 DEF Increasing
<1>7. \A i \in DOMAIN k : k[i] \in Items(s) \cup {m}
  <2>1. \A i \in 1..Len(all) : all[i] \in Items(s) \cup {m}
    BY <1>1, <1>a DEF Items
  <2>2. QED
    BY <1>5, <2>1
<1>8. ASSUME NEW x \in Items(s) \ Items(k)
      PROVE  Len(k) = OutboxMaxItems /\ \A i \in DOMAIN k : x < k[i]
  <2>1. PICK i \in 1..Len(s) : x = s[i]
    BY DEF Items
  <2>2. i <= c
    <3>1. SUFFICES ASSUME i > c PROVE FALSE
      BY <1>3, <1>1
    <3>2. i - c \in DOMAIN k /\ k[i - c] = s[i]
      BY <1>1, <1>3, <1>5, <3>1
    <3>3. QED
      BY <2>1, <3>2 DEF Items
  <2>3. Len(k) = OutboxMaxItems
    BY <1>1, <1>3, <1>5, <1>a, <2>2
  <2>4. ASSUME NEW j \in DOMAIN k PROVE x < k[j]
    <3>1. k[j] = all[c + j] /\ c + j \in 1..Len(all) /\ i \in 1..Len(all) /\ i < c + j
      BY <1>1, <1>3, <1>5, <1>a, <2>2, SMTT(30)
    <3>2. all[i] < all[c + j]
      BY <1>2, <3>1
    <3>3. QED
      BY <1>1, <2>1, <3>1, <3>2
  <2>5. QED
    BY <2>3, <2>4
<1>9. m \in Items(k)
  <2>1. Len(k) \in DOMAIN k /\ c + Len(k) = Len(s) + 1
    BY <1>1, <1>3, <1>5, <1>a
  <2>2. k[Len(k)] = m
    BY <1>1, <1>5, <2>1
  <2>3. QED
    BY <2>1, <2>2 DEF Items
<1>10. QED
  BY <1>3, <1>5, <1>6, <1>7, <1>8, <1>9 DEF k

-----------------------------------------------------------------------------
(* The inductive invariant.                                                 *)

LEMMA GoodLater ==
    ASSUME NEW o \in Operation, NEW q, NEW n \in Nat, NEW k \in Nat, n <= k,
           GoodOperation(o, q, n)
    PROVE  GoodOperation(o, q, k)
<1>1. (\A i \in DOMAIN o.state.items : o.state.items[i] \in Nat)
      /\ (\A i \in DOMAIN o.todo : o.todo[i] \in Nat)
  BY OperationFacts, SeqFacts
<1>2. \A i \in DOMAIN o.state.items : o.state.items[i] <= k
  BY <1>1 DEF GoodOperation
<1>3. \A i \in DOMAIN o.todo : o.todo[i] <= k
  BY <1>1 DEF GoodOperation
<1>4. q = "send" => o.msg \in 1..k
  BY DEF GoodOperation
<1>5. QED
  BY <1>2, <1>3, <1>4 DEF GoodOperation

\* One process replaces its operation by a good one.
LEMMA OperationUpdate ==
    ASSUME TypeOK, OutboxInv, NEW a \in Agent, NEW o \in Operation, NEW q \in Phase,
           op' = [op EXCEPT ![a] = o], pc' = [pc EXCEPT ![a] = q],
           built' \in 0..MaxMsg, built <= built', GoodOperation(o, q, built')
    PROVE  /\ op' \in [Agent -> Operation] /\ pc' \in [Agent -> Phase]
           /\ \A b \in Agent : GoodOperation(op'[b], pc'[b], built')
<1>1. op' \in [Agent -> Operation] /\ pc' \in [Agent -> Phase]
  BY DEF TypeOK
<1>2. built \in Nat /\ built' \in Nat
  BY OutboxAssumption DEF TypeOK
<1>3. ASSUME NEW b \in Agent PROVE GoodOperation(op'[b], pc'[b], built')
  <2>1. CASE b = a
    BY <2>1 DEF TypeOK
  <2>2. CASE b # a
    <3>1. op'[b] = op[b] /\ pc'[b] = pc[b] /\ op[b] \in Operation
      BY <2>2 DEF TypeOK
    <3>2. GoodOperation(op[b], pc[b], built)
      BY DEF OutboxInv
    <3>3. QED
      BY <1>2, <3>1, <3>2, GoodLater
  <2>3. QED
    BY <2>1, <2>2
<1>4. QED
  BY <1>1, <1>3

LEMMA NoOperationGood ==
    ASSUME NEW n \in Nat
    PROVE  NoOperation \in Operation /\ GoodOperation(NoOperation, "idle", n)
<1>1. NoOperation \in Operation
  BY DEF NoOperation, Operation, EmptyOutbox, OutboxState, Kind, NoMsg
<1>2. NoOperation.todo = <<>> /\ NoOperation.state.items = <<>>
  BY DEF NoOperation, EmptyOutbox
<1>3. Increasing(<<>>) /\ Len(<<>>) + Len(<<>>) <= OutboxMaxItems
  BY OutboxAssumption DEF Increasing
<1>4. GoodOperation(NoOperation, "idle", n)
  BY <1>2, <1>3 DEF GoodOperation
<1>5. QED
  BY <1>1, <1>4

\* The rest of the state when only the network part of a send changes.
LEMMA SendTypes ==
    ASSUME TypeOK, NEW m \in Msg, Delivered(m) \/ Failed(m)
    PROVE  wire' \subseteq Msg /\ stored' \subseteq Msg /\ faults' \in 0..MaxFaults
<1>1. CASE Delivered(m)
  BY <1>1 DEF Delivered, TypeOK
<1>2. CASE Failed(m)
  <2>1. faults \in 0..MaxFaults /\ faults < MaxFaults /\ faults' = faults + 1
    BY <1>2 DEF Failed, MayFault, TypeOK
  <2>2. faults' \in 0..MaxFaults
    BY <2>1, OutboxAssumption
  <2>3. wire' \subseteq Msg /\ stored' \subseteq Msg
    BY <1>2 DEF Failed, TypeOK
  <2>4. QED
    BY <2>2, <2>3
<1>3. QED
  BY <1>1, <1>2

LEMMA InitInv == Init => TypeOK /\ OutboxInv
<1> SUFFICES ASSUME Init PROVE TypeOK /\ OutboxInv
  OBVIOUS
<1>1. \A a \in Agent : op[a] = NoOperation /\ pc[a] = "idle"
  BY DEF Init
<1>2. built = 0 /\ saved.items = <<>> /\ saved \in OutboxState
  BY DEF Init, EmptyOutbox, OutboxState
<1>3. NoOperation \in Operation /\ GoodOperation(NoOperation, "idle", 0)
  BY NoOperationGood
<1>4. TypeOK
  <2>1. Len(saved.items) <= OutboxMaxItems
    BY <1>2, OutboxAssumption
  <2>2. 0 \in 0..MaxMsg /\ 0 \in 0..MaxFaults
    BY OutboxAssumption
  <2>3. op \in [Agent -> Operation] /\ pc \in [Agent -> Phase]
    BY <1>3 DEF Init, Phase
  <2>4. QED
    BY <1>2, <2>1, <2>2, <2>3 DEF Init, TypeOK
<1>5. OutboxInv
  BY <1>1, <1>2, <1>3 DEF OutboxInv, Increasing
<1>6. QED
  BY <1>4, <1>5

LEMMA BeginInv ==
    ASSUME TypeOK, OutboxInv, NEW a \in Agent, NEW kind \in Kind, Begin(a, kind)
    PROVE  TypeOK' /\ OutboxInv'
<1> DEFINE o == [NoOperation EXCEPT !.kind = kind, !.todo = saved.items,
                                    !.state = [saved EXCEPT !.items = <<>>]]
<1>1. saved \in OutboxState /\ saved.items \in Seq(Msg) /\ Len(saved.items) <= OutboxMaxItems
  BY DEF TypeOK, OutboxState
<1>2. [saved EXCEPT !.items = <<>>] \in OutboxState
  <2>1. <<>> \in Seq(Msg) /\ saved.succeeded \in BOOLEAN
    BY <1>1 DEF OutboxState
  <2>2. [saved EXCEPT !.items = <<>>] = [items |-> <<>>, succeeded |-> saved.succeeded]
    BY <1>1 DEF OutboxState
  <2>3. QED
    BY <2>1, <2>2 DEF OutboxState
<1>3. o \in Operation /\ o.todo = saved.items
  BY <1>1, <1>2, NoOperationGood DEF Operation, NoOperation
<1>4. o.state.items = <<>>
  BY <1>1, NoOperationGood DEF Operation, NoOperation, OutboxState
<1> HIDE DEF o
<1>5. built \in Nat /\ built' = built /\ built \in 0..MaxMsg
  BY OutboxAssumption DEF Begin, TypeOK
<1>6. GoodOperation(o, "retry", built')
  <2>1. Increasing(<<>>) /\ Increasing(saved.items)
        /\ \A i \in DOMAIN saved.items : saved.items[i] <= built
    BY DEF OutboxInv, Increasing
  <2>2. Len(<<>>) + Len(saved.items) <= OutboxMaxItems
    BY <1>1
  <2>3. QED
    BY <1>3, <1>4, <1>5, <2>1, <2>2 DEF GoodOperation
<1>7. /\ op' \in [Agent -> Operation] /\ pc' \in [Agent -> Phase]
      /\ \A b \in Agent : GoodOperation(op'[b], pc'[b], built')
  <2>1. op' = [op EXCEPT ![a] = o] /\ pc' = [pc EXCEPT ![a] = "retry"]
    BY DEF Begin, o
  <2>2. "retry" \in Phase /\ built <= built' /\ built' \in 0..MaxMsg
    BY <1>5 DEF Phase
  <2>3. QED
    BY <1>3, <1>6, <2>1, <2>2, OperationUpdate
<1>8. QED
  BY <1>5, <1>7 DEF Begin, TypeOK, OutboxInv

LEMMA RetryInv ==
    ASSUME TypeOK, OutboxInv, NEW a \in Agent,
           RetryDelivered(a) \/ RetryFailed(a) \/ RetrySkipped(a)
    PROVE  TypeOK' /\ OutboxInv'
<1>1. /\ pc[a] = "retry" /\ op[a].todo # <<>> /\ UNCHANGED <<saved, built, pc, evicted, abandoned>>
      /\ op' = [op EXCEPT ![a] = Retain(op[a])] \/ op' = [op EXCEPT ![a] = Discard(op[a])]
  BY DEF RetryDelivered, RetryFailed, RetrySkipped
<1>2. op[a] \in Operation /\ built \in Nat /\ built \in 0..MaxMsg
  BY OutboxAssumption DEF TypeOK
<1>3. GoodOperation(op[a], "retry", built)
  BY <1>1 DEF OutboxInv
<1>4. PICK o : o \in Operation /\ GoodOperation(o, "retry", built) /\ op' = [op EXCEPT ![a] = o]
  BY <1>1, <1>2, <1>3, RetainGood, DiscardGood
<1>5. Head(op[a].todo) \in Msg
  BY <1>1, <1>2, OperationFacts, TailFacts
<1>6. wire' \subseteq Msg /\ stored' \subseteq Msg /\ faults' \in 0..MaxFaults
  BY <1>5, SendTypes DEF RetryDelivered, RetryFailed, RetrySkipped, TypeOK
<1>7. /\ op' \in [Agent -> Operation] /\ pc' \in [Agent -> Phase]
      /\ \A b \in Agent : GoodOperation(op'[b], pc'[b], built')
  <2>1. pc' = [pc EXCEPT ![a] = "retry"] /\ "retry" \in Phase
    BY <1>1 DEF TypeOK, Phase
  <2>2. built' = built /\ built <= built' /\ built' \in 0..MaxMsg
    BY <1>1, <1>2
  <2>3. QED
    BY <1>4, <2>1, <2>2, OperationUpdate
<1>8. QED
  BY <1>1, <1>6, <1>7 DEF TypeOK, OutboxInv

\* An operation that goes on to phase q without touching its outbox.
LEMMA PhaseGood ==
    ASSUME NEW o \in Operation, NEW n \in Nat, NEW p \in {"retry", "send"}, o.todo = <<>>,
           GoodOperation(o, p, n)
    PROVE  GoodOperation(o, "save", n)
  BY DEF GoodOperation

LEMMA SkipMessageInv ==
    ASSUME TypeOK, OutboxInv, NEW a \in Agent, SkipMessage(a)
    PROVE  TypeOK' /\ OutboxInv'
<1>1. /\ pc[a] = "retry" /\ op[a].todo = <<>> /\ pc' = [pc EXCEPT ![a] = "save"]
      /\ UNCHANGED <<saved, built, op, wire, stored, faults, evicted, abandoned>>
  BY DEF SkipMessage
<1>2. op[a] \in Operation /\ built \in Nat /\ built \in 0..MaxMsg
  BY OutboxAssumption DEF TypeOK
<1>3. GoodOperation(op[a], "save", built)
  BY <1>1, <1>2, PhaseGood DEF OutboxInv
<1>4. /\ op' \in [Agent -> Operation] /\ pc' \in [Agent -> Phase]
      /\ \A b \in Agent : GoodOperation(op'[b], pc'[b], built')
  <2>1. PICK o : /\ o \in Operation /\ GoodOperation(o, "save", built')
                 /\ op' = [op EXCEPT ![a] = o]
    BY <1>1, <1>2, <1>3 DEF TypeOK
  <2>2. "save" \in Phase /\ built <= built' /\ built' \in 0..MaxMsg
    BY <1>1, <1>2 DEF Phase
  <2>3. pc' = [pc EXCEPT ![a] = "save"]
    BY <1>1
  <2>4. QED
    BY <2>1, <2>2, <2>3, OperationUpdate
<1>5. QED
  BY <1>1, <1>4 DEF TypeOK, OutboxInv

LEMMA BuildInv ==
    ASSUME TypeOK, OutboxInv, NEW a \in Agent, Build(a)
    PROVE  TypeOK' /\ OutboxInv'
<1> DEFINE o == [op[a] EXCEPT !.msg = built + 1]
<1>1. /\ pc[a] = "retry" /\ op[a].todo = <<>> /\ pc' = [pc EXCEPT ![a] = "send"]
      /\ built < MaxMsg /\ built' = built + 1
      /\ UNCHANGED <<saved, wire, stored, faults, evicted, abandoned>>
  BY DEF Build
<1>2. op[a] \in Operation /\ built \in Nat /\ MaxMsg \in Nat
  BY OutboxAssumption DEF TypeOK
<1>3. built + 1 \in Msg /\ built' \in 0..MaxMsg /\ built' \in Nat /\ built <= built'
  BY <1>1, <1>2 DEF Msg
<1>4. o \in Operation
  BY <1>2, <1>3 DEF Operation
<1>5. o.todo = op[a].todo /\ o.state = op[a].state /\ o.msg = built + 1
  BY <1>2 DEF Operation
<1>6. op' = [op EXCEPT ![a] = o]
  BY <1>2 DEF Build, TypeOK
<1> HIDE DEF o
<1>7. GoodOperation(o, "send", built')
  <2>1. GoodOperation(op[a], "retry", built)
    BY <1>1 DEF OutboxInv
  <2>2. GoodOperation(op[a], "retry", built')
    BY <1>2, <1>3, <2>1, GoodLater
  <2>3. /\ op[a].state.items \in Seq(Msg)
        /\ \A i \in DOMAIN op[a].state.items : op[a].state.items[i] \in Nat
    BY <1>2, OperationFacts, SeqFacts
  <2>4. \A i \in DOMAIN op[a].state.items : op[a].state.items[i] < built + 1
    BY <1>2, <2>1, <2>3 DEF GoodOperation
  <2>5. built + 1 \in 1..built'
    BY <1>1, <1>2
  <2>6. QED
    BY <1>1, <1>5, <2>2, <2>4, <2>5 DEF GoodOperation
<1>8. /\ op' \in [Agent -> Operation] /\ pc' \in [Agent -> Phase]
      /\ \A b \in Agent : GoodOperation(op'[b], pc'[b], built')
  <2>1. "send" \in Phase
    BY DEF Phase
  <2>2. QED
    BY <1>1, <1>3, <1>4, <1>6, <1>7, <2>1, OperationUpdate
<1>9. \A i \in DOMAIN saved.items : saved.items[i] <= built'
  <2>1. saved.items \in Seq(Msg) /\ \A i \in DOMAIN saved.items : saved.items[i] \in Nat
    BY SeqFacts DEF TypeOK, OutboxState
  <2>2. QED
    BY <1>2, <1>3, <2>1 DEF OutboxInv
<1>10. TypeOK'
  BY <1>1, <1>3, <1>8 DEF TypeOK
<1>11. OutboxInv'
  BY <1>1, <1>8, <1>9 DEF OutboxInv
<1>12. QED
  BY <1>10, <1>11

LEMMA SendDeliveredInv ==
    ASSUME TypeOK, OutboxInv, NEW a \in Agent, SendDelivered(a)
    PROVE  TypeOK' /\ OutboxInv'
<1> DEFINE st == [op[a].state EXCEPT !.succeeded = TRUE]
           o == [op[a] EXCEPT !.state = st]
<1>1. /\ pc[a] = "send" /\ Delivered(op[a].msg) /\ pc' = [pc EXCEPT ![a] = "save"]
      /\ UNCHANGED <<saved, built, evicted, abandoned>>
  BY DEF SendDelivered
<1>2. op[a] \in Operation /\ built \in Nat /\ built \in 0..MaxMsg /\ op[a].state \in OutboxState
  BY OutboxAssumption, OperationFacts DEF TypeOK
<1>3. GoodOperation(op[a], "send", built)
  BY <1>1 DEF OutboxInv
<1>4. st \in OutboxState /\ st.items = op[a].state.items
  BY <1>2 DEF OutboxState
<1> HIDE DEF st
<1>5. o \in Operation /\ o.state = st /\ o.todo = op[a].todo
  BY <1>2, <1>4 DEF Operation
<1>6. op' = [op EXCEPT ![a] = o]
  BY <1>2 DEF SendDelivered, TypeOK, st
<1> HIDE DEF o
<1>7. GoodOperation(o, "save", built)
  BY <1>3, <1>4, <1>5 DEF GoodOperation
<1>8. op[a].msg \in Msg
  BY <1>2, <1>3, OutboxAssumption DEF GoodOperation, Msg
<1>9. wire' \subseteq Msg /\ stored' \subseteq Msg /\ faults' \in 0..MaxFaults
  BY <1>1, <1>8, SendTypes
<1>10. /\ op' \in [Agent -> Operation] /\ pc' \in [Agent -> Phase]
       /\ \A b \in Agent : GoodOperation(op'[b], pc'[b], built')
  <2>1. "save" \in Phase /\ built' = built /\ built <= built' /\ built' \in 0..MaxMsg
    BY <1>1, <1>2 DEF Phase
  <2>2. QED
    BY <1>1, <1>5, <1>6, <1>7, <2>1, OperationUpdate
<1>11. QED
  BY <1>1, <1>9, <1>10 DEF TypeOK, OutboxInv

LEMMA SendFailedInv ==
    ASSUME TypeOK, OutboxInv, NEW a \in Agent, SendFailed(a)
    PROVE  TypeOK' /\ OutboxInv'
<1> DEFINE s == op[a].state.items
           m == op[a].msg
           k == Enqueue(s, m)
           st == [op[a].state EXCEPT !.items = k]
           o == [op[a] EXCEPT !.state = st]
<1>1. /\ pc[a] = "send" /\ Failed(m) /\ pc' = [pc EXCEPT ![a] = "save"]
      /\ UNCHANGED <<saved, built, abandoned>>
      /\ evicted' = evicted \cup (Items(s) \ Items(k))
  BY DEF SendFailed
<1>2. op[a] \in Operation /\ built \in Nat /\ built \in 0..MaxMsg /\ op[a].state \in OutboxState
      /\ s \in Seq(Msg)
  BY OutboxAssumption, OperationFacts DEF TypeOK
<1>3. GoodOperation(op[a], "send", built)
  BY <1>1 DEF OutboxInv
<1>4. m \in 1..built /\ m \in Msg /\ Increasing(s) /\ op[a].todo = <<>>
      /\ (\A i \in DOMAIN s : s[i] < m) /\ (\A i \in DOMAIN s : s[i] <= built)
  BY <1>2, <1>3, OutboxAssumption DEF GoodOperation, Msg
<1>5. op' = [op EXCEPT ![a] = o]
  BY <1>2 DEF SendFailed, TypeOK
<1>6. k \in Seq(Msg) /\ Len(k) <= OutboxMaxItems /\ Increasing(k)
      /\ \A i \in DOMAIN k : k[i] \in Items(s) \cup {m}
  BY <1>2, <1>4, EnqueueGood
<1> HIDE DEF k
<1>7. st \in OutboxState /\ st.items = k
  BY <1>2, <1>6 DEF OutboxState
<1> HIDE DEF st
<1>8. o \in Operation /\ o.state = st /\ o.todo = <<>>
  BY <1>2, <1>4, <1>7 DEF Operation
<1> HIDE DEF o, s, m
<1>9. \A x \in Items(s) \cup {m} : x <= built
  BY <1>2, <1>4 DEF Items
<1>10. GoodOperation(o, "save", built)
  <2>1. \A i \in DOMAIN k : k[i] <= built
    BY <1>6, <1>9
  <2>2. Len(k) + Len(<<>>) <= OutboxMaxItems /\ Increasing(<<>>) /\ DOMAIN <<>> = {}
    BY <1>6 DEF Increasing
  <2>3. QED
    BY <1>6, <1>7, <1>8, <2>1, <2>2 DEF GoodOperation
<1>11. wire' \subseteq Msg /\ stored' \subseteq Msg /\ faults' \in 0..MaxFaults
  BY <1>1, <1>4, SendTypes
<1>12. evicted' \subseteq Msg
  <2>1. Items(s) \subseteq Msg
    BY <1>2 DEF Items
  <2>2. QED
    BY <1>1, <2>1 DEF TypeOK
<1>13. /\ op' \in [Agent -> Operation] /\ pc' \in [Agent -> Phase]
       /\ \A b \in Agent : GoodOperation(op'[b], pc'[b], built')
  <2>1. "save" \in Phase /\ built' = built /\ built <= built' /\ built' \in 0..MaxMsg
    BY <1>1, <1>2 DEF Phase
  <2>2. QED
    BY <1>1, <1>5, <1>8, <1>10, <2>1, OperationUpdate
<1>14. QED
  BY <1>1, <1>11, <1>12, <1>13 DEF TypeOK, OutboxInv

LEMMA SaveOutboxInv ==
    ASSUME TypeOK, OutboxInv, NEW a \in Agent, SaveOutbox(a)
    PROVE  TypeOK' /\ OutboxInv'
<1>1. /\ pc[a] = "save" /\ saved' = op[a].state /\ op' = [op EXCEPT ![a] = NoOperation]
      /\ pc' = [pc EXCEPT ![a] = "idle"]
      /\ UNCHANGED <<built, wire, stored, faults, evicted, abandoned>>
  BY DEF SaveOutbox
<1>2. op[a] \in Operation /\ built \in Nat /\ built \in 0..MaxMsg
  BY OutboxAssumption DEF TypeOK
<1>3. GoodOperation(op[a], "save", built)
  BY <1>1 DEF OutboxInv
<1>4. /\ Increasing(saved'.items) /\ \A i \in DOMAIN saved'.items : saved'.items[i] <= built
      /\ op[a].todo = <<>> /\ Len(saved'.items) + Len(op[a].todo) <= OutboxMaxItems
  BY <1>1, <1>3 DEF GoodOperation
<1>5. saved' \in OutboxState /\ Len(saved'.items) <= OutboxMaxItems
  BY <1>1, <1>2, <1>4, OperationFacts, SeqFacts
<1>6. /\ op' \in [Agent -> Operation] /\ pc' \in [Agent -> Phase]
      /\ \A b \in Agent : GoodOperation(op'[b], pc'[b], built')
  <2>1. "idle" \in Phase /\ built' = built /\ built <= built' /\ built' \in 0..MaxMsg
    BY <1>1, <1>2 DEF Phase
  <2>2. NoOperation \in Operation /\ GoodOperation(NoOperation, "idle", built')
    BY <1>2, <2>1, NoOperationGood
  <2>3. QED
    BY <1>1, <2>1, <2>2, OperationUpdate
<1>7. QED
  BY <1>1, <1>4, <1>5, <1>6 DEF TypeOK, OutboxInv

LEMMA AbortInv ==
    ASSUME TypeOK, OutboxInv, NEW a \in Agent, Crash(a) \/ BuildFails(a)
    PROVE  TypeOK' /\ OutboxInv'
<1>1. /\ Abort(a) /\ faults < MaxFaults
  BY DEF Crash, BuildFails, MayFault
<1>2. /\ op' = [op EXCEPT ![a] = NoOperation] /\ pc' = [pc EXCEPT ![a] = "idle"]
      /\ UNCHANGED <<saved, built, wire, stored, evicted>>
  BY <1>1 DEF Abort
<1>3. built \in Nat /\ built \in 0..MaxMsg /\ op[a] \in Operation
  BY OutboxAssumption DEF TypeOK
<1>4. faults' \in 0..MaxFaults
  BY <1>1, OutboxAssumption DEF Abort, TypeOK
<1>5. abandoned' \subseteq Msg
  <2>1. {op[a].msg} \ {NoMsg} \subseteq Msg
    BY <1>3, OperationFacts
  <2>2. QED
    BY <1>1, <2>1 DEF Abort, TypeOK
<1>6. /\ op' \in [Agent -> Operation] /\ pc' \in [Agent -> Phase]
      /\ \A b \in Agent : GoodOperation(op'[b], pc'[b], built')
  <2>1. "idle" \in Phase /\ built' = built /\ built <= built' /\ built' \in 0..MaxMsg
    BY <1>2, <1>3 DEF Phase
  <2>2. NoOperation \in Operation /\ GoodOperation(NoOperation, "idle", built')
    BY <1>3, <2>1, NoOperationGood
  <2>3. QED
    BY <1>2, <2>1, <2>2, OperationUpdate
<1>7. QED
  BY <1>2, <1>4, <1>5, <1>6 DEF TypeOK, OutboxInv

LEMMA StepInv == TypeOK /\ OutboxInv /\ [Next]_vars => TypeOK' /\ OutboxInv'
<1> SUFFICES ASSUME TypeOK, OutboxInv, [Next]_vars PROVE TypeOK' /\ OutboxInv'
  OBVIOUS
<1>1. ASSUME NEW a \in Daemon, Begin(a, "scan") PROVE TypeOK' /\ OutboxInv'
  <2>1. a \in Agent /\ "scan" \in Kind
    BY OutboxAssumption DEF Kind
  <2>2. QED
    BY <1>1, <2>1, BeginInv
<1>2. ASSUME NEW a \in Agent \ Daemon, Begin(a, "push") \/ Begin(a, "flush")
      PROVE  TypeOK' /\ OutboxInv'
  <2>1. "push" \in Kind /\ "flush" \in Kind
    BY DEF Kind
  <2>2. QED
    BY <1>2, <2>1, BeginInv
<1>3. ASSUME NEW a \in Agent, Step(a) PROVE TypeOK' /\ OutboxInv'
  BY <1>3, RetryInv, SkipMessageInv, BuildInv, SendDeliveredInv, SendFailedInv, SaveOutboxInv
     DEF Step
<1>4. ASSUME NEW a \in Agent, BuildFails(a) \/ Crash(a) PROVE TypeOK' /\ OutboxInv'
  BY <1>4, AbortInv
<1>5. ASSUME NEW m \in Msg, Arrive(m) PROVE TypeOK' /\ OutboxInv'
  <2>1. TypeOK'
    BY <1>5 DEF Arrive, TypeOK
  <2>2. OutboxInv'
    BY <1>5 DEF Arrive, OutboxInv
  <2>3. QED
    BY <2>1, <2>2
<1>6. CASE UNCHANGED vars
  <2>1. TypeOK'
    BY <1>6 DEF vars, TypeOK
  <2>2. OutboxInv'
    BY <1>6 DEF vars, OutboxInv
  <2>3. QED
    BY <2>1, <2>2
<1>7. QED
  BY <1>1, <1>2, <1>3, <1>4, <1>5, <1>6 DEF Next

\* TypeOK holds in every state: in particular no interleaving of publishing
\* processes, failed sends and crashes leaves more than outbox_max_items
\* messages in the persisted outbox.
THEOREM OutboxTypeCorrect == Spec => []TypeOK
<1>1. Init => TypeOK /\ OutboxInv
  BY InitInv
<1>2. TypeOK /\ OutboxInv /\ [Next]_vars => (TypeOK /\ OutboxInv)'
  BY StepInv
<1>3. QED
  BY <1>1, <1>2, PTL DEF Spec

\* OutboxInv is inductive (with TypeOK).
THEOREM OutboxInvariant == Spec => []OutboxInv
<1>1. Init => TypeOK /\ OutboxInv
  BY InitInv
<1>2. TypeOK /\ OutboxInv /\ [Next]_vars => (TypeOK /\ OutboxInv)'
  BY StepInv
<1>3. QED
  BY <1>1, <1>2, PTL DEF Spec

\* The persisted outbox and every copy of it list messages in the order they
\* were built, none twice, for any number of publishing processes.
THEOREM OutboxAlwaysOrdered == Spec => []OutboxOrdered
<1>1. OutboxInv => OutboxOrdered
  <2> SUFFICES ASSUME OutboxInv PROVE OutboxOrdered
    OBVIOUS
  <2>1. ASSUME NEW a \in Agent
        PROVE  /\ Increasing(op[a].state.items) /\ Increasing(op[a].todo)
               /\ \A m \in Items(op[a].state.items), n \in Items(op[a].todo) : m < n
    <3>1. GoodOperation(op[a], pc[a], built)
      BY DEF OutboxInv
    <3>2. QED
      BY <3>1 DEF GoodOperation, Items
  <2>2. QED
    BY <2>1 DEF OutboxInv, OutboxOrdered
<1>2. QED
  BY <1>1, OutboxInvariant, PTL

-----------------------------------------------------------------------------
(* One publishing process: nothing is lost, and UploadQueue is implemented. *)

\* There is no second process that publishes.
Alone == \A a, b \in Agent : a = b

\* What operation o at phase q still owes the row it loaded, when the panel has
\* `delivered` and `dropped` fell out of a full outbox: a message of the row is
\* still held, is at the panel, or was dropped from a copy that is full of
\* younger ones.  Besides these it holds at most the message it has built.
Accounts(o, q, row, delivered, dropped) ==
    /\ \A m \in Items(row) :
          \/ m \in Items(o.state.items) \cup Items(o.todo) \cup delivered
          \/ /\ m \in dropped /\ Len(o.state.items) = OutboxMaxItems
             /\ \A k \in Items(o.state.items) : m < k
    /\ Items(o.state.items) \cup Items(o.todo) \subseteq Items(row) \cup {o.msg}
    /\ q = "retry" => o.msg = NoMsg
    /\ o.msg # NoMsg => \A k \in Items(row) : k < o.msg
    /\ q = "save" /\ o.msg # NoMsg => o.msg \in delivered \cup Items(o.state.items)
    /\ q = "send" => o.msg # NoMsg
    /\ q # "save" => Items(row) \subseteq Items(o.state.items) \cup Items(o.todo) \cup delivered

\* Message m is accounted for by the tables or by the running operation.
Accounted(m) ==
    \/ m \in stored \cup Items(saved.items) \cup evicted \cup abandoned
    \/ \E a \in Agent : pc[a] \in {"send", "save"} /\ op[a].msg = m

SoleInv ==
    /\ \A a \in Agent : pc[a] # "idle" => Accounts(op[a], pc[a], saved.items, stored, evicted)
    /\ \A m \in 1..built : Accounted(m)

LEMMA ItemsTail ==
    ASSUME NEW s \in Seq(Msg), s # <<>>
    PROVE  Items(s) = {Head(s)} \cup Items(Tail(s))
<1>1. /\ Len(s) \in Nat /\ Len(s) > 0 /\ DOMAIN s = 1..Len(s) /\ Head(s) = s[1]
      /\ DOMAIN Tail(s) = 1..(Len(s) - 1)
      /\ \A i \in 1..(Len(s) - 1) : i + 1 \in 1..Len(s) /\ Tail(s)[i] = s[i + 1]
  BY SeqFacts, TailFacts
<1>2. ASSUME NEW i \in 1..Len(s) PROVE s[i] = s[1] \/ \E j \in 1..(Len(s) - 1) : s[i] = Tail(s)[j]
  <2>1. CASE i = 1
    BY <2>1
  <2>2. CASE i # 1
    <3>1. i - 1 \in 1..(Len(s) - 1) /\ (i - 1) + 1 = i
      BY <1>1, <2>2
    <3>2. QED
      BY <1>1, <3>1
  <2>3. QED
    BY <2>1, <2>2
<1>3. ASSUME NEW x \in Items(s) PROVE x \in {Head(s)} \cup Items(Tail(s))
  <2>1. PICK i \in 1..Len(s) : x = s[i]
    BY <1>1 DEF Items
  <2>2. CASE s[i] = s[1]
    BY <1>1, <2>1, <2>2
  <2>3. CASE \E j \in DOMAIN Tail(s) : s[i] = Tail(s)[j]
    BY <2>1, <2>3 DEF Items
  <2>4. QED
    BY <1>1, <1>2, <2>2, <2>3
<1>4. 1 \in DOMAIN s
  BY <1>1
<1>5. {Head(s)} \cup Items(Tail(s)) \subseteq Items(s)
  BY <1>1, <1>4 DEF Items
<1>6. QED
  BY <1>3, <1>5

LEMMA ItemsAppend ==
    ASSUME NEW s \in Seq(Msg), NEW m \in Msg
    PROVE  Items(Append(s, m)) = Items(s) \cup {m}
<1>1. /\ Len(s) \in Nat /\ DOMAIN s = 1..Len(s) /\ DOMAIN Append(s, m) = 1..(Len(s) + 1)
      /\ \A i \in 1..Len(s) : Append(s, m)[i] = s[i]
      /\ Append(s, m)[Len(s) + 1] = m
  BY SeqFacts
<1>2. \A i \in 1..(Len(s) + 1) : i = Len(s) + 1 \/ i \in 1..Len(s)
  BY <1>1
<1>3. QED
  BY <1>1, <1>2 DEF Items

\* An outbox in order has as many messages as items.
LEMMA IncreasingCardinality ==
    ASSUME NEW s \in Seq(Msg), Increasing(s)
    PROVE  Cardinality(Items(s)) = Len(s)
<1>1. Len(s) \in Nat /\ DOMAIN s = 1..Len(s) /\ \A i \in 1..Len(s) : s[i] \in Nat
  BY SeqFacts
<1>2. \A i, j \in 1..Len(s) : s[i] = s[j] => i = j
  BY <1>1 DEF Increasing
<1>3. s \in [1..Len(s) -> Items(s)]
  BY <1>1 DEF Items
<1>4. s \in Bijection(1..Len(s), Items(s))
  BY <1>1, <1>2, <1>3 DEF Bijection, Injection, Surjection, IsInjective, Items
<1>5. QED
  BY <1>1, <1>4, FS_CountingElements DEF ExistsBijection

\* The process moves to phase q with operation o.
LEMMA SoleUpdate ==
    ASSUME TypeOK, Alone, NEW a \in Agent, NEW o, NEW q,
           op' = [op EXCEPT ![a] = o], pc' = [pc EXCEPT ![a] = q],
           q # "idle" => Accounts(o, q, saved'.items, stored', evicted'),
           \A m \in 1..built' :
              \/ m \in stored' \cup Items(saved'.items) \cup evicted' \cup abandoned'
              \/ q \in {"send", "save"} /\ o.msg = m
    PROVE  SoleInv'
<1>1. op'[a] = o /\ pc'[a] = q
  BY DEF TypeOK
<1>2. \A b \in Agent : b = a
  BY DEF Alone
<1>3. \A b \in Agent : pc'[b] # "idle" => Accounts(op'[b], pc'[b], saved'.items, stored', evicted')
  BY <1>1, <1>2
<1>4. \A m \in 1..built' : Accounted(m)'
  BY <1>1 DEF Accounted
<1>5. QED
  BY <1>3, <1>4 DEF SoleInv

LEMMA InitSole == Init => SoleInv
  BY DEF Init, SoleInv

\* Who is idle has nothing in hand.
LEMMA AccountedByOthers ==
    ASSUME Alone, SoleInv, NEW a \in Agent, NEW m \in 1..built,
           pc[a] \notin {"send", "save"} \/ op[a].msg # m
    PROVE  m \in stored \cup Items(saved.items) \cup evicted \cup abandoned
  BY DEF Alone, SoleInv, Accounted

LEMMA BeginSole ==
    ASSUME TypeOK, OutboxInv, SoleInv, Alone, NEW a \in Agent, NEW kind \in Kind, Begin(a, kind)
    PROVE  SoleInv'
<1> DEFINE o == [NoOperation EXCEPT !.kind = kind, !.todo = saved.items,
                                    !.state = [saved EXCEPT !.items = <<>>]]
<1>1. saved \in OutboxState
  BY DEF TypeOK
<1>2. o.todo = saved.items /\ o.state.items = <<>> /\ o.msg = NoMsg
  BY <1>1 DEF NoOperation, OutboxState
<1>3. /\ pc[a] = "idle" /\ op' = [op EXCEPT ![a] = o] /\ pc' = [pc EXCEPT ![a] = "retry"]
      /\ UNCHANGED <<saved, built, stored, evicted, abandoned>>
  BY DEF Begin
<1> HIDE DEF o
<1>4. Items(<<>>) = {}
  BY DEF Items
<1>5. Accounts(o, "retry", saved.items, stored, evicted)
  BY <1>2, <1>4 DEF Accounts
<1>6. \A m \in 1..built : m \in stored \cup Items(saved.items) \cup evicted \cup abandoned
  BY <1>3, AccountedByOthers
<1>7. QED
  BY <1>3, <1>5, <1>6, SoleUpdate

LEMMA RetrySole ==
    ASSUME TypeOK, OutboxInv, SoleInv, Alone, NEW a \in Agent,
           RetryDelivered(a) \/ RetryFailed(a) \/ RetrySkipped(a)
    PROVE  SoleInv'
<1> DEFINE t == op[a].todo
           s == op[a].state.items
<1>1. /\ pc[a] = "retry" /\ t # <<>> /\ UNCHANGED <<saved, built, pc, evicted, abandoned>>
      /\ stored \subseteq stored'
      /\ \/ op' = [op EXCEPT ![a] = Retain(op[a])]
         \/ op' = [op EXCEPT ![a] = Discard(op[a])] /\ Head(t) \in stored'
  BY DEF RetryDelivered, RetryFailed, RetrySkipped, Delivered, Failed
<1>2. op[a] \in Operation /\ t \in Seq(Msg) /\ s \in Seq(Msg) /\ Head(t) \in Msg
  BY <1>1, OperationFacts, TailFacts DEF TypeOK
<1>3. Items(t) = {Head(t)} \cup Items(Tail(t)) /\ Items(Append(s, Head(t))) = Items(s) \cup {Head(t)}
  BY <1>1, <1>2, ItemsTail, ItemsAppend
<1>4. Accounts(op[a], "retry", saved.items, stored, evicted)
  BY <1>1 DEF SoleInv
<1>5. PICK o : /\ op' = [op EXCEPT ![a] = o] /\ o.msg = op[a].msg
               /\ Items(o.state.items) \cup Items(o.todo) \subseteq Items(s) \cup Items(t)
               /\ Items(s) \cup Items(t) \subseteq Items(o.state.items) \cup Items(o.todo) \cup stored'
  <2>1. CASE op' = [op EXCEPT ![a] = Retain(op[a])]
    <3>1. Retain(op[a]).todo = Tail(t) /\ Retain(op[a]).state.items = Append(s, Head(t))
          /\ Retain(op[a]).msg = op[a].msg
      BY <1>2 DEF Retain, Operation, OutboxState
    <3>2. QED
      BY <1>3, <2>1, <3>1
  <2>2. CASE op' = [op EXCEPT ![a] = Discard(op[a])] /\ Head(t) \in stored'
    <3>1. Discard(op[a]).todo = Tail(t) /\ Discard(op[a]).state.items = s
          /\ Discard(op[a]).msg = op[a].msg
      BY <1>2 DEF Discard, Operation, OutboxState
    <3>2. QED
      BY <1>3, <2>2, <3>1
  <2>3. QED
    BY <1>1, <2>1, <2>2
<1>6. Accounts(o, "retry", saved'.items, stored', evicted')
  BY <1>1, <1>4, <1>5 DEF Accounts
<1>7. \A m \in 1..built : m \in stored \cup Items(saved.items) \cup evicted \cup abandoned
  BY <1>1, AccountedByOthers
<1>8. pc' = [pc EXCEPT ![a] = "retry"]
  BY <1>1 DEF TypeOK
<1>9. QED
  BY <1>1, <1>5, <1>6, <1>7, <1>8, SoleUpdate

LEMMA SkipMessageSole ==
    ASSUME TypeOK, OutboxInv, SoleInv, Alone, NEW a \in Agent, SkipMessage(a)
    PROVE  SoleInv'
<1>1. /\ pc[a] = "retry" /\ pc' = [pc EXCEPT ![a] = "save"]
      /\ UNCHANGED <<saved, built, op, stored, evicted, abandoned>>
  BY DEF SkipMessage
<1>2. PICK o : o = op[a]
  OBVIOUS
<1>3. op' = [op EXCEPT ![a] = o]
  BY <1>1, <1>2 DEF TypeOK
<1>4. Accounts(o, "save", saved'.items, stored', evicted')
  BY <1>1, <1>2 DEF SoleInv, Accounts
<1>5. \A m \in 1..built : m \in stored \cup Items(saved.items) \cup evicted \cup abandoned
  BY <1>1, AccountedByOthers
<1>6. QED
  BY <1>1, <1>3, <1>4, <1>5, SoleUpdate

LEMMA BuildSole ==
    ASSUME TypeOK, OutboxInv, SoleInv, Alone, NEW a \in Agent, Build(a)
    PROVE  SoleInv'
<1>1. /\ pc[a] = "retry" /\ op[a].todo = <<>> /\ pc' = [pc EXCEPT ![a] = "send"]
      /\ built' = built + 1 /\ UNCHANGED <<saved, stored, evicted, abandoned>>
  BY DEF Build
<1>2. op[a] \in Operation /\ built \in Nat /\ saved \in OutboxState
  BY OutboxAssumption DEF TypeOK
<1>3. PICK o : o = [op[a] EXCEPT !.msg = built + 1]
  OBVIOUS
<1>4. op' = [op EXCEPT ![a] = o] /\ o.todo = op[a].todo /\ o.state = op[a].state /\ o.msg = built + 1
  BY <1>2, <1>3 DEF Build, TypeOK, Operation
<1>5. \A k \in Items(saved.items) : k < built + 1
  <2>1. saved.items \in Seq(Msg) /\ \A i \in DOMAIN saved.items : saved.items[i] \in Nat
    BY <1>2, SeqFacts DEF OutboxState
  <2>2. QED
    BY <1>2, <2>1 DEF OutboxInv, Items
<1>6. Accounts(op[a], "retry", saved.items, stored, evicted)
  BY <1>1 DEF SoleInv
<1>7. built + 1 # NoMsg
  BY <1>2 DEF NoMsg
<1>8. Accounts(o, "send", saved'.items, stored', evicted')
  <2>1. NoMsg \notin Items(op[a].state.items) \cup Items(op[a].todo)
    <3>1. \A x \in Items(op[a].state.items) \cup Items(op[a].todo) : x \in Msg
      BY <1>2, OperationFacts DEF Items
    <3>2. QED
      BY <3>1 DEF Msg, NoMsg
  <2>2. QED
    BY <1>1, <1>4, <1>5, <1>6, <1>7, <2>1 DEF Accounts
<1>9. ASSUME NEW m \in 1..built'
      PROVE  m \in stored \cup Items(saved.items) \cup evicted \cup abandoned \/ o.msg = m
  <2>1. m = built + 1 \/ m \in 1..built
    BY <1>1, <1>2
  <2>2. QED
    BY <1>1, <1>4, <2>1, AccountedByOthers
<1>10. QED
  BY <1>1, <1>4, <1>8, <1>9, SoleUpdate

LEMMA SendDeliveredSole ==
    ASSUME TypeOK, OutboxInv, SoleInv, Alone, NEW a \in Agent, SendDelivered(a)
    PROVE  SoleInv'
<1>1. /\ pc[a] = "send" /\ pc' = [pc EXCEPT ![a] = "save"] /\ stored' = stored \cup {op[a].msg}
      /\ UNCHANGED <<saved, built, evicted, abandoned>>
  BY DEF SendDelivered, Delivered
<1>2. op[a] \in Operation
  BY DEF TypeOK
<1>3. PICK o : o = [op[a] EXCEPT !.state = [op[a].state EXCEPT !.succeeded = TRUE]]
  OBVIOUS
<1>4. /\ op' = [op EXCEPT ![a] = o] /\ o.todo = op[a].todo /\ o.msg = op[a].msg
      /\ o.state.items = op[a].state.items
  BY <1>2, <1>3 DEF SendDelivered, TypeOK, Operation, OutboxState
<1>5. Accounts(op[a], "send", saved.items, stored, evicted)
  BY <1>1 DEF SoleInv
<1>6. Accounts(o, "save", saved'.items, stored', evicted')
  BY <1>1, <1>4, <1>5 DEF Accounts
<1>7. \A m \in 1..built : op[a].msg # m => m \in stored \cup Items(saved.items) \cup evicted \cup abandoned
  BY AccountedByOthers
<1>8. QED
  BY <1>1, <1>4, <1>6, <1>7, SoleUpdate

LEMMA SendFailedSole ==
    ASSUME TypeOK, OutboxInv, SoleInv, Alone, NEW a \in Agent, SendFailed(a)
    PROVE  SoleInv'
<1> DEFINE s == op[a].state.items
           m == op[a].msg
           k == Enqueue(s, m)
<1>1. /\ pc[a] = "send" /\ pc' = [pc EXCEPT ![a] = "save"] /\ stored \subseteq stored'
      /\ UNCHANGED <<saved, built, abandoned>>
      /\ evicted' = evicted \cup (Items(s) \ Items(k))
  BY DEF SendFailed, Failed
<1>2. op[a] \in Operation /\ s \in Seq(Msg) /\ built \in Nat
  BY OperationFacts, OutboxAssumption DEF TypeOK
<1>3. GoodOperation(op[a], "send", built)
  BY <1>1 DEF OutboxInv
<1>4. m \in Msg /\ Increasing(s) /\ op[a].todo = <<>> /\ \A i \in DOMAIN s : s[i] < m
  BY <1>2, <1>3, OutboxAssumption DEF GoodOperation, Msg, TypeOK
<1>5. PICK o : o = [op[a] EXCEPT !.state = [op[a].state EXCEPT !.items = k]]
  OBVIOUS
<1>6. op' = [op EXCEPT ![a] = o] /\ o.todo = op[a].todo /\ o.msg = m /\ o.state.items = k
  BY <1>2, <1>5 DEF SendFailed, TypeOK, Operation, OutboxState
<1>7. /\ Items(k) \subseteq Items(s) \cup {m} /\ m \in Items(k)
      /\ \A x \in Items(s) \ Items(k) : Len(k) = OutboxMaxItems /\ \A y \in Items(k) : x < y
  BY <1>2, <1>4, EnqueueGood DEF Items
<1>8. Accounts(op[a], "send", saved.items, stored, evicted)
  BY <1>1 DEF SoleInv
<1> HIDE DEF k, s, m
<1>9. Accounts(o, "save", saved'.items, stored', evicted')
  <2>1. \A x \in Items(saved.items) : x \in Items(s) \cup Items(op[a].todo) \cup stored
    BY <1>8 DEF Accounts, s
  <2>2. ASSUME NEW x \in Items(saved.items)
        PROVE  \/ x \in Items(o.state.items) \cup Items(o.todo) \cup stored'
               \/ /\ x \in evicted' /\ Len(o.state.items) = OutboxMaxItems
                  /\ \A y \in Items(o.state.items) : x < y
    <3>1. CASE x \in Items(s) \ Items(k)
      BY <1>1, <1>6, <1>7, <3>1
    <3>2. CASE x \notin Items(s) \ Items(k)
      BY <1>1, <1>6, <2>1, <3>2
    <3>3. QED
      BY <3>1, <3>2
  <2>3. /\ Items(s) \cup Items(op[a].todo) \subseteq Items(saved.items) \cup {m}
        /\ m # NoMsg => \A y \in Items(saved.items) : y < m
    BY <1>8 DEF Accounts, s, m
  <2>4. Items(o.state.items) \cup Items(o.todo) \subseteq Items(saved.items) \cup {o.msg}
    BY <1>6, <1>7, <2>3
  <2>5. QED
    BY <1>1, <1>6, <1>7, <2>2, <2>3, <2>4 DEF Accounts
<1>10. \A x \in 1..built : m # x => x \in stored \cup Items(saved.items) \cup evicted \cup abandoned
  BY AccountedByOthers DEF m
<1>11. QED
  BY <1>1, <1>6, <1>9, <1>10, SoleUpdate

LEMMA SaveOutboxSole ==
    ASSUME TypeOK, OutboxInv, SoleInv, Alone, NEW a \in Agent, SaveOutbox(a)
    PROVE  SoleInv'
<1>1. /\ pc[a] = "save" /\ saved' = op[a].state /\ op' = [op EXCEPT ![a] = NoOperation]
      /\ pc' = [pc EXCEPT ![a] = "idle"]
      /\ UNCHANGED <<built, stored, evicted, abandoned>>
  BY DEF SaveOutbox
<1>2. Accounts(op[a], "save", saved.items, stored, evicted)
  BY <1>1 DEF SoleInv
<1>a. op[a].todo = <<>>
  BY <1>1 DEF OutboxInv, GoodOperation
<1>3. Items(op[a].todo) = {}
  BY <1>a DEF Items
<1>4. \A m \in Items(saved.items) : m \in stored \cup Items(saved'.items) \cup evicted
  BY <1>1, <1>2, <1>3 DEF Accounts
<1>5. ASSUME NEW m \in 1..built PROVE m \in stored \cup Items(saved'.items) \cup evicted \cup abandoned
  <2>1. CASE op[a].msg = m
    <3>1. m # NoMsg
      BY DEF NoMsg
    <3>2. QED
      BY <1>1, <1>2, <2>1, <3>1 DEF Accounts
  <2>2. CASE op[a].msg # m
    BY <1>4, <2>2, AccountedByOthers
  <2>3. QED
    BY <2>1, <2>2
<1>6. PICK o : o = NoOperation
  OBVIOUS
<1>7. QED
  BY <1>1, <1>5, <1>6, SoleUpdate

LEMMA AbortSole ==
    ASSUME TypeOK, OutboxInv, SoleInv, Alone, NEW a \in Agent, Crash(a) \/ BuildFails(a)
    PROVE  SoleInv'
<1>1. /\ op' = [op EXCEPT ![a] = NoOperation] /\ pc' = [pc EXCEPT ![a] = "idle"]
      /\ abandoned' = abandoned \cup ({op[a].msg} \ {NoMsg})
      /\ UNCHANGED <<saved, built, stored, evicted>>
  BY DEF Crash, BuildFails, Abort
<1>2. ASSUME NEW m \in 1..built PROVE m \in stored \cup Items(saved.items) \cup evicted \cup abandoned'
  <2>1. m # NoMsg
    BY DEF NoMsg
  <2>2. QED
    BY <1>1, <2>1, AccountedByOthers
<1>3. PICK o : o = NoOperation
  OBVIOUS
<1>4. QED
  BY <1>1, <1>2, <1>3, SoleUpdate

LEMMA ArriveSole ==
    ASSUME SoleInv, NEW m \in Msg, Arrive(m)
    PROVE  SoleInv'
<1>1. stored \subseteq stored' /\ UNCHANGED <<saved, built, pc, op, evicted, abandoned>>
  BY DEF Arrive
<1>2. ASSUME NEW a \in Agent, pc[a] # "idle"
      PROVE  Accounts(op[a], pc[a], saved.items, stored', evicted)
  <2>1. Accounts(op[a], pc[a], saved.items, stored, evicted)
    BY <1>2 DEF SoleInv
  <2>2. QED
    BY <1>1, <2>1 DEF Accounts
<1>3. ASSUME NEW n \in 1..built PROVE Accounted(n)'
  <2>1. Accounted(n)
    BY DEF SoleInv
  <2>2. QED
    BY <1>1, <2>1 DEF Accounted
<1>4. QED
  BY <1>1, <1>2, <1>3 DEF SoleInv

LEMMA StepSole ==
    TypeOK /\ OutboxInv /\ SoleInv /\ Alone /\ [Next]_vars => SoleInv'
<1> SUFFICES ASSUME TypeOK, OutboxInv, SoleInv, Alone, [Next]_vars PROVE SoleInv'
  OBVIOUS
<1>1. ASSUME NEW a \in Daemon, Begin(a, "scan") PROVE SoleInv'
  <2>1. a \in Agent /\ "scan" \in Kind
    BY OutboxAssumption DEF Kind
  <2>2. QED
    BY <1>1, <2>1, BeginSole
<1>2. ASSUME NEW a \in Agent \ Daemon, Begin(a, "push") \/ Begin(a, "flush") PROVE SoleInv'
  <2>1. "push" \in Kind /\ "flush" \in Kind
    BY DEF Kind
  <2>2. QED
    BY <1>2, <2>1, BeginSole
<1>3. ASSUME NEW a \in Agent, Step(a) PROVE SoleInv'
  BY <1>3, RetrySole, SkipMessageSole, BuildSole, SendDeliveredSole, SendFailedSole, SaveOutboxSole
     DEF Step
<1>4. ASSUME NEW a \in Agent, BuildFails(a) \/ Crash(a) PROVE SoleInv'
  BY <1>4, AbortSole
<1>5. ASSUME NEW m \in Msg, Arrive(m) PROVE SoleInv'
  BY <1>5, ArriveSole
<1>6. CASE UNCHANGED vars
  BY <1>6 DEF vars, SoleInv, Accounted
<1>7. QED
  BY <1>1, <1>2, <1>3, <1>4, <1>5, <1>6 DEF Next

\* With one publishing process SoleInv is inductive: what the process holds and
\* what the tables hold together account for every message ever built.
THEOREM SoleInvariant ==
    ASSUME Alone
    PROVE  Spec => []SoleInv
<1>1. Init => TypeOK /\ OutboxInv /\ SoleInv
  BY InitInv, InitSole
<1>2. TypeOK /\ OutboxInv /\ SoleInv /\ [Next]_vars => (TypeOK /\ OutboxInv /\ SoleInv)'
  BY StepInv, StepSole
<1>3. QED
  BY <1>1, <1>2, PTL DEF Spec

\* publish_scan, push_snapshot, flush_outbox: while one process publishes, every
\* message that was built is at the panel, in the persisted outbox, was dropped
\* from a full outbox or went down with an aborted operation.
THEOREM FailedUploadsAlwaysQueued ==
    ASSUME Alone
    PROVE  Spec => []FailedUploadsQueued
<1>1. SoleInv => FailedUploadsQueued
  BY DEF SoleInv, Accounted, FailedUploadsQueued, Idle
<1>2. QED
  BY <1>1, SoleInvariant, PTL

-----------------------------------------------------------------------------
(* The refinement                                                           *)

LEMMA MsgSubset ==
    ASSUME TypeOK, NEW o \in Operation
    PROVE  /\ Items(o.state.items) \in SUBSET Msg /\ Items(o.todo) \in SUBSET Msg
           /\ Items(saved.items) \in SUBSET Msg
<1>1. saved.items \in Seq(Msg) /\ o.state.items \in Seq(Msg) /\ o.todo \in Seq(Msg)
  BY OperationFacts DEF TypeOK, OutboxState
<1>2. QED
  BY <1>1 DEF Items

\* A step that only lets the panel store messages.
LEMMA StoreRefines ==
    ASSUME UNCHANGED saved, NEW m \in Msg, stored' = stored \/ stored' = stored \cup {m}
    PROVE  [Contract!Next]_<<Items(saved.items), stored>>
<1>1. CASE stored' = stored
  BY <1>1
<1>2. CASE stored' = stored \cup {m}
  BY <1>2 DEF Contract!Next, Contract!Store
<1>3. QED
  BY <1>1, <1>2

\* save_outbox of a lone process is a Commit of the upload queue.
LEMMA SaveOutboxRefines ==
    ASSUME TypeOK, OutboxInv, SoleInv, NEW a \in Agent, SaveOutbox(a)
    PROVE  [Contract!Next]_<<Items(saved.items), stored>>
<1> DEFINE o == op[a]
           queue == Items(saved.items)
           q == Items(o.state.items)
<1>1. pc[a] = "save" /\ saved' = o.state /\ UNCHANGED stored
  BY DEF SaveOutbox
<1>2. o \in Operation /\ o.state.items \in Seq(Msg)
  BY OperationFacts DEF TypeOK
<1>3. Accounts(o, "save", saved.items, stored, evicted) /\ GoodOperation(o, "save", built)
  BY <1>1 DEF SoleInv, OutboxInv
<1>4. o.todo = <<>> /\ Increasing(o.state.items) /\ Len(o.state.items) + Len(o.todo) <= OutboxMaxItems
  BY <1>3 DEF GoodOperation
<1>5. Cardinality(q) = Len(o.state.items) /\ Cardinality(q) <= OutboxMaxItems
  BY <1>2, <1>4, IncreasingCardinality, SeqFacts
<1>6. Items(o.todo) = {}
  BY <1>4 DEF Items
<1>7. \A m \in queue \ q : m \in stored \/ (Cardinality(q) = OutboxMaxItems /\ \A k \in q : m < k)
  BY <1>3, <1>5, <1>6 DEF Accounts
<1>8. q \ queue \subseteq {o.msg}
  BY <1>3 DEF Accounts
<1>9. NoMsg \notin q
  BY <1>2, MsgSubset DEF Msg, NoMsg
<1>10. \A m \in q \ queue, k \in queue : k < m
  BY <1>3, <1>8, <1>9 DEF Accounts
<1>11. q \in SUBSET Msg /\ Items(saved'.items) = q
  BY <1>1, <1>2, MsgSubset
<1>a. Contract!Cardinality(q) = Cardinality(q)
  BY DEF Contract!Cardinality, Cardinality
<1> HIDE DEF o, queue, q
<1>12. Contract!Commit(q)
  BY <1>1, <1>5, <1>7, <1>8, <1>10, <1>11, <1>a DEF Contract!Commit, queue
<1>13. QED
  BY <1>11, <1>12 DEF Contract!Next

LEMMA StepRefines ==
    TypeOK /\ OutboxInv /\ SoleInv /\ [Next]_vars => [Contract!Next]_<<Items(saved.items), stored>>
<1> SUFFICES ASSUME TypeOK, OutboxInv, SoleInv, [Next]_vars
             PROVE  [Contract!Next]_<<Items(saved.items), stored>>
  OBVIOUS
<1>1. ASSUME UNCHANGED <<saved, stored>> PROVE [Contract!Next]_<<Items(saved.items), stored>>
  BY <1>1
<1>2. ASSUME NEW a \in Agent, NEW kind, Begin(a, kind)
      PROVE  [Contract!Next]_<<Items(saved.items), stored>>
  BY <1>1, <1>2 DEF Begin
<1>3. ASSUME NEW a \in Agent, RetryDelivered(a) \/ RetryFailed(a) \/ RetrySkipped(a)
      PROVE  [Contract!Next]_<<Items(saved.items), stored>>
  <2>1. op[a].todo # <<>> /\ op[a].todo \in Seq(Msg) /\ Head(op[a].todo) \in Msg
    BY <1>3, OperationFacts, TailFacts DEF RetryDelivered, RetryFailed, RetrySkipped, TypeOK
  <2>2. UNCHANGED saved /\ (stored' = stored \/ stored' = stored \cup {Head(op[a].todo)})
    BY <1>3 DEF RetryDelivered, RetryFailed, RetrySkipped, Delivered, Failed
  <2>3. QED
    BY <2>1, <2>2, StoreRefines
<1>4. ASSUME NEW a \in Agent, SkipMessage(a) \/ Build(a) \/ BuildFails(a) \/ Crash(a)
      PROVE  [Contract!Next]_<<Items(saved.items), stored>>
  BY <1>1, <1>4 DEF SkipMessage, Build, BuildFails, Crash, Abort
<1>5. ASSUME NEW a \in Agent, SendDelivered(a) \/ SendFailed(a)
      PROVE  [Contract!Next]_<<Items(saved.items), stored>>
  <2>1. pc[a] = "send" /\ UNCHANGED saved /\ (stored' = stored \/ stored' = stored \cup {op[a].msg})
    BY <1>5 DEF SendDelivered, SendFailed, Delivered, Failed
  <2>2. op[a].msg \in 1..built /\ built \in 0..MaxMsg
    BY <2>1 DEF OutboxInv, GoodOperation, TypeOK
  <2>3. op[a].msg \in Msg
    BY <2>2, OutboxAssumption DEF Msg
  <2>4. QED
    BY <2>1, <2>3, StoreRefines
<1>6. ASSUME NEW a \in Agent, SaveOutbox(a) PROVE [Contract!Next]_<<Items(saved.items), stored>>
  BY <1>6, SaveOutboxRefines
<1>7. ASSUME NEW m \in Msg, Arrive(m) PROVE [Contract!Next]_<<Items(saved.items), stored>>
  <2>1. UNCHANGED saved /\ (stored' = stored \/ stored' = stored \cup {m})
    BY <1>7 DEF Arrive
  <2>2. QED
    BY <2>1, StoreRefines
<1>8. CASE UNCHANGED vars
  BY <1>1, <1>8 DEF vars
<1>9. QED
  BY <1>2, <1>3, <1>4, <1>5, <1>6, <1>7, <1>8, OutboxAssumption DEF Next, Step

\* publish_scan, push_snapshot, flush_outbox: a single publishing process
\* implements UploadQueue.  Whatever sends, builds and operations fail, a queued
\* message is forgotten only when the panel has it or a full outbox keeps only
\* younger ones.
THEOREM RefinesUploadQueue ==
    ASSUME Alone
    PROVE  Spec => ImplementsUploadQueue
<1>1. Init => Contract!Init
  BY DEF Init, Contract!Init, EmptyOutbox, Items
<1>2. TypeOK /\ OutboxInv /\ SoleInv /\ [Next]_vars => [Contract!Next]_<<Items(saved.items), stored>>
  BY StepRefines
<1>3. QED
  BY <1>1, <1>2, OutboxTypeCorrect, OutboxInvariant, SoleInvariant, PTL
     DEF Spec, ImplementsUploadQueue, Contract!Spec
=============================================================================
