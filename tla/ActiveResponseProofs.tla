------------------------ MODULE ActiveResponseProofs ------------------------
(***************************************************************************)
(* Proofs about ActiveResponse.  Type correctness and the evidence behind  *)
(* permanent blocks hold for every set of addresses and processes, every   *)
(* configuration and every combination of faults.  How state and firewall  *)
(* agree is proved for operations that do not overlap; each theorem names  *)
(* the faults it leaves out.                                               *)
(***************************************************************************)
EXTENDS ActiveResponse, FiniteSetTheorems, TLAPS

\* Every result a firewall command can have is well typed and stays within the
\* fault budget.
LEMMA ResultTypes ==
    ASSUME TypeOK, NEW b \in Backend, NEW ip \in IP
    PROVE  /\ \A ttl \in Nat \cup {Never} : \A o \in BlockResults(b, ip, ttl) :
                o.entry \in Expiry /\ faults + o.fault \in 0..MaxFaults
           /\ \A o \in UnblockResults(b, ip) :
                o.entry \in Expiry /\ faults + o.fault \in 0..MaxFaults
           /\ \A o \in IsBlockedResults(b, ip) :
                o.entry \in Expiry /\ faults + o.fault \in 0..MaxFaults
<1>1. firewall[b][ip] \in Expiry /\ Absent \in Expiry /\ faults \in 0..MaxFaults /\ MaxFaults \in Nat
  BY BoundAssumption DEF TypeOK, Expiry
<1>2. \A ttl \in Nat \cup {Never} : EntryAfterBlock(b, ip, ttl) \in Expiry
  BY <1>1 DEF EntryAfterBlock, TypeOK, Expiry, Never, Absent
<1>3. ASSUME NEW ttl \in Nat \cup {Never}, NEW o \in BlockResults(b, ip, ttl)
      PROVE  o.entry \in Expiry /\ faults + o.fault \in 0..MaxFaults
  BY <1>1, <1>2, <1>3 DEF BlockResults, Outcome, MayFault
<1>4. ASSUME NEW o \in UnblockResults(b, ip)
      PROVE  o.entry \in Expiry /\ faults + o.fault \in 0..MaxFaults
  BY <1>1, <1>4 DEF UnblockResults, Outcome, MayFault
<1>5. ASSUME NEW o \in IsBlockedResults(b, ip)
      PROVE  o.entry \in Expiry /\ faults + o.fault \in 0..MaxFaults
  BY <1>1, <1>5 DEF IsBlockedResults, Outcome, MayFault
<1>6. QED
  BY <1>3, <1>4, <1>5

\* The effect of one command keeps the firewall and the fault count typed.
LEMMA CommandType ==
    ASSUME TypeOK, NEW b \in Backend, NEW ip \in IP, NEW o,
           o.entry \in Expiry, faults + o.fault \in 0..MaxFaults, Command(b, ip, o)
    PROVE  firewall' \in [Backend -> [IP -> Expiry]] /\ faults' \in 0..MaxFaults
BY DEF TypeOK, Command

LEMMA NewOperationType ==
    ASSUME NEW kind \in Kind, NEW config \in Backend \cup {"auto"}, NEW at \in Nat,
           NEW state \in BlockState, NEW cand \in [IP -> Candidate \cup {NoCandidate}],
           NEW ips \in SUBSET IP, NEW todo \in SUBSET IP
    PROVE  NewOperation(kind, config, at, state, cand, ips, todo) \in Operation
BY DEF NewOperation, Operation

LEMMA EmptyTypes ==
    /\ NoBlock \in BlockRecord /\ NoTrigger \in TriggerRecord
    /\ EmptyState \in BlockState
    /\ NoCandidates \in [IP -> Candidate \cup {NoCandidate}]
    /\ NoOperation \in Operation
<1>1. NoBlock \in BlockRecord /\ NoTrigger \in TriggerRecord
  BY DEF NoBlock, NoTrigger, BlockRecord, TriggerRecord, Expiry, Backend
<1>2. EmptyState \in BlockState
  BY <1>1 DEF EmptyState, BlockState
<1>3. NoCandidates \in [IP -> Candidate \cup {NoCandidate}]
  BY DEF NoCandidates
<1>4. NoOperation \in Operation
  BY <1>2, <1>3, NewOperationType DEF NoOperation, Kind
<1>5. QED
  BY <1>1, <1>2, <1>3, <1>4

LEMMA InitTypeOK == Init => TypeOK
BY EmptyTypes, BoundAssumption DEF Init, TypeOK, Phase, Expiry

-----------------------------------------------------------------------------
(* Type correctness, action by action.                                      *)

LEMMA TypeBegin ==
    ASSUME TypeOK, NEW p \in Proc,
           \/ BeginScan(p) \/ BeginCleanup(p) \/ LoadState(p)
           \/ \E ip \in IP : BeginUnblock(p, "unblock", {ip})
           \/ BeginUnblock(p, "unblock_all", RecordedIPs(saved))
    PROVE  TypeOK'
<1> USE DEF TypeOK
<1>0. now \in Nat /\ ConfiguredBackends \subseteq Backend \cup {"auto"}
  BY BoundAssumption, BackendAssumption
<1>1. CASE BeginScan(p)
  <2>1. PICK config \in ConfiguredBackends, cand \in [IP -> Candidate \cup {NoCandidate}] :
          op' = [op EXCEPT ![p] = NewOperation("scan", config, now, EmptyState, cand, {}, {})]
    BY <1>1 DEF BeginScan
  <2>a. NewOperation("scan", config, now, EmptyState, cand, {}, {}) \in Operation
    BY <1>0, NewOperationType, EmptyTypes DEF Kind
  <2>2. op' \in [Proc -> Operation]
    BY <2>1, <2>a
  <2>3. scans' \in 0..MaxEvidenceScans
    BY <1>1, BoundAssumption DEF BeginScan
  <2>4. ordered' \in SUBSET IP
    BY <1>1 DEF BeginScan
  <2>5. QED
    BY <1>1, <2>2, <2>3, <2>4 DEF BeginScan, Phase
<1>2. CASE BeginCleanup(p)
  <2> DEFINE todo == {ip \in IP : Expired(saved.blocks[ip], now)}
  <2>1. \A config \in ConfiguredBackends :
          NewOperation("cleanup", config, now, saved, NoCandidates, {}, todo) \in Operation
    BY <1>0, NewOperationType, EmptyTypes DEF Kind
  <2>2. op' \in [Proc -> Operation]
    BY <1>2, <2>1 DEF BeginCleanup
  <2>3. QED
    BY <1>2, <2>2 DEF BeginCleanup, Phase
<1>3. CASE LoadState(p)
  <2>1. [op[p] EXCEPT !.state = saved,
                      !.todo = {ip \in IP : Expired(saved.blocks[ip], op[p].at)}] \in Operation
    BY ZenonT(60) DEF Operation
  <2>2. op' \in [Proc -> Operation]
    BY <1>3, <2>1 DEF LoadState
  <2>3. QED
    BY <1>3, <2>2 DEF LoadState, Phase
<1>4. ASSUME NEW ips \in SUBSET IP, NEW kind \in Kind, BeginUnblock(p, kind, ips)
      PROVE  TypeOK'
  <2>a. \A config \in ConfiguredBackends :
          NewOperation(kind, config, now, saved, NoCandidates, ips, ips) \in Operation
    BY <1>0, <1>4, NewOperationType, EmptyTypes
  <2>1. op' \in [Proc -> Operation]
    BY <1>4, <2>a DEF BeginUnblock
  <2>2. QED
    BY <1>4, <2>1 DEF BeginUnblock, Phase
<1>5. RecordedIPs(saved) \in SUBSET IP /\ {"unblock", "unblock_all"} \subseteq Kind
  BY DEF RecordedIPs, Kind
<1>6. QED
  BY <1>1, <1>2, <1>3, <1>4, <1>5

\* What TypeOK says about the copy of the state that process p works on.
LEMMA CopyType ==
    ASSUME TypeOK, NEW p \in Proc, NEW ip \in IP
    PROVE  /\ op[p] \in Operation /\ op[p].state \in BlockState
           /\ op[p].state.blocks[ip] \in BlockRecord
           /\ op[p].state.blocks[ip].backend \in Backend
           /\ op[p].state.history[ip] \in TriggerRecord
           /\ op[p].cand[ip] \in Candidate \cup {NoCandidate}
           /\ op[p].cand[ip].ttl \in Nat /\ op[p].at \in Nat
           /\ BackendOf(op[p].config) \in Backend
<1>1. op[p] \in Operation /\ op[p].state \in BlockState
  BY DEF TypeOK, Operation
<1>2. op[p].state.blocks[ip] \in BlockRecord /\ op[p].state.history[ip] \in TriggerRecord
  BY <1>1 DEF BlockState
<1>3. op[p].cand[ip] \in Candidate \cup {NoCandidate} /\ op[p].at \in Nat
  BY <1>1 DEF Operation
<1>4. op[p].cand[ip].ttl \in Nat
  BY <1>3, CandidateAssumption DEF NoCandidate
<1>5. QED
  BY <1>1, <1>2, <1>3, <1>4 DEF BlockRecord, BackendOf, Backend

\* The updates of a BlockState keep it typed.
LEMMA StateTypes ==
    ASSUME NEW s \in BlockState, NEW ip \in IP
    PROVE  /\ DropRecord(s, ip) \in BlockState
           /\ ClearHistory(s, ip) \in BlockState
           /\ \A b \in Backend, e \in Nat \cup {Never}, permanent \in BOOLEAN :
                StoreBlock(s, ip, b, permanent, e) \in BlockState
<1>1. DropRecord(s, ip) \in BlockState
  BY EmptyTypes DEF DropRecord, BlockState
<1>2. \A t \in BlockState : ClearHistory(t, ip) \in BlockState
  BY EmptyTypes DEF ClearHistory, BlockState
<1>3. ASSUME NEW b \in Backend, NEW e \in Nat \cup {Never}, NEW permanent \in BOOLEAN
      PROVE  StoreBlock(s, ip, b, permanent, e) \in BlockState
  <2> DEFINE r == [backend |-> b, expires |-> IF permanent THEN Never ELSE e]
  <2>1. r \in BlockRecord
    BY DEF BlockRecord, Expiry
  <2>2. [s EXCEPT !.blocks[ip] = r] \in BlockState
    BY <2>1 DEF BlockState
  <2>3. QED
    BY <1>2, <2>2 DEF StoreBlock
<1>4. QED
  BY <1>1, <1>2, <1>3

\* The steps of a running operation change these fields of its record.
LEMMA OperationUpdate ==
    ASSUME TypeOK, NEW p \in Proc, NEW state \in BlockState, NEW todo \in SUBSET IP,
           NEW decided \in SUBSET IP, NEW writes \in Nat
    PROVE  /\ [op EXCEPT ![p].todo = todo, ![p].state = state] \in [Proc -> Operation]
           /\ [op EXCEPT ![p].todo = todo, ![p].writes = writes, ![p].state = state]
                \in [Proc -> Operation]
           /\ [op EXCEPT ![p].state = state, ![p].decided = decided, ![p].todo = todo]
                \in [Proc -> Operation]
           /\ op[p].writes + 1 \in Nat /\ op[p].todo \in SUBSET IP
<1>1. op[p] \in Operation /\ op \in [Proc -> Operation]
  BY DEF TypeOK
<1>2. /\ [op[p] EXCEPT !.todo = todo, !.state = state] \in Operation
      /\ [op[p] EXCEPT !.todo = todo, !.writes = writes, !.state = state] \in Operation
      /\ [op[p] EXCEPT !.state = state, !.decided = decided, !.todo = todo] \in Operation
      /\ op[p].writes \in Nat /\ op[p].todo \in SUBSET IP
  BY <1>1 DEF Operation
<1>3. QED
  BY <1>1, <1>2

LEMMA TypeSynchronize ==
    ASSUME TypeOK, NEW p \in Proc, ExpireBlock(p) \/ BeginCheck(p) \/ CheckBlock(p)
    PROVE  TypeOK'
<1>1. CASE ExpireBlock(p)
  <2>1. PICK ip, o :
          /\ ip \in IP /\ o \in UnblockResults(op[p].state.blocks[ip].backend, ip)
          /\ Command(op[p].state.blocks[ip].backend, ip, o)
          /\ op' = [op EXCEPT
                     ![p].todo = @ \ {ip},
                     ![p].state = IF o.res = "err" THEN @ ELSE DropRecord(@, ip)]
    BY <1>1 DEF ExpireBlock
  <2>2. firewall' \in [Backend -> [IP -> Expiry]] /\ faults' \in 0..MaxFaults
    BY <2>1, CopyType, ResultTypes, CommandType
  <2> DEFINE t == IF o.res = "err" THEN op[p].state ELSE DropRecord(op[p].state, ip)
  <2>3. t \in BlockState
    BY <2>1, CopyType, StateTypes
  <2>4. op' = [op EXCEPT ![p].todo = op[p].todo \ {ip}, ![p].state = t]
    BY <2>1
  <2>5. op' \in [Proc -> Operation]
    BY <2>3, <2>4, OperationUpdate, ZenonT(60) DEF TypeOK, Operation
  <2>6. QED
    BY <1>1, <2>2, <2>5 DEF ExpireBlock, TypeOK
<1>2. CASE BeginCheck(p)
  <2>1. [op[p] EXCEPT !.todo = RecordedIPs(op[p].state)] \in Operation
    BY ZenonT(60) DEF TypeOK, Operation, RecordedIPs
  <2>2. QED
    BY <1>2, <2>1 DEF BeginCheck, TypeOK, Phase
<1>3. CASE CheckBlock(p)
  <2>1. PICK ip, o :
          /\ ip \in IP /\ o \in IsBlockedResults(op[p].state.blocks[ip].backend, ip)
          /\ Command(op[p].state.blocks[ip].backend, ip, o)
          /\ op' = [op EXCEPT
                     ![p].todo = @ \ {ip},
                     ![p].state = IF o.res = "false" THEN DropRecord(@, ip) ELSE @]
    BY <1>3 DEF CheckBlock
  <2>2. firewall' \in [Backend -> [IP -> Expiry]] /\ faults' \in 0..MaxFaults
    BY <2>1, CopyType, ResultTypes, CommandType
  <2> DEFINE t == IF o.res = "false" THEN DropRecord(op[p].state, ip) ELSE op[p].state
  <2>3. t \in BlockState
    BY <2>1, CopyType, StateTypes
  <2>4. op' = [op EXCEPT ![p].todo = op[p].todo \ {ip}, ![p].state = t]
    BY <2>1
  <2>5. op' \in [Proc -> Operation]
    BY <2>3, <2>4, OperationUpdate, ZenonT(60) DEF TypeOK, Operation
  <2>6. QED
    BY <1>3, <2>2, <2>5 DEF CheckBlock, TypeOK
<1>4. QED
  BY <1>1, <1>2, <1>3

LEMMA TypeDecide ==
    ASSUME TypeOK, NEW p \in Proc, Decide(p)
    PROVE  TypeOK'
<1> DEFINE at == op[p].at
           cand == op[p].cand
           pruned == PruneTriggerHistory(op[p].state.history, at)
           counted == IF PermanentBlockEnabled
                      THEN {ip \in IP : cand[ip].action \in {"block", "permanent_block"}}
                      ELSE {}
           history == [ip \in IP |-> IF ip \in counted THEN CountTrigger(pruned[ip], at)
                                     ELSE pruned[ip]]
           state == [op[p].state EXCEPT !.history = history]
           decided == {ip \in counted : history[ip].count >= cand[ip].after}
           todo == {ip \in IP : cand[ip] # NoCandidate}
<1>1. at \in Nat /\ op[p].state \in BlockState /\ counted \in SUBSET IP
  BY DEF TypeOK, Operation
<1>2. \A ip \in IP : pruned[ip] \in TriggerRecord
  BY <1>1, EmptyTypes DEF PruneTriggerHistory, BlockState
<1>3. \A t \in TriggerRecord : CountTrigger(t, at) \in TriggerRecord
  BY <1>1 DEF CountTrigger, TriggerRecord
<1>4. history \in [IP -> TriggerRecord]
  BY <1>2, <1>3
<1>5. state \in BlockState
  BY <1>1, <1>4, SMTT(30) DEF BlockState
<1>6. op' = [op EXCEPT ![p].state = state, ![p].decided = decided, ![p].todo = todo]
  BY DEF Decide
<1>7. op' \in [Proc -> Operation]
  <2>1. decided \in SUBSET IP /\ todo \in SUBSET IP
    BY <1>1
  <2> HIDE DEF state, decided, todo
  <2>2. QED
    BY <1>5, <1>6, <2>1, OperationUpdate, 0 \in Nat, ZenonT(60)
<1>8. triggers' \in [IP -> Seq(Nat)]
  <2>1. triggers' = [ip \in IP |-> IF ip \in counted THEN Append(triggers[ip], at)
                                   ELSE triggers[ip]]
    BY DEF Decide
  <2> HIDE DEF counted, at
  <2>2. QED
    BY <1>1, <2>1, SMTT(30) DEF TypeOK
<1>9. QED
  BY <1>7, <1>8 DEF Decide, TypeOK, Phase

LEMMA TypeApply ==
    ASSUME TypeOK, NEW p \in Proc,
           SkipCandidate(p) \/ BlockNew(p) \/ PromoteUnblock(p) \/ PromoteBlock(p)
    PROVE  TypeOK'
<1>0. op[p].writes + 1 \in Nat /\ op[p].todo \in SUBSET IP /\ op[p].writes \in Nat
  BY DEF TypeOK, Operation
<1>1. CASE SkipCandidate(p)
  <2>1. PICK ip \in IP : \E t \in {op[p].state, ClearHistory(op[p].state, ip)} :
          op' = [op EXCEPT ![p].todo = op[p].todo \ {ip}, ![p].state = t]
    BY <1>1 DEF SkipCandidate
  <2>a. op[p].state \in BlockState /\ ClearHistory(op[p].state, ip) \in BlockState
    BY CopyType, StateTypes
  <2>b. PICK t \in BlockState :
          op' = [op EXCEPT ![p].todo = op[p].todo \ {ip}, ![p].state = t]
    BY <2>1, <2>a
  <2>2. op' \in [Proc -> Operation]
    BY <1>0, <2>b, OperationUpdate
  <2>3. QED
    BY <1>1, <2>2 DEF SkipCandidate, TypeOK
<1>2. CASE BlockNew(p)
  <2> DEFINE b == BackendOf(op[p].config)
  <2>1. PICK ip \in IP :
          \E o \in BlockResults(b, ip, IF ShouldPermanentBlock(p, ip) THEN Never
                                        ELSE op[p].cand[ip].ttl) :
            /\ Command(b, ip, o)
            /\ op' = [op EXCEPT
                 ![p].todo = op[p].todo \ {ip}, ![p].writes = op[p].writes + 1,
                 ![p].state = IF o.res = "ok"
                              THEN StoreBlock(op[p].state, ip, b, ShouldPermanentBlock(p, ip),
                                              op[p].at + op[p].cand[ip].ttl)
                              ELSE op[p].state]
    BY <1>2 DEF BlockNew
  <2> DEFINE ttl == IF ShouldPermanentBlock(p, ip) THEN Never ELSE op[p].cand[ip].ttl
             stored == StoreBlock(op[p].state, ip, b, ShouldPermanentBlock(p, ip),
                                  op[p].at + op[p].cand[ip].ttl)
  <2>2. b \in Backend /\ ttl \in Nat \cup {Never} /\ op[p].state \in BlockState
    BY CopyType
  <2>3. stored \in BlockState
    <3>1. op[p].at + op[p].cand[ip].ttl \in Nat
      BY CopyType
    <3>2. ShouldPermanentBlock(p, ip) \in BOOLEAN
      BY DEF ShouldPermanentBlock
    <3>3. QED
      BY <2>2, <3>1, <3>2, StateTypes
  <2> HIDE DEF b, ttl, stored
  <2>4. PICK o \in BlockResults(b, ip, ttl) :
          /\ Command(b, ip, o)
          /\ op' = [op EXCEPT
                 ![p].todo = op[p].todo \ {ip}, ![p].writes = op[p].writes + 1,
                 ![p].state = IF o.res = "ok" THEN stored ELSE op[p].state]
    BY <2>1 DEF b, ttl, stored
  <2>5. firewall' \in [Backend -> [IP -> Expiry]] /\ faults' \in 0..MaxFaults
    BY <2>2, <2>4, ResultTypes, CommandType
  <2>6. op' \in [Proc -> Operation]
    <3>1. PICK t : t \in {stored, op[p].state} /\
            op' = [op EXCEPT ![p].todo = op[p].todo \ {ip},
                             ![p].writes = op[p].writes + 1, ![p].state = t]
      BY <2>4
    <3>2. t \in BlockState
      BY <3>1, <2>2, <2>3
    <3>3. op[p].todo \ {ip} \in SUBSET IP /\ op[p].writes + 1 \in Nat
      BY <1>0
    <3>4. [op EXCEPT ![p].todo = op[p].todo \ {ip}, ![p].writes = op[p].writes + 1,
                     ![p].state = t] \in [Proc -> Operation]
      BY <3>2, <3>3, OperationUpdate, Zenon
    <3>5. QED
      BY <3>1, <3>4
  <2>7. QED
    BY <1>2, <2>5, <2>6, ZenonT(60) DEF BlockNew, TypeOK
<1>3. CASE PromoteUnblock(p)
  <2> DEFINE b == BackendOf(op[p].config)
  <2>1. PICK ip \in IP : \E o \in UnblockResults(b, ip) :
          /\ Command(b, ip, o)
          /\ op' = [op EXCEPT ![p].writes = op[p].writes + 1,
                ![p].todo = IF o.res = "err" THEN op[p].todo \ {ip} ELSE op[p].todo]
          /\ pc' = [pc EXCEPT ![p] = IF o.res = "err" THEN pc[p] ELSE "promote"]
    BY <1>3 DEF PromoteUnblock
  <2>2. b \in Backend /\ op[p].state \in BlockState
    BY CopyType
  <2> HIDE DEF b
  <2>3. firewall' \in [Backend -> [IP -> Expiry]] /\ faults' \in 0..MaxFaults
    BY <2>1, <2>2, ResultTypes, CommandType
  <2>4. op' \in [Proc -> Operation]
    <3>1. PICK o : op' = [op EXCEPT ![p].writes = op[p].writes + 1,
                ![p].todo = IF o.res = "err" THEN op[p].todo \ {ip} ELSE op[p].todo]
      BY <2>1
    <3> DEFINE todo == IF o.res = "err" THEN op[p].todo \ {ip} ELSE op[p].todo
    <3>2. todo \in SUBSET IP /\ op' = [op EXCEPT ![p].writes = op[p].writes + 1, ![p].todo = todo]
      BY <1>0, <3>1
    <3> HIDE DEF todo
    <3>3. [op[p] EXCEPT !.writes = op[p].writes + 1, !.todo = todo] \in Operation
      BY <1>0, <3>2, ZenonT(60) DEF TypeOK, Operation
    <3>4. QED
      BY <3>2, <3>3 DEF TypeOK
  <2>5. pc' \in [Proc -> Phase]
    BY <2>1 DEF TypeOK, Phase
  <2>6. QED
    BY <1>3, <2>3, <2>4, <2>5 DEF PromoteUnblock, TypeOK
<1>4. CASE PromoteBlock(p)
  <2> DEFINE b == BackendOf(op[p].config)
  <2>1. PICK ip \in IP : \E o \in BlockResults(b, ip, Never) :
          /\ Command(b, ip, o)
          /\ op' = [op EXCEPT
               ![p].todo = op[p].todo \ {ip},
               ![p].state = IF o.res = "ok" THEN StoreBlock(op[p].state, ip, b, TRUE, Never)
                            ELSE op[p].state]
    BY <1>4 DEF PromoteBlock
  <2>2. b \in Backend /\ op[p].state \in BlockState
    BY CopyType
  <2>3. StoreBlock(op[p].state, ip, b, TRUE, Never) \in BlockState
    BY <2>2, StateTypes
  <2> HIDE DEF b
  <2>4. firewall' \in [Backend -> [IP -> Expiry]] /\ faults' \in 0..MaxFaults
    BY <2>1, <2>2, ResultTypes, CommandType
  <2>a. PICK t \in BlockState :
          op' = [op EXCEPT ![p].todo = op[p].todo \ {ip}, ![p].state = t]
    BY <2>1, <2>2, <2>3
  <2>5. op' \in [Proc -> Operation]
    BY <1>0, <2>a, OperationUpdate
  <2>6. QED
    BY <1>4, <2>4, <2>5 DEF PromoteBlock, TypeOK, Phase
<1>5. QED
  BY <1>1, <1>2, <1>3, <1>4

LEMMA TypeUnblock ==
    ASSUME TypeOK, NEW p \in Proc, UnblockIP(p)
    PROVE  TypeOK'
<1> DEFINE avail == AvailableForUnblock(op[p].config)
<1>1. PICK ip \in IP :
        \E o \in [avail -> UNION {UnblockResults(b, ip) : b \in avail}] :
          LET failed == UnblockFails(avail, o)
              used == Cardinality({b \in avail : o[b].fault = 1})
          IN  /\ \A b \in avail : o[b] \in UnblockResults(b, ip)
              /\ faults + used <= MaxFaults
              /\ faults' = faults + used
              /\ firewall' = [b \in Backend |->
                   IF b \in avail THEN [firewall[b] EXCEPT ![ip] = o[b].entry]
                   ELSE firewall[b]]
              /\ op' = [op EXCEPT ![p].todo = op[p].todo \ {ip},
                   ![p].state = IF failed THEN op[p].state
                                ELSE ClearHistory(DropRecord(op[p].state, ip), ip)]
              /\ pc' = [pc EXCEPT ![p] =
                   IF failed /\ op[p].kind = "unblock" THEN "idle" ELSE pc[p]]
  BY DEF UnblockIP
<1>a. PICK o :
        /\ \A b \in avail : o[b] \in UnblockResults(b, ip)
        /\ faults + Cardinality({b \in avail : o[b].fault = 1}) <= MaxFaults
        /\ faults' = faults + Cardinality({b \in avail : o[b].fault = 1})
        /\ firewall' = [b \in Backend |->
             IF b \in avail THEN [firewall[b] EXCEPT ![ip] = o[b].entry] ELSE firewall[b]]
        /\ op' = [op EXCEPT ![p].todo = op[p].todo \ {ip},
             ![p].state = IF UnblockFails(avail, o) THEN op[p].state
                          ELSE ClearHistory(DropRecord(op[p].state, ip), ip)]
        /\ pc' = [pc EXCEPT ![p] =
             IF UnblockFails(avail, o) /\ op[p].kind = "unblock" THEN "idle" ELSE pc[p]]
  BY <1>1, Zenon
<1>2. avail \subseteq Backend
  BY DEF AvailableForUnblock, TypeOK, Operation, Backend
<1> HIDE DEF avail
<1>3. Cardinality({b \in avail : o[b].fault = 1}) \in Nat
  <2>1. IsFiniteSet(Backend)
    <3>1. IsFiniteSet({"nftables"}) /\ Backend = {"nftables"} \cup {"iptables"}
      BY FS_Singleton DEF Backend
    <3>2. QED
      BY <3>1, FS_AddElement
  <2>2. IsFiniteSet({b \in avail : o[b].fault = 1})
    BY <1>2, <2>1, FS_Subset
  <2>3. QED
    BY <2>2, FS_CardinalityType
<1>4. faults' \in 0..MaxFaults
  BY <1>a, <1>3, BoundAssumption DEF TypeOK
<1>5. \A b \in avail : o[b].entry \in Expiry
  BY <1>a, <1>2, ResultTypes
<1>6. firewall' \in [Backend -> [IP -> Expiry]]
  BY <1>a, <1>5 DEF TypeOK
<1>7. PICK t \in BlockState : op' = [op EXCEPT ![p].todo = op[p].todo \ {ip}, ![p].state = t]
  <2>1. op[p].state \in BlockState /\ ClearHistory(DropRecord(op[p].state, ip), ip) \in BlockState
    BY CopyType, StateTypes
  <2>2. QED
    BY <1>a, <2>1
<1>8. op' \in [Proc -> Operation]
  <2>1. op[p].todo \ {ip} \in SUBSET IP
    BY DEF TypeOK, Operation
  <2>2. QED
    BY <1>7, <2>1, OperationUpdate, 0 \in Nat, ZenonT(60)
<1>9. pc' \in [Proc -> Phase]
  BY <1>a DEF TypeOK, Phase
<1>10. QED
  BY <1>4, <1>6, <1>8, <1>9 DEF UnblockIP, TypeOK

LEMMA TypeEnd ==
    ASSUME TypeOK, NEW p \in Proc,
           EndCleanup(p) \/ EndApply(p) \/ EndUnblock(p) \/ SaveState(p) \/ Crash(p)
    PROVE  TypeOK'
<1>1. CASE EndCleanup(p) \/ EndApply(p) \/ EndUnblock(p)
  BY <1>1 DEF EndCleanup, EndApply, EndUnblock, TypeOK, Phase
<1>2. CASE SaveState(p)
  BY <1>2, CopyType, EmptyTypes DEF SaveState, TypeOK, Phase, Operation
<1>3. CASE Crash(p)
  BY <1>3, EmptyTypes, BoundAssumption DEF Crash, MayFault, TypeOK, Phase
<1>4. QED
  BY <1>1, <1>2, <1>3

LEMMA TypeEnvironment ==
    ASSUME TypeOK, Reboot \/ Tick
    PROVE  TypeOK'
<1>1. CASE Reboot
  BY <1>1, EmptyTypes, BoundAssumption DEF Reboot, MayFault, TypeOK, Phase, Expiry
<1>2. CASE Tick
  BY <1>2, BoundAssumption DEF Tick, TypeOK, Expiry
<1>3. QED
  BY <1>1, <1>2

LEMMA NextTypeOK == TypeOK /\ [Next]_vars => TypeOK'
<1> SUFFICES ASSUME TypeOK, [Next]_vars PROVE TypeOK'
  OBVIOUS
<1>1. CASE Next
  <2>1. ASSUME NEW p \in Scanner, BeginScan(p) PROVE TypeOK'
    BY <2>1, TypeBegin DEF Proc
  <2>2. ASSUME NEW p \in Operator,
               \/ BeginCleanup(p) \/ \E ip \in IP : BeginUnblock(p, "unblock", {ip})
               \/ BeginUnblock(p, "unblock_all", RecordedIPs(saved))
        PROVE  TypeOK'
    BY <2>2, TypeBegin DEF Proc
  <2>3. ASSUME NEW p \in Proc, Step(p) \/ Crash(p) PROVE TypeOK'
    BY <2>3, TypeBegin, TypeSynchronize, TypeDecide, TypeApply, TypeUnblock, TypeEnd DEF Step
  <2>4. QED
    BY <1>1, <2>1, <2>2, <2>3, TypeEnvironment DEF Next
<1>2. CASE UNCHANGED vars
  BY <1>2 DEF vars, TypeOK
<1>3. QED
  BY <1>1, <1>2

\* The model is type correct for every value of the constants: in particular
\* every record names a known firewall backend, whatever fails in between.
THEOREM TypeCorrect == Spec => []TypeOK
BY InitTypeOK, NextTypeOK, PTL DEF Spec

-----------------------------------------------------------------------------
(***************************************************************************)
(* PermanentJustified.  EvidenceInv speaks about several copies of the     *)
(* state, some of them primed; the operators below take the state and the  *)
(* evidence (triggers, ordered, now) as arguments.                         *)
(***************************************************************************)

JustifiedBy(ip, tr, od, n) ==
    \/ ip \in od
    \/ \E c \in Candidate, f \in 0..n : Cardinality(InWindow(tr[ip], f)) >= c.after

StateJ(s, tr, od, n) ==
    \A ip \in IP :
        /\ s.blocks[ip].expires = Never => JustifiedBy(ip, tr, od, n)
        /\ s.history[ip].first <= n
        /\ s.history[ip].count <= Cardinality(InWindow(tr[ip], s.history[ip].first))

OpJ(o, phase, tr, od, n) ==
    /\ StateJ(o.state, tr, od, n)
    /\ o.at <= n
    /\ \A ip \in IP :
        LET permanent == o.cand[ip].action = "permanent_block" \/ ip \in o.decided
        IN  /\ permanent => JustifiedBy(ip, tr, od, n)
            /\ phase = "promote" /\ ip \in o.todo /\ (\A j \in o.todo : ip <= j) => permanent

Evidence == [IP -> Seq(Nat)]

Grows(tr, od, n, tr2, od2, n2) ==
    /\ n <= n2 /\ od \subseteq od2
    /\ \A ip \in IP : tr2[ip] = tr[ip] \/ \E t \in Nat : tr2[ip] = Append(tr[ip], t)

LEMMA EvidenceInvUnfold ==
    /\ EvidenceInv <=> /\ StateJ(saved, triggers, ordered, now)
                       /\ \A p \in Proc : OpJ(op[p], pc[p], triggers, ordered, now)
    /\ EvidenceInv' <=> /\ StateJ(saved', triggers', ordered', now')
                        /\ \A p \in Proc : OpJ(op'[p], pc'[p], triggers', ordered', now')
BY DEF EvidenceInv, JustifiedState, JustifiedOperation, Justified, ShouldPermanentBlock, NextIP,
       StateJ, OpJ, JustifiedBy

\* Counting one more trigger never loses one, and gains one if the new trigger
\* falls into the window.
LEMMA WindowAppend ==
    ASSUME NEW s \in Seq(Nat), NEW t \in Nat, NEW f \in Nat
    PROVE  /\ Cardinality(InWindow(s, f)) \in Nat
           /\ Cardinality(InWindow(s, f)) <= Cardinality(InWindow(Append(s, t), f))
           /\ f <= t /\ t <= f + PermanentBlockWindow =>
                Cardinality(InWindow(Append(s, t), f)) = Cardinality(InWindow(s, f)) + 1
<1> DEFINE old == InWindow(s, f)
           new == InWindow(Append(s, t), f)
           i == Len(s) + 1
<1>0. PermanentBlockWindow \in Nat
  BY BoundAssumption
<1>1. IsFiniteSet(old) /\ i \notin old
  <2>1. old \subseteq 1..Len(s)
    BY DEF InWindow
  <2>2. QED
    BY <2>1, FS_Interval, FS_Subset
<1>2. IF f <= t /\ t <= f + PermanentBlockWindow THEN new = old \cup {i} ELSE new = old
  <2>1. DOMAIN Append(s, t) = (DOMAIN s) \cup {i} /\ i \notin DOMAIN s
    OBVIOUS
  <2>2. Append(s, t)[i] = t /\ \A j \in DOMAIN s : Append(s, t)[j] = s[j]
    OBVIOUS
  <2>3. QED
    BY <2>1, <2>2 DEF InWindow
<1>3. Cardinality(old) \in Nat /\ Cardinality(old \cup {i}) = Cardinality(old) + 1
  BY <1>1, FS_CardinalityType, FS_AddElement
<1> HIDE DEF old, new, i
<1>4. Cardinality(old) <= Cardinality(new)
  <2>1. new = old \cup {i} \/ new = old
    BY <1>2
  <2>2. Cardinality(new) = Cardinality(old) + 1 \/ Cardinality(new) = Cardinality(old)
    BY <1>3, <2>1, Zenon
  <2>3. QED
    BY <1>3, <2>2
<1>5. f <= t /\ t <= f + PermanentBlockWindow => Cardinality(new) = Cardinality(old) + 1
  BY <1>2, <1>3
<1>6. QED
  BY <1>3, <1>4, <1>5 DEF old, new

LEMMA JustifiedByGrows ==
    ASSUME NEW tr \in Evidence, NEW tr2 \in Evidence, NEW n \in Nat, NEW n2 \in Nat,
           NEW od, NEW od2, Grows(tr, od, n, tr2, od2, n2), NEW ip \in IP
    PROVE  /\ JustifiedBy(ip, tr, od, n) => JustifiedBy(ip, tr2, od2, n2)
           /\ \A f \in Nat : Cardinality(InWindow(tr[ip], f)) <= Cardinality(InWindow(tr2[ip], f))
<1>1. \A f \in Nat : /\ Cardinality(InWindow(tr[ip], f)) \in Nat
                     /\ Cardinality(InWindow(tr2[ip], f)) \in Nat
                     /\ Cardinality(InWindow(tr[ip], f)) <= Cardinality(InWindow(tr2[ip], f))
  <2>1. tr[ip] \in Seq(Nat) /\ tr2[ip] \in Seq(Nat)
    BY DEF Evidence
  <2>2. tr2[ip] = tr[ip] \/ \E t \in Nat : tr2[ip] = Append(tr[ip], t)
    BY DEF Grows
  <2>3. \A f \in Nat : /\ Cardinality(InWindow(tr[ip], f)) \in Nat
                       /\ Cardinality(InWindow(tr2[ip], f)) \in Nat
    BY <2>1, WindowAppend, 0 \in Nat
  <2>4. CASE tr2[ip] = tr[ip]
    BY <2>3, <2>4
  <2>5. ASSUME NEW t \in Nat, tr2[ip] = Append(tr[ip], t), NEW f \in Nat
        PROVE  Cardinality(InWindow(tr[ip], f)) <= Cardinality(InWindow(tr2[ip], f))
    BY <2>1, <2>5, WindowAppend
  <2>6. QED
    BY <2>2, <2>3, <2>4, <2>5
<1>2. \A c \in Candidate : c.after \in Nat
  BY CandidateAssumption
<1>3. ASSUME NEW c \in Candidate, NEW f \in 0..n, Cardinality(InWindow(tr[ip], f)) >= c.after
      PROVE  JustifiedBy(ip, tr2, od2, n2)
  <2>1. f \in 0..n2 /\ f \in Nat
    BY DEF Grows
  <2>2. Cardinality(InWindow(tr2[ip], f)) >= c.after
    BY <1>1, <1>2, <1>3, <2>1
  <2>3. QED
    BY <2>1, <2>2 DEF JustifiedBy
<1>4. QED
  BY <1>1, <1>3 DEF JustifiedBy, Grows

LEMMA StateJGrows ==
    ASSUME NEW tr \in Evidence, NEW tr2 \in Evidence, NEW n \in Nat, NEW n2 \in Nat,
           NEW od, NEW od2, Grows(tr, od, n, tr2, od2, n2),
           NEW s \in BlockState, StateJ(s, tr, od, n)
    PROVE  StateJ(s, tr2, od2, n2)
<1> SUFFICES ASSUME NEW ip \in IP
             PROVE  /\ s.blocks[ip].expires = Never => JustifiedBy(ip, tr2, od2, n2)
                    /\ s.history[ip].first <= n2
                    /\ s.history[ip].count <= Cardinality(InWindow(tr2[ip], s.history[ip].first))
  BY DEF StateJ
<1>1. s.history[ip].first \in Nat /\ s.history[ip].count \in Nat
  BY DEF BlockState, TriggerRecord
<1>2. /\ s.history[ip].first <= n
      /\ s.history[ip].count <= Cardinality(InWindow(tr[ip], s.history[ip].first))
      /\ s.blocks[ip].expires = Never => JustifiedBy(ip, tr, od, n)
  BY DEF StateJ
<1>3. Cardinality(InWindow(tr[ip], s.history[ip].first)) \in Nat
      /\ Cardinality(InWindow(tr2[ip], s.history[ip].first)) \in Nat
  BY <1>1, WindowAppend, 0 \in Nat DEF Evidence
<1>4. Cardinality(InWindow(tr[ip], s.history[ip].first))
        <= Cardinality(InWindow(tr2[ip], s.history[ip].first))
  BY <1>1, JustifiedByGrows
<1>5. s.history[ip].count <= Cardinality(InWindow(tr2[ip], s.history[ip].first))
  BY <1>1, <1>2, <1>3, <1>4
<1>6. s.history[ip].first <= n2
  BY <1>1, <1>2 DEF Grows
<1>7. QED
  BY <1>2, <1>5, <1>6, JustifiedByGrows

LEMMA OpJGrows ==
    ASSUME NEW tr \in Evidence, NEW tr2 \in Evidence, NEW n \in Nat, NEW n2 \in Nat,
           NEW od, NEW od2, Grows(tr, od, n, tr2, od2, n2),
           NEW o \in Operation, NEW phase, OpJ(o, phase, tr, od, n)
    PROVE  OpJ(o, phase, tr2, od2, n2)
<1>1. o.state \in BlockState /\ o.at \in Nat
  BY DEF Operation
<1>2. StateJ(o.state, tr2, od2, n2)
  BY <1>1, StateJGrows DEF OpJ
<1>3. o.at <= n2
  BY <1>1 DEF OpJ, Grows
<1>4. QED
  BY <1>2, <1>3, JustifiedByGrows DEF OpJ

\* The updates of a BlockState keep it justified, a permanent block given that
\* its address is.
LEMMA StateJUpdates ==
    ASSUME NEW tr \in Evidence, NEW n \in Nat, NEW od, NEW s \in BlockState,
           StateJ(s, tr, od, n), NEW ip \in IP
    PROVE  /\ StateJ(DropRecord(s, ip), tr, od, n)
           /\ StateJ(ClearHistory(s, ip), tr, od, n)
           /\ \A b \in Backend, permanent \in BOOLEAN, e \in Nat \cup {Never} :
                /\ permanent => JustifiedBy(ip, tr, od, n)
                /\ e = Never => permanent
                => StateJ(StoreBlock(s, ip, b, permanent, e), tr, od, n)
<1>1. StateJ(DropRecord(s, ip), tr, od, n)
  BY DEF StateJ, DropRecord, NoBlock, BlockState, Never, Absent
<1>2. ASSUME NEW t \in BlockState, StateJ(t, tr, od, n)
      PROVE  StateJ(ClearHistory(t, ip), tr, od, n)
  <2>1. Cardinality(InWindow(tr[ip], 0)) \in Nat
    BY WindowAppend, 0 \in Nat DEF Evidence
  <2>2. QED
    BY <1>2, <2>1 DEF StateJ, ClearHistory, NoTrigger, BlockState
<1>3. ASSUME NEW b \in Backend, NEW permanent \in BOOLEAN, NEW e \in Nat \cup {Never},
             permanent => JustifiedBy(ip, tr, od, n), e = Never => permanent
      PROVE  StateJ(StoreBlock(s, ip, b, permanent, e), tr, od, n)
  <2> DEFINE r == [backend |-> b, expires |-> IF permanent THEN Never ELSE e]
             stored == [s EXCEPT !.blocks[ip] = r]
  <2>1. stored \in BlockState
    BY DEF BlockState, BlockRecord, Expiry
  <2>2. r.expires = Never => JustifiedBy(ip, tr, od, n)
    BY <1>3
  <2> HIDE DEF r
  <2>3. StateJ(stored, tr, od, n)
    BY <2>2 DEF StateJ, BlockState
  <2>4. QED
    BY <1>2, <2>1, <2>3 DEF StoreBlock, r
<1>4. QED
  BY <1>1, <1>2, <1>3

LEMMA EmptyStateJ ==
    ASSUME NEW tr \in Evidence, NEW n \in Nat, NEW od
    PROVE  StateJ(EmptyState, tr, od, n)
<1>1. \A ip \in IP : Cardinality(InWindow(tr[ip], 0)) \in Nat
  BY WindowAppend, 0 \in Nat DEF Evidence
<1>2. QED
  BY <1>1 DEF StateJ, EmptyState, NoBlock, NoTrigger, Never, Absent

\* A step of process p preserves EvidenceInv if the evidence only grows and the
\* new copies of the state are justified.
LEMMA StepJ ==
    ASSUME TypeOK, TypeOK', EvidenceInv, NEW p \in Proc,
           \A q \in Proc : q # p => op'[q] = op[q] /\ pc'[q] = pc[q],
           Grows(triggers, ordered, now, triggers', ordered', now'),
           saved' = saved \/ StateJ(saved', triggers', ordered', now'),
           OpJ(op'[p], pc'[p], triggers', ordered', now')
    PROVE  EvidenceInv'
<1>1. /\ triggers \in Evidence /\ triggers' \in Evidence /\ now \in Nat /\ now' \in Nat
      /\ saved \in BlockState /\ op \in [Proc -> Operation]
  BY BoundAssumption DEF TypeOK, Evidence
<1>2. /\ StateJ(saved, triggers, ordered, now)
      /\ \A q \in Proc : OpJ(op[q], pc[q], triggers, ordered, now)
  BY EvidenceInvUnfold
<1>3. StateJ(saved', triggers', ordered', now')
  BY <1>1, <1>2, StateJGrows
<1>4. ASSUME NEW q \in Proc PROVE OpJ(op'[q], pc'[q], triggers', ordered', now')
  <2>1. CASE q = p
    BY <2>1
  <2>2. CASE q # p
    BY <1>1, <1>2, <2>2, OpJGrows
  <2>3. QED
    BY <2>1, <2>2
<1>5. QED
  BY <1>3, <1>4, EvidenceInvUnfold

\* The same for a step that leaves the evidence and the saved state alone and
\* changes only the state copy and the loop variables of p's operation.
LEMMA CopyStepJ ==
    ASSUME TypeOK, TypeOK', EvidenceInv, NEW p \in Proc,
           \A q \in Proc : q # p => op'[q] = op[q] /\ pc'[q] = pc[q],
           UNCHANGED <<now, triggers, ordered, saved>>,
           op'[p].at = op[p].at, op'[p].cand = op[p].cand, op'[p].decided = op[p].decided,
           StateJ(op'[p].state, triggers, ordered, now),
           pc'[p] = "promote" => \A ip \in IP :
               /\ ip \in op'[p].todo /\ (\A j \in op'[p].todo : ip <= j)
               => ShouldPermanentBlock(p, ip)
    PROVE  EvidenceInv'
<1>1. OpJ(op[p], pc[p], triggers, ordered, now)
  BY EvidenceInvUnfold
<1>2. OpJ(op'[p], pc'[p], triggers, ordered, now)
  BY <1>1 DEF OpJ, ShouldPermanentBlock
<1>3. Grows(triggers, ordered, now, triggers', ordered', now')
  BY BoundAssumption DEF Grows, TypeOK
<1>4. QED
  BY <1>2, <1>3, StepJ

-----------------------------------------------------------------------------
(* EvidenceInv, action by action.                                           *)

LEMMA EvidenceFacts ==
    ASSUME TypeOK, EvidenceInv
    PROVE  /\ triggers \in Evidence /\ now \in Nat /\ saved \in BlockState
           /\ StateJ(saved, triggers, ordered, now)
           /\ \A p \in Proc : /\ op[p] \in Operation /\ op[p].state \in BlockState
                               /\ OpJ(op[p], pc[p], triggers, ordered, now)
                               /\ StateJ(op[p].state, triggers, ordered, now)
<1>1. /\ StateJ(saved, triggers, ordered, now)
      /\ \A p \in Proc : OpJ(op[p], pc[p], triggers, ordered, now)
  BY EvidenceInvUnfold
<1>2. triggers \in Evidence /\ now \in Nat /\ saved \in BlockState
  BY BoundAssumption DEF TypeOK, Evidence
<1>3. \A p \in Proc : op[p] \in Operation /\ op[p].state \in BlockState
  BY DEF TypeOK, Operation
<1>4. QED
  BY <1>1, <1>2, <1>3 DEF OpJ

LEMMA EvidenceBegin ==
    ASSUME TypeOK, TypeOK', EvidenceInv, NEW p \in Proc,
           \/ BeginScan(p) \/ BeginCleanup(p)
           \/ \E ip \in IP : BeginUnblock(p, "unblock", {ip})
           \/ BeginUnblock(p, "unblock_all", RecordedIPs(saved))
    PROVE  EvidenceInv'
<1>0. p \in Proc /\ op \in [Proc -> Operation] /\ pc \in [Proc -> Phase]
  BY DEF TypeOK
<1>1. CASE BeginScan(p)
  <2>1. PICK config, cand :
          /\ op' = [op EXCEPT ![p] = NewOperation("scan", config, now, EmptyState, cand, {}, {})]
          /\ ordered' = ordered \cup {ip \in IP : cand[ip].action = "permanent_block"}
          /\ pc' = [pc EXCEPT ![p] = "load"]
          /\ UNCHANGED <<now, saved, triggers>>
    BY <1>1, Zenon DEF BeginScan
  <2>2. Grows(triggers, ordered, now, triggers', ordered', now')
    BY <2>1, EvidenceFacts DEF Grows
  <2>3. OpJ(op'[p], pc'[p], triggers', ordered', now')
    BY <1>0, <2>1, EmptyStateJ, EvidenceFacts DEF OpJ, NewOperation, JustifiedBy
  <2>4. QED
    BY <1>0, <2>1, <2>2, <2>3, StepJ
<1>2. ASSUME NEW kind, NEW config, NEW ips, NEW todo, NEW phase,
             op' = [op EXCEPT ![p] =
                      NewOperation(kind, config, now, saved, NoCandidates, ips, todo)],
             pc' = [pc EXCEPT ![p] = phase], phase # "promote",
             UNCHANGED <<now, saved, triggers, ordered>>
      PROVE  EvidenceInv'
  <2>1. Grows(triggers, ordered, now, triggers', ordered', now')
    BY <1>2, EvidenceFacts DEF Grows
  <2>2. OpJ(op'[p], pc'[p], triggers', ordered', now')
    BY <1>0, <1>2, EvidenceFacts DEF OpJ, NewOperation, NoCandidates, NoCandidate
  <2>3. QED
    BY <1>0, <1>2, <2>1, <2>2, StepJ
<1>3. CASE BeginCleanup(p)
  BY <1>2, <1>3 DEF BeginCleanup
<1>4. ASSUME NEW kind, NEW ips, BeginUnblock(p, kind, ips) PROVE EvidenceInv'
  BY <1>2, <1>4 DEF BeginUnblock
<1>5. QED
  BY <1>1, <1>3, <1>4

LEMMA EvidenceSynchronize ==
    ASSUME TypeOK, TypeOK', EvidenceInv, NEW p \in Proc,
           LoadState(p) \/ ExpireBlock(p) \/ BeginCheck(p) \/ CheckBlock(p)
    PROVE  EvidenceInv'
<1>0. p \in Proc /\ op \in [Proc -> Operation] /\ pc \in [Proc -> Phase]
  BY DEF TypeOK
<1>1. ASSUME NEW todo, NEW state, StateJ(state, triggers, ordered, now),
             op' = [op EXCEPT ![p].todo = todo, ![p].state = state],
             pc'[p] # "promote", \A q \in Proc : q # p => pc'[q] = pc[q],
             UNCHANGED <<now, saved, triggers, ordered>>
      PROVE  EvidenceInv'
  <2>1. /\ op'[p].at = op[p].at /\ op'[p].cand = op[p].cand
        /\ op'[p].decided = op[p].decided /\ op'[p].state = state
        /\ \A q \in Proc : q # p => op'[q] = op[q]
    BY <1>0, <1>1 DEF Operation
  <2>2. QED
    BY <1>1, <2>1, CopyStepJ
<1>2. CASE LoadState(p)
  <2>1. op' = [op EXCEPT ![p].todo = {ip \in IP : Expired(saved.blocks[ip], op[p].at)},
                         ![p].state = saved]
    BY <1>0, <1>2 DEF LoadState, Operation
  <2>2. pc'[p] # "promote" /\ \A q \in Proc : q # p => pc'[q] = pc[q]
    BY <1>0, <1>2 DEF LoadState
  <2>3. QED
    BY <1>1, <1>2, <2>1, <2>2, EvidenceFacts DEF LoadState
<1>3. ASSUME NEW ip \in IP, NEW state \in {op[p].state, DropRecord(op[p].state, ip)},
             op' = [op EXCEPT ![p].todo = op[p].todo \ {ip}, ![p].state = state],
             pc[p] # "promote", UNCHANGED <<now, saved, pc, triggers, ordered>>
      PROVE  EvidenceInv'
  <2>1. StateJ(state, triggers, ordered, now)
    BY <1>3, EvidenceFacts, StateJUpdates
  <2>2. QED
    BY <1>1, <1>3, <2>1
<1>4. CASE ExpireBlock(p)
  <2>1. PICK ip \in IP : \E o :
          op' = [op EXCEPT ![p].todo = op[p].todo \ {ip},
                  ![p].state = IF o.res = "err" THEN op[p].state ELSE DropRecord(op[p].state, ip)]
    BY <1>4 DEF ExpireBlock
  <2>2. PICK state \in {op[p].state, DropRecord(op[p].state, ip)} :
          op' = [op EXCEPT ![p].todo = op[p].todo \ {ip}, ![p].state = state]
    BY <2>1
  <2>3. QED
    BY <1>3, <1>4, <2>2 DEF ExpireBlock
<1>5. CASE BeginCheck(p)
  <2>1. op' = [op EXCEPT ![p].todo = RecordedIPs(op[p].state), ![p].state = op[p].state]
    BY <1>0, <1>5 DEF BeginCheck, Operation
  <2>2. pc'[p] # "promote" /\ \A q \in Proc : q # p => pc'[q] = pc[q]
    BY <1>0, <1>5 DEF BeginCheck
  <2>3. QED
    BY <1>1, <1>5, <2>1, <2>2, EvidenceFacts DEF BeginCheck
<1>6. CASE CheckBlock(p)
  <2>1. PICK ip \in IP : \E o :
          op' = [op EXCEPT ![p].todo = op[p].todo \ {ip},
                  ![p].state = IF o.res = "false" THEN DropRecord(op[p].state, ip) ELSE op[p].state]
    BY <1>6 DEF CheckBlock
  <2>2. PICK state \in {op[p].state, DropRecord(op[p].state, ip)} :
          op' = [op EXCEPT ![p].todo = op[p].todo \ {ip}, ![p].state = state]
    BY <2>1
  <2>3. QED
    BY <1>3, <1>6, <2>2 DEF CheckBlock
<1>7. QED
  BY <1>2, <1>4, <1>5, <1>6

\* Counting a trigger: the count stays covered by the evidence, which has grown
\* by the same trigger.
LEMMA CountCovered ==
    ASSUME NEW tr \in Seq(Nat), NEW at \in Nat, NEW t \in TriggerRecord,
           t.count <= Cardinality(InWindow(tr, t.first))
    PROVE  LET c == CountTrigger(t, at)
           IN  /\ c \in TriggerRecord /\ (c.first = at \/ c.first = t.first)
               /\ c.count <= Cardinality(InWindow(Append(tr, at), c.first))
<1>0. PermanentBlockWindow \in Nat /\ t.count \in Nat /\ t.first \in Nat
  BY BoundAssumption DEF TriggerRecord
<1>1. CASE StaleTrigger(t, at)
  <2>1. Cardinality(InWindow(Append(tr, at), at)) = Cardinality(InWindow(tr, at)) + 1
        /\ Cardinality(InWindow(tr, at)) \in Nat
    <3>1. at <= at /\ at <= at + PermanentBlockWindow
      BY <1>0
    <3>2. QED
      BY <3>1, WindowAppend
  <2>2. CountTrigger(t, at) = [first |-> at, last |-> at, count |-> 1]
    BY <1>1 DEF CountTrigger
  <2>3. 1 <= Cardinality(InWindow(Append(tr, at), at))
    BY <2>1
  <2>4. QED
    BY <2>2, <2>3 DEF TriggerRecord
<1>2. CASE ~StaleTrigger(t, at)
  <2>1. t.first <= at /\ at <= t.first + PermanentBlockWindow
    BY <1>0, <1>2 DEF StaleTrigger
  <2>2. Cardinality(InWindow(Append(tr, at), t.first)) = Cardinality(InWindow(tr, t.first)) + 1
        /\ Cardinality(InWindow(tr, t.first)) \in Nat
    BY <1>0, <2>1, WindowAppend
  <2>3. CountTrigger(t, at) = [first |-> t.first, last |-> at, count |-> t.count + 1]
    BY <1>2 DEF CountTrigger
  <2>4. t.count + 1 <= Cardinality(InWindow(Append(tr, at), t.first))
    BY <1>0, <2>2
  <2>5. QED
    BY <1>0, <2>3, <2>4 DEF TriggerRecord
<1>3. QED
  BY <1>1, <1>2

LEMMA EvidenceDecide ==
    ASSUME TypeOK, TypeOK', EvidenceInv, NEW p \in Proc, Decide(p)
    PROVE  EvidenceInv'
<1> DEFINE at == op[p].at
           cand == op[p].cand
           s == op[p].state
           pruned == PruneTriggerHistory(s.history, at)
           counted == IF PermanentBlockEnabled
                      THEN {ip \in IP : cand[ip].action \in {"block", "permanent_block"}}
                      ELSE {}
           history == [ip \in IP |-> IF ip \in counted THEN CountTrigger(pruned[ip], at)
                                     ELSE pruned[ip]]
           decided == {ip \in counted : history[ip].count >= cand[ip].after}
           todo == {ip \in IP : cand[ip] # NoCandidate}
<1>1. /\ op' = [op EXCEPT ![p].state = [s EXCEPT !.history = history], ![p].decided = decided,
                         ![p].todo = todo]
      /\ triggers' = [ip \in IP |-> IF ip \in counted THEN Append(triggers[ip], at)
                                     ELSE triggers[ip]]
      /\ pc' = [pc EXCEPT ![p] = "apply"]
      /\ UNCHANGED <<now, saved, ordered>>
  BY DEF Decide
<1>2. /\ at \in Nat /\ at <= now /\ now \in Nat /\ s \in BlockState /\ triggers \in Evidence
      /\ triggers' \in Evidence /\ p \in Proc /\ op \in [Proc -> Operation]
      /\ pc \in [Proc -> Phase] /\ StateJ(s, triggers, ordered, now)
      /\ op[p] \in Operation
  BY EvidenceFacts DEF OpJ, TypeOK, Operation, Evidence
<1>3. \A ip \in counted : ip \in IP /\ cand[ip] \in Candidate /\ cand[ip].after \in Nat
  <2>1. \A ip \in counted : ip \in IP /\ cand[ip].action \in {"block", "permanent_block"}
    OBVIOUS
  <2>2. \A ip \in IP : cand[ip] \in Candidate \cup {NoCandidate}
    BY CopyType
  <2> HIDE DEF counted, cand
  <2>3. QED
    BY <2>1, <2>2, CandidateAssumption DEF NoCandidate
<1>4. ASSUME NEW ip \in IP
      PROVE  /\ pruned[ip] \in TriggerRecord /\ pruned[ip].first <= now
             /\ pruned[ip].count <= Cardinality(InWindow(triggers[ip], pruned[ip].first))
  <2>1. pruned[ip] = s.history[ip] \/ pruned[ip] = NoTrigger
    BY DEF PruneTriggerHistory
  <2>2. CASE pruned[ip] = s.history[ip]
    BY <1>2, <2>2 DEF StateJ, BlockState
  <2>3. CASE pruned[ip] = NoTrigger
    <3>1. Cardinality(InWindow(triggers[ip], 0)) \in Nat
      BY <1>2, WindowAppend, 0 \in Nat DEF Evidence
    <3>2. QED
      BY <1>2, <2>3, <3>1 DEF NoTrigger, TriggerRecord
  <2>4. QED
    BY <2>1, <2>2, <2>3
<1> HIDE DEF at, cand, s, pruned, counted
<1>5. ASSUME NEW ip \in IP
      PROVE  /\ history[ip].first \in 0..now /\ history[ip].count \in Nat
             /\ history[ip].count <= Cardinality(InWindow(triggers'[ip], history[ip].first))
  <2>1. CASE ip \in counted
    <3>1. history[ip] = CountTrigger(pruned[ip], at) /\ triggers'[ip] = Append(triggers[ip], at)
      BY <1>1, <2>1
    <3>2. triggers[ip] \in Seq(Nat)
      BY <1>2 DEF Evidence
    <3>3. /\ history[ip] \in TriggerRecord
          /\ history[ip].first = at \/ history[ip].first = pruned[ip].first
          /\ history[ip].count <= Cardinality(InWindow(triggers'[ip], history[ip].first))
      BY <1>2, <1>4, <3>1, <3>2, CountCovered
    <3>4. QED
      BY <1>2, <1>4, <3>3 DEF TriggerRecord
  <2>2. CASE ip \notin counted
    <3>1. history[ip] = pruned[ip] /\ triggers'[ip] = triggers[ip]
      BY <1>1, <2>2
    <3>2. QED
      BY <1>2, <1>4, <3>1 DEF TriggerRecord
  <2>3. QED
    BY <2>1, <2>2
<1>6. Grows(triggers, ordered, now, triggers', ordered', now') /\ now' \in Nat
  <2>1. now' = now /\ ordered' = ordered
    BY <1>1
  <2>2. \A ip \in IP : \/ triggers'[ip] = triggers[ip]
                        \/ \E t \in Nat : triggers'[ip] = Append(triggers[ip], t)
    BY <1>1, <1>2
  <2>3. QED
    BY <1>2, <2>1, <2>2 DEF Grows
<1> HIDE DEF history
<1>7. StateJ([s EXCEPT !.history = history], triggers', ordered', now')
  <2>1. StateJ(s, triggers', ordered', now')
    BY <1>2, <1>6, StateJGrows
  <2>2. now' = now /\ ordered' = ordered
    BY <1>1
  <2>3. \A ip \in IP : history[ip].first <= now'
    BY <1>2, <1>5, <2>2
  <2> DEFINE s2 == [s EXCEPT !.history = history]
  <2>4. s2.blocks = s.blocks /\ s2.history = history
    BY <1>2 DEF BlockState
  <2> HIDE DEF s2
  <2>5. StateJ(s2, triggers', ordered', now')
    BY <1>5, <2>1, <2>3, <2>4 DEF StateJ
  <2>6. QED
    BY <2>5 DEF s2
<1>8. \A ip \in decided : JustifiedBy(ip, triggers', ordered', now')
  <2>1. ASSUME NEW ip \in decided PROVE JustifiedBy(ip, triggers', ordered', now')
    <3>1. /\ ip \in IP /\ cand[ip] \in Candidate /\ cand[ip].after \in Nat
          /\ history[ip].count >= cand[ip].after
      BY <1>3
    <3>2. triggers'[ip] \in Seq(Nat) /\ history[ip].first \in Nat
      BY <1>2, <1>5, <3>1 DEF Evidence
    <3>3. Cardinality(InWindow(triggers'[ip], history[ip].first)) \in Nat
      BY <3>2, WindowAppend, 0 \in Nat
    <3>4. Cardinality(InWindow(triggers'[ip], history[ip].first)) >= cand[ip].after
      BY <1>5, <3>1, <3>3
    <3>5. history[ip].first \in 0..now'
      BY <1>1, <1>5, <3>1
    <3>6. QED
      BY <3>1, <3>4, <3>5 DEF JustifiedBy
  <2>2. QED
    BY <2>1
<1>9. /\ op'[p].state = [s EXCEPT !.history = history] /\ op'[p].decided = decided
      /\ op'[p].at = at /\ op'[p].cand = cand /\ pc'[p] = "apply"
      /\ \A q \in Proc : q # p => op'[q] = op[q] /\ pc'[q] = pc[q]
  <2> HIDE DEF decided, todo
  <2>1. QED
    BY <1>1, <1>2 DEF Operation, at, cand
<1>10. \A ip \in IP : cand[ip].action = "permanent_block" => JustifiedBy(ip, triggers', ordered', now')
  <2>1. \A ip \in IP : cand[ip].action = "permanent_block" => JustifiedBy(ip, triggers, ordered, now)
    BY EvidenceFacts DEF OpJ, cand
  <2>2. QED
    BY <1>1, <1>2, <1>6, <2>1, JustifiedByGrows
<1>11. OpJ(op'[p], pc'[p], triggers', ordered', now')
  <2> HIDE DEF decided
  <2>1. QED
    BY <1>1, <1>2, <1>7, <1>8, <1>9, <1>10 DEF OpJ
<1>12. QED
  BY <1>1, <1>6, <1>9, <1>11, StepJ

LEMMA EvidenceApply ==
    ASSUME TypeOK, TypeOK', EvidenceInv, NEW p \in Proc,
           SkipCandidate(p) \/ BlockNew(p) \/ PromoteUnblock(p) \/ PromoteBlock(p)
    PROVE  EvidenceInv'
<1>0. p \in Proc /\ op \in [Proc -> Operation] /\ pc \in [Proc -> Phase]
  BY DEF TypeOK
<1>1. \A ip \in IP : ShouldPermanentBlock(p, ip) => JustifiedBy(ip, triggers, ordered, now)
  BY EvidenceFacts DEF OpJ, ShouldPermanentBlock
<1>2. ASSUME NEW todo, NEW state, StateJ(state, triggers, ordered, now),
             \/ op' = [op EXCEPT ![p].todo = todo, ![p].state = state]
             \/ op' = [op EXCEPT ![p].todo = todo, ![p].writes = op[p].writes + 1,
                                 ![p].state = state],
             pc'[p] # "promote", \A q \in Proc : q # p => pc'[q] = pc[q],
             UNCHANGED <<now, saved, triggers, ordered>>
      PROVE  EvidenceInv'
  <2>1. /\ op'[p].at = op[p].at /\ op'[p].cand = op[p].cand
        /\ op'[p].decided = op[p].decided /\ op'[p].state = state
        /\ \A q \in Proc : q # p => op'[q] = op[q]
    BY <1>0, <1>2 DEF Operation
  <2>2. QED
    BY <1>2, <2>1, CopyStepJ
<1>3. CASE SkipCandidate(p)
  <2>1. PICK ip \in IP : \E t \in {op[p].state, ClearHistory(op[p].state, ip)} :
          op' = [op EXCEPT ![p].todo = op[p].todo \ {ip}, ![p].state = t]
    BY <1>3 DEF SkipCandidate
  <2>2. /\ StateJ(op[p].state, triggers, ordered, now)
        /\ StateJ(ClearHistory(op[p].state, ip), triggers, ordered, now)
    BY EvidenceFacts, StateJUpdates
  <2>3. pc'[p] # "promote" /\ \A q \in Proc : q # p => pc'[q] = pc[q]
    BY <1>3 DEF SkipCandidate
  <2>4. UNCHANGED <<now, saved, triggers, ordered>>
    BY <1>3 DEF SkipCandidate
  <2>5. PICK t : /\ StateJ(t, triggers, ordered, now)
                 /\ op' = [op EXCEPT ![p].todo = op[p].todo \ {ip}, ![p].state = t]
    BY <2>1, <2>2
  <2>6. QED
    BY <1>2, <2>3, <2>4, <2>5
<1>4. CASE BlockNew(p)
  <2> DEFINE b == BackendOf(op[p].config)
  <2>1. PICK ip \in IP : \E o :
          op' = [op EXCEPT
                 ![p].todo = op[p].todo \ {ip}, ![p].writes = op[p].writes + 1,
                 ![p].state = IF o.res = "ok"
                              THEN StoreBlock(op[p].state, ip, b, ShouldPermanentBlock(p, ip),
                                              op[p].at + op[p].cand[ip].ttl)
                              ELSE op[p].state]
    BY <1>4 DEF BlockNew
  <2> DEFINE stored == StoreBlock(op[p].state, ip, b, ShouldPermanentBlock(p, ip),
                                  op[p].at + op[p].cand[ip].ttl)
  <2>2. StateJ(stored, triggers, ordered, now) /\ StateJ(op[p].state, triggers, ordered, now)
    <3> DEFINE e == op[p].at + op[p].cand[ip].ttl
    <3>1. e \in Nat /\ e # Never /\ b \in Backend
      BY CopyType DEF Never
    <3>2. ShouldPermanentBlock(p, ip) \in BOOLEAN
      BY DEF ShouldPermanentBlock
    <3> HIDE DEF e, b
    <3>3. StateJ(StoreBlock(op[p].state, ip, b, ShouldPermanentBlock(p, ip), e),
                 triggers, ordered, now)
      BY <1>1, <3>1, <3>2, EvidenceFacts, StateJUpdates
    <3>4. QED
      BY <3>3, EvidenceFacts DEF e
  <2> HIDE DEF stored
  <2>3. PICK t : /\ StateJ(t, triggers, ordered, now)
                 /\ op' = [op EXCEPT ![p].todo = op[p].todo \ {ip},
                                     ![p].writes = op[p].writes + 1, ![p].state = t]
    BY <2>1, <2>2 DEF stored
  <2>4. pc'[p] # "promote" /\ \A q \in Proc : q # p => pc'[q] = pc[q]
    BY <1>4 DEF BlockNew
  <2>5. UNCHANGED <<now, saved, triggers, ordered>>
    BY <1>4 DEF BlockNew
  <2>6. QED
    BY <1>2, <2>3, <2>4, <2>5
<1>5. CASE PromoteUnblock(p)
  <2>1. PICK ip \in IP :
          /\ NextIP(p, ip) /\ WantsWrite(p, ip) /\ Recorded(op[p].state.blocks[ip])
          /\ \E o :
             /\ op' = [op EXCEPT ![p].writes = op[p].writes + 1,
                   ![p].todo = IF o.res = "err" THEN op[p].todo \ {ip} ELSE op[p].todo]
             /\ pc' = [pc EXCEPT ![p] = IF o.res = "err" THEN pc[p] ELSE "promote"]
    BY <1>5 DEF PromoteUnblock
  <2>2. ShouldPermanentBlock(p, ip)
    BY <2>1 DEF WantsWrite
  <2>3. /\ op'[p].at = op[p].at /\ op'[p].cand = op[p].cand
        /\ op'[p].decided = op[p].decided /\ op'[p].state = op[p].state
        /\ pc'[p] = "promote" => op'[p].todo = op[p].todo
        /\ \A q \in Proc : q # p => op'[q] = op[q] /\ pc'[q] = pc[q]
    <3>1. pc[p] # "promote"
      BY <1>5 DEF PromoteUnblock
    <3>2. QED
      BY <1>0, <2>1, <3>1 DEF Operation
  <2>4. ASSUME pc'[p] = "promote", NEW j \in IP, j \in op'[p].todo,
               \A k \in op'[p].todo : j <= k
        PROVE  ShouldPermanentBlock(p, j)
    <3>1. j <= ip /\ ip <= j
      BY <2>1, <2>3, <2>4 DEF NextIP
    <3>2. j = ip
      BY <3>1, IPAssumption
    <3>3. QED
      BY <2>2, <3>2
  <2>5. UNCHANGED <<now, triggers, ordered, saved>>
    BY <1>5 DEF PromoteUnblock
  <2>6. StateJ(op'[p].state, triggers, ordered, now)
    BY <2>3, EvidenceFacts
  <2>7. QED
    BY <2>3, <2>4, <2>5, <2>6, CopyStepJ
<1>6. CASE PromoteBlock(p)
  <2> DEFINE b == BackendOf(op[p].config)
  <2>1. PICK ip \in IP :
          /\ NextIP(p, ip)
          /\ \E o : op' = [op EXCEPT
               ![p].todo = op[p].todo \ {ip},
               ![p].state = IF o.res = "ok" THEN StoreBlock(op[p].state, ip, b, TRUE, Never)
                            ELSE op[p].state]
    BY <1>6 DEF PromoteBlock
  <2>2. ShouldPermanentBlock(p, ip)
    BY <1>6, <2>1, EvidenceFacts DEF OpJ, PromoteBlock, NextIP, ShouldPermanentBlock
  <2> DEFINE stored == StoreBlock(op[p].state, ip, b, TRUE, Never)
  <2>3. StateJ(stored, triggers, ordered, now) /\ StateJ(op[p].state, triggers, ordered, now)
    <3>1. b \in Backend
      BY CopyType
    <3>2. QED
      BY <1>1, <2>2, <3>1, EvidenceFacts, StateJUpdates
  <2> HIDE DEF stored
  <2>4. PICK t : /\ StateJ(t, triggers, ordered, now)
                 /\ op' = [op EXCEPT ![p].todo = op[p].todo \ {ip}, ![p].state = t]
    BY <2>1, <2>3 DEF stored
  <2>5. pc'[p] # "promote" /\ \A q \in Proc : q # p => pc'[q] = pc[q]
    BY <1>0, <1>6 DEF PromoteBlock
  <2>6. UNCHANGED <<now, saved, triggers, ordered>>
    BY <1>6 DEF PromoteBlock
  <2>7. QED
    BY <1>2, <2>4, <2>5, <2>6
<1>7. QED
  BY <1>3, <1>4, <1>5, <1>6

LEMMA EvidenceUnblock ==
    ASSUME TypeOK, TypeOK', EvidenceInv, NEW p \in Proc, UnblockIP(p)
    PROVE  EvidenceInv'
<1>0. p \in Proc /\ op \in [Proc -> Operation] /\ pc \in [Proc -> Phase] /\ pc[p] = "unblock"
  BY DEF TypeOK, UnblockIP
<1>1. PICK ip \in IP : \E failed \in BOOLEAN :
        /\ op' = [op EXCEPT ![p].todo = op[p].todo \ {ip},
             ![p].state = IF failed THEN op[p].state
                          ELSE ClearHistory(DropRecord(op[p].state, ip), ip)]
        /\ pc' = [pc EXCEPT ![p] =
             IF failed /\ op[p].kind = "unblock" THEN "idle" ELSE pc[p]]
  <2>1. \A avail, o : UnblockFails(avail, o) \in BOOLEAN
    BY DEF UnblockFails
  <2>2. QED
    BY <2>1 DEF UnblockIP
<1>2. PICK failed \in BOOLEAN :
        /\ op' = [op EXCEPT ![p].todo = op[p].todo \ {ip},
             ![p].state = IF failed THEN op[p].state
                          ELSE ClearHistory(DropRecord(op[p].state, ip), ip)]
        /\ pc' = [pc EXCEPT ![p] =
             IF failed /\ op[p].kind = "unblock" THEN "idle" ELSE pc[p]]
  BY <1>1
<1> DEFINE t == IF failed THEN op[p].state ELSE ClearHistory(DropRecord(op[p].state, ip), ip)
<1>3. StateJ(t, triggers, ordered, now)
  BY EvidenceFacts, StateJUpdates, StateTypes
<1>4. /\ op'[p].at = op[p].at /\ op'[p].cand = op[p].cand
      /\ op'[p].decided = op[p].decided /\ op'[p].state = t
      /\ \A q \in Proc : q # p => op'[q] = op[q]
  BY <1>0, <1>2 DEF Operation
<1>5. pc'[p] # "promote" /\ \A q \in Proc : q # p => pc'[q] = pc[q]
  BY <1>0, <1>2
<1>6. UNCHANGED <<now, saved, triggers, ordered>>
  BY DEF UnblockIP
<1>7. QED
  BY <1>3, <1>4, <1>5, <1>6, CopyStepJ

LEMMA EvidenceEnd ==
    ASSUME TypeOK, TypeOK', EvidenceInv, NEW p \in Proc,
           EndCleanup(p) \/ EndApply(p) \/ EndUnblock(p) \/ SaveState(p) \/ Crash(p)
    PROVE  EvidenceInv'
<1>0. p \in Proc /\ op \in [Proc -> Operation] /\ pc \in [Proc -> Phase]
  BY DEF TypeOK
<1>1. UNCHANGED <<now, triggers, ordered>>
  BY DEF EndCleanup, EndApply, EndUnblock, SaveState, Crash
<1>2. CASE EndCleanup(p) \/ EndApply(p) \/ EndUnblock(p)
  <2>1. /\ UNCHANGED <<saved, op>> /\ pc'[p] = "save"
        /\ \A q \in Proc : q # p => pc'[q] = pc[q]
    BY <1>0, <1>2 DEF EndCleanup, EndApply, EndUnblock
  <2>2. QED
    BY <1>1, <2>1, EvidenceFacts, CopyStepJ
<1>3. CASE SaveState(p) \/ Crash(p)
  <2>1. /\ op'[p] = NoOperation /\ pc'[p] = "idle"
        /\ \A q \in Proc : q # p => op'[q] = op[q] /\ pc'[q] = pc[q]
        /\ saved' = saved \/ saved' = op[p].state
    BY <1>0, <1>3 DEF SaveState, Crash
  <2>2. OpJ(NoOperation, "idle", triggers, ordered, now)
    BY EvidenceFacts, EmptyStateJ
       DEF OpJ, NoOperation, NewOperation, NoCandidates, NoCandidate
  <2>3. Grows(triggers, ordered, now, triggers', ordered', now')
    BY <1>1, EvidenceFacts DEF Grows
  <2>4. saved' = saved \/ StateJ(saved', triggers', ordered', now')
    BY <1>1, <2>1, EvidenceFacts
  <2>5. QED
    BY <1>1, <2>1, <2>2, <2>3, <2>4, StepJ
<1>4. QED
  BY <1>2, <1>3

LEMMA EvidenceEnvironment ==
    ASSUME TypeOK, TypeOK', EvidenceInv, Reboot \/ Tick
    PROVE  EvidenceInv'
<1>1. /\ Grows(triggers, ordered, now, triggers', ordered', now') /\ saved' = saved
      /\ triggers' \in Evidence /\ now' \in Nat
  BY EvidenceFacts, BoundAssumption DEF Grows, Reboot, Tick, TypeOK, Evidence
<1>2. StateJ(saved', triggers', ordered', now')
  BY <1>1, EvidenceFacts, StateJGrows
<1>3. CASE Reboot
  <2>1. OpJ(NoOperation, "idle", triggers', ordered', now')
    BY <1>1, EmptyStateJ DEF OpJ, NoOperation, NewOperation, NoCandidates, NoCandidate
  <2>2. \A p \in Proc : op'[p] = NoOperation /\ pc'[p] = "idle"
    BY <1>3 DEF Reboot
  <2>3. QED
    BY <1>2, <2>1, <2>2, EvidenceInvUnfold
<1>4. CASE Tick
  <2>1. op' = op /\ pc' = pc
    BY <1>4 DEF Tick
  <2>2. \A p \in Proc : OpJ(op'[p], pc'[p], triggers', ordered', now')
    BY <1>1, <2>1, EvidenceFacts, OpJGrows
  <2>3. QED
    BY <1>2, <2>2, EvidenceInvUnfold
<1>5. QED
  BY <1>3, <1>4

LEMMA InitEvidence == Init => EvidenceInv
<1> SUFFICES ASSUME Init PROVE EvidenceInv
  OBVIOUS
<1>1. triggers \in Evidence /\ now \in Nat
  BY DEF Init, Evidence
<1>2. OpJ(NoOperation, "idle", triggers, ordered, now)
  BY <1>1, EmptyStateJ DEF Init, OpJ, NoOperation, NewOperation, NoCandidates, NoCandidate
<1>3. QED
  BY <1>1, <1>2, EmptyStateJ, EvidenceInvUnfold DEF Init

LEMMA NextEvidence == TypeOK /\ TypeOK' /\ EvidenceInv /\ [Next]_vars => EvidenceInv'
<1> SUFFICES ASSUME TypeOK, TypeOK', EvidenceInv, [Next]_vars PROVE EvidenceInv'
  OBVIOUS
<1>1. CASE Next
  <2>1. ASSUME NEW p \in Scanner, BeginScan(p) PROVE EvidenceInv'
    BY <2>1, EvidenceBegin DEF Proc
  <2>2. ASSUME NEW p \in Operator,
               \/ BeginCleanup(p) \/ \E ip \in IP : BeginUnblock(p, "unblock", {ip})
               \/ BeginUnblock(p, "unblock_all", RecordedIPs(saved))
        PROVE  EvidenceInv'
    BY <2>2, EvidenceBegin DEF Proc
  <2>3. ASSUME NEW p \in Proc, Step(p) \/ Crash(p) PROVE EvidenceInv'
    BY <2>3, EvidenceSynchronize, EvidenceDecide, EvidenceApply, EvidenceUnblock, EvidenceEnd
       DEF Step
  <2>4. QED
    BY <1>1, <2>1, <2>2, <2>3, EvidenceEnvironment DEF Next
<1>2. CASE UNCHANGED vars
  <2>1. /\ saved' = saved /\ op' = op /\ pc' = pc
        /\ triggers' = triggers /\ ordered' = ordered /\ now' = now
    BY <1>2 DEF vars
  <2>2. QED
    BY <2>1, EvidenceInvUnfold
<1>3. QED
  BY <1>1, <1>2

\* Every copy of the block state, on disk or in a running operation, holds only
\* permanent blocks and trigger counts that past scans really justify - for any
\* number of overlapping scans and commands, lost updates, failing firewall
\* commands, crashes and reboots.
THEOREM EvidenceInvariant == Spec => []EvidenceInv
<1>1. TypeOK /\ TypeOK' /\ EvidenceInv /\ [Next]_vars => EvidenceInv'
  BY NextEvidence
<1>2. QED
  BY <1>1, InitEvidence, TypeCorrect, PTL DEF Spec

\* No address is recorded as permanently blocked unless a finding asked for it
\* or enough scans accused it within one escalation window.
THEOREM PermanentBlocksJustified == Spec => []PermanentJustified
<1>1. EvidenceInv => PermanentJustified
  BY DEF EvidenceInv, JustifiedState, PermanentJustified
<1>2. QED
  BY <1>1, EvidenceInvariant, PTL

-----------------------------------------------------------------------------
(* One process at a time.  The operations of the daemon and of the `vs`     *)
(* commands alternate, and all configurations in use mean one backend.      *)

Sole == \E p : Proc = {p}
OneBackend == \A c, d \in ConfiguredBackends : BackendOf(c) = BackendOf(d)

\* Every command answers what it did: its exit status tells the truth, and none
\* takes effect after it was given up.
Definite == FaultKinds \cap {"status", "late"} = {}

\* The state an operation works on: the row until it has been loaded.
Loaded(p) == pc[p] \notin {"idle", "load"}
Current(p) == IF Loaded(p) THEN op[p].state.blocks ELSE saved.blocks

\* Every record and every entry belongs to the one backend.
HomeRecord(r) == Recorded(r) => \A c \in ConfiguredBackends : r.backend = BackendOf(c)
HomeOperation(p) ==
    /\ \A ip \in IP : HomeRecord(saved.blocks[ip]) /\ HomeRecord(op[p].state.blocks[ip])
    /\ pc[p] # "idle" => op[p].config \in ConfiguredBackends
    /\ \A b \in Backend, ip \in IP :
          firewall[b][ip] # Absent => \A c \in ConfiguredBackends : b = BackendOf(c)

\* The record r and the entries e of its address agree at time t, as
\* FirewallMatchesState says of the row.
Fits(r, e, t) ==
    /\ \A b \in Backend : e[b] # Absent => Recorded(r) /\ r.backend = b
    /\ r.expires = Never => e[r.backend] = Never
    /\ r.expires \in Nat /\ t < r.expires =>
         \/ e[r.backend] = Never
         \/ e[r.backend] \in Nat /\ e[r.backend] >= r.expires
Entries(ip) == [b \in Backend |-> firewall[b][ip]]

\* promote_ip_to_permanent is between its two commands.
Promoting(p, ip) == pc[p] = "promote" /\ NextIP(p, ip)

\* What an operation of this kind has made of the record r of the row.
KeptRecord(c, r, kind, t) ==
    \/ c = r
    \/ c.expires = Never
    \/ ~Recorded(r)
    \/ Expired(r, t)
    \/ kind \in {"unblock", "unblock_all"} /\ ~Recorded(c)

\* How far the loops of an operation have come.
Progress(p) ==
    /\ pc[p] \in {"expire", "check"} => op[p].kind \in {"scan", "cleanup"}
    /\ pc[p] \in {"load", "apply", "promote"} => op[p].kind = "scan"
    /\ pc[p] = "unblock" => op[p].kind \in {"unblock", "unblock_all"} /\ op[p].todo \subseteq op[p].requested
    /\ pc[p] = "expire" => \A ip \in op[p].todo : /\ Expired(op[p].state.blocks[ip], op[p].at)
                                                  /\ op[p].state.blocks[ip] = saved.blocks[ip]
    /\ pc[p] = "promote" => BackendOf(op[p].config) \in Installed
    /\ pc[p] = "unblock" =>
         \A ip \in IP : ip \in op[p].todo \/ ip \notin op[p].requested =>
             op[p].state.blocks[ip] = saved.blocks[ip]
    /\ pc[p] \in {"unblock", "save"} /\ op[p].kind = "unblock" =>
         /\ \A i, j \in op[p].requested : i = j
         /\ \A ip \in op[p].requested : (pc[p] = "unblock" /\ ip \in op[p].todo)
                                         \/ ~Recorded(op[p].state.blocks[ip])

\* The inductive invariant behind FirewallMatchesState, UnblockEffective and
\* BlockHolds: the state at work agrees with the firewall all the time.
MatchOperation(p) ==
    /\ \A ip \in IP : IF Promoting(p, ip) THEN \A b \in Backend : firewall[b][ip] = Absent
                      ELSE Fits(Current(p)[ip], Entries(ip), now)
    /\ Loaded(p) => \A ip \in IP :
         KeptRecord(op[p].state.blocks[ip], saved.blocks[ip], op[p].kind, now)
    /\ Progress(p)
MatchInv == \A p \in Proc : MatchOperation(p)

\* The records a scan has written so far.
Written(p) == {ip \in IP : /\ Recorded(op[p].state.blocks[ip])
                           /\ op[p].state.blocks[ip] # saved.blocks[ip]}
BudgetOperation(p) ==
    /\ pc[p] = "load" => op[p].writes = 0
    /\ Loaded(p) => /\ IsFiniteSet(Written(p))
                    /\ Cardinality(Written(p)) + (IF pc[p] = "promote" THEN 1 ELSE 0) <= op[p].writes
                    /\ op[p].writes <= MaxBlocksPerScan
BudgetInv == \A p \in Proc : BudgetOperation(p)

\* The records an operation has dropped have no entry.
ReleaseOperation(p) ==
    Loaded(p) =>
        \A ip \in IP : Recorded(saved.blocks[ip]) /\ ~Recorded(op[p].state.blocks[ip]) =>
            firewall[saved.blocks[ip].backend][ip] = Absent

-----------------------------------------------------------------------------
(* What commands answer.                                                    *)

LEMMA UnblockAnswers ==
    ASSUME NEW b \in Backend, NEW ip \in IP, NEW o \in UnblockResults(b, ip)
    PROVE  /\ o.entry \in {firewall[b][ip], Absent}
           /\ o.res = "true" => firewall[b][ip] # Absent
           /\ o.res = "err" /\ FaultKinds = {} => b \notin Installed
           /\ b \notin Installed => o.res = "err"
           /\ o.res = "err" /\ Definite => o.entry = firewall[b][ip]
           /\ o.res # "err" /\ Definite => o.entry = Absent
  BY DEF UnblockResults, Outcome, MayFault, Definite

LEMMA BlockAnswers ==
    ASSUME NEW b \in Backend, NEW ip \in IP, NEW ttl, NEW o \in BlockResults(b, ip, ttl)
    PROVE  /\ o.res = "ok" => b \in Installed /\ o.entry = EntryAfterBlock(b, ip, ttl)
           /\ o.res # "ok" => o.res = "err"
           /\ o.entry \in {firewall[b][ip], EntryAfterBlock(b, ip, ttl)}
           /\ o.res = "err" /\ FaultKinds = {} => b \notin Installed
           /\ o.res = "err" /\ Definite => o.entry = firewall[b][ip]
  BY DEF BlockResults, Outcome, MayFault, Definite

LEMMA CheckAnswers ==
    ASSUME NEW b \in Backend, NEW ip \in IP, NEW o \in IsBlockedResults(b, ip)
    PROVE  /\ o.entry = firewall[b][ip]
           /\ o.res = "false" /\ Definite => firewall[b][ip] = Absent
  BY DEF IsBlockedResults, Outcome, MayFault, Definite

-----------------------------------------------------------------------------
(* What each step does to the records, the firewall and the locals of its   *)
(* process, without the fields that the following invariants do not read.   *)

Same(p) ==
    /\ op'[p].kind = op[p].kind /\ op'[p].config = op[p].config
    /\ op'[p].at = op[p].at /\ op'[p].requested = op[p].requested
    /\ saved' = saved /\ now' = now
Put(blocks, ip, r) == [blocks EXCEPT ![ip] = r]
Forget(blocks, ip) == Put(blocks, ip, NoBlock)
Sets(b, ip, e) == firewall' = [firewall EXCEPT ![b][ip] = e]

LEMMA BlocksOf ==
    ASSUME NEW s \in BlockState, NEW ip \in IP
    PROVE  /\ s.blocks \in [IP -> BlockRecord]
           /\ DropRecord(s, ip).blocks = Forget(s.blocks, ip)
           /\ ClearHistory(s, ip).blocks = s.blocks
           /\ ClearHistory(DropRecord(s, ip), ip).blocks = Forget(s.blocks, ip)
           /\ \A b, permanent, e : StoreBlock(s, ip, b, permanent, e).blocks =
                Put(s.blocks, ip, [backend |-> b, expires |-> IF permanent THEN Never ELSE e])
  BY DEF BlockState, DropRecord, ClearHistory, StoreBlock, Forget, Put

LEMMA BeginEffect ==
    ASSUME TypeOK, NEW p \in Proc,
           \/ BeginScan(p) \/ BeginCleanup(p)
           \/ \E ip \in IP : BeginUnblock(p, "unblock", {ip})
           \/ BeginUnblock(p, "unblock_all", RecordedIPs(saved))
    PROVE  /\ pc[p] = "idle" /\ saved' = saved /\ now' = now /\ firewall' = firewall
           /\ op'[p].config \in ConfiguredBackends /\ op'[p].at = now /\ op'[p].writes = 0
           /\ \/ pc'[p] = "load" /\ op'[p].kind = "scan" /\ op'[p].state = EmptyState
              \/ /\ pc'[p] = "expire" /\ op'[p].kind = "cleanup" /\ op'[p].state = saved
                 /\ op'[p].todo = {ip \in IP : Expired(saved.blocks[ip], now)}
              \/ /\ pc'[p] = "unblock" /\ op'[p].kind = "unblock" /\ op'[p].state = saved
                 /\ \E ip \in IP : op'[p].requested = {ip} /\ op'[p].todo = {ip}
              \/ /\ pc'[p] = "unblock" /\ op'[p].kind = "unblock_all" /\ op'[p].state = saved
                 /\ op'[p].requested = op'[p].todo /\ op'[p].todo = RecordedIPs(saved)
<1>1. CASE BeginScan(p)
  BY <1>1 DEF BeginScan, NewOperation, TypeOK
<1>2. CASE BeginCleanup(p)
  BY <1>2 DEF BeginCleanup, NewOperation, TypeOK
<1>3. CASE \E ip \in IP : BeginUnblock(p, "unblock", {ip})
  BY <1>3 DEF BeginUnblock, NewOperation, TypeOK
<1>4. CASE BeginUnblock(p, "unblock_all", RecordedIPs(saved))
  BY <1>4 DEF BeginUnblock, NewOperation, TypeOK
<1>5. QED
  BY <1>1, <1>2, <1>3, <1>4

LEMMA LoadEffect ==
    ASSUME TypeOK, NEW p \in Proc, LoadState(p)
    PROVE  /\ pc[p] = "load" /\ pc'[p] = "expire" /\ Same(p) /\ firewall' = firewall
           /\ op'[p].state = saved /\ op'[p].writes = op[p].writes
           /\ op'[p].todo = {ip \in IP : Expired(saved.blocks[ip], op[p].at)}
  BY SMTT(30) DEF LoadState, TypeOK, Operation, Same

LEMMA ExpireEffect ==
    ASSUME TypeOK, NEW p \in Proc, ExpireBlock(p)
    PROVE  \E ip \in IP : \E o \in UnblockResults(op[p].state.blocks[ip].backend, ip) :
             /\ pc[p] = "expire" /\ pc' = pc /\ Same(p) /\ NextIP(p, ip)
             /\ Sets(op[p].state.blocks[ip].backend, ip, o.entry)
             /\ op'[p].todo = op[p].todo \ {ip} /\ op'[p].writes = op[p].writes
             /\ op'[p].state.blocks = IF o.res = "err" THEN op[p].state.blocks
                                      ELSE Forget(op[p].state.blocks, ip)
<1>1. PICK ip, o :
        /\ ip \in IP /\ o \in UnblockResults(op[p].state.blocks[ip].backend, ip)
        /\ NextIP(p, ip)
        /\ Command(op[p].state.blocks[ip].backend, ip, o)
        /\ op' = [op EXCEPT ![p].todo = @ \ {ip},
                            ![p].state = IF o.res = "err" THEN @ ELSE DropRecord(@, ip)]
  BY DEF ExpireBlock
<1>2. /\ op'[p].todo = op[p].todo \ {ip} /\ op'[p].writes = op[p].writes
      /\ op'[p].state = IF o.res = "err" THEN op[p].state ELSE DropRecord(op[p].state, ip)
      /\ Same(p) /\ pc[p] = "expire" /\ pc' = pc
  BY <1>1 DEF ExpireBlock, TypeOK, Operation, Same
<1>3. op[p].state \in BlockState
  BY CopyType, <1>1
<1>4. op'[p].state.blocks = IF o.res = "err" THEN op[p].state.blocks ELSE Forget(op[p].state.blocks, ip)
  <2>1. DropRecord(op[p].state, ip).blocks = Forget(op[p].state.blocks, ip)
    BY <1>1, <1>3, BlocksOf
  <2>2. QED
    BY <1>2, <2>1
<1>5. Sets(op[p].state.blocks[ip].backend, ip, o.entry)
  BY <1>1 DEF Command, Sets
<1>6. QED
  BY <1>1, <1>2, <1>4, <1>5

LEMMA CheckEffect ==
    ASSUME TypeOK, NEW p \in Proc, CheckBlock(p)
    PROVE  \E ip \in IP : \E o \in IsBlockedResults(op[p].state.blocks[ip].backend, ip) :
             /\ pc[p] = "check" /\ pc' = pc /\ Same(p) /\ NextIP(p, ip)
             /\ firewall' = firewall
             /\ op'[p].todo = op[p].todo \ {ip} /\ op'[p].writes = op[p].writes
             /\ op'[p].state.blocks = IF o.res = "false" THEN Forget(op[p].state.blocks, ip)
                                      ELSE op[p].state.blocks
<1>1. PICK ip, o :
        /\ ip \in IP /\ o \in IsBlockedResults(op[p].state.blocks[ip].backend, ip)
        /\ NextIP(p, ip)
        /\ Command(op[p].state.blocks[ip].backend, ip, o)
        /\ op' = [op EXCEPT ![p].todo = @ \ {ip},
                            ![p].state = IF o.res = "false" THEN DropRecord(@, ip) ELSE @]
  BY DEF CheckBlock
<1>2. /\ op'[p].todo = op[p].todo \ {ip} /\ op'[p].writes = op[p].writes
      /\ op'[p].state = IF o.res = "false" THEN DropRecord(op[p].state, ip) ELSE op[p].state
      /\ Same(p) /\ pc[p] = "check" /\ pc' = pc
  BY <1>1 DEF CheckBlock, TypeOK, Operation, Same
<1>3. op[p].state \in BlockState /\ op[p].state.blocks[ip].backend \in Backend
  BY CopyType, <1>1
<1>4. op'[p].state.blocks = IF o.res = "false" THEN Forget(op[p].state.blocks, ip) ELSE op[p].state.blocks
  <2>1. DropRecord(op[p].state, ip).blocks = Forget(op[p].state.blocks, ip)
    BY <1>1, <1>3, BlocksOf
  <2>2. QED
    BY <1>2, <2>1
<1>5. firewall' = firewall
  <2> DEFINE b == op[p].state.blocks[ip].backend
  <2>1. o.entry = firewall[b][ip] /\ Sets(b, ip, o.entry)
    BY <1>1, <1>3, CheckAnswers DEF Command, Sets
  <2> HIDE DEF b
  <2>2. QED
    BY <2>1, SMTT(30) DEF Sets, TypeOK
<1>6. QED
  BY <1>1, <1>2, <1>4, <1>5

\* The steps that touch neither records nor firewall.
Quiet(p) ==
    \/ BeginCheck(p) \/ EndCleanup(p) \/ Decide(p) \/ SkipCandidate(p) \/ EndApply(p) \/ EndUnblock(p)

LEMMA QuietEffect ==
    ASSUME TypeOK, NEW p \in Proc, Quiet(p)
    PROVE  /\ Same(p) /\ firewall' = firewall
           /\ op'[p].state.blocks = op[p].state.blocks /\ op'[p].writes = op[p].writes
           /\ \/ pc[p] = "expire" /\ pc'[p] = "check"
              \/ pc[p] = "check" /\ pc'[p] = "save" /\ op[p].kind = "cleanup"
              \/ pc[p] = "check" /\ pc'[p] = "apply" /\ op[p].kind = "scan"
              \/ pc[p] = "apply" /\ pc'[p] \in {"apply", "save"}
              \/ pc[p] = "unblock" /\ pc'[p] = "save" /\ op[p].todo = {}
<1>1. CASE BeginCheck(p)
  BY <1>1 DEF BeginCheck, TypeOK, Operation, Same
<1>2. CASE EndCleanup(p) \/ EndApply(p) \/ EndUnblock(p)
  BY <1>2 DEF EndCleanup, EndApply, EndUnblock, TypeOK, Operation, Same
<1>3. CASE Decide(p)
  <2>1. \E h, decided, todo :
          op' = [op EXCEPT ![p].state = [@ EXCEPT !.history = h], ![p].decided = decided,
                           ![p].todo = todo]
    BY <1>3 DEF Decide
  <2>2. op[p] \in Operation /\ op[p].state \in BlockState /\ op \in [Proc -> Operation]
    BY SMTT(30) DEF TypeOK, Operation
  <2>3. /\ op'[p].state.blocks = op[p].state.blocks /\ op'[p].writes = op[p].writes
        /\ op'[p].kind = op[p].kind /\ op'[p].config = op[p].config
        /\ op'[p].at = op[p].at /\ op'[p].requested = op[p].requested
    BY <2>1, <2>2 DEF Operation, BlockState
  <2>4. /\ saved' = saved /\ now' = now /\ firewall' = firewall
        /\ pc[p] = "check" /\ pc'[p] = "apply" /\ op[p].kind = "scan"
    BY <1>3 DEF Decide, TypeOK
  <2>5. QED
    BY <2>3, <2>4, SMTT(30) DEF Same
<1>4. CASE SkipCandidate(p)
  <2>1. PICK ip \in IP : \E t \in {op[p].state, ClearHistory(op[p].state, ip)} :
          op' = [op EXCEPT ![p].todo = op[p].todo \ {ip}, ![p].state = t]
    BY <1>4 DEF SkipCandidate
  <2>2. op[p] \in Operation /\ op[p].state \in BlockState /\ op \in [Proc -> Operation]
    BY DEF TypeOK, Operation
  <2>3. ClearHistory(op[p].state, ip).blocks = op[p].state.blocks
    BY <2>2, BlocksOf
  <2>4. /\ op'[p].state.blocks = op[p].state.blocks /\ op'[p].writes = op[p].writes
        /\ op'[p].kind = op[p].kind /\ op'[p].config = op[p].config
        /\ op'[p].at = op[p].at /\ op'[p].requested = op[p].requested
    BY <2>1, <2>2, <2>3 DEF Operation
  <2>5. /\ saved' = saved /\ now' = now /\ firewall' = firewall /\ pc[p] = "apply" /\ pc' = pc
    BY <1>4, SMTT(30) DEF SkipCandidate
  <2>6. QED
    BY <2>4, <2>5 DEF Same
<1>5. QED
  BY <1>1, <1>2, <1>3, <1>4 DEF Quiet

\* The record of a block made for ttl by an operation that began at time at.
Fresh(b, at, ttl) == [backend |-> b, expires |-> IF ttl = Never THEN Never ELSE at + ttl]

LEMMA BlockNewEffect ==
    ASSUME TypeOK, NEW p \in Proc, BlockNew(p)
    PROVE  \E ip \in IP, ttl \in Nat \cup {Never} :
             \E o \in BlockResults(BackendOf(op[p].config), ip, ttl) :
             /\ pc[p] = "apply" /\ pc' = pc /\ Same(p)
             /\ op[p].writes < MaxBlocksPerScan /\ op'[p].writes = op[p].writes + 1
             /\ ~Recorded(op[p].state.blocks[ip])
             /\ Sets(BackendOf(op[p].config), ip, o.entry)
             /\ \/ o.res # "ok" /\ op'[p].state.blocks = op[p].state.blocks
                \/ o.res = "ok" /\ op'[p].state.blocks =
                     Put(op[p].state.blocks, ip, Fresh(BackendOf(op[p].config), op[p].at, ttl))
<1> DEFINE b == BackendOf(op[p].config)
           T(ip) == IF ShouldPermanentBlock(p, ip) THEN Never ELSE op[p].cand[ip].ttl
<1>1. PICK ip, o :
        /\ ip \in IP /\ o \in BlockResults(b, ip, T(ip))
        /\ ~Recorded(op[p].state.blocks[ip]) /\ MayWrite(p)
        /\ Command(b, ip, o)
        /\ op' = [op EXCEPT
             ![p].todo = @ \ {ip}, ![p].writes = @ + 1,
             ![p].state = IF o.res = "ok"
                          THEN StoreBlock(@, ip, b, ShouldPermanentBlock(p, ip),
                                          op[p].at + op[p].cand[ip].ttl)
                          ELSE @]
  BY DEF BlockNew
<1> DEFINE t == T(ip)
           stored == StoreBlock(op[p].state, ip, b, ShouldPermanentBlock(p, ip),
                                op[p].at + op[p].cand[ip].ttl)
<1>2. op[p] \in Operation /\ op[p].state \in BlockState /\ op \in [Proc -> Operation]
  BY DEF TypeOK, Operation
<1>3. op[p].cand[ip].ttl \in Nat
  BY <1>1, CopyType
<1>4. t \in Nat \cup {Never} /\ (t = Never <=> ShouldPermanentBlock(p, ip))
  BY <1>3 DEF Never
<1>5. stored.blocks = Put(op[p].state.blocks, ip, Fresh(b, op[p].at, t))
  BY <1>1, <1>2, <1>4, BlocksOf DEF Fresh
<1>6. /\ op'[p].writes = op[p].writes + 1
      /\ op'[p].state = IF o.res = "ok" THEN stored ELSE op[p].state
      /\ op'[p].kind = op[p].kind /\ op'[p].config = op[p].config
      /\ op'[p].at = op[p].at /\ op'[p].requested = op[p].requested
  <2> HIDE DEF b
  <2>1. QED
    BY <1>1, <1>2 DEF Operation
<1>7. saved' = saved /\ now' = now /\ pc[p] = "apply" /\ pc' = pc
  BY DEF BlockNew
<1>8. op'[p].state.blocks = IF o.res = "ok"
        THEN Put(op[p].state.blocks, ip, Fresh(b, op[p].at, t))
        ELSE op[p].state.blocks
  <2> HIDE DEF stored, t, b
  <2>1. QED
    BY <1>5, <1>6
<1>9. Sets(b, ip, o.entry) /\ o \in BlockResults(b, ip, t)
  BY <1>1 DEF Command, Sets
<1>10. Same(p) /\ op[p].writes < MaxBlocksPerScan
  BY <1>1, <1>6, <1>7 DEF Same, MayWrite
<1>11. QED
  <2> HIDE DEF t
  <2>1. QED
    BY <1>1, <1>4, <1>6, <1>7, <1>8, <1>9, <1>10

LEMMA PromoteUnblockEffect ==
    ASSUME TypeOK, NEW p \in Proc, PromoteUnblock(p)
    PROVE  \E ip \in IP : \E o \in UnblockResults(BackendOf(op[p].config), ip) :
             /\ pc[p] = "apply" /\ pc'[p] = (IF o.res = "err" THEN "apply" ELSE "promote") /\ Same(p)
             /\ op[p].writes < MaxBlocksPerScan /\ op'[p].writes = op[p].writes + 1
             /\ o.res # "err" => NextIP(p, ip)'
             /\ Recorded(op[p].state.blocks[ip])
             /\ Sets(BackendOf(op[p].config), ip, o.entry)
             /\ op'[p].state.blocks = op[p].state.blocks
<1>1. PICK ip, o :
        /\ ip \in IP /\ o \in UnblockResults(BackendOf(op[p].config), ip)
        /\ NextIP(p, ip) /\ MayWrite(p) /\ Recorded(op[p].state.blocks[ip])
        /\ Command(BackendOf(op[p].config), ip, o)
        /\ op' = [op EXCEPT ![p].writes = @ + 1, ![p].todo = IF o.res = "err" THEN @ \ {ip} ELSE @]
        /\ pc' = [pc EXCEPT ![p] = IF o.res = "err" THEN @ ELSE "promote"]
  BY DEF PromoteUnblock
<1>2. op[p] \in Operation /\ op \in [Proc -> Operation] /\ pc \in [Proc -> Phase]
  BY DEF TypeOK
<1>3. /\ op'[p].writes = op[p].writes + 1 /\ op'[p].state = op[p].state
      /\ op'[p].todo = IF o.res = "err" THEN op[p].todo \ {ip} ELSE op[p].todo
      /\ op'[p].kind = op[p].kind /\ op'[p].config = op[p].config
      /\ op'[p].at = op[p].at /\ op'[p].requested = op[p].requested
  BY <1>1, <1>2 DEF Operation
<1>4. saved' = saved /\ now' = now /\ pc[p] = "apply"
  BY DEF PromoteUnblock
<1>5. o.res # "err" => NextIP(p, ip)'
  BY <1>1, <1>3 DEF NextIP
<1>6. /\ pc'[p] = (IF o.res = "err" THEN "apply" ELSE "promote")
      /\ Sets(BackendOf(op[p].config), ip, o.entry)
  BY <1>1, <1>2, <1>4 DEF Command, Sets
<1>7. QED
  BY <1>1, <1>3, <1>4, <1>5, <1>6 DEF Same, MayWrite

LEMMA PromoteBlockEffect ==
    ASSUME TypeOK, NEW p \in Proc, PromoteBlock(p)
    PROVE  \E ip \in IP : \E o \in BlockResults(BackendOf(op[p].config), ip, Never) :
             /\ pc[p] = "promote" /\ pc'[p] = "apply" /\ Same(p)
             /\ op'[p].writes = op[p].writes /\ NextIP(p, ip)
             /\ Sets(BackendOf(op[p].config), ip, o.entry)
             /\ op'[p].state.blocks =
                  IF o.res = "ok"
                  THEN Put(op[p].state.blocks, ip, [backend |-> BackendOf(op[p].config), expires |-> Never])
                  ELSE op[p].state.blocks
<1> DEFINE b == BackendOf(op[p].config)
<1>1. PICK ip, o :
        /\ ip \in IP /\ o \in BlockResults(b, ip, Never)
        /\ NextIP(p, ip) /\ Command(b, ip, o)
        /\ op' = [op EXCEPT ![p].todo = @ \ {ip},
             ![p].state = IF o.res = "ok" THEN StoreBlock(@, ip, b, TRUE, Never) ELSE @]
  BY DEF PromoteBlock
<1> DEFINE stored == StoreBlock(op[p].state, ip, b, TRUE, Never)
<1>2. op[p] \in Operation /\ op[p].state \in BlockState /\ op \in [Proc -> Operation]
  BY DEF TypeOK, Operation
<1>3. stored.blocks = Put(op[p].state.blocks, ip, [backend |-> b, expires |-> Never])
  BY <1>1, <1>2 DEF StoreBlock, ClearHistory, BlockState, Put
<1>4. /\ op'[p].writes = op[p].writes
      /\ op'[p].state = IF o.res = "ok" THEN stored ELSE op[p].state
      /\ op'[p].kind = op[p].kind /\ op'[p].config = op[p].config
      /\ op'[p].at = op[p].at /\ op'[p].requested = op[p].requested
  <2> HIDE DEF b
  <2>1. QED
    BY <1>1, <1>2 DEF Operation
<1>5. saved' = saved /\ now' = now /\ pc[p] = "promote" /\ pc'[p] = "apply"
  BY DEF PromoteBlock, TypeOK
<1>6. op'[p].state.blocks = IF o.res = "ok"
        THEN Put(op[p].state.blocks, ip, [backend |-> b, expires |-> Never])
        ELSE op[p].state.blocks
  <2> HIDE DEF stored, b
  <2>1. QED
    BY <1>3, <1>4
<1>7. Sets(b, ip, o.entry)
  BY <1>1 DEF Command, Sets
<1>8. QED
  BY <1>1, <1>4, <1>5, <1>6, <1>7 DEF Same

\* One address of a manual unblock, through all backends at hand.
LEMMA UnblockIPEffect ==
    ASSUME TypeOK, NEW p \in Proc, UnblockIP(p)
    PROVE  \E ip \in IP :
             LET avail == AvailableForUnblock(op[p].config) IN
             \E o \in [avail -> UNION {UnblockResults(b, ip) : b \in avail}] :
             /\ pc[p] = "unblock" /\ Same(p) /\ NextIP(p, ip)
             /\ op'[p].todo = op[p].todo \ {ip} /\ op'[p].writes = op[p].writes
             /\ \A b \in avail : o[b] \in UnblockResults(b, ip)
             /\ \A b \in Backend, j \in IP :
                  firewall'[b][j] = IF b \in avail /\ j = ip THEN o[b].entry ELSE firewall[b][j]
             /\ op'[p].state.blocks = IF UnblockFails(avail, o) THEN op[p].state.blocks
                                      ELSE Forget(op[p].state.blocks, ip)
             /\ pc'[p] = IF UnblockFails(avail, o) /\ op[p].kind = "unblock" THEN "idle" ELSE "unblock"
<1> DEFINE avail == AvailableForUnblock(op[p].config)
<1>1. PICK ip, o :
        /\ ip \in IP /\ o \in [avail -> UNION {UnblockResults(b, ip) : b \in avail}]
        /\ NextIP(p, ip)
        /\ \A b \in avail : o[b] \in UnblockResults(b, ip)
        /\ firewall' = [b \in Backend |->
             IF b \in avail THEN [firewall[b] EXCEPT ![ip] = o[b].entry] ELSE firewall[b]]
        /\ op' = [op EXCEPT
             ![p].todo = @ \ {ip},
             ![p].state = IF UnblockFails(avail, o) THEN @ ELSE ClearHistory(DropRecord(@, ip), ip)]
        /\ pc' = [pc EXCEPT ![p] =
             IF UnblockFails(avail, o) /\ op[p].kind = "unblock" THEN "idle" ELSE @]
  BY DEF UnblockIP
<1>2. /\ op[p] \in Operation /\ op[p].state \in BlockState /\ op \in [Proc -> Operation]
      /\ pc \in [Proc -> Phase] /\ firewall \in [Backend -> [IP -> Expiry]]
  BY DEF TypeOK, Operation
<1>3. saved' = saved /\ now' = now /\ pc[p] = "unblock"
  BY DEF UnblockIP
<1> DEFINE dropped == ClearHistory(DropRecord(op[p].state, ip), ip)
           failed == UnblockFails(avail, o)
<1>4. dropped.blocks = Forget(op[p].state.blocks, ip)
  BY <1>1, <1>2, BlocksOf
<1>5. /\ op'[p].todo = op[p].todo \ {ip} /\ op'[p].writes = op[p].writes
      /\ op'[p].state = IF failed THEN op[p].state ELSE dropped
      /\ op'[p].kind = op[p].kind /\ op'[p].config = op[p].config
      /\ op'[p].at = op[p].at /\ op'[p].requested = op[p].requested
      /\ pc'[p] = IF failed /\ op[p].kind = "unblock" THEN "idle" ELSE "unblock"
  BY <1>1, <1>2, <1>3 DEF Operation
<1>6. op'[p].state.blocks = IF failed THEN op[p].state.blocks ELSE Forget(op[p].state.blocks, ip)
  <2> HIDE DEF dropped, failed
  <2>1. QED
    BY <1>4, <1>5
<1>7. \A b \in Backend, j \in IP :
        firewall'[b][j] = IF b \in avail /\ j = ip THEN o[b].entry ELSE firewall[b][j]
  <2> HIDE DEF avail
  <2>1. QED
    BY <1>1, <1>2
<1>8. Same(p)
  BY <1>3, <1>5 DEF Same
<1>9. QED
  BY <1>1, <1>3, <1>5, <1>6, <1>7, <1>8

LEMMA EndEffect ==
    ASSUME TypeOK, NEW p \in Proc, SaveState(p) \/ Crash(p) \/ Reboot
    PROVE  /\ pc'[p] = "idle" /\ op'[p] = NoOperation /\ now' = now
           /\ SaveState(p) => pc[p] = "save" /\ saved' = op[p].state /\ firewall' = firewall
           /\ Crash(p) => saved' = saved /\ firewall' = firewall
           /\ Reboot => saved' = saved /\ firewall' = [b \in Backend |-> [ip \in IP |-> Absent]]
           /\ Crash(p) \/ Reboot => FaultKinds # {}
  BY DEF SaveState, Crash, Reboot, TypeOK, MayFault

LEMMA TickEffect ==
    ASSUME TypeOK, Tick
    PROVE  /\ now' = now + 1 /\ now \in Nat /\ saved' = saved /\ pc' = pc /\ op' = op
           /\ \A b \in Backend, ip \in IP :
                firewall'[b][ip] = IF firewall[b][ip] \in Nat /\ firewall[b][ip] <= now'
                                   THEN Absent ELSE firewall[b][ip]
  BY BoundAssumption DEF Tick, TypeOK

\* The steps of the only process.
LEMMA SoleSteps ==
    ASSUME NEW p, Proc = {p}, Next
    PROVE  \/ \/ BeginScan(p) \/ BeginCleanup(p)
              \/ \E ip \in IP : BeginUnblock(p, "unblock", {ip})
              \/ BeginUnblock(p, "unblock_all", RecordedIPs(saved))
           \/ LoadState(p) \/ ExpireBlock(p) \/ CheckBlock(p) \/ Quiet(p)
           \/ BlockNew(p) \/ PromoteUnblock(p) \/ PromoteBlock(p) \/ UnblockIP(p)
           \/ SaveState(p) \/ Crash(p) \/ Reboot \/ Tick
<1>1. Scanner \subseteq {p} /\ Operator \subseteq {p}
  BY DEF Proc
<1>2. QED
  BY <1>1 DEF Next, Step, Quiet

\* A command touches the entry of one address in one backend.
LEMMA OneEntry ==
    ASSUME TypeOK, NEW b \in Backend, NEW ip \in IP, NEW e,
           Sets(b, ip, e)
    PROVE  \A c \in Backend, j \in IP :
             firewall'[c][j] = IF c = b /\ j = ip THEN e ELSE firewall[c][j]
  BY DEF Sets, TypeOK

LEMMA OneRecord ==
    ASSUME NEW blocks \in [IP -> BlockRecord], NEW ip \in IP, NEW r
    PROVE  \A j \in IP : Put(blocks, ip, r)[j] = IF j = ip THEN r ELSE blocks[j]
  BY DEF Put

LEMMA Forgotten ==
    ASSUME NEW blocks \in [IP -> BlockRecord], NEW ip \in IP
    PROVE  /\ \A j \in IP : Forget(blocks, ip)[j] = IF j = ip THEN NoBlock ELSE blocks[j]
           /\ ~Recorded(NoBlock) /\ NoBlock.expires = Absent
  BY DEF Forget, Put, NoBlock, Recorded

-----------------------------------------------------------------------------
(* The budget of a scan, with any faults and backends.                      *)

LEMMA FewMore ==
    ASSUME NEW W, NEW V, NEW ip, IsFiniteSet(W)
    PROVE  /\ Cardinality(W) \in Nat
           /\ V \subseteq W => IsFiniteSet(V) /\ Cardinality(V) \in Nat /\ Cardinality(V) <= Cardinality(W)
           /\ V \subseteq W \cup {ip} =>
                IsFiniteSet(V) /\ Cardinality(V) \in Nat /\ Cardinality(V) <= Cardinality(W) + 1
<1>1. IsFiniteSet(W \cup {ip}) /\ Cardinality(W \cup {ip}) <= Cardinality(W) + 1 /\ Cardinality(W) \in Nat
  BY FS_AddElement, FS_CardinalityType
<1>2. QED
  BY <1>1, FS_Subset, FS_CardinalityType

LEMMA BudgetStep ==
    ASSUME NEW p, Proc = {p}, TypeOK, TypeOK', BudgetOperation(p), Next
    PROVE  BudgetOperation(p)'
<1>0. /\ p \in Proc /\ op[p].writes \in Nat /\ op'[p].writes \in Nat /\ MaxBlocksPerScan \in Nat
      /\ op[p].state.blocks \in [IP -> BlockRecord] /\ saved.blocks \in [IP -> BlockRecord]
  BY BoundAssumption DEF TypeOK, Operation, BlockState
<1>1. ASSUME op'[p].state = saved, saved' = saved
      PROVE  Written(p)' = {} /\ IsFiniteSet(Written(p)') /\ Cardinality(Written(p)') = 0
  BY <1>1, FS_EmptySet DEF Written
<1>2. CASE \/ BeginScan(p) \/ BeginCleanup(p)
           \/ \E ip \in IP : BeginUnblock(p, "unblock", {ip})
           \/ BeginUnblock(p, "unblock_all", RecordedIPs(saved))
  <2>1. op'[p].writes = 0 /\ (pc'[p] = "load" \/ (op'[p].state = saved /\ saved' = saved /\ pc'[p] # "promote"))
    BY <1>0, <1>2, BeginEffect
  <2>2. CASE pc'[p] = "load"
    BY <2>1, <2>2 DEF BudgetOperation, Loaded
  <2>3. CASE pc'[p] # "load"
    <3>1. IsFiniteSet(Written(p)') /\ Cardinality(Written(p)') = 0
      BY <1>1, <2>1, <2>3
    <3>2. QED
      BY <1>0, <2>1, <2>3, <3>1 DEF BudgetOperation
  <2>4. QED
    BY <2>2, <2>3
<1>3. CASE LoadState(p)
  BY <1>0, <1>1, <1>3, LoadEffect DEF BudgetOperation, Loaded, Same
<1>4. ASSUME NEW ip \in IP, Loaded(p), saved' = saved, op'[p].writes = op[p].writes, Loaded(p)' \/ pc'[p] = "idle",
             pc'[p] = "promote" => pc[p] = "promote",
             op'[p].state.blocks \in {op[p].state.blocks, Forget(op[p].state.blocks, ip)}
      PROVE  BudgetOperation(p)'
  <2>1. Written(p)' \subseteq Written(p)
    <3>1. \A j \in IP : \/ op'[p].state.blocks[j] = op[p].state.blocks[j]
                        \/ ~Recorded(op'[p].state.blocks[j])
      BY <1>0, <1>4, Forgotten
    <3>2. QED
      BY <1>4, <3>1 DEF Written
  <2>2. QED
    BY <1>0, <1>4, <2>1, FewMore DEF BudgetOperation, Loaded
<1>5. CASE ExpireBlock(p)
  BY <1>0, <1>4, <1>5, ExpireEffect DEF Same, Loaded
<1>6. CASE CheckBlock(p)
  BY <1>0, <1>4, <1>6, CheckEffect DEF Same, Loaded
<1>7. CASE Quiet(p)
  <2>1. /\ op'[p].state.blocks = op[p].state.blocks /\ saved' = saved /\ op'[p].writes = op[p].writes
        /\ Loaded(p) /\ Loaded(p)' /\ pc'[p] # "promote"
    BY <1>0, <1>7, QuietEffect DEF Same, Loaded
  <2>2. Written(p)' = Written(p)
    BY <2>1 DEF Written
  <2>3. QED
    BY <1>0, <2>1, <2>2, FewMore DEF BudgetOperation, Loaded
<1>8. CASE UnblockIP(p)
  BY <1>0, <1>4, <1>8, UnblockIPEffect DEF Same, Loaded
<1>9. ASSUME NEW ip \in IP, NEW r, Loaded(p), saved' = saved, Loaded(p)', pc'[p] # "promote",
             op'[p].writes <= MaxBlocksPerScan,
             op'[p].writes >= Cardinality(Written(p)) + 1,
             op'[p].state.blocks \in {op[p].state.blocks, Put(op[p].state.blocks, ip, r)}
      PROVE  BudgetOperation(p)'
  <2>1. Written(p)' \subseteq Written(p) \cup {ip}
    BY <1>0, <1>9, OneRecord DEF Written
  <2>2. IsFiniteSet(Written(p))
    BY <1>9 DEF BudgetOperation
  <2>3. /\ Cardinality(Written(p)) \in Nat /\ Cardinality(Written(p)') \in Nat
        /\ IsFiniteSet(Written(p)') /\ Cardinality(Written(p)') <= Cardinality(Written(p)) + 1
    BY <2>1, <2>2, FewMore
  <2>4. QED
    BY <1>0, <1>9, <2>3 DEF BudgetOperation, Loaded
<1>10. CASE BlockNew(p)
  <2> DEFINE R(ttl) == Fresh(BackendOf(op[p].config), op[p].at, ttl)
  <2>a. PICK ip \in IP, ttl \in Nat \cup {Never} :
          /\ pc[p] = "apply" /\ pc' = pc /\ saved' = saved
          /\ op[p].writes < MaxBlocksPerScan /\ op'[p].writes = op[p].writes + 1
          /\ op'[p].state.blocks \in {op[p].state.blocks, Put(op[p].state.blocks, ip, R(ttl))}
    BY <1>0, <1>10, BlockNewEffect DEF Same
  <2> DEFINE r == R(ttl)
  <2>1. /\ pc[p] = "apply" /\ pc' = pc /\ saved' = saved
        /\ op[p].writes < MaxBlocksPerScan /\ op'[p].writes = op[p].writes + 1
        /\ op'[p].state.blocks \in {op[p].state.blocks, Put(op[p].state.blocks, ip, r)}
    BY <2>a
  <2> HIDE DEF r, R
  <2>2. op[p].writes >= Cardinality(Written(p)) /\ Cardinality(Written(p)) \in Nat
    BY <1>0, <2>1, FewMore DEF BudgetOperation, Loaded
  <2>3. /\ op'[p].writes <= MaxBlocksPerScan /\ op'[p].writes >= Cardinality(Written(p)) + 1
        /\ Loaded(p) /\ Loaded(p)' /\ pc'[p] # "promote"
    BY <1>0, <2>1, <2>2 DEF Loaded
  <2>4. QED
    BY <1>9, <2>1, <2>3
<1>11. CASE PromoteBlock(p)
  <2> DEFINE r == [backend |-> BackendOf(op[p].config), expires |-> Never]
  <2>1. PICK ip \in IP :
          /\ pc[p] = "promote" /\ pc'[p] = "apply" /\ saved' = saved /\ op'[p].writes = op[p].writes
          /\ op'[p].state.blocks \in {op[p].state.blocks, Put(op[p].state.blocks, ip, r)}
    BY <1>0, <1>11, PromoteBlockEffect DEF Same
  <2>2. op[p].writes >= Cardinality(Written(p)) + 1 /\ op[p].writes <= MaxBlocksPerScan
    BY <1>0, <2>1, FewMore DEF BudgetOperation, Loaded
  <2>3. QED
    BY <1>0, <1>9, <2>1, <2>2 DEF Loaded
<1>12. CASE PromoteUnblock(p)
  <2>1. /\ pc[p] = "apply" /\ pc'[p] \in {"apply", "promote"} /\ saved' = saved
        /\ op[p].writes < MaxBlocksPerScan /\ op'[p].writes = op[p].writes + 1
        /\ op'[p].state.blocks = op[p].state.blocks
    BY <1>0, <1>12, PromoteUnblockEffect DEF Same
  <2>2. Written(p)' = Written(p)
    BY <2>1 DEF Written
  <2>3. QED
    BY <1>0, <2>1, <2>2, FewMore DEF BudgetOperation, Loaded
<1>13. CASE SaveState(p) \/ Crash(p) \/ Reboot
  BY <1>0, <1>13, EndEffect DEF BudgetOperation, Loaded
<1>14. CASE Tick
  <2>1. pc' = pc /\ op' = op /\ saved' = saved
    BY <1>14 DEF Tick
  <2>2. QED
    BY <2>1 DEF BudgetOperation, Loaded, Written
<1>15. QED
  BY <1>2, <1>3, <1>5, <1>6, <1>7, <1>8, <1>10, <1>11, <1>12, <1>13, <1>14, SoleSteps

\* The writes a running scan has counted cover the records it has added or
\* upgraded, also between the two commands of a promotion, and stay within
\* max_blocks_per_scan - whatever commands fail and whatever backends are used.
THEOREM BudgetKept ==
    ASSUME Sole
    PROVE  Spec => []BudgetInv
<1> PICK p : Proc = {p}
  BY DEF Sole
<1>1. BudgetInv <=> BudgetOperation(p)
  BY DEF BudgetInv
<1>2. Init => BudgetOperation(p)
  BY DEF Init, BudgetOperation, Loaded
<1>3. TypeOK /\ TypeOK' /\ BudgetOperation(p) /\ [Next]_vars => BudgetOperation(p)'
  <2>1. CASE UNCHANGED vars
    BY <2>1 DEF vars, BudgetOperation, Loaded, Written
  <2>2. QED
    BY <2>1, BudgetStep
<1>4. QED
  BY <1>1, <1>2, <1>3, TypeCorrect, PTL DEF Spec

\* One scan adds or upgrades at most max_blocks_per_scan records, for any
\* addresses, candidates, backends and faults, as long as operations alternate
\* (an overlapping save would bring back records that another process dropped).
THEOREM ScanWritesBounded ==
    ASSUME Sole
    PROVE  Spec => ScanWriteBudget
<1> PICK p : Proc = {p}
  BY DEF Sole
<1>1. TypeOK /\ BudgetInv /\ [Next]_vars =>
        [Cardinality({ip \in IP : /\ Recorded(saved'.blocks[ip])
                                  /\ saved'.blocks[ip] # saved.blocks[ip]})
           <= MaxBlocksPerScan]_vars
  <2> SUFFICES ASSUME TypeOK, BudgetInv, Next
               PROVE  Cardinality({ip \in IP : /\ Recorded(saved'.blocks[ip])
                                               /\ saved'.blocks[ip] # saved.blocks[ip]})
                        <= MaxBlocksPerScan
    OBVIOUS
  <2>0. p \in Proc /\ MaxBlocksPerScan \in Nat /\ op[p].writes \in Nat
    BY BoundAssumption DEF TypeOK, Operation
  <2>1. CASE SaveState(p)
    <3>1. pc[p] = "save" /\ saved' = op[p].state
      BY <2>1 DEF SaveState
    <3>2. IsFiniteSet(Written(p)) /\ Cardinality(Written(p)) <= MaxBlocksPerScan
      <4>1. /\ IsFiniteSet(Written(p)) /\ op[p].writes <= MaxBlocksPerScan
            /\ Cardinality(Written(p)) + 0 <= op[p].writes
        BY <2>0, <3>1 DEF BudgetInv, BudgetOperation, Loaded
      <4>2. QED
        BY <2>0, <4>1, FS_CardinalityType
    <3>3. QED
      BY <3>1, <3>2 DEF Written
  <2>2. CASE ~SaveState(p)
    <3>1. saved' = saved
      BY <2>0, <2>2, SoleSteps, BeginEffect, LoadEffect, ExpireEffect, CheckEffect, QuietEffect,
         BlockNewEffect, PromoteUnblockEffect, PromoteBlockEffect, UnblockIPEffect, EndEffect, TickEffect
         DEF Same
    <3>2. {ip \in IP : Recorded(saved'.blocks[ip]) /\ saved'.blocks[ip] # saved.blocks[ip]} = {}
      BY <3>1
    <3>3. QED
      BY <2>0, <3>2, FS_EmptySet
  <2>3. QED
    BY <2>1, <2>2
<1>2. QED
  BY <1>1, TypeCorrect, BudgetKept, PTL DEF Spec, ScanWriteBudget

-----------------------------------------------------------------------------
(* One backend: every record and entry is its own.                          *)

LEMMA HomeStep ==
    ASSUME OneBackend, NEW p, Proc = {p}, TypeOK, TypeOK', HomeOperation(p), Next
    PROVE  HomeOperation(p)'
<1>0. /\ p \in Proc /\ op[p].state \in BlockState
      /\ op[p].state.blocks \in [IP -> BlockRecord] /\ saved.blocks \in [IP -> BlockRecord]
      /\ \A ip \in IP : op[p].state.blocks[ip].backend \in Backend
      /\ BackendOf(op[p].config) \in Backend
  BY DEF TypeOK, Operation, BlockState, BlockRecord, BackendOf, Backend
<1>a. HomeRecord(NoBlock) /\ \A ip \in IP : HomeRecord(EmptyState.blocks[ip])
  BY DEF HomeRecord, Recorded, NoBlock, EmptyState
<1>1. CASE \/ BeginScan(p) \/ BeginCleanup(p)
           \/ \E ip \in IP : BeginUnblock(p, "unblock", {ip})
           \/ BeginUnblock(p, "unblock_all", RecordedIPs(saved))
  <2>1. /\ saved' = saved /\ firewall' = firewall /\ op'[p].config \in ConfiguredBackends
        /\ op'[p].state \in {saved, EmptyState}
    BY <1>0, <1>1, BeginEffect
  <2>2. QED
    BY <1>a, <2>1 DEF HomeOperation
<1>2. CASE LoadState(p)
  BY <1>0, <1>2, LoadEffect DEF HomeOperation, Same
<1>3. ASSUME NEW ip \in IP, pc[p] # "idle", Same(p),
             \/ op'[p].state.blocks \in {op[p].state.blocks, Forget(op[p].state.blocks, ip)}
             \/ \E e : op'[p].state.blocks =
                  Put(op[p].state.blocks, ip, [backend |-> BackendOf(op[p].config), expires |-> e]),
             \A b \in Backend, j \in IP :
               firewall'[b][j] # Absent => firewall[b][j] # Absent \/ b = BackendOf(op[p].config)
      PROVE  HomeOperation(p)'
  <2>1. op[p].config \in ConfiguredBackends
    BY <1>3 DEF HomeOperation
  <2>2. \A j \in IP : HomeRecord(op'[p].state.blocks[j])
    <3>1. CASE op'[p].state.blocks \in {op[p].state.blocks, Forget(op[p].state.blocks, ip)}
      BY <1>0, <1>3, <1>a, <3>1, Forgotten, SMTT(30) DEF HomeOperation
    <3>2. CASE \E e : op'[p].state.blocks =
                  Put(op[p].state.blocks, ip, [backend |-> BackendOf(op[p].config), expires |-> e])
      <4> PICK e : op'[p].state.blocks =
                  Put(op[p].state.blocks, ip, [backend |-> BackendOf(op[p].config), expires |-> e])
        BY <3>2
      <4> DEFINE r == [backend |-> BackendOf(op[p].config), expires |-> e]
      <4>1. HomeRecord(r)
        BY <2>1 DEF HomeRecord, OneBackend
      <4> HIDE DEF r
      <4>2. \A j \in IP : op'[p].state.blocks[j] = IF j = ip THEN r ELSE op[p].state.blocks[j]
        BY <1>0, OneRecord DEF r
      <4>3. QED
        BY <4>1, <4>2 DEF HomeOperation
    <3>3. QED
      BY <1>3, <3>1, <3>2
  <2>3. \A b \in Backend, j \in IP : firewall'[b][j] # Absent => \A c \in ConfiguredBackends : b = BackendOf(c)
    BY <1>3, <2>1 DEF HomeOperation, OneBackend
  <2>4. saved' = saved /\ op'[p].config \in ConfiguredBackends
    BY <1>3, <2>1 DEF Same
  <2>5. QED
    BY <2>2, <2>3, <2>4 DEF HomeOperation
<1>4. ASSUME NEW b \in Backend, NEW ip \in IP, NEW e, e \in {firewall[b][ip], Absent},
             Sets(b, ip, e)
      PROVE  \A c \in Backend, j \in IP : firewall'[c][j] # Absent => firewall[c][j] # Absent
  BY <1>4, OneEntry
<1>5. CASE ExpireBlock(p)
  <2> DEFINE B(ip) == op[p].state.blocks[ip].backend
  <2>1. PICK ip \in IP : \E o \in UnblockResults(B(ip), ip) :
          /\ pc[p] = "expire" /\ Same(p)
          /\ Sets(B(ip), ip, o.entry)
          /\ op'[p].state.blocks \in {op[p].state.blocks, Forget(op[p].state.blocks, ip)}
    BY <1>0, <1>5, ExpireEffect
  <2>2. B(ip) \in Backend
    BY <1>0
  <2> DEFINE b == B(ip)
  <2> HIDE DEF B
  <2>3. \A c \in Backend, j \in IP : firewall'[c][j] # Absent => firewall[c][j] # Absent
    BY <1>4, <2>1, <2>2, UnblockAnswers
  <2>4. QED
    BY <1>3, <2>1, <2>3
<1>6. CASE CheckBlock(p)
  <2>1. PICK ip \in IP : pc[p] = "check" /\ Same(p) /\ firewall' = firewall
          /\ op'[p].state.blocks \in {op[p].state.blocks, Forget(op[p].state.blocks, ip)}
    BY <1>0, <1>6, CheckEffect
  <2>2. QED
    BY <1>3, <2>1
<1>7. CASE Quiet(p)
  <2>1. Same(p) /\ firewall' = firewall /\ op'[p].state.blocks = op[p].state.blocks /\ pc[p] # "idle"
    BY <1>0, <1>7, QuietEffect
  <2>2. QED
    BY <2>1 DEF Same, HomeOperation
<1>8. CASE BlockNew(p)
  <2> DEFINE b == BackendOf(op[p].config)
  <2>1. PICK ip \in IP, ttl \in Nat \cup {Never} : \E o \in BlockResults(b, ip, ttl) :
          /\ pc[p] = "apply" /\ Same(p)
          /\ Sets(b, ip, o.entry)
          /\ \/ op'[p].state.blocks = op[p].state.blocks
             \/ op'[p].state.blocks = Put(op[p].state.blocks, ip, Fresh(b, op[p].at, ttl))
    BY <1>0, <1>8, BlockNewEffect
  <2>2. \A c \in Backend, j \in IP : firewall'[c][j] # Absent => firewall[c][j] # Absent \/ c = b
    <3> HIDE DEF b
    <3>1. QED
      BY <1>0, <2>1, OneEntry DEF b
  <2>3. \E e : Fresh(b, op[p].at, ttl) = [backend |-> BackendOf(op[p].config), expires |-> e]
    BY DEF Fresh
  <2>4. QED
    BY <1>3, <2>1, <2>2, <2>3
<1>9. CASE PromoteUnblock(p)
  <2> DEFINE b == BackendOf(op[p].config)
  <2>1. PICK ip \in IP : \E o \in UnblockResults(b, ip) :
          /\ pc[p] = "apply" /\ Same(p)
          /\ Sets(b, ip, o.entry)
          /\ op'[p].state.blocks = op[p].state.blocks
    BY <1>0, <1>9, PromoteUnblockEffect
  <2>2. \A c \in Backend, j \in IP : firewall'[c][j] # Absent => firewall[c][j] # Absent
    BY <1>0, <1>4, <2>1, UnblockAnswers
  <2>3. QED
    BY <1>3, <2>1, <2>2
<1>10. CASE PromoteBlock(p)
  <2> DEFINE b == BackendOf(op[p].config)
  <2>1. PICK ip \in IP : \E o \in BlockResults(b, ip, Never) :
          /\ pc[p] = "promote" /\ Same(p)
          /\ Sets(b, ip, o.entry)
          /\ \/ op'[p].state.blocks = op[p].state.blocks
             \/ op'[p].state.blocks = Put(op[p].state.blocks, ip, [backend |-> b, expires |-> Never])
    BY <1>0, <1>10, PromoteBlockEffect
  <2>2. \A c \in Backend, j \in IP : firewall'[c][j] # Absent => firewall[c][j] # Absent \/ c = b
    <3> HIDE DEF b
    <3>1. QED
      BY <1>0, <2>1, OneEntry DEF b
  <2>3. QED
    BY <1>3, <2>1, <2>2
<1>11. CASE UnblockIP(p)
  <2> DEFINE avail == AvailableForUnblock(op[p].config)
  <2>1. PICK ip \in IP : \E o \in [avail -> UNION {UnblockResults(b, ip) : b \in avail}] :
          /\ pc[p] = "unblock" /\ Same(p)
          /\ \A b \in avail : o[b] \in UnblockResults(b, ip)
          /\ \A b \in Backend, j \in IP :
               firewall'[b][j] = IF b \in avail /\ j = ip THEN o[b].entry ELSE firewall[b][j]
          /\ op'[p].state.blocks \in {op[p].state.blocks, Forget(op[p].state.blocks, ip)}
    BY <1>0, <1>11, UnblockIPEffect
  <2>2. \A c \in Backend, j \in IP : firewall'[c][j] # Absent => firewall[c][j] # Absent
    <3> HIDE DEF avail
    <3>1. QED
      BY <2>1, UnblockAnswers
  <2>3. QED
    BY <1>3, <2>1, <2>2
<1>12. CASE SaveState(p) \/ Crash(p) \/ Reboot
  <2>1. /\ pc'[p] = "idle" /\ op'[p].state = EmptyState /\ saved' \in {saved, op[p].state}
        /\ \A b \in Backend, j \in IP : firewall'[b][j] \in {firewall[b][j], Absent}
    BY <1>0, <1>12, EndEffect DEF NoOperation, NewOperation
  <2>2. QED
    BY <1>a, <2>1 DEF HomeOperation
<1>13. CASE Tick
  BY <1>13, TickEffect DEF HomeOperation
<1>14. QED
  BY <1>1, <1>2, <1>5, <1>6, <1>7, <1>8, <1>9, <1>10, <1>11, <1>12, <1>13, SoleSteps

LEMMA OneHome ==
    ASSUME OneBackend, NEW p, Proc = {p}
    PROVE  Spec => []HomeOperation(p)
<1>1. Init => HomeOperation(p)
  BY DEF Init, HomeOperation, NoOperation, NewOperation, EmptyState, NoBlock, HomeRecord, Recorded
<1>2. TypeOK /\ TypeOK' /\ HomeOperation(p) /\ [Next]_vars => HomeOperation(p)'
  <2>1. CASE UNCHANGED vars
    BY <2>1 DEF vars, HomeOperation
  <2>2. QED
    BY <2>1, HomeStep
<1>3. QED
  BY <1>1, <1>2, TypeCorrect, PTL DEF Spec

-----------------------------------------------------------------------------
(* No record is dropped before its entry is gone.                           *)

LEMMA HomeAvailable ==
    ASSUME NEW config \in Backend \cup {"auto"}, AvailableForUnblock(config) # {}
    PROVE  BackendOf(config) \in AvailableForUnblock(config)
  BY BackendAssumption DEF AvailableForUnblock, BackendOf, Backend

\* Two records of one backend.
LEMMA HomeIsOne ==
    ASSUME NEW p, HomeOperation(p), pc[p] # "idle", NEW ip \in IP
    PROVE  /\ Recorded(saved.blocks[ip]) => saved.blocks[ip].backend = BackendOf(op[p].config)
           /\ Recorded(op[p].state.blocks[ip]) => op[p].state.blocks[ip].backend = BackendOf(op[p].config)
           /\ \A b \in Backend : firewall[b][ip] # Absent => b = BackendOf(op[p].config)
  BY DEF HomeOperation, HomeRecord

LEMMA ReleaseStep ==
    ASSUME OneBackend, Definite, NEW p, Proc = {p}, TypeOK, TypeOK', HomeOperation(p),
           ReleaseOperation(p), Next
    PROVE  ReleaseOperation(p)'
<1>0. /\ p \in Proc /\ op[p].state.blocks \in [IP -> BlockRecord] /\ saved.blocks \in [IP -> BlockRecord]
      /\ \A ip \in IP : op[p].state.blocks[ip].backend \in Backend /\ saved.blocks[ip].backend \in Backend
      /\ BackendOf(op[p].config) \in Backend /\ op[p].config \in Backend \cup {"auto"}
  BY DEF TypeOK, Operation, BlockState, BlockRecord, BackendOf, Backend
<1>1. CASE \/ BeginScan(p) \/ BeginCleanup(p)
           \/ \E ip \in IP : BeginUnblock(p, "unblock", {ip})
           \/ BeginUnblock(p, "unblock_all", RecordedIPs(saved))
  <2>1. saved' = saved /\ (pc'[p] = "load" \/ op'[p].state = saved)
    BY <1>0, <1>1, BeginEffect
  <2>2. QED
    BY <2>1 DEF ReleaseOperation, Loaded
<1>2. CASE LoadState(p)
  BY <1>0, <1>2, LoadEffect DEF ReleaseOperation, Same
<1>3. ASSUME NEW ip \in IP, Loaded(p), saved' = saved,
             \A b \in Backend, j \in IP : j # ip /\ firewall[b][j] = Absent => firewall'[b][j] = Absent,
             \A j \in IP : j # ip => op'[p].state.blocks[j] = op[p].state.blocks[j],
             \/ Recorded(op'[p].state.blocks[ip])
             \/ Recorded(saved.blocks[ip]) => firewall'[saved.blocks[ip].backend][ip] = Absent
      PROVE  ReleaseOperation(p)'
  <2> SUFFICES ASSUME NEW j \in IP, Recorded(saved.blocks[j]), ~Recorded(op'[p].state.blocks[j])
               PROVE  firewall'[saved.blocks[j].backend][j] = Absent
    BY <1>3 DEF ReleaseOperation
  <2>1. CASE j = ip
    BY <1>3, <2>1
  <2>2. CASE j # ip
    BY <1>0, <1>3, <2>2 DEF ReleaseOperation
  <2>3. QED
    BY <2>1, <2>2
<1>4. CASE ExpireBlock(p)
  <2> DEFINE B(ip) == op[p].state.blocks[ip].backend
  <2>1. PICK ip \in IP : \E o \in UnblockResults(B(ip), ip) :
          /\ pc[p] = "expire" /\ Same(p)
          /\ Sets(B(ip), ip, o.entry)
          /\ op'[p].state.blocks = IF o.res = "err" THEN op[p].state.blocks
                                   ELSE Forget(op[p].state.blocks, ip)
    BY <1>0, <1>4, ExpireEffect
  <2>2. PICK o \in UnblockResults(B(ip), ip) :
          /\ Sets(B(ip), ip, o.entry)
          /\ op'[p].state.blocks = IF o.res = "err" THEN op[p].state.blocks
                                   ELSE Forget(op[p].state.blocks, ip)
    BY <2>1
  <2>a. B(ip) \in Backend
    BY <1>0
  <2>3. /\ \A b \in Backend, j \in IP :
             firewall'[b][j] = IF b = B(ip) /\ j = ip THEN o.entry ELSE firewall[b][j]
        /\ o.entry \in {firewall[B(ip)][ip], Absent} /\ (o.res # "err" => o.entry = Absent)
    <3> HIDE DEF B
    <3>1. \A b \in Backend, j \in IP :
             firewall'[b][j] = IF b = B(ip) /\ j = ip THEN o.entry ELSE firewall[b][j]
      BY <2>a, <2>2, OneEntry
    <3>2. QED
      BY <2>a, <3>1, UnblockAnswers
  <2>4. \A j \in IP : j # ip => op'[p].state.blocks[j] = op[p].state.blocks[j]
    BY <1>0, <2>2, Forgotten, SMTT(30)
  <2>5. \/ Recorded(op'[p].state.blocks[ip])
        \/ Recorded(saved.blocks[ip]) => firewall'[saved.blocks[ip].backend][ip] = Absent
    <3>1. CASE ~Recorded(op[p].state.blocks[ip])
      BY <1>0, <2>1, <2>3, <3>1, SMTT(30) DEF ReleaseOperation, Loaded
    <3>2. CASE Recorded(op[p].state.blocks[ip])
      <4>1. Recorded(saved.blocks[ip]) => saved.blocks[ip].backend = B(ip)
        BY <2>1, <3>2, HomeIsOne
      <4>2. QED
        BY <1>0, <2>2, <2>3, <3>2, <4>1
    <3>3. QED
      BY <3>1, <3>2
  <2>6. Loaded(p) /\ saved' = saved
    BY <2>1 DEF Loaded, Same
  <2>7. \A b \in Backend, j \in IP : j # ip /\ firewall[b][j] = Absent => firewall'[b][j] = Absent
    BY <2>3
  <2>8. QED
    BY <1>3, <2>4, <2>5, <2>6, <2>7
<1>5. CASE CheckBlock(p)
  <2> DEFINE B(ip) == op[p].state.blocks[ip].backend
  <2>1. PICK ip \in IP : \E o \in IsBlockedResults(B(ip), ip) :
          /\ pc[p] = "check" /\ saved' = saved /\ firewall' = firewall
          /\ op'[p].state.blocks = IF o.res = "false" THEN Forget(op[p].state.blocks, ip)
                                   ELSE op[p].state.blocks
    BY <1>0, <1>5, CheckEffect DEF Same
  <2>2. PICK o \in IsBlockedResults(B(ip), ip) :
          op'[p].state.blocks = IF o.res = "false" THEN Forget(op[p].state.blocks, ip)
                                ELSE op[p].state.blocks
    BY <2>1
  <2>3. o.res = "false" => firewall[B(ip)][ip] = Absent
    BY <1>0, CheckAnswers
  <2>4. \A j \in IP : j # ip => op'[p].state.blocks[j] = op[p].state.blocks[j]
    BY <1>0, <2>2, Forgotten, SMTT(30)
  <2>5. \/ Recorded(op'[p].state.blocks[ip])
        \/ Recorded(saved.blocks[ip]) => firewall'[saved.blocks[ip].backend][ip] = Absent
    <3>1. CASE ~Recorded(op[p].state.blocks[ip])
      BY <1>0, <2>1, <3>1 DEF ReleaseOperation, Loaded
    <3>2. CASE Recorded(op[p].state.blocks[ip])
      <4>1. Recorded(saved.blocks[ip]) => saved.blocks[ip].backend = B(ip)
        BY <2>1, <3>2, HomeIsOne
      <4>2. QED
        BY <1>0, <2>1, <2>2, <2>3, <3>2, <4>1
    <3>3. QED
      BY <3>1, <3>2
  <2>6. QED
    BY <1>3, <2>1, <2>4, <2>5 DEF Loaded
<1>6. CASE Quiet(p)
  <2>1. saved' = saved /\ firewall' = firewall /\ op'[p].state.blocks = op[p].state.blocks /\ Loaded(p)
    BY <1>0, <1>6, QuietEffect DEF Same, Loaded
  <2>2. QED
    BY <2>1 DEF ReleaseOperation
<1>7. ASSUME NEW b \in Backend, NEW ip \in IP, NEW ttl \in Nat \cup {Never}, NEW e \in Nat \cup {Never},
             NEW o \in BlockResults(b, ip, ttl), Loaded(p), saved' = saved,
             Sets(b, ip, o.entry),
             op'[p].state.blocks =
               IF o.res = "ok" THEN Put(op[p].state.blocks, ip, [backend |-> b, expires |-> e])
               ELSE op[p].state.blocks
      PROVE  ReleaseOperation(p)'
  <2>1. /\ \A c \in Backend, j \in IP :
             firewall'[c][j] = IF c = b /\ j = ip THEN o.entry ELSE firewall[c][j]
        /\ o.res # "ok" => o.entry = firewall[b][ip]
    <3>1. \A c \in Backend, j \in IP :
             firewall'[c][j] = IF c = b /\ j = ip THEN o.entry ELSE firewall[c][j]
      BY <1>7, OneEntry
    <3>2. o.res # "ok" => o.entry = firewall[b][ip]
      BY <1>7, BlockAnswers
    <3>3. QED
      BY <3>1, <3>2
  <2> DEFINE r == [backend |-> b, expires |-> e]
  <2>2. Recorded(r)
    BY DEF Recorded, Never, Absent
  <2> HIDE DEF r
  <2>3. \A j \in IP : op'[p].state.blocks[j] =
          IF o.res = "ok" /\ j = ip THEN r ELSE op[p].state.blocks[j]
    BY <1>0, <1>7, OneRecord DEF r
  <2>4. \/ Recorded(op'[p].state.blocks[ip])
        \/ Recorded(saved.blocks[ip]) => firewall'[saved.blocks[ip].backend][ip] = Absent
    BY <1>0, <1>7, <2>1, <2>2, <2>3 DEF ReleaseOperation
  <2>5. QED
    BY <1>3, <1>7, <2>1, <2>3, <2>4
<1>8. CASE BlockNew(p)
  <2> DEFINE b == BackendOf(op[p].config)
  <2>1. PICK ip \in IP, ttl \in Nat \cup {Never} : \E o \in BlockResults(b, ip, ttl) :
          /\ pc[p] = "apply" /\ Same(p)
          /\ Sets(b, ip, o.entry)
          /\ \/ o.res # "ok" /\ op'[p].state.blocks = op[p].state.blocks
             \/ o.res = "ok" /\ op'[p].state.blocks =
                  Put(op[p].state.blocks, ip, Fresh(b, op[p].at, ttl))
    BY <1>0, <1>8, BlockNewEffect
  <2>2. \E e \in Nat \cup {Never} : Fresh(b, op[p].at, ttl) = [backend |-> b, expires |-> e]
    <3>1. op[p].at \in Nat
      BY <1>0 DEF TypeOK, Operation
    <3> DEFINE e == IF ttl = Never THEN Never ELSE op[p].at + ttl
    <3>2. e \in Nat \cup {Never}
      BY <3>1
    <3>3. Fresh(b, op[p].at, ttl) = [backend |-> b, expires |-> e]
      BY DEF Fresh
    <3>4. QED
      BY <3>2, <3>3
  <2> HIDE DEF b
  <2>3. QED
    BY <1>0, <1>7, <2>1, <2>2 DEF Loaded, Same, b
<1>9. CASE PromoteBlock(p)
  <2> DEFINE b == BackendOf(op[p].config)
  <2>1. PICK ip \in IP : \E o \in BlockResults(b, ip, Never) :
          /\ pc[p] = "promote" /\ Same(p)
          /\ Sets(b, ip, o.entry)
          /\ op'[p].state.blocks =
               IF o.res = "ok" THEN Put(op[p].state.blocks, ip, [backend |-> b, expires |-> Never])
               ELSE op[p].state.blocks
    BY <1>0, <1>9, PromoteBlockEffect
  <2> HIDE DEF b
  <2>2. QED
    BY <1>0, <1>7, <2>1 DEF Loaded, Same, b
<1>10. CASE PromoteUnblock(p)
  <2> DEFINE b == BackendOf(op[p].config)
  <2>1. PICK ip \in IP : \E o \in UnblockResults(b, ip) :
          /\ pc[p] = "apply" /\ saved' = saved
          /\ Sets(b, ip, o.entry)
          /\ op'[p].state.blocks = op[p].state.blocks
    BY <1>0, <1>10, PromoteUnblockEffect DEF Same
  <2> HIDE DEF b
  <2>2. \A c \in Backend, j \in IP : firewall[c][j] = Absent => firewall'[c][j] = Absent
    BY <1>0, <2>1, OneEntry, UnblockAnswers DEF b
  <2>3. QED
    BY <1>0, <2>1, <2>2 DEF ReleaseOperation, Loaded
<1>11. CASE UnblockIP(p)
  <2> DEFINE avail == AvailableForUnblock(op[p].config)
             home == BackendOf(op[p].config)
  <2>1. PICK ip \in IP : \E o \in [avail -> UNION {UnblockResults(b, ip) : b \in avail}] :
          /\ pc[p] = "unblock" /\ saved' = saved
          /\ \A b \in avail : o[b] \in UnblockResults(b, ip)
          /\ \A b \in Backend, j \in IP :
               firewall'[b][j] = IF b \in avail /\ j = ip THEN o[b].entry ELSE firewall[b][j]
          /\ op'[p].state.blocks = IF UnblockFails(avail, o) THEN op[p].state.blocks
                                   ELSE Forget(op[p].state.blocks, ip)
    BY <1>0, <1>11, UnblockIPEffect DEF Same
  <2>2. PICK o \in [avail -> UNION {UnblockResults(b, ip) : b \in avail}] :
          /\ \A b \in avail : o[b] \in UnblockResults(b, ip)
          /\ \A b \in Backend, j \in IP :
               firewall'[b][j] = IF b \in avail /\ j = ip THEN o[b].entry ELSE firewall[b][j]
          /\ op'[p].state.blocks = IF UnblockFails(avail, o) THEN op[p].state.blocks
                                   ELSE Forget(op[p].state.blocks, ip)
    BY <2>1
  <2>3. avail \subseteq Backend /\ (avail # {} => home \in avail)
    BY <1>0, HomeAvailable DEF AvailableForUnblock
  <2>4. \A j \in IP : j # ip => op'[p].state.blocks[j] = op[p].state.blocks[j]
    BY <1>0, <2>2, Forgotten
  <2>5. \A b \in Backend : b = home \/ firewall[b][ip] = Absent
    BY <2>1, HomeIsOne
  <2> HIDE DEF avail, home
  <2>6. \A b \in Backend, j \in IP : firewall[b][j] = Absent => firewall'[b][j] = Absent
    BY <2>2, <2>3, UnblockAnswers
  <2>7. ~UnblockFails(avail, o) => firewall'[home][ip] = Absent
    <3> SUFFICES ASSUME ~UnblockFails(avail, o) PROVE firewall'[home][ip] = Absent
      OBVIOUS
    <3>1. home \in avail /\ home \in Backend
      BY <2>3 DEF UnblockFails
    <3>2. o[home].res # "err"
      <4>1. SUFFICES ASSUME o[home].res = "err" PROVE FALSE
        OBVIOUS
      <4>2. PICK b \in avail : o[b].res = "true"
        BY <3>1, <4>1 DEF UnblockFails
      <4>3. firewall[b][ip] # Absent /\ b \in Backend
        BY <2>2, <2>3, <4>2, UnblockAnswers
      <4>4. QED
        BY <2>5, <4>1, <4>2, <4>3
    <3>3. o[home].entry = Absent
      BY <2>2, <3>1, <3>2, UnblockAnswers
    <3>4. QED
      BY <2>2, <3>1, <3>3
  <2>8. \/ Recorded(op'[p].state.blocks[ip])
        \/ Recorded(saved.blocks[ip]) => firewall'[saved.blocks[ip].backend][ip] = Absent
    <3>1. CASE UnblockFails(avail, o)
      BY <1>0, <2>1, <2>2, <2>6, <3>1 DEF ReleaseOperation, Loaded
    <3>2. CASE ~UnblockFails(avail, o)
      BY <2>1, <2>7, <3>2, HomeIsOne DEF home
    <3>3. QED
      BY <3>1, <3>2
  <2>9. QED
    BY <1>3, <2>1, <2>4, <2>6, <2>8 DEF Loaded
<1>12. CASE SaveState(p) \/ Crash(p) \/ Reboot
  BY <1>0, <1>12, EndEffect DEF ReleaseOperation, Loaded
<1>13. CASE Tick
  BY <1>0, <1>13, TickEffect DEF ReleaseOperation, Loaded
<1>14. QED
  BY <1>1, <1>2, <1>4, <1>5, <1>6, <1>8, <1>9, <1>10, <1>11, <1>12, <1>13, SoleSteps

\* A record is forgotten only when its entry is gone, for any addresses,
\* candidates and backends installed, although commands time out, processes
\* crash and the host reboots: as long as operations alternate, one backend is
\* configured and no command's answer is false (see Definite).
THEOREM NeverReleasedSilently ==
    ASSUME Sole, OneBackend, Definite
    PROVE  Spec => NoSilentRelease
<1> PICK p : Proc = {p}
  BY DEF Sole
<1>1. Init => ReleaseOperation(p)
  BY DEF Init, ReleaseOperation, Loaded
<1>2. TypeOK /\ TypeOK' /\ HomeOperation(p) /\ ReleaseOperation(p) /\ [Next]_vars => ReleaseOperation(p)'
  <2>1. CASE UNCHANGED vars
    BY <2>1 DEF vars, ReleaseOperation, Loaded
  <2>2. QED
    BY <2>1, ReleaseStep
<1>3. TypeOK /\ ReleaseOperation(p) /\ [Next]_vars =>
        [\A ip \in IP : Recorded(saved.blocks[ip]) /\ ~Recorded(saved'.blocks[ip])
            => firewall'[saved.blocks[ip].backend][ip] = Absent]_vars
  <2> SUFFICES ASSUME TypeOK, ReleaseOperation(p), Next, NEW ip \in IP,
                      Recorded(saved.blocks[ip]), ~Recorded(saved'.blocks[ip])
               PROVE  firewall'[saved.blocks[ip].backend][ip] = Absent
    OBVIOUS
  <2>0. p \in Proc
    OBVIOUS
  <2>1. CASE SaveState(p)
    BY <2>0, <2>1, EndEffect DEF ReleaseOperation, Loaded
  <2>2. CASE ~SaveState(p)
    <3>1. saved' = saved
      BY <2>0, <2>2, SoleSteps, BeginEffect, LoadEffect, ExpireEffect, CheckEffect, QuietEffect,
         BlockNewEffect, PromoteUnblockEffect, PromoteBlockEffect, UnblockIPEffect, EndEffect, TickEffect
         DEF Same
    <3>2. QED
      BY <3>1
  <2>3. QED
    BY <2>1, <2>2
<1>4. Spec => []HomeOperation(p)
  BY OneHome
<1>5. QED
  BY <1>1, <1>2, <1>3, <1>4, TypeCorrect, PTL DEF Spec, NoSilentRelease

-----------------------------------------------------------------------------
(* State and firewall agree, operation after operation.                     *)

LEMMA FitsForgotten ==
    ASSUME NEW e, NEW t, \A b \in Backend : e[b] = Absent
    PROVE  Fits(NoBlock, e, t)
  BY DEF Fits, NoBlock, Recorded, Absent, Never

\* The kernel drops entries no earlier than their records expire.
LEMMA FitsLater ==
    ASSUME NEW r \in BlockRecord, NEW e, NEW d, NEW t \in Nat, Fits(r, e, t),
           \A b \in Backend : d[b] = IF e[b] \in Nat /\ e[b] <= t + 1 THEN Absent ELSE e[b]
    PROVE  Fits(r, d, t + 1)
<1>1. r.backend \in Backend /\ r.expires \in Expiry
  BY DEF BlockRecord
<1>2. \A b \in Backend : d[b] # Absent => Recorded(r) /\ r.backend = b
  BY DEF Fits
<1>3. r.expires = Never => d[r.backend] = Never
  BY <1>1 DEF Fits, Never
<1>4. ASSUME r.expires \in Nat, t + 1 < r.expires
      PROVE  d[r.backend] = Never \/ (d[r.backend] \in Nat /\ d[r.backend] >= r.expires)
  BY <1>1, <1>4 DEF Fits, Never
<1>5. QED
  BY <1>2, <1>3, <1>4 DEF Fits

\* A fresh block: the entry is made after the clock was read.
LEMMA FitsFresh ==
    ASSUME NEW b \in Backend, NEW e, NEW at \in Nat, NEW t \in Nat, at <= t, NEW ttl \in Nat \cup {Never},
           \A c \in Backend : c # b => e[c] = Absent,
           e[b] = IF b = "iptables" \/ ttl = Never THEN Never ELSE t + ttl
    PROVE  Fits(Fresh(b, at, ttl), e, t)
  BY DEF Fits, Fresh, Recorded, Never, Absent

LEMMA EntryFacts ==
    ASSUME NEW ip \in IP
    PROVE  \A b \in Backend : Entries(ip)[b] = firewall[b][ip] /\ Entries(ip)'[b] = firewall'[b][ip]
  BY DEF Entries

\* A record that fits an address without entries, except where r says so.
LEMMA FitsAlone ==
    ASSUME NEW r, NEW e, NEW t, Fits(r, e, t), NEW b \in Backend, e[b] # Absent \/ r.backend = b
    PROVE  \A c \in Backend : c # b => e[c] = Absent
  BY DEF Fits

\* A step on one address, by an operation that has loaded the row.
LEMMA MatchOne ==
    ASSUME NEW p, Proc = {p}, TypeOK, MatchOperation(p), Loaded(p), Loaded(p)', Same(p), NEW ip \in IP,
           \A j \in IP : j # ip => ~Promoting(p, j) /\ ~Promoting(p, j)',
           \A j \in IP : j # ip => /\ op'[p].state.blocks[j] = op[p].state.blocks[j]
                                   /\ \A b \in Backend : firewall'[b][j] = firewall[b][j],
           IF Promoting(p, ip)' THEN \A b \in Backend : firewall'[b][ip] = Absent
           ELSE Fits(op'[p].state.blocks[ip], Entries(ip)', now),
           KeptRecord(op'[p].state.blocks[ip], saved.blocks[ip], op[p].kind, now),
           Progress(p)'
    PROVE  MatchOperation(p)'
<1>1. now' = now /\ saved' = saved /\ op'[p].kind = op[p].kind
  BY DEF Same
<1>2. Current(p) = op[p].state.blocks /\ Current(p)' = op'[p].state.blocks
  BY DEF Current
<1>3. ASSUME NEW j \in IP
      PROVE  IF Promoting(p, j)' THEN \A b \in Backend : firewall'[b][j] = Absent
             ELSE Fits(op'[p].state.blocks[j], Entries(j)', now)
  <2>1. CASE j = ip
    BY <2>1
  <2>2. CASE j # ip
    <3>1. Entries(j)' = Entries(j)
      BY <2>2 DEF Entries
    <3>2. Fits(op[p].state.blocks[j], Entries(j), now)
      BY <1>2, <2>2 DEF MatchOperation
    <3>3. QED
      BY <2>2, <3>1, <3>2
  <2>3. QED
    BY <2>1, <2>2
<1>4. ASSUME NEW j \in IP
      PROVE  KeptRecord(op'[p].state.blocks[j], saved.blocks[j], op[p].kind, now)
  BY DEF MatchOperation
<1>5. QED
  BY <1>1, <1>2, <1>3, <1>4 DEF MatchOperation

LEMMA MatchBegin ==
    ASSUME NEW p, Proc = {p}, TypeOK, MatchOperation(p),
           \/ \/ BeginScan(p) \/ BeginCleanup(p)
              \/ \E ip \in IP : BeginUnblock(p, "unblock", {ip})
              \/ BeginUnblock(p, "unblock_all", RecordedIPs(saved))
           \/ LoadState(p)
    PROVE  MatchOperation(p)'
<1>0. p \in Proc
  OBVIOUS
<1>1. /\ saved' = saved /\ now' = now /\ firewall' = firewall /\ ~Loaded(p)
      /\ Loaded(p)' => op'[p].state = saved
  BY <1>0, BeginEffect, LoadEffect DEF Loaded, Same
<1>2. \A ip \in IP : ~Promoting(p, ip)
  BY <1>1 DEF Promoting, Loaded
<1>3. \A ip \in IP : ~Promoting(p, ip)'
  BY <1>0, BeginEffect, LoadEffect DEF Promoting
<1>4. Current(p)' = saved.blocks /\ Current(p) = saved.blocks
  BY <1>1 DEF Current
<1>5. \A ip \in IP : Fits(Current(p)'[ip], Entries(ip)', now')
  <2>1. \A ip \in IP : Entries(ip)' = Entries(ip)
    BY <1>1 DEF Entries
  <2>2. QED
    BY <1>1, <1>2, <1>4, <2>1 DEF MatchOperation
<1>6. Loaded(p)' => \A ip \in IP :
        KeptRecord(op'[p].state.blocks[ip], saved'.blocks[ip], op'[p].kind, now')
  BY <1>1 DEF KeptRecord
<1>7. Progress(p)'
  <2>1. CASE LoadState(p)
    BY <1>0, <2>1, LoadEffect DEF Progress, MatchOperation, Same
  <2>2. CASE ~LoadState(p)
    <3>1. CASE pc'[p] = "load" /\ op'[p].kind = "scan"
      BY <3>1 DEF Progress
    <3>2. CASE /\ pc'[p] = "expire" /\ op'[p].kind = "cleanup" /\ op'[p].state = saved /\ op'[p].at = now
               /\ op'[p].todo = {ip \in IP : Expired(saved.blocks[ip], now)}
      BY <1>1, <3>2 DEF Progress
    <3>3. CASE /\ pc'[p] = "unblock" /\ op'[p].kind = "unblock" /\ op'[p].state = saved
               /\ \E ip \in IP : op'[p].requested = {ip} /\ op'[p].todo = {ip}
      BY <1>1, <3>3 DEF Progress
    <3>4. CASE /\ pc'[p] = "unblock" /\ op'[p].kind = "unblock_all" /\ op'[p].state = saved
               /\ op'[p].requested = op'[p].todo
      BY <1>1, <3>4 DEF Progress
    <3>5. QED
      BY <1>0, <2>2, <3>1, <3>2, <3>3, <3>4, BeginEffect
  <2>3. QED
    BY <2>1, <2>2
<1>8. QED
  BY <1>3, <1>5, <1>6, <1>7 DEF MatchOperation

LEMMA MatchSynchronize ==
    ASSUME NEW p, Proc = {p}, FaultKinds = {}, TypeOK, MatchOperation(p), op[p].at <= now,
           ExpireBlock(p) \/ CheckBlock(p)
    PROVE  MatchOperation(p)'
<1>0. /\ p \in Proc /\ op[p].state.blocks \in [IP -> BlockRecord] /\ Definite
      /\ \A ip \in IP : op[p].state.blocks[ip].backend \in Backend /\ op[p].state.blocks[ip].expires \in Expiry
      /\ now \in Nat /\ op[p].at \in Nat /\ op[p].todo \subseteq IP
  BY BoundAssumption DEF TypeOK, Operation, BlockState, BlockRecord, Definite
<1>1. CASE ExpireBlock(p)
  <2> DEFINE B(ip) == op[p].state.blocks[ip].backend
  <2>1. PICK ip \in IP : \E o \in UnblockResults(B(ip), ip) :
          /\ pc[p] = "expire" /\ pc' = pc /\ Same(p) /\ NextIP(p, ip) /\ Sets(B(ip), ip, o.entry)
          /\ op'[p].todo = op[p].todo \ {ip}
          /\ op'[p].state.blocks = IF o.res = "err" THEN op[p].state.blocks
                                   ELSE Forget(op[p].state.blocks, ip)
    BY <1>0, <1>1, ExpireEffect
  <2> DEFINE b == B(ip)
             r == op[p].state.blocks[ip]
  <2>2. b \in Backend /\ b = r.backend
    BY <1>0
  <2>3. PICK o \in UnblockResults(b, ip) :
          /\ Sets(b, ip, o.entry)
          /\ op'[p].state.blocks = IF o.res = "err" THEN op[p].state.blocks
                                   ELSE Forget(op[p].state.blocks, ip)
    BY <2>1
  <2>4. /\ Expired(r, op[p].at) /\ r = saved.blocks[ip]
        /\ Fits(r, Entries(ip), now) /\ Loaded(p) /\ Loaded(p)'
    BY <2>1 DEF MatchOperation, Progress, NextIP, Promoting, Current, Loaded
  <2>5. /\ \A j \in IP : ~Promoting(p, j) /\ ~Promoting(p, j)'
    BY <2>1 DEF Promoting
  <2> HIDE DEF r, b, B
  <2>6. \A c \in Backend, j \in IP :
          firewall'[c][j] = IF c = b /\ j = ip THEN o.entry ELSE firewall[c][j]
    BY <2>2, <2>3, OneEntry
  <2>7. /\ \A j \in IP : j # ip => op'[p].state.blocks[j] = op[p].state.blocks[j]
        /\ o.res # "err" => op'[p].state.blocks[ip] = NoBlock
    BY <1>0, <2>3, Forgotten
  <2>8. Fits(op'[p].state.blocks[ip], Entries(ip)', now)
    <3>1. CASE o.res = "err"
      <4>1. Entries(ip)' = Entries(ip)
        BY <1>0, <2>2, <2>6, <3>1, UnblockAnswers DEF Entries
      <4>2. QED
        BY <2>3, <2>4, <3>1, <4>1 DEF r
    <3>2. CASE o.res # "err"
      <4>1. o.entry = Absent
        BY <1>0, <2>2, <3>2, UnblockAnswers
      <4>2. \A c \in Backend : c # b => firewall[c][ip] = Absent
        BY <2>2, <2>4, FitsAlone, EntryFacts
      <4>3. \A c \in Backend : Entries(ip)'[c] = Absent
        BY <2>6, <4>1, <4>2, EntryFacts
      <4>4. QED
        BY <2>7, <3>2, <4>3, FitsForgotten
    <3>3. QED
      BY <3>1, <3>2
  <2>9. KeptRecord(op'[p].state.blocks[ip], saved.blocks[ip], op[p].kind, now)
    BY <1>0, <2>4 DEF KeptRecord, Expired
  <2>10. Progress(p)'
    <3>1. \A j \in op[p].todo \ {ip} : /\ Expired(op'[p].state.blocks[j], op[p].at)
                                        /\ op'[p].state.blocks[j] = saved.blocks[j]
      BY <1>0, <2>1, <2>7 DEF Progress, MatchOperation
    <3>2. op[p].kind \in {"scan", "cleanup"}
      BY <2>1 DEF Progress, MatchOperation
    <3>3. QED
      BY <2>1, <3>1, <3>2 DEF Progress, Same
  <2>11. QED
    BY <2>1, <2>4, <2>5, <2>6, <2>7, <2>8, <2>9, <2>10, MatchOne
<1>2. CASE CheckBlock(p)
  <2> DEFINE B(ip) == op[p].state.blocks[ip].backend
  <2>1. PICK ip \in IP : \E o \in IsBlockedResults(B(ip), ip) :
          /\ pc[p] = "check" /\ pc' = pc /\ Same(p) /\ firewall' = firewall
          /\ op'[p].state.blocks = IF o.res = "false" THEN Forget(op[p].state.blocks, ip)
                                   ELSE op[p].state.blocks
    BY <1>0, <1>2, CheckEffect
  <2> DEFINE b == B(ip)
             r == op[p].state.blocks[ip]
  <2>2. b \in Backend /\ b = r.backend /\ r.expires \in Expiry
    BY <1>0
  <2>3. PICK o \in IsBlockedResults(b, ip) :
          op'[p].state.blocks = IF o.res = "false" THEN Forget(op[p].state.blocks, ip)
                                ELSE op[p].state.blocks
    BY <2>1
  <2>4. /\ KeptRecord(r, saved.blocks[ip], op[p].kind, now)
        /\ Fits(r, Entries(ip), now) /\ Loaded(p) /\ Loaded(p)' /\ op[p].kind \in {"scan", "cleanup"}
    BY <2>1 DEF MatchOperation, Progress, Promoting, Current, Loaded
  <2>5. \A j \in IP : ~Promoting(p, j) /\ ~Promoting(p, j)'
    BY <2>1 DEF Promoting
  <2> HIDE DEF r, b, B
  <2>6. Entries(ip)' = Entries(ip) /\ \A c \in Backend, j \in IP : firewall'[c][j] = firewall[c][j]
    BY <2>1 DEF Entries
  <2>7. /\ \A j \in IP : j # ip => op'[p].state.blocks[j] = op[p].state.blocks[j]
        /\ op'[p].state.blocks[ip] = IF o.res = "false" THEN NoBlock ELSE r
    <3>1. CASE o.res = "false"
      BY <1>0, <2>3, <3>1, Forgotten
    <3>2. CASE o.res # "false"
      BY <2>3, <3>2 DEF r
    <3>3. QED
      BY <3>1, <3>2
  <2>8. Fits(op'[p].state.blocks[ip], Entries(ip)', now)
    <3>1. CASE o.res # "false"
      BY <2>4, <2>6, <2>7, <3>1
    <3>2. CASE o.res = "false"
      <4>1. firewall[b][ip] = Absent
        BY <1>0, <2>2, <3>2, CheckAnswers
      <4>2. \A c \in Backend : c # b => firewall[c][ip] = Absent
        BY <2>2, <2>4, FitsAlone, EntryFacts
      <4>3. \A c \in Backend : Entries(ip)'[c] = Absent
        BY <2>6, <4>1, <4>2, EntryFacts
      <4>4. QED
        BY <2>7, <3>2, <4>3, FitsForgotten
    <3>3. QED
      BY <3>1, <3>2
  <2>9. KeptRecord(op'[p].state.blocks[ip], saved.blocks[ip], op[p].kind, now)
    <3>1. CASE o.res # "false"
      BY <2>4, <2>7, <3>1
    <3>2. CASE o.res = "false"
      <4>1. Entries(ip)[b] = Absent
        BY <1>0, <2>2, <3>2, CheckAnswers, EntryFacts
      <4>2. r.expires # Never /\ (r.expires \in Nat => r.expires <= now)
        BY <1>0, <2>2, <2>4, <4>1 DEF Fits, Never, Absent
      <4>3. ~Recorded(saved.blocks[ip]) \/ Expired(saved.blocks[ip], now)
        BY <2>2, <2>4, <4>2 DEF KeptRecord, Recorded, Expired, Expiry
      <4>4. QED
        BY <4>3 DEF KeptRecord
    <3>3. QED
      BY <3>1, <3>2
  <2>10. Progress(p)'
    BY <2>1, <2>4 DEF Progress, Same
  <2>11. QED
    BY <2>1, <2>4, <2>5, <2>6, <2>7, <2>8, <2>9, <2>10, MatchOne
<1>3. QED
  BY <1>1, <1>2

LEMMA MatchQuiet ==
    ASSUME NEW p, Proc = {p}, TypeOK, MatchOperation(p), Quiet(p)
    PROVE  MatchOperation(p)'
<1>0. p \in Proc
  OBVIOUS
<1>1. /\ Same(p) /\ firewall' = firewall /\ op'[p].state.blocks = op[p].state.blocks
      /\ \/ pc[p] = "expire" /\ pc'[p] = "check"
         \/ pc[p] = "check" /\ pc'[p] = "save" /\ op[p].kind = "cleanup"
         \/ pc[p] = "check" /\ pc'[p] = "apply" /\ op[p].kind = "scan"
         \/ pc[p] = "apply" /\ pc'[p] \in {"apply", "save"}
         \/ pc[p] = "unblock" /\ pc'[p] = "save" /\ op[p].todo = {}
  BY <1>0, QuietEffect
<1>2. Loaded(p) /\ Loaded(p)' /\ pc[p] # "promote" /\ pc'[p] # "promote"
  BY <1>1 DEF Loaded
<1>3. /\ \A ip \in IP : ~Promoting(p, ip) /\ ~Promoting(p, ip)' /\ Entries(ip)' = Entries(ip)
      /\ Current(p) = op[p].state.blocks /\ Current(p)' = op[p].state.blocks
      /\ now' = now /\ saved' = saved /\ op'[p].kind = op[p].kind
  BY <1>1, <1>2 DEF Promoting, Entries, Current, Same
<1>4. Progress(p)'
  <2>1. CASE pc[p] \in {"expire", "check"}
    BY <1>1, <2>1 DEF Progress, MatchOperation, Same
  <2>2. CASE pc[p] = "apply"
    BY <1>1, <2>2 DEF Progress, MatchOperation, Same
  <2>3. CASE pc[p] = "unblock"
    BY <1>1, <2>3 DEF Progress, MatchOperation, Same
  <2>4. QED
    BY <1>1, <2>1, <2>2, <2>3
<1>5. QED
  BY <1>1, <1>2, <1>3, <1>4 DEF MatchOperation

LEMMA MatchBlock ==
    ASSUME NEW p, Proc = {p}, FaultKinds = {}, TypeOK, MatchOperation(p), op[p].at <= now, BlockNew(p)
    PROVE  MatchOperation(p)'
<1>0. /\ p \in Proc /\ op[p].state.blocks \in [IP -> BlockRecord] /\ Definite
      /\ now \in Nat /\ op[p].at \in Nat
  BY BoundAssumption DEF TypeOK, Operation, BlockState, Definite
<1> DEFINE b == BackendOf(op[p].config)
<1>1. PICK ip \in IP, ttl \in Nat \cup {Never} : \E o \in BlockResults(b, ip, ttl) :
        /\ pc[p] = "apply" /\ pc' = pc /\ Same(p) /\ Sets(b, ip, o.entry)
        /\ ~Recorded(op[p].state.blocks[ip])
        /\ \/ o.res # "ok" /\ op'[p].state.blocks = op[p].state.blocks
           \/ o.res = "ok" /\ op'[p].state.blocks = Put(op[p].state.blocks, ip, Fresh(b, op[p].at, ttl))
  BY <1>0, BlockNewEffect
<1> DEFINE r == op[p].state.blocks[ip]
           fresh == Fresh(b, op[p].at, ttl)
<1>2. PICK o \in BlockResults(b, ip, ttl) :
        /\ Sets(b, ip, o.entry)
        /\ \/ o.res # "ok" /\ op'[p].state.blocks = op[p].state.blocks
           \/ o.res = "ok" /\ op'[p].state.blocks = Put(op[p].state.blocks, ip, fresh)
  BY <1>1
<1>3. b \in Backend
  BY DEF BackendOf, Backend
<1>4. /\ KeptRecord(r, saved.blocks[ip], op[p].kind, now) /\ ~Recorded(r)
      /\ Fits(r, Entries(ip), now) /\ Loaded(p) /\ Loaded(p)' /\ op[p].kind = "scan"
  BY <1>1 DEF MatchOperation, Progress, Promoting, Current, Loaded
<1>5. \A j \in IP : ~Promoting(p, j) /\ ~Promoting(p, j)'
  BY <1>1 DEF Promoting
<1> HIDE DEF r, b, fresh
<1>6. \A c \in Backend, j \in IP :
        firewall'[c][j] = IF c = b /\ j = ip THEN o.entry ELSE firewall[c][j]
  BY <1>2, <1>3, OneEntry
<1>7. /\ \A j \in IP : j # ip => op'[p].state.blocks[j] = op[p].state.blocks[j]
      /\ op'[p].state.blocks[ip] = IF o.res = "ok" THEN fresh ELSE r
  <2>1. CASE o.res = "ok"
    BY <1>0, <1>2, <2>1, OneRecord
  <2>2. CASE o.res # "ok"
    BY <1>2, <2>2 DEF r
  <2>3. QED
    BY <2>1, <2>2
<1>8. \A c \in Backend : firewall[c][ip] = Absent
  BY <1>4, EntryFacts DEF Fits
<1>9. Fits(op'[p].state.blocks[ip], Entries(ip)', now)
  <2>1. CASE o.res # "ok"
    <3>1. Entries(ip)' = Entries(ip)
      BY <1>0, <1>3, <1>6, <2>1, BlockAnswers DEF Entries
    <3>2. QED
      BY <1>4, <1>7, <2>1, <3>1
  <2>2. CASE o.res = "ok"
    <3>1. o.entry = EntryAfterBlock(b, ip, ttl)
      BY <1>3, <2>2, BlockAnswers
    <3>2. o.entry = IF b = "iptables" \/ ttl = Never THEN Never ELSE now + ttl
      BY <1>3, <1>8, <3>1 DEF EntryAfterBlock
    <3>3. /\ \A c \in Backend : c # b => Entries(ip)'[c] = Absent
          /\ Entries(ip)'[b] = o.entry
      BY <1>3, <1>6, <1>8, EntryFacts
    <3>4. Fits(fresh, Entries(ip)', now)
      BY <1>0, <1>3, <3>2, <3>3, FitsFresh DEF fresh
    <3>5. QED
      BY <1>7, <2>2, <3>4
  <2>3. QED
    BY <2>1, <2>2
<1>10. KeptRecord(op'[p].state.blocks[ip], saved.blocks[ip], op[p].kind, now)
  <2>1. ~Recorded(saved.blocks[ip]) \/ Expired(saved.blocks[ip], now)
    BY <1>4 DEF KeptRecord, Recorded, Never, Absent
  <2>2. QED
    BY <2>1 DEF KeptRecord
<1>11. Progress(p)'
  BY <1>1, <1>4 DEF Progress, Same
<1>12. QED
  BY <1>1, <1>4, <1>5, <1>6, <1>7, <1>9, <1>10, <1>11, MatchOne

LEMMA OneNext ==
    ASSUME NEW p, NEW i \in IP, NEW j \in IP, NextIP(p, i), NextIP(p, j)
    PROVE  i = j
  BY IPAssumption DEF NextIP

LEMMA MatchPromote ==
    ASSUME NEW p, Proc = {p}, FaultKinds = {}, TypeOK, MatchOperation(p), HomeOperation(p),
           PromoteUnblock(p) \/ PromoteBlock(p)
    PROVE  MatchOperation(p)'
<1>0. /\ p \in Proc /\ op[p].state.blocks \in [IP -> BlockRecord] /\ Definite
      /\ \A ip \in IP : op[p].state.blocks[ip].backend \in Backend
  BY DEF TypeOK, Operation, BlockState, BlockRecord, Definite
<1> DEFINE b == BackendOf(op[p].config)
<1>b. b \in Backend
  BY DEF BackendOf, Backend
<1>1. CASE PromoteUnblock(p)
  <2>1. PICK ip \in IP : \E o \in UnblockResults(b, ip) :
          /\ pc[p] = "apply" /\ pc'[p] = (IF o.res = "err" THEN "apply" ELSE "promote") /\ Same(p)
          /\ o.res # "err" => NextIP(p, ip)'
          /\ Recorded(op[p].state.blocks[ip]) /\ Sets(b, ip, o.entry)
          /\ op'[p].state.blocks = op[p].state.blocks
    BY <1>0, <1>1, PromoteUnblockEffect
  <2> DEFINE r == op[p].state.blocks[ip]
  <2>2. PICK o \in UnblockResults(b, ip) :
          /\ pc'[p] = (IF o.res = "err" THEN "apply" ELSE "promote")
          /\ o.res # "err" => NextIP(p, ip)'
          /\ Sets(b, ip, o.entry)
    BY <2>1
  <2>3. r.backend = b
    BY <2>1, HomeIsOne
  <2>4. /\ KeptRecord(r, saved.blocks[ip], op[p].kind, now)
        /\ Fits(r, Entries(ip), now) /\ Loaded(p) /\ Loaded(p)' /\ op[p].kind = "scan"
        /\ \A j \in IP : ~Promoting(p, j)
    BY <2>1 DEF MatchOperation, Progress, Promoting, Current, Loaded
  <2> HIDE DEF r, b
  <2>5. \A c \in Backend, j \in IP :
          firewall'[c][j] = IF c = b /\ j = ip THEN o.entry ELSE firewall[c][j]
    BY <1>b, <2>2, OneEntry
  <2>6. \A j \in IP : j # ip => ~Promoting(p, j)'
    <3>1. CASE o.res = "err"
      BY <2>2, <3>1 DEF Promoting
    <3>2. CASE o.res # "err"
      BY <2>2, <3>2, IPAssumption DEF Promoting, NextIP
    <3>3. QED
      BY <3>1, <3>2
  <2>7. IF Promoting(p, ip)' THEN \A c \in Backend : firewall'[c][ip] = Absent
        ELSE Fits(op'[p].state.blocks[ip], Entries(ip)', now)
    <3>1. CASE o.res = "err"
      <4>1. ~Promoting(p, ip)' /\ o.entry = firewall[b][ip]
        BY <1>0, <1>b, <2>2, <3>1, UnblockAnswers DEF Promoting
      <4>2. Entries(ip)' = Entries(ip)
        BY <2>5, <4>1 DEF Entries
      <4>3. QED
        BY <2>1, <2>4, <4>1, <4>2 DEF r
    <3>2. CASE o.res # "err"
      <4>1. Promoting(p, ip)' /\ o.entry = Absent
        BY <1>0, <1>b, <2>2, <3>2, UnblockAnswers DEF Promoting
      <4>2. \A c \in Backend : c # b => firewall[c][ip] = Absent
        BY <1>b, <2>3, <2>4, FitsAlone, EntryFacts
      <4>3. QED
        BY <2>5, <4>1, <4>2
    <3>3. QED
      BY <3>1, <3>2
  <2>8. Progress(p)'
    <3>1. pc'[p] = "promote" => b \in Installed
      BY <1>b, <2>2, UnblockAnswers
    <3>2. QED
      BY <2>1, <2>2, <2>4, <3>1 DEF Progress, Same, b
  <2>9. QED
    BY <2>1, <2>4, <2>5, <2>6, <2>7, <2>8, MatchOne DEF r
<1>2. CASE PromoteBlock(p)
  <2>1. PICK ip \in IP : \E o \in BlockResults(b, ip, Never) :
          /\ pc[p] = "promote" /\ pc'[p] = "apply" /\ Same(p) /\ NextIP(p, ip) /\ Sets(b, ip, o.entry)
          /\ op'[p].state.blocks =
               IF o.res = "ok" THEN Put(op[p].state.blocks, ip, [backend |-> b, expires |-> Never])
               ELSE op[p].state.blocks
    BY <1>0, <1>2, PromoteBlockEffect
  <2>2. PICK o \in BlockResults(b, ip, Never) :
          /\ Sets(b, ip, o.entry)
          /\ op'[p].state.blocks =
               IF o.res = "ok" THEN Put(op[p].state.blocks, ip, [backend |-> b, expires |-> Never])
               ELSE op[p].state.blocks
    BY <2>1
  <2>3. /\ Loaded(p) /\ Loaded(p)' /\ op[p].kind = "scan" /\ b \in Installed
        /\ \A c \in Backend : firewall[c][ip] = Absent
    BY <2>1 DEF MatchOperation, Progress, Promoting, Loaded
  <2>4. \A j \in IP : (j # ip => ~Promoting(p, j)) /\ ~Promoting(p, j)'
    BY <2>1, OneNext DEF Promoting
  <2> DEFINE r == [backend |-> b, expires |-> Never]
  <2> HIDE DEF b
  <2>5. o.res = "ok" /\ o.entry = Never
    BY <1>b, <2>3, BlockAnswers DEF EntryAfterBlock
  <2>6. \A c \in Backend, j \in IP :
          firewall'[c][j] = IF c = b /\ j = ip THEN Never ELSE firewall[c][j]
    BY <1>b, <2>2, <2>5, OneEntry
  <2>7. r.expires = Never /\ r.backend = b
    OBVIOUS
  <2> HIDE DEF r
  <2>8. \A j \in IP : op'[p].state.blocks[j] = IF j = ip THEN r ELSE op[p].state.blocks[j]
    BY <1>0, <2>2, <2>5, OneRecord DEF r
  <2>9. Fits(r, Entries(ip)', now)
    BY <1>b, <2>3, <2>6, <2>7, EntryFacts DEF Fits, Recorded, Never, Absent
  <2>10. KeptRecord(r, saved.blocks[ip], op[p].kind, now)
    BY <2>7 DEF KeptRecord
  <2>11. Progress(p)'
    BY <2>1, <2>3 DEF Progress, Same
  <2>12. QED
    BY <2>1, <2>3, <2>4, <2>6, <2>8, <2>9, <2>10, <2>11, MatchOne
<1>3. QED
  BY <1>1, <1>2

LEMMA MatchUnblock ==
    ASSUME NEW p, Proc = {p}, FaultKinds = {}, TypeOK, MatchOperation(p), HomeOperation(p), UnblockIP(p)
    PROVE  MatchOperation(p)'
<1>0. /\ p \in Proc /\ op[p].state.blocks \in [IP -> BlockRecord] /\ Definite
      /\ op[p].config \in Backend \cup {"auto"} /\ op[p].todo \subseteq IP
  BY DEF TypeOK, Operation, BlockState, Definite
<1> DEFINE avail == AvailableForUnblock(op[p].config)
           b == BackendOf(op[p].config)
<1>1. PICK ip \in IP : \E o \in [avail -> UNION {UnblockResults(c, ip) : c \in avail}] :
        /\ pc[p] = "unblock" /\ Same(p) /\ NextIP(p, ip)
        /\ op'[p].todo = op[p].todo \ {ip}
        /\ \A c \in avail : o[c] \in UnblockResults(c, ip)
        /\ \A c \in Backend, j \in IP :
             firewall'[c][j] = IF c \in avail /\ j = ip THEN o[c].entry ELSE firewall[c][j]
        /\ op'[p].state.blocks = IF UnblockFails(avail, o) THEN op[p].state.blocks
                                 ELSE Forget(op[p].state.blocks, ip)
        /\ pc'[p] = IF UnblockFails(avail, o) /\ op[p].kind = "unblock" THEN "idle" ELSE "unblock"
  BY <1>0, UnblockIPEffect
<1>2. PICK o \in [avail -> UNION {UnblockResults(c, ip) : c \in avail}] :
        /\ \A c \in avail : o[c] \in UnblockResults(c, ip)
        /\ \A c \in Backend, j \in IP :
             firewall'[c][j] = IF c \in avail /\ j = ip THEN o[c].entry ELSE firewall[c][j]
        /\ op'[p].state.blocks = IF UnblockFails(avail, o) THEN op[p].state.blocks
                                 ELSE Forget(op[p].state.blocks, ip)
        /\ pc'[p] = IF UnblockFails(avail, o) /\ op[p].kind = "unblock" THEN "idle" ELSE "unblock"
  BY <1>1
<1>3. /\ Loaded(p) /\ op[p].kind \in {"unblock", "unblock_all"} /\ ip \in op[p].requested /\ ip \in op[p].todo
      /\ \A j \in IP : ~Promoting(p, j) /\ Fits(op[p].state.blocks[j], Entries(j), now)
      /\ Current(p) = op[p].state.blocks
  BY <1>1 DEF MatchOperation, Progress, Promoting, Current, Loaded, NextIP
<1>4. avail \subseteq Installed /\ avail \subseteq Backend
  BY DEF AvailableForUnblock, Backend
<1>5. ASSUME NEW c \in avail
      PROVE  o[c].res # "err" /\ o[c].entry = Absent
  BY <1>0, <1>2, <1>4, UnblockAnswers
<1>6. pc'[p] # "promote" /\ \A j \in IP : ~Promoting(p, j)'
  BY <1>2 DEF Promoting
<1>7. saved' = saved /\ now' = now /\ op'[p].kind = op[p].kind /\ op'[p].requested = op[p].requested
  BY <1>1 DEF Same
<1>8. CASE avail = {}
  <2>1. /\ UnblockFails(avail, o) /\ op'[p].state.blocks = op[p].state.blocks
        /\ pc'[p] = IF op[p].kind = "unblock" THEN "idle" ELSE "unblock"
    BY <1>2, <1>8 DEF UnblockFails
  <2>2. \A c \in Backend, j \in IP : firewall'[c][j] = firewall[c][j]
    BY <1>2, <1>8
  <2>3. \A j \in IP : Entries(j)' = Entries(j)
    BY <2>2 DEF Entries
  <2>4. CASE op[p].kind = "unblock"
    <3>1. pc'[p] = "idle" /\ ~Loaded(p)'
      BY <2>1, <2>4 DEF Loaded
    <3>2. \A j \in IP : op[p].state.blocks[j] = saved.blocks[j]
      <4>1. \A i \in op[p].requested : i = ip
        BY <1>1, <1>3, <2>4 DEF MatchOperation, Progress
      <4>2. QED
        BY <1>1, <1>3, <4>1 DEF MatchOperation, Progress
    <3>3. Current(p)' = saved.blocks
      BY <1>7, <3>1 DEF Current
    <3>4. Progress(p)'
      BY <3>1 DEF Progress
    <3>5. QED
      BY <1>3, <1>6, <1>7, <2>3, <3>1, <3>2, <3>3, <3>4 DEF MatchOperation
  <2>5. CASE op[p].kind = "unblock_all"
    <3>1. pc'[p] = "unblock" /\ Loaded(p)' /\ Current(p)' = op[p].state.blocks
      BY <2>1, <2>5 DEF Loaded, Current
    <3>2. Progress(p)'
      <4>1. \A j \in IP : j \in op'[p].todo \/ j \notin op[p].requested =>
              op[p].state.blocks[j] = saved.blocks[j]
        BY <1>1 DEF MatchOperation, Progress
      <4>2. op'[p].todo \subseteq op[p].requested
        BY <1>1 DEF MatchOperation, Progress
      <4>3. QED
        BY <1>7, <2>1, <2>5, <3>1, <4>1, <4>2 DEF Progress
    <3>3. QED
      BY <1>3, <1>6, <1>7, <2>1, <2>3, <3>1, <3>2 DEF MatchOperation
  <2>6. QED
    BY <1>3, <2>4, <2>5
<1>9. CASE avail # {}
  <2>1. b \in avail
    BY <1>0, <1>9, HomeAvailable
  <2>2. ~UnblockFails(avail, o)
    BY <1>5, <1>9 DEF UnblockFails
  <2>3. pc'[p] = "unblock" /\ Loaded(p)' /\ op'[p].state.blocks = Forget(op[p].state.blocks, ip)
    BY <1>2, <2>2 DEF Loaded
  <2>4. \A j \in IP : op'[p].state.blocks[j] = IF j = ip THEN NoBlock ELSE op[p].state.blocks[j]
    BY <1>0, <2>3, Forgotten
  <2>5. \A c \in Backend : Entries(ip)'[c] = Absent
    <3>1. \A c \in Backend : c \notin avail => firewall[c][ip] = Absent
      BY <1>1, <2>1, HomeIsOne
    <3>2. QED
      BY <1>2, <1>5, <3>1, EntryFacts
  <2>6. Fits(op'[p].state.blocks[ip], Entries(ip)', now)
    BY <2>4, <2>5, FitsForgotten
  <2>7. KeptRecord(op'[p].state.blocks[ip], saved.blocks[ip], op[p].kind, now)
    BY <1>3, <2>4, Forgotten, <1>0 DEF KeptRecord
  <2>8. Progress(p)'
    <3>1. \A j \in IP : j \in op'[p].todo \/ j \notin op[p].requested =>
            op'[p].state.blocks[j] = saved.blocks[j]
      BY <1>1, <1>3, <2>4 DEF MatchOperation, Progress
    <3>2. op'[p].todo \subseteq op[p].requested
      BY <1>1 DEF MatchOperation, Progress
    <3>3. op[p].kind = "unblock" => \A j \in op[p].requested : j = ip /\ \A i \in op[p].requested : i = j
      BY <1>1, <1>3 DEF MatchOperation, Progress
    <3>4. ~Recorded(op'[p].state.blocks[ip])
      BY <1>0, <2>4, Forgotten
    <3>5. QED
      BY <1>3, <1>7, <2>3, <3>1, <3>2, <3>3, <3>4 DEF Progress
  <2>9. \A j \in IP : j # ip => \A c \in Backend : firewall'[c][j] = firewall[c][j]
    BY <1>2
  <2>10. QED
    BY <1>1, <1>3, <1>6, <2>3, <2>4, <2>6, <2>7, <2>8, <2>9, MatchOne
<1>10. QED
  BY <1>8, <1>9

\* SaveState makes the state at work the row; the other ends need a fault.
LEMMA MatchEnd ==
    ASSUME NEW p, Proc = {p}, FaultKinds = {}, TypeOK, MatchOperation(p),
           SaveState(p) \/ Crash(p) \/ Reboot
    PROVE  MatchOperation(p)'
<1>1. /\ pc'[p] = "idle" /\ now' = now /\ pc[p] = "save" /\ saved' = op[p].state /\ firewall' = firewall
  BY EndEffect
<1>2. /\ Loaded(p) /\ ~Loaded(p)' /\ \A ip \in IP : ~Promoting(p, ip) /\ ~Promoting(p, ip)'
  BY <1>1 DEF Loaded, Promoting
<1>3. Current(p) = op[p].state.blocks /\ Current(p)' = op[p].state.blocks
  BY <1>1, <1>2 DEF Current
<1>4. \A ip \in IP : Entries(ip)' = Entries(ip)
  BY <1>1 DEF Entries
<1>5. Progress(p)'
  BY <1>1 DEF Progress
<1>6. QED
  BY <1>1, <1>2, <1>3, <1>4, <1>5 DEF MatchOperation

\* Time passes: the kernel drops an entry only when its record has expired.
LEMMA MatchTick ==
    ASSUME NEW p, Proc = {p}, TypeOK, MatchOperation(p), Tick
    PROVE  MatchOperation(p)'
<1>0. /\ p \in Proc /\ op[p].state.blocks \in [IP -> BlockRecord] /\ saved.blocks \in [IP -> BlockRecord]
  BY DEF TypeOK, Operation, BlockState
<1>1. /\ now' = now + 1 /\ now \in Nat /\ saved' = saved /\ pc' = pc /\ op' = op
      /\ \A b \in Backend, ip \in IP :
           firewall'[b][ip] = IF firewall[b][ip] \in Nat /\ firewall[b][ip] <= now'
                              THEN Absent ELSE firewall[b][ip]
  BY TickEffect
<1>2. /\ \A ip \in IP : Promoting(p, ip)' <=> Promoting(p, ip)
      /\ Loaded(p)' <=> Loaded(p)
      /\ Current(p)' = Current(p) /\ Current(p) \in [IP -> BlockRecord]
  BY <1>0, <1>1 DEF Promoting, NextIP, Loaded, Current
<1>3. ASSUME NEW ip \in IP
      PROVE  IF Promoting(p, ip)' THEN \A b \in Backend : firewall'[b][ip] = Absent
             ELSE Fits(Current(p)'[ip], Entries(ip)', now')
  <2>1. CASE Promoting(p, ip)
    BY <1>1, <1>2, <2>1 DEF MatchOperation
  <2>2. CASE ~Promoting(p, ip)
    <3>1. Fits(Current(p)[ip], Entries(ip), now)
      BY <2>2 DEF MatchOperation
    <3>2. Current(p)[ip] \in BlockRecord
      BY <1>2
    <3>3. \A b \in Backend : Entries(ip)'[b] =
            IF Entries(ip)[b] \in Nat /\ Entries(ip)[b] <= now + 1 THEN Absent ELSE Entries(ip)[b]
      BY <1>1, EntryFacts
    <3>4. Fits(Current(p)[ip], Entries(ip)', now + 1)
      BY <1>1, <3>1, <3>2, <3>3, FitsLater
    <3>5. QED
      BY <1>1, <1>2, <2>2, <3>4
  <2>3. QED
    BY <2>1, <2>2
<1>4. ASSUME NEW ip \in IP, Loaded(p)
      PROVE  KeptRecord(op[p].state.blocks[ip], saved.blocks[ip], op[p].kind, now')
  <2>1. KeptRecord(op[p].state.blocks[ip], saved.blocks[ip], op[p].kind, now)
    BY <1>4 DEF MatchOperation
  <2>2. Expired(saved.blocks[ip], now) => Expired(saved.blocks[ip], now')
    BY <1>1 DEF Expired
  <2>3. QED
    BY <2>1, <2>2 DEF KeptRecord
<1>5. Progress(p)'
  BY <1>1 DEF MatchOperation, Progress
<1>6. QED
  BY <1>1, <1>2, <1>3, <1>4, <1>5 DEF MatchOperation

\* The agreement holds at every step, between and inside operations, for any
\* addresses, candidates, limits and installed backends, when operations
\* alternate, one backend is configured and nothing fails.
THEOREM StateTracksFirewall ==
    ASSUME Sole, OneBackend, FaultKinds = {}
    PROVE  Spec => []MatchInv
<1> PICK p : Proc = {p}
  BY DEF Sole
<1>0. MatchInv <=> MatchOperation(p)
  BY DEF MatchInv
<1>1. Init => MatchOperation(p)
  <2> SUFFICES ASSUME Init PROVE MatchOperation(p)
    OBVIOUS
  <2>1. pc[p] = "idle" /\ ~Loaded(p) /\ Current(p) = saved.blocks /\ saved = EmptyState
    BY DEF Init, Loaded, Current
  <2>2. \A ip \in IP : saved.blocks[ip] = NoBlock /\ \A b \in Backend : Entries(ip)[b] = Absent
    BY <2>1 DEF Init, EmptyState, Entries
  <2>3. \A ip \in IP : Fits(Current(p)[ip], Entries(ip), now)
    BY <2>1, <2>2, FitsForgotten
  <2>4. QED
    BY <2>1, <2>3 DEF MatchOperation, Promoting, Progress
<1>2. TypeOK /\ EvidenceInv /\ HomeOperation(p) /\ MatchOperation(p) /\ [Next]_vars => MatchOperation(p)'
  <2> SUFFICES ASSUME TypeOK, EvidenceInv, HomeOperation(p), MatchOperation(p), [Next]_vars
               PROVE  MatchOperation(p)'
    OBVIOUS
  <2>1. op[p].at <= now
    BY DEF EvidenceInv, JustifiedOperation
  <2>2. CASE UNCHANGED vars
    <3>1. /\ now' = now /\ firewall' = firewall /\ saved' = saved /\ pc' = pc /\ op' = op
      BY <2>2 DEF vars
    <3>2. /\ \A ip \in IP : Entries(ip)' = Entries(ip) /\ (Promoting(p, ip)' <=> Promoting(p, ip))
          /\ Current(p)' = Current(p) /\ (Loaded(p)' <=> Loaded(p))
      BY <3>1 DEF Entries, Promoting, NextIP, Current, Loaded
    <3>3. Progress(p)'
      BY <3>1 DEF MatchOperation, Progress
    <3>4. QED
      BY <3>1, <3>2, <3>3 DEF MatchOperation
  <2>3. CASE Next
    BY <2>1, <2>3, SoleSteps, MatchBegin, MatchSynchronize, MatchQuiet, MatchBlock, MatchPromote,
       MatchUnblock, MatchEnd, MatchTick
  <2>4. QED
    BY <2>2, <2>3
<1>3. Spec => []HomeOperation(p)
  BY OneHome
<1>4. QED
  BY <1>0, <1>1, <1>2, <1>3, TypeCorrect, EvidenceInvariant, PTL DEF Spec

\* Between operations the persisted row and the firewall agree.
THEOREM FirewallAlwaysMatches ==
    ASSUME Sole, OneBackend, FaultKinds = {}
    PROVE  Spec => []FirewallMatchesState
<1> PICK p : Proc = {p}
  BY DEF Sole
<1>1. TypeOK /\ MatchInv => FirewallMatchesState
  <2> SUFFICES ASSUME TypeOK, MatchInv, Idle, NEW ip \in IP
               PROVE  LET r == saved.blocks[ip]
                          entry == firewall[r.backend][ip]
                      IN  /\ \A b \in Backend : firewall[b][ip] # Absent => Recorded(r) /\ r.backend = b
                          /\ r.expires = Never => entry = Never
                          /\ r.expires \in Nat /\ now < r.expires =>
                               entry = Never \/ (entry \in Nat /\ entry >= r.expires)
    BY DEF FirewallMatchesState
  <2>1. Fits(saved.blocks[ip], Entries(ip), now)
    BY DEF Idle, MatchInv, MatchOperation, Current, Loaded, Promoting
  <2>2. saved.blocks[ip].backend \in Backend
    BY DEF TypeOK, BlockState, BlockRecord
  <2>3. \A b \in Backend : Entries(ip)[b] = firewall[b][ip]
    BY EntryFacts
  <2>4. QED
    BY <2>1, <2>2, <2>3 DEF Fits
<1>2. QED
  BY <1>1, StateTracksFirewall, TypeCorrect, PTL

\* `vs blocks unblock` that gets as far as saving has left the address without
\* an entry in either backend.
THEOREM UnblockAlwaysEffective ==
    ASSUME Sole, OneBackend, FaultKinds = {}
    PROVE  Spec => []UnblockEffective
<1>1. TypeOK /\ MatchInv => UnblockEffective
  <2> SUFFICES ASSUME TypeOK, MatchInv, NEW p \in Proc, pc[p] = "save", op[p].kind = "unblock",
                      NEW ip \in op[p].requested, NEW b \in Backend
               PROVE  firewall[b][ip] = Absent
    BY DEF UnblockEffective
  <2>1. ip \in IP
    BY DEF TypeOK, Operation
  <2>2. ~Recorded(op[p].state.blocks[ip])
    BY DEF MatchInv, MatchOperation, Progress
  <2>3. Fits(op[p].state.blocks[ip], Entries(ip), now)
    BY <2>1 DEF MatchInv, MatchOperation, Current, Loaded, Promoting
  <2>4. QED
    BY <2>1, <2>2, <2>3, EntryFacts DEF Fits
<1>2. QED
  BY <1>1, StateTracksFirewall, TypeCorrect, PTL

\* A kernel timeout that fires is not early for any record of the row.
LEMMA TimeoutNotEarly ==
    ASSUME NEW p, Proc = {p}, TypeOK, MatchOperation(p), Tick, NEW ip \in IP,
           firewall[saved.blocks[ip].backend][ip] # Absent,
           firewall'[saved.blocks[ip].backend][ip] = Absent
    PROVE  ~Recorded(saved.blocks[ip]) \/ (saved.blocks[ip].expires \in Nat /\ saved.blocks[ip].expires <= now')
<1> DEFINE r == saved.blocks[ip]
           e == firewall[r.backend][ip]
<1>0. r.backend \in Backend /\ r.expires \in Expiry
  BY DEF TypeOK, BlockState, BlockRecord
<1>1. e \in Nat /\ e <= now' /\ now \in Nat /\ now' = now + 1
  BY <1>0, TickEffect
<1>2. /\ ~Promoting(p, ip) /\ Fits(Current(p)[ip], Entries(ip), now)
      /\ Loaded(p) => KeptRecord(op[p].state.blocks[ip], r, op[p].kind, now)
  BY <1>0 DEF MatchOperation
<1>3. Entries(ip)[r.backend] = e
  BY <1>0, EntryFacts
<1> HIDE DEF r, e
<1>4. ASSUME Fits(r, Entries(ip), now)
      PROVE  ~Recorded(r) \/ (r.expires \in Nat /\ r.expires <= now')
  <2>1. r.expires # Never
    BY <1>1, <1>3, <1>4 DEF Fits, Never
  <2>2. r.expires \in Nat => r.expires <= now'
    BY <1>0, <1>1, <1>3, <1>4 DEF Fits, Never
  <2>3. QED
    BY <1>0, <2>1, <2>2 DEF Recorded, Expiry
<1>5. CASE ~Loaded(p)
  BY <1>2, <1>4, <1>5 DEF Current, r
<1>6. CASE Loaded(p)
  <2> DEFINE c == op[p].state.blocks[ip]
  <2>1. Fits(c, Entries(ip), now) /\ KeptRecord(c, r, op[p].kind, now)
    BY <1>2, <1>6 DEF Current
  <2> HIDE DEF c
  <2>2. Recorded(c) /\ c.backend = r.backend
    BY <1>0, <1>1, <1>3, <2>1 DEF Fits, Absent
  <2>3. c.expires # Never
    BY <1>1, <1>3, <2>1, <2>2 DEF Fits, Never
  <2>4. c = r \/ ~Recorded(r) \/ Expired(r, now)
    BY <2>1, <2>2, <2>3 DEF KeptRecord
  <2>5. Expired(r, now) => r.expires \in Nat /\ r.expires <= now'
    BY <1>1 DEF Expired
  <2>6. QED
    BY <1>4, <2>1, <2>4, <2>5 DEF r
<1>7. QED
  BY <1>5, <1>6 DEF r

\* No expiry pass, stale check or kernel timeout shortens a recorded block that
\* has not expired.
THEOREM BlocksAlwaysHold ==
    ASSUME Sole, OneBackend, FaultKinds = {}
    PROVE  Spec => BlockHolds
<1> PICK q : Proc = {q}
  BY DEF Sole
<1>0. q \in Proc /\ (MatchInv <=> MatchOperation(q))
  BY DEF MatchInv
<1>1. TypeOK /\ EvidenceInv /\ MatchInv /\ [Next]_vars =>
        [\A ip \in IP :
            LET r == saved.blocks[ip]
            IN  /\ firewall[r.backend][ip] # Absent
                /\ firewall'[r.backend][ip] = Absent
                => \/ r.expires \in Nat /\ r.expires <= now'
                   \/ ~Recorded(r)
                   \/ \E p \in Proc : pc[p] \in {"unblock", "apply"}]_vars
  <2> SUFFICES ASSUME TypeOK, EvidenceInv, MatchInv, Next, NEW ip \in IP,
                      firewall[saved.blocks[ip].backend][ip] # Absent,
                      firewall'[saved.blocks[ip].backend][ip] = Absent,
                      pc[q] \notin {"unblock", "apply"}
               PROVE  \/ saved.blocks[ip].expires \in Nat /\ saved.blocks[ip].expires <= now'
                      \/ ~Recorded(saved.blocks[ip])
    BY <1>0
  <2>0. /\ op[q].at <= now /\ MatchOperation(q) /\ saved.blocks[ip].backend \in Backend
        /\ \A j \in IP : op[q].state.blocks[j].backend \in Backend
        /\ now \in Nat /\ op[q].at \in Nat
    BY <1>0, BoundAssumption DEF EvidenceInv, JustifiedOperation, TypeOK, BlockState, BlockRecord, Operation
  <2>1. CASE ExpireBlock(q)
    <3>1. PICK j \in IP : \E o \in UnblockResults(op[q].state.blocks[j].backend, j) :
            /\ pc[q] = "expire" /\ Same(q) /\ NextIP(q, j) /\ Sets(op[q].state.blocks[j].backend, j, o.entry)
      BY <1>0, <2>1, ExpireEffect
    <3>2. j = ip
      BY <2>0, <3>1, OneEntry
    <3>3. Expired(saved.blocks[ip], op[q].at) /\ now' = now
      BY <2>0, <3>1, <3>2 DEF MatchOperation, Progress, NextIP, Same
    <3>4. QED
      BY <2>0, <3>3 DEF Expired
  <2>2. CASE PromoteBlock(q)
    <3>1. PICK j \in IP : \E o \in BlockResults(BackendOf(op[q].config), j, Never) :
            pc[q] = "promote" /\ NextIP(q, j) /\ Sets(BackendOf(op[q].config), j, o.entry)
      BY <1>0, <2>2, PromoteBlockEffect
    <3>2. BackendOf(op[q].config) \in Backend
      BY DEF BackendOf, Backend
    <3>3. j = ip
      BY <2>0, <3>1, <3>2, OneEntry
    <3>4. firewall[saved.blocks[ip].backend][ip] = Absent
      BY <2>0, <3>1, <3>3 DEF MatchOperation, Promoting
    <3>5. QED
      BY <3>4
  <2>3. CASE Tick
    BY <2>0, <2>3, TimeoutNotEarly
  <2>4. CASE \/ BeginScan(q) \/ BeginCleanup(q)
             \/ \E j \in IP : BeginUnblock(q, "unblock", {j})
             \/ BeginUnblock(q, "unblock_all", RecordedIPs(saved))
    BY <1>0, <2>4, BeginEffect
  <2>5. CASE LoadState(q) \/ CheckBlock(q) \/ Quiet(q)
    BY <1>0, <2>5, LoadEffect, CheckEffect, QuietEffect
  <2>6. CASE SaveState(q) \/ Crash(q) \/ Reboot
    BY <1>0, <2>6, EndEffect
  <2>7. CASE BlockNew(q) \/ PromoteUnblock(q) \/ UnblockIP(q)
    BY <2>7 DEF BlockNew, PromoteUnblock, UnblockIP
  <2>8. QED
    BY <2>1, <2>2, <2>3, <2>4, <2>5, <2>6, <2>7, SoleSteps
<1>2. Spec => []MatchInv
  BY StateTracksFirewall
<1>3. QED
  BY <1>1, <1>2, TypeCorrect, EvidenceInvariant, PTL DEF Spec, BlockHolds
=============================================================================
