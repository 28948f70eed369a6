--------------------------- MODULE ScanStoreProofs ---------------------------
(***************************************************************************)
(* Proofs about ScanStore, for every set of finding kinds and channels and  *)
(* every length of the windows: no hour has more rate-limited attempts than *)
(* max_alerts_per_hour unless two scans deliver at once, then no more than   *)
(* the limit for each of them, and no scan saves again what was stamped      *)
(* within its suppression window unless another process overtook it.        *)
(***************************************************************************)
EXTENDS ScanStore, FiniteSetTheorems, WellFoundedInduction, TLAPS

-----------------------------------------------------------------------------
(* Numbers, windows and counts.                                             *)

LEMMA MinOfTwo ==
    ASSUME NEW a \in Int, NEW b \in Int
    PROVE  Min({a, b}) = IF a <= b THEN a ELSE b
<1>1. PICK m : m = IF a <= b THEN a ELSE b
  OBVIOUS
<1>2. m \in {a, b} /\ m \in Int /\ \A y \in {a, b} : m <= y
  BY <1>1
<1>3. \A x \in {a, b} : (\A y \in {a, b} : x <= y) => x = m
  BY <1>2
<1>4. QED
  BY <1>1, <1>2, <1>3 DEF Min

LEMMA MaxOfTwo ==
    ASSUME NEW a \in Int, NEW b \in Int
    PROVE  Max({a, b}) = IF a >= b THEN a ELSE b
<1>1. PICK m : m = IF a >= b THEN a ELSE b
  OBVIOUS
<1>2. m \in {a, b} /\ m \in Int /\ \A y \in {a, b} : m >= y
  BY <1>1
<1>3. \A x \in {a, b} : (\A y \in {a, b} : x >= y) => x = m
  BY <1>2
<1>4. QED
  BY <1>1, <1>2, <1>3 DEF Max

LEMMA MinFacts ==
    ASSUME NEW T \in SUBSET Nat, T # {}
    PROVE  Min(T) \in T /\ \A y \in T : Min(T) <= y
<1>1. PICK x \in T : \A y \in T : ~(<<y, x>> \in OpToRel(<, Nat))
  BY NatLessThanWellFounded, WFMin, Zenon
<1>2. \A y \in T : ~(y < x)
  BY <1>1 DEF OpToRel
<1>3. x \in T /\ \A y \in T : x <= y
  BY <1>2
<1>4. QED
  BY <1>3 DEF Min

LEMMA ConstantFacts ==
    /\ Retention \in Nat /\ Forever = Retention + 1
    /\ DedupWindow \in 1 .. Retention /\ ReminderInterval \in 1 .. Retention
    /\ Hour \in Nat \ {0} /\ MaxAlertsPerHour \in Nat \ {0} /\ MaxMaintenance \in Nat \ {0}
    /\ 0 \in Hours /\ Hours \subseteq Nat
    /\ Age \subseteq Nat /\ Forever \in Age /\ 0 \in Age
  BY ScanStoreAssumption DEF Forever, Hours, Age

LEMMA ProcessFacts ==
    /\ "daemon" \in Process /\ "manual" \in Process /\ "daemon" # "manual"
    /\ \A p \in Process : p = "daemon" \/ p = "manual"
  BY DEF Process

LEMMA MostAttemptsFacts == MostAttempts = 2 * MaxAlertsPerHour /\ MostAttempts \in Nat
<1>1. Process = {"daemon"} \cup {"manual"} /\ {"daemon"} \cap {"manual"} = {}
  BY DEF Process
<1>2. /\ IsFiniteSet({"daemon"}) /\ Cardinality({"daemon"}) = 1
      /\ IsFiniteSet({"manual"}) /\ Cardinality({"manual"}) = 1
  BY FS_Singleton
<1>3. Cardinality(Process) = 1 + 1 - Cardinality({"daemon"} \cap {"manual"})
  BY <1>1, <1>2, FS_Union
<1>4. Cardinality({"daemon"} \cap {"manual"}) = 0
  BY <1>1, FS_EmptySet
<1>5. QED
  BY <1>3, <1>4, ConstantFacts DEF MostAttempts

LEMMA WindowType ==
    ASSUME NEW f
    PROVE  SuppressionWindow(f) \in 1 .. Retention
  BY ConstantFacts, MaxOfTwo DEF SuppressionWindow

LEMMA OlderFacts ==
    ASSUME NEW S, NEW ages \in [S -> Age]
    PROVE  /\ Older(ages) \in [S -> Age]
           /\ \A x \in S : Older(ages)[x] = IF ages[x] = Forever THEN Forever ELSE ages[x] + 1
<1>1. \A x \in S : Min({ages[x] + 1, Forever}) = IF ages[x] = Forever THEN Forever ELSE ages[x] + 1
  BY ConstantFacts, MinOfTwo DEF Age
<1>2. QED
  BY <1>1, ConstantFacts DEF Older, Age

\* No age is beyond Retention but Forever.
LEMMA ExpireFacts ==
    ASSUME NEW S, NEW ages \in [S -> Age]
    PROVE  Expire(ages) = ages
  BY ConstantFacts DEF Expire, Age

LEMMA HoursFinite == IsFiniteSet(Hours)
  BY ConstantFacts, FS_Interval DEF Hours

LEMMA CountOf ==
    ASSUME NEW h, NEW lo \in Nat, NEW hi \in Nat, lo <= hi + 1
    PROVE  /\ IsFiniteSet({h} \X (lo .. hi))
           /\ Cardinality({h} \X (lo .. hi)) = hi - lo + 1
<1>1. IsFiniteSet(lo .. hi) /\ Cardinality(lo .. hi) = hi - lo + 1
  BY FS_Interval
<1>2. IsFiniteSet({h}) /\ Cardinality({h}) = 1
  BY FS_Singleton
<1>3. /\ IsFiniteSet({h} \X (lo .. hi))
      /\ Cardinality({h} \X (lo .. hi)) = Cardinality({h}) * Cardinality(lo .. hi)
  BY <1>1, <1>2, FS_Product
<1>4. Cardinality({h} \X (lo .. hi)) = 1 * (hi - lo + 1)
  BY <1>1, <1>2, <1>3
<1>5. QED
  BY <1>3, <1>4

LEMMA TotalType ==
    ASSUME NEW c \in [Hours -> Nat]
    PROVE  IsFiniteSet(RowsOf(c)) /\ Total(c) \in Nat
<1> DEFINE part == [h \in Hours |-> {h} \X (1 .. c[h])]
           S == {{h} \X (1 .. c[h]) : h \in Hours}
<1>1. part \in Surjection(Hours, S)
  BY DEF Surjection
<1>2. IsFiniteSet(S)
  BY <1>1, HoursFinite, FS_Surjection
<1>3. ASSUME NEW T \in S
      PROVE  IsFiniteSet(T)
  <2>1. PICK h \in Hours : T = {h} \X (1 .. c[h])
    OBVIOUS
  <2>2. IsFiniteSet(1 .. c[h])
    BY FS_Interval
  <2>3. QED
    BY <2>1, <2>2, FS_Singleton, FS_Product
<1>4. IsFiniteSet(RowsOf(c))
  BY <1>2, <1>3, FS_UNION DEF RowsOf
<1>5. QED
  BY <1>4, FS_CardinalityType DEF Total

LEMMA RowOf ==
    ASSUME NEW c \in [Hours -> Nat], NEW x
    PROVE  x \in RowsOf(c) <=> \E h \in Hours, i \in Nat \ {0} : i <= c[h] /\ x = <<h, i>>
  BY DEF RowsOf

LEMMA TotalMonotone ==
    ASSUME NEW c \in [Hours -> Nat], NEW d \in [Hours -> Nat], \A h \in Hours : c[h] <= d[h]
    PROVE  Total(c) <= Total(d)
<1>1. RowsOf(c) \subseteq RowsOf(d)
  BY RowOf
<1>2. QED
  BY <1>1, TotalType, FS_Subset DEF Total

LEMMA TotalShift ==
    ASSUME NEW c \in [Hours -> Nat]
    PROVE  /\ Shift(c) \in [Hours -> Nat]
           /\ Total(Shift(c)) <= Total(c)
<1>1. Shift(c) \in [Hours -> Nat]
  BY ConstantFacts DEF Shift, Hours
<1>2. PICK s : s = Shift(c)
  OBVIOUS
<1>3. s \in [Hours -> Nat] /\ s[0] = 0 /\ \A h \in Hours \ {0} : h - 1 \in Hours /\ s[h] = c[h - 1]
  BY <1>1, <1>2, ConstantFacts DEF Shift, Hours
<1> DEFINE back == [x \in RowsOf(s) |-> <<x[1] - 1, x[2]>>]
<1>4. ASSUME NEW x \in RowsOf(s)
      PROVE  \E h \in Hours \ {0}, i \in Nat \ {0} : i <= c[h - 1] /\ x = <<h, i>>
  <2>1. PICK h \in Hours, i \in Nat \ {0} : i <= s[h] /\ x = <<h, i>>
    BY <1>3, RowOf
  <2>2. h # 0
    BY <1>3, <2>1
  <2>3. QED
    BY <1>3, <2>1, <2>2
<1>5. \A x \in RowsOf(s) : back[x] \in RowsOf(c)
  <2>1. TAKE x \in RowsOf(s)
  <2>2. PICK h \in Hours \ {0}, i \in Nat \ {0} : i <= c[h - 1] /\ x = <<h, i>>
    BY <1>4
  <2>3. back[x] = <<h - 1, i>>
    BY <2>2
  <2>4. h - 1 \in Hours
    BY <1>3
  <2>5. QED
    BY <2>2, <2>3, <2>4, RowOf
<1>6. \A x, y \in RowsOf(s) : back[x] = back[y] => x = y
  <2>1. TAKE x, y \in RowsOf(s)
  <2>2. PICK h \in Hours \ {0}, i \in Nat \ {0} : i <= c[h - 1] /\ x = <<h, i>>
    BY <1>4
  <2>3. PICK g \in Hours \ {0}, j \in Nat \ {0} : j <= c[g - 1] /\ y = <<g, j>>
    BY <1>4
  <2>4. back[x] = <<h - 1, i>> /\ back[y] = <<g - 1, j>>
    BY <2>2, <2>3
  <2>5. h \in Int /\ g \in Int
    BY ConstantFacts
  <2>6. QED
    BY <2>2, <2>3, <2>4, <2>5
<1>7. back \in Injection(RowsOf(s), RowsOf(c))
  BY <1>5, <1>6 DEF Injection, IsInjective
<1>8. QED
  BY <1>1, <1>2, <1>7, TotalType, FS_Injection DEF Total

LEMMA TotalAdd ==
    ASSUME NEW c \in [Hours -> Nat], NEW n \in Nat
    PROVE  /\ [c EXCEPT ![0] = c[0] + n] \in [Hours -> Nat]
           /\ Total([c EXCEPT ![0] = c[0] + n]) = Total(c) + n
<1>1. PICK d : d = [c EXCEPT ![0] = c[0] + n]
  OBVIOUS
<1>2. d \in [Hours -> Nat] /\ d[0] = c[0] + n /\ \A h \in Hours \ {0} : d[h] = c[h]
  BY <1>1, ConstantFacts
<1> DEFINE more == {0} \X (c[0] + 1 .. c[0] + n)
<1>3. c[0] \in Nat
  BY ConstantFacts
<1>4. IsFiniteSet(more) /\ Cardinality(more) = n
  <2>1. PICK lo, hi : lo = c[0] + 1 /\ hi = c[0] + n
    OBVIOUS
  <2>2. lo \in Nat /\ hi \in Nat /\ lo <= hi + 1 /\ hi - lo + 1 = n
    BY <1>3, <2>1
  <2>3. IsFiniteSet({0} \X (lo .. hi)) /\ Cardinality({0} \X (lo .. hi)) = hi - lo + 1
    BY <2>2, CountOf
  <2>4. QED
    BY <2>1, <2>2, <2>3
<1>5. RowsOf(d) = RowsOf(c) \cup more
  <2>1. ASSUME NEW x \in RowsOf(d)
        PROVE  x \in RowsOf(c) \cup more
    <3>1. PICK h \in Hours, i \in Nat \ {0} : i <= d[h] /\ x = <<h, i>>
      BY <1>2, RowOf
    <3>2. CASE h # 0 \/ i <= c[0]
      <4>1. i \in 1 .. c[h]
        BY <1>2, <1>3, <3>1, <3>2
      <4>2. QED
        BY <3>1, <4>1, RowOf
    <3>3. CASE h = 0 /\ i > c[0]
      BY <1>2, <1>3, <3>1, <3>3
    <3>4. QED
      BY <1>3, <3>1, <3>2, <3>3
  <2>2. ASSUME NEW x \in RowsOf(c)
        PROVE  x \in RowsOf(d)
    <3>1. PICK h \in Hours, i \in Nat \ {0} : i <= c[h] /\ x = <<h, i>>
      BY RowOf
    <3>2. i \in 1 .. d[h]
      BY <1>2, <1>3, <3>1
    <3>3. QED
      BY <1>2, <3>1, <3>2, RowOf
  <2>3. ASSUME NEW x \in more
        PROVE  x \in RowsOf(d)
    <3>1. PICK i \in c[0] + 1 .. c[0] + n : x = <<0, i>>
      OBVIOUS
    <3>2. i \in 1 .. d[0]
      BY <1>2, <1>3, <3>1
    <3>3. QED
      BY <1>2, <3>1, <3>2, RowOf, ConstantFacts
  <2>4. QED
    BY <2>1, <2>2, <2>3
<1>6. RowsOf(c) \cap more = {}
  <2>1. SUFFICES ASSUME NEW x \in RowsOf(c), x \in more PROVE FALSE
    OBVIOUS
  <2>2. PICK h \in Hours, i \in Nat \ {0} : i <= c[h] /\ x = <<h, i>>
    BY RowOf
  <2>3. PICK j \in c[0] + 1 .. c[0] + n : x = <<0, j>>
    BY <2>1
  <2>4. QED
    BY <1>3, <2>2, <2>3
<1>7. Cardinality(RowsOf(d)) = Cardinality(RowsOf(c)) + n
  <2>1. Cardinality(RowsOf(c) \cap more) = 0
    BY <1>6, FS_EmptySet
  <2>2. Cardinality(RowsOf(c)) \in Nat
    BY TotalType DEF Total
  <2>3. Cardinality(RowsOf(c) \cup more)
          = Cardinality(RowsOf(c)) + Cardinality(more) - Cardinality(RowsOf(c) \cap more)
    BY <1>4, TotalType, FS_Union
  <2>4. QED
    BY <1>4, <1>5, <2>1, <2>2, <2>3
<1>8. QED
  BY <1>1, <1>2, <1>7 DEF Total

LEMMA TotalAtLeast ==
    ASSUME NEW c \in [Hours -> Nat], NEW h \in Hours
    PROVE  c[h] <= Total(c)
<1>1. {h} \X (1 .. c[h]) \subseteq RowsOf(c)
  BY DEF RowsOf
<1>2. Cardinality({h} \X (1 .. c[h])) = c[h]
  <2>1. PICK lo, hi : lo = 1 /\ hi = c[h]
    OBVIOUS
  <2>2. lo \in Nat /\ hi \in Nat /\ lo <= hi + 1 /\ hi - lo + 1 = c[h]
    BY <2>1
  <2>3. Cardinality({h} \X (lo .. hi)) = hi - lo + 1
    BY <2>2, CountOf
  <2>4. QED
    BY <2>1, <2>2, <2>3
<1>3. QED
  BY <1>1, <1>2, TotalType, FS_Subset DEF Total

-----------------------------------------------------------------------------
(* The inductive invariants.                                                *)

\* Attempts made that no log row stands for yet and that count against the limit,
\* and those of them that limited has.
Pending(p) == Cardinality(Limited(scan[p].sent))
Counted(p) == IF scan[p].raced THEN 0 ELSE Pending(p)
AllPending == Pending("daemon") + Pending("manual")
AllCounted == Counted("daemon") + Counted("manual")

\* Attempts are on record: outside the deliveries under way every attempt that counts
\* has its log row, and those under way account for the difference.
LimitInv ==
    /\ HourlyLimitHolds /\ OverlapBounded
    /\ \A h \in Hours \ {0} : limited[h] <= logs[h] /\ attempts[h] <= logs[h]
    /\ AllCounted <= limited[0] /\ limited[0] - AllCounted <= logs[0]
    /\ AllPending <= attempts[0] /\ attempts[0] - AllPending <= logs[0]
    /\ \A p \in Process : Pending(p) <= MaxAlertsPerHour
    /\ \A p \in Process : scan[p].pc # "log" => scan[p].sent = {}

\* The stored rows of a key, and what they or finding_dedup_state know of its last save.
Stored(k) == {f \in Kinds : Finding[f].key = k /\ rows[f] # Forever}
RowsRecent == \A k \in KeysOf : Stored(k) # {} => \E f \in Stored(k) : rows[f] <= lastSaved[k]
DedupRecent == \A k \in KeysOf : dedup[k] <= lastSaved[k]
Remembered ==
    /\ RowsRecent
    /\ \A k \in KeysOf : dedup[k] <= lastSaved[k] \/ Stored(k) # {}
    /\ (\E p \in Process : ~At(p, "idle")) => DedupRecent
    /\ \A p \in Process : At(p, "save") /\ ~scan[p].raced =>
          \A f \in scan[p].found : lastSaved[Finding[f].key] > SuppressionWindow(f)

-----------------------------------------------------------------------------
(* Type correctness.                                                        *)

ScanRecord == [pc : Stages, found : SUBSET Kinds, raced : BOOLEAN, sent : SUBSET Delivery]

LEMMA IdleType == Idle \in ScanRecord
  BY DEF Idle, Locals, ScanRecord, Stages

LEMMA MaintenanceType ==
    ASSUME NEW requested \in 0 .. MaxMaintenance + 1
    PROVE  Max({1, Min({requested, MaxMaintenance})}) \in 0 .. MaxMaintenance
<1>1. PICK m : m = Min({requested, MaxMaintenance})
  OBVIOUS
<1>2. m \in 0 .. MaxMaintenance
  BY <1>1, ConstantFacts, MinOfTwo
<1>3. Max({1, m}) \in 0 .. MaxMaintenance
  BY <1>2, ConstantFacts, MaxOfTwo
<1>4. QED
  BY <1>1, <1>3

LEMMA MigratedType ==
    ASSUME StoreTypeOK
    PROVE  /\ Migrated \in [KeysOf -> Age]
           /\ \A k \in KeysOf : Stored(k) = {} => Migrated[k] = dedup[k]
           /\ \A k \in KeysOf : \A f \in Stored(k) : Migrated[k] <= rows[f]
           /\ \A k \in KeysOf : Stored(k) # {} => \E f \in Stored(k) : Migrated[k] = rows[f]
<1> DEFINE ages(k) == {rows[f] : f \in {g \in Kinds : Finding[g].key = k}} \ {Forever}
<1>1. \A k \in KeysOf : ages(k) = {rows[f] : f \in Stored(k)}
  BY DEF Stored
<1>2. \A k \in KeysOf : ages(k) \in SUBSET Age /\ ages(k) \in SUBSET Nat
  <2>1. rows \in [Kinds -> Age] /\ Age \subseteq Nat
    BY ConstantFacts DEF StoreTypeOK
  <2>2. QED
    BY <2>1, Zenon
<1>3. Migrated = [k \in KeysOf |-> IF ages(k) = {} THEN dedup[k] ELSE Min(ages(k))]
  BY DEF Migrated
<1>4. \A k \in KeysOf : ages(k) # {} => Min(ages(k)) \in ages(k) /\ \A y \in ages(k) : Min(ages(k)) <= y
  BY <1>2, MinFacts
<1>5. \A k \in KeysOf : ages(k) = {} <=> Stored(k) = {}
  BY <1>1
<1> HIDE DEF ages
<1>6. Migrated \in [KeysOf -> Age]
  BY <1>2, <1>3, <1>4 DEF StoreTypeOK
<1>7. QED
  BY <1>1, <1>3, <1>4, <1>5, <1>6

LEMMA OvertakenType ==
    ASSUME StoreTypeOK
    PROVE  /\ Overtaken \in [Process -> ScanRecord]
           /\ \A q \in Process : Overtaken[q].pc = scan[q].pc /\ Overtaken[q].found = scan[q].found
           /\ \A q \in Process : Overtaken[q].sent = scan[q].sent
           /\ \A q \in Process : Overtaken[q].raced = IF scan[q].pc = "save" THEN TRUE ELSE scan[q].raced
<1>1. ASSUME NEW q \in Process
      PROVE  /\ Overtaken[q] \in ScanRecord
             /\ Overtaken[q].pc = scan[q].pc /\ Overtaken[q].found = scan[q].found
             /\ Overtaken[q].sent = scan[q].sent
             /\ Overtaken[q].raced = IF scan[q].pc = "save" THEN TRUE ELSE scan[q].raced
  <2>1. PICK b : b = IF scan[q].pc = "save" THEN TRUE ELSE scan[q].raced
    BY Zenon
  <2>2. b \in BOOLEAN
    BY <2>1, Zenon DEF StoreTypeOK
  <2>3. Overtaken[q] = Locals(scan[q].pc, scan[q].found, b, scan[q].sent)
    BY <2>1, Zenon DEF Overtaken
  <2>4. /\ Overtaken[q] \in ScanRecord
        /\ Overtaken[q].pc = scan[q].pc /\ Overtaken[q].found = scan[q].found
        /\ Overtaken[q].sent = scan[q].sent /\ Overtaken[q].raced = b
    BY <2>2, <2>3 DEF StoreTypeOK, Locals, ScanRecord
  <2>5. QED
    BY <2>1, <2>4, Zenon
<1>2. QED
  BY <1>1 DEF Overtaken

\* One process moves on.
LEMMA ScanUpdate ==
    ASSUME StoreTypeOK, NEW p \in Process, NEW x \in ScanRecord, scan' = [scan EXCEPT ![p] = x]
    PROVE  /\ scan' \in [Process -> ScanRecord] /\ scan'[p] = x
           /\ \A q \in Process \ {p} : scan'[q] = scan[q]
  BY DEF StoreTypeOK, ScanRecord

LEMMA DeliveryFinite == IsFiniteSet(Delivery)
  BY ScanStoreAssumption, FS_Product DEF Delivery

LEMMA PlanFacts ==
    ASSUME NEW found \in SUBSET Kinds, NEW plan \in Plans(found), logs \in [Hours -> Nat]
    PROVE  /\ plan \in SUBSET Delivery
           /\ Cardinality(Limited(plan)) \in Nat
           /\ Cardinality(Limited(plan)) <= DeliveryLimit
<1> DEFINE planned == {d \in NotificationFindings(found) \X Channel : Meets(d)}
           capped == {d \in planned : ~Bypasses(d)}
<1>1. PICK n : n = Min({DeliveryLimit, Cardinality(capped)})
  OBVIOUS
<1>2. PICK chosen : /\ chosen \in kSubset(n, capped)
                    /\ plan = (planned \ capped) \cup chosen
  BY <1>1 DEF Plans
<1>3. chosen \subseteq capped /\ Cardinality(chosen) = n
  BY <1>2 DEF kSubset
<1>4. {d \in plan : ~Bypasses(d)} = chosen
  BY <1>2, <1>3
<1>5. planned \in SUBSET Delivery
  BY DEF NotificationFindings, Grouped, NotHandled, QuietAllowed, Delivery
<1>6. IsFiniteSet(capped)
  BY <1>5, DeliveryFinite, FS_Subset
<1>7. Cardinality(capped) \in Nat /\ DeliveryLimit \in Nat
  BY <1>6, FS_CardinalityType, TotalType, ConstantFacts, MaxOfTwo, SMTT(30) DEF DeliveryLimit
<1>8. n \in Nat /\ n <= DeliveryLimit
  BY <1>1, <1>7, MinOfTwo
<1>9. QED
  BY <1>2, <1>3, <1>4, <1>5, <1>8 DEF Limited

-----------------------------------------------------------------------------
(* What each action does to the locals of the scans, field by field.        *)

Moves(p, x) ==
    /\ x \in ScanRecord /\ scan' \in [Process -> ScanRecord] /\ scan'[p] = x
    /\ \A q \in Process \ {p} : scan'[q] = scan[q]

LEMMA MovesTo ==
    ASSUME StoreTypeOK, NEW p \in Process, NEW pc \in Stages, NEW found \in SUBSET Kinds,
           NEW raced \in BOOLEAN, NEW sent \in SUBSET Delivery,
           scan' = [scan EXCEPT ![p] = Locals(pc, found, raced, sent)]
    PROVE  Moves(p, Locals(pc, found, raced, sent))
<1>1. Locals(pc, found, raced, sent) \in ScanRecord
  BY DEF Locals, ScanRecord
<1>2. QED
  BY <1>1, ScanUpdate DEF Moves

LEMMA OpenMoves ==
    ASSUME StoreTypeOK, NEW p \in Process, Open(p)
    PROVE  Moves(p, Locals("detect", {}, FALSE, {}))
  BY MovesTo DEF Open, Stages

LEMMA DetectMoves ==
    ASSUME StoreTypeOK, NEW p \in Process, Detect(p)
    PROVE  Moves(p, Locals("check", Detected, FALSE, {}))
<1>1. Detected \in SUBSET Kinds
  BY DEF Detected, StoreTypeOK
<1>2. QED
  BY <1>1, MovesTo DEF Detect, Stages

LEMMA SuppressRecentMoves ==
    ASSUME StoreTypeOK, NEW p \in Process, SuppressRecent(p)
    PROVE  Moves(p, Locals("save", {f \in scan[p].found : ~RecentlySeen(f)}, FALSE, {}))
<1>1. PICK F : F = {f \in scan[p].found : ~RecentlySeen(f)}
  OBVIOUS
<1>2. F \in SUBSET Kinds
  BY <1>1 DEF StoreTypeOK
<1>3. scan' = [scan EXCEPT ![p] = Locals("save", F, FALSE, {})]
  BY <1>1 DEF SuppressRecent
<1>4. QED
  BY <1>1, <1>2, <1>3, MovesTo DEF Stages

\* A save, and the processes it overtakes.
Overtaking(p) ==
    \A q \in Process \ {p} : /\ scan'[q].pc = scan[q].pc /\ scan'[q].found = scan[q].found
                             /\ scan'[q].sent = scan[q].sent
                             /\ scan'[q].raced = IF scan[q].pc = "save" THEN TRUE ELSE scan[q].raced

LEMMA SaveFindingsMoves ==
    ASSUME StoreTypeOK, NEW p \in Process, SaveFindings(p)
    PROVE  /\ scan' \in [Process -> ScanRecord] /\ Overtaking(p)
           /\ scan'[p] = IF notify[p] THEN Locals("notify", scan[p].found, FALSE, {})
                                      ELSE Locals("prune", {}, FALSE, {})
<1>1. PICK x : x = IF notify[p] THEN Locals("notify", scan[p].found, FALSE, {})
                                ELSE Locals("prune", {}, FALSE, {})
  OBVIOUS
<1>2. x \in ScanRecord
  BY <1>1 DEF StoreTypeOK, ScanRecord, Locals, Stages
<1>3. scan' = [Overtaken EXCEPT ![p] = x]
  BY <1>1 DEF SaveFindings
<1>4. QED
  BY <1>1, <1>2, <1>3, OvertakenType DEF Overtaking

LEMMA NotifyMoves ==
    ASSUME StoreTypeOK, NEW p \in Process, NEW plan \in Plans(scan[p].found), NEW raced \in BOOLEAN,
           scan' = [scan EXCEPT ![p] = Locals("log", {}, raced, plan)]
    PROVE  Moves(p, Locals("log", {}, raced, plan))
<1>1. plan \in SUBSET Delivery
  BY PlanFacts DEF StoreTypeOK
<1>2. QED
  BY <1>1, MovesTo DEF Stages

LEMMA LogMoves ==
    ASSUME StoreTypeOK, NEW p \in Process, Log(p)
    PROVE  Moves(p, Locals("prune", {}, FALSE, {}))
  BY MovesTo DEF Log, Stages

LEMMA IdleMoves ==
    ASSUME StoreTypeOK, NEW p \in Process, scan' = [scan EXCEPT ![p] = Idle]
    PROVE  Moves(p, Locals("idle", {}, FALSE, {}))
  BY MovesTo DEF Idle, Stages

-----------------------------------------------------------------------------
(* The hourly limit.                                                        *)

LEMMA SentFinite ==
    ASSUME NEW s \in SUBSET Delivery
    PROVE  IsFiniteSet(s) /\ Cardinality(s) \in Nat
  BY DeliveryFinite, FS_Subset, FS_CardinalityType

\* The attempts split into the lost and the recorded ones.
LEMMA SplitSent ==
    ASSUME NEW sent \in SUBSET Delivery, NEW failed \in SUBSET sent
    PROVE  LET all == Cardinality(Limited(sent))
               lost == Cardinality(Limited(failed))
               kept == Cardinality(sent \ failed)
           IN  all \in Nat /\ lost \in Nat /\ kept \in Nat /\ lost <= all /\ all - lost <= kept
<1> DEFINE A == {d \in sent : ~Bypasses(d)}
           L == {d \in failed : ~Bypasses(d)}
           K == {d \in sent \ failed : ~Bypasses(d)}
<1>1. A \in SUBSET Delivery /\ L \in SUBSET Delivery /\ K \in SUBSET Delivery
      /\ sent \ failed \in SUBSET Delivery
  OBVIOUS
<1>2. A = L \cup K /\ L \cap K = {} /\ K \in SUBSET (sent \ failed)
  OBVIOUS
<1>3. Cardinality(A) = Cardinality(L) + Cardinality(K) - Cardinality(L \cap K)
  BY <1>1, <1>2, SentFinite, FS_Union
<1>4. Cardinality(L \cap K) = 0
  BY <1>2, FS_EmptySet
<1>5. Cardinality(K) <= Cardinality(sent \ failed)
  BY <1>1, <1>2, SentFinite, FS_Subset
<1>6. QED
  BY <1>1, <1>3, <1>4, <1>5, SentFinite DEF Limited

LEMMA PendingType ==
    ASSUME StoreTypeOK, NEW p \in Process
    PROVE  Pending(p) \in Nat /\ Counted(p) \in Nat /\ Counted(p) <= Pending(p)
<1>1. Limited(scan[p].sent) \in SUBSET Delivery
  BY DEF Limited, StoreTypeOK
<1>2. Pending(p) \in Nat
  BY <1>1, SentFinite DEF Pending
<1>3. QED
  BY <1>2 DEF Counted

LEMMA NothingPending ==
    ASSUME NEW p, scan[p].sent = {}
    PROVE  Pending(p) = 0 /\ Counted(p) = 0
<1>1. Limited(scan[p].sent) = {}
  BY DEF Limited
<1>2. QED
  BY <1>1, FS_EmptySet DEF Pending, Counted

\* What is pending is pending with one process or the other.
Other(p) == IF p = "daemon" THEN "manual" ELSE "daemon"

LEMMA PendingSplit ==
    ASSUME StoreTypeOK, NEW p \in Process
    PROVE  /\ Other(p) \in Process /\ Other(p) # p /\ Process = {p, Other(p)}
           /\ AllPending = Pending(p) + Pending(Other(p))
           /\ AllCounted = Counted(p) + Counted(Other(p))
<1>1. Other(p) \in Process /\ Other(p) # p /\ Process = {p, Other(p)}
  BY DEF Process, Other
<1>2. Pending("daemon") \in Nat /\ Pending("manual") \in Nat /\ Counted("daemon") \in Nat /\ Counted("manual") \in Nat
  BY PendingType, ProcessFacts
<1>3. CASE p = "daemon"
  BY <1>1, <1>2, <1>3 DEF AllPending, AllCounted, Other
<1>4. CASE p = "manual"
  BY <1>1, <1>2, <1>4 DEF AllPending, AllCounted, Other
<1>5. QED
  BY <1>3, <1>4, ProcessFacts

LEMMA PendingSplitNext ==
    ASSUME NEW p \in Process,
           Pending(p)' \in Nat, Pending(Other(p))' \in Nat,
           Counted(p)' \in Nat, Counted(Other(p))' \in Nat
    PROVE  /\ AllPending' = Pending(p)' + Pending(Other(p))'
           /\ AllCounted' = Counted(p)' + Counted(Other(p))'
<1>1. CASE p = "daemon"
  <2>1. Other(p) = "manual"
    BY <1>1 DEF Other
  <2>2. QED
    BY <1>1, <2>1 DEF AllPending, AllCounted
<1>2. CASE p = "manual"
  <2>1. Other(p) = "daemon"
    BY <1>2 DEF Other
  <2>2. QED
    BY <1>2, <2>1 DEF AllPending, AllCounted
<1>3. QED
  BY <1>1, <1>2, ProcessFacts

\* Logs and attempts as they are, and nobody starts or ends a delivery.
LEMMA LimitKept ==
    ASSUME LimitInv, UNCHANGED <<logs, attempts, limited>>,
           \A q \in Process : /\ scan'[q].sent = scan[q].sent
                              /\ scan'[q].pc = "log" <=> scan[q].pc = "log"
                              /\ scan'[q].raced = scan[q].raced \/ scan[q].sent = {}
    PROVE  LimitInv'
<1>1. ASSUME NEW q \in Process
      PROVE  Pending(q)' = Pending(q) /\ Counted(q)' = Counted(q)
  <2>1. Limited(scan'[q].sent) = Limited(scan[q].sent)
    BY <1>1
  <2>2. Pending(q)' = Pending(q)
    BY <2>1 DEF Pending, Limited, Bypasses
  <2>3. CASE scan'[q].raced = scan[q].raced
    BY <2>2, <2>3 DEF Counted
  <2>4. CASE scan[q].sent = {}
    <3>1. Pending(q) = 0
      BY <2>4, NothingPending
    <3>2. QED
      BY <2>2, <3>1 DEF Counted
  <2>5. QED
    BY <1>1, <2>2, <2>3, <2>4
<1>2. AllPending' = AllPending /\ AllCounted' = AllCounted
  BY <1>1, ProcessFacts DEF AllPending, AllCounted
<1>3. QED
  BY <1>1, <1>2 DEF LimitInv, HourlyLimitHolds, OverlapBounded

\* Only p moves, and neither before nor after has it anything to record.
LEMMA LimitKeptBy ==
    ASSUME LimitInv, UNCHANGED <<logs, attempts, limited>>, NEW p \in Process,
           scan[p].pc # "log", scan'[p].pc # "log", scan'[p].sent = {},
           \A q \in Process \ {p} : scan'[q] = scan[q]
    PROVE  LimitInv'
<1>1. scan[p].sent = {}
  BY DEF LimitInv
<1>2. QED
  BY <1>1, LimitKept

\* A plan within the limit that was read.
LEMMA NotifyLimit ==
    ASSUME StoreTypeOK, LimitInv, NEW p \in Process, Notify(p)
    PROVE  (StoreTypeOK /\ LimitInv)'
<1>1. scan[p].sent = {} /\ Pending(p) = 0 /\ Counted(p) = 0
  BY NothingPending DEF Notify, At, LimitInv
<1>2. PICK plan \in Plans(scan[p].found), raced \in BOOLEAN :
        /\ raced = Delivering(p)
        /\ scan' = [scan EXCEPT ![p] = Locals("log", {}, raced, plan)]
        /\ attempts' = [attempts EXCEPT ![0] = @ + Cardinality(Limited(plan))]
        /\ limited' = IF raced THEN limited ELSE [limited EXCEPT ![0] = @ + Cardinality(Limited(plan))]
  <2>1. Delivering(p) \in BOOLEAN
    BY DEF Delivering
  <2>2. QED
    BY <2>1, Zenon DEF Notify
<1>3. Moves(p, Locals("log", {}, raced, plan))
  BY <1>2, NotifyMoves
<1>4. scan'[p].sent = plan /\ scan'[p].pc = "log" /\ scan'[p].raced = raced
      /\ \A q \in Process \ {p} : scan'[q] = scan[q]
  BY <1>3 DEF Moves, Locals
<1>5. PICK n : n = Cardinality(Limited(plan))
  OBVIOUS
<1>6. n \in Nat /\ n <= DeliveryLimit
  BY <1>5, PlanFacts DEF StoreTypeOK
<1>7. /\ limited \in [Hours -> Nat] /\ attempts \in [Hours -> Nat] /\ logs \in [Hours -> Nat]
      /\ 0 \in Hours /\ logs' = logs
  BY ConstantFacts DEF StoreTypeOK, Notify, tables
<1>8. PICK q : q = Other(p)
  OBVIOUS
<1>9. q \in Process /\ q # p /\ Process = {p, q} /\ AllPending = Pending(q) /\ AllCounted = Counted(q)
      /\ Pending(q) \in Nat /\ Counted(q) \in Nat
  BY <1>1, <1>8, PendingSplit, PendingType
<1>10. attempts' = [attempts EXCEPT ![0] = attempts[0] + n]
  BY <1>2, <1>5, <1>7
<1>11. limited' = IF raced THEN limited ELSE [limited EXCEPT ![0] = limited[0] + n]
  BY <1>2, <1>5, <1>7
<1>12. attempts' \in [Hours -> Nat] /\ Total(attempts') = Total(attempts) + n
  BY <1>6, <1>7, <1>10, TotalAdd
<1>13. limited' \in [Hours -> Nat] /\ Total(limited') = IF raced THEN Total(limited) ELSE Total(limited) + n
  BY <1>6, <1>7, <1>11, TotalAdd
<1>14. StoreTypeOK'
  BY <1>3, <1>7, <1>12, <1>13 DEF Notify, StoreTypeOK, Moves, ScanRecord, tables, host
<1>15. Total(logs) \in Nat /\ Total(attempts) \in Nat /\ Total(limited) \in Nat
  BY <1>7, TotalType
<1>16. DeliveryLimit = IF MaxAlertsPerHour - Total(logs) <= 0 THEN 0 ELSE MaxAlertsPerHour - Total(logs)
  BY <1>15, ConstantFacts, MaxOfTwo DEF DeliveryLimit
<1>17. n <= MaxAlertsPerHour
  BY <1>6, <1>15, <1>16, ConstantFacts
<1>18. limited[0] \in Nat /\ attempts[0] \in Nat /\ logs[0] \in Nat
  BY <1>7
<1>19. OverlapBounded'
  <2>1. PICK over : over = [logs EXCEPT ![0] = logs[0] + Pending(q)]
    OBVIOUS
  <2>2. over \in [Hours -> Nat] /\ Total(over) = Total(logs) + Pending(q)
    BY <1>7, <1>9, <2>1, TotalAdd
  <2>3. over[0] = logs[0] + Pending(q) /\ \A h \in Hours \ {0} : over[h] = logs[h]
    BY <1>7, <2>1
  <2>4. \A h \in Hours : attempts[h] <= over[h]
    BY <1>9, <1>18, <2>3 DEF LimitInv
  <2>5. Total(attempts) <= Total(logs) + Pending(q)
    BY <1>7, <2>2, <2>4, TotalMonotone
  <2>6. Pending(q) <= MaxAlertsPerHour /\ Total(attempts) <= MostAttempts
    BY <1>9 DEF LimitInv, OverlapBounded
  <2>7. CASE DeliveryLimit = 0
    BY <1>6, <1>12, <1>15, <2>6, <2>7 DEF OverlapBounded, MostAttempts
  <2>8. CASE DeliveryLimit # 0
    <3>1. n <= MaxAlertsPerHour - Total(logs)
      BY <1>6, <1>15, <1>16, <2>8, ConstantFacts
    <3>2. Total(attempts') <= 2 * MaxAlertsPerHour
      BY <1>6, <1>9, <1>12, <1>15, <2>5, <2>6, <3>1, ConstantFacts
    <3>3. QED
      BY <3>2, MostAttemptsFacts DEF OverlapBounded, MostAttempts
  <2>9. QED
    BY <2>7, <2>8
<1>20. HourlyLimitHolds'
  <2>1. CASE raced
    BY <1>13, <2>1 DEF LimitInv, HourlyLimitHolds
  <2>2. CASE ~raced
    <3>1. scan[q].sent = {}
      BY <1>2, <1>9, <2>2, Zenon DEF Delivering
    <3>2. Counted(q) = 0
      BY <3>1, NothingPending
    <3>3. \A h \in Hours : limited[h] <= logs[h]
      BY <1>9, <1>18, <3>2 DEF LimitInv
    <3>4. Total(limited) <= Total(logs)
      BY <1>7, <3>3, TotalMonotone
    <3>5. Total(limited') <= MaxAlertsPerHour
      BY <1>6, <1>13, <1>15, <1>16, <2>2, <3>4, ConstantFacts DEF LimitInv, HourlyLimitHolds
    <3>6. QED
      BY <3>5 DEF HourlyLimitHolds
  <2>3. QED
    BY <2>1, <2>2
<1>21. Pending(p)' = n /\ Counted(p)' = IF raced THEN 0 ELSE n
  <2>1. Pending(p)' = n
    BY <1>4, <1>5 DEF Pending, Limited, Bypasses
  <2>2. QED
    BY <1>4, <2>1 DEF Counted
<1>22. Pending(q)' = Pending(q) /\ Counted(q)' = Counted(q)
  BY <1>4, <1>9 DEF Pending, Counted, Limited, Bypasses
<1>23. AllPending' = n + Pending(q) /\ AllCounted' = (IF raced THEN 0 ELSE n) + Counted(q)
  <2>1. /\ AllPending' = Pending(p)' + Pending(Other(p))'
        /\ AllCounted' = Counted(p)' + Counted(Other(p))'
    BY <1>6, <1>8, <1>9, <1>21, <1>22, PendingSplitNext
  <2>2. QED
    BY <1>8, <1>21, <1>22, <2>1
<1>24. LimitInv'
  <2>1. attempts'[0] = attempts[0] + n /\ \A h \in Hours \ {0} : attempts'[h] = attempts[h]
    BY <1>7, <1>10
  <2>2. limited'[0] = limited[0] + (IF raced THEN 0 ELSE n) /\ \A h \in Hours \ {0} : limited'[h] = limited[h]
    BY <1>6, <1>7, <1>11, <1>18
  <2>3. \A x \in Process : scan'[x].pc # "log" => scan'[x].sent = {}
    BY <1>4 DEF LimitInv
  <2>4. \A x \in Process : Pending(x)' <= MaxAlertsPerHour
    BY <1>9, <1>17, <1>21, <1>22 DEF LimitInv
  <2>5. AllPending' <= attempts'[0] /\ attempts'[0] - AllPending' <= logs[0]
    BY <1>6, <1>9, <1>18, <1>23, <2>1 DEF LimitInv
  <2>6. AllCounted' <= limited'[0] /\ limited'[0] - AllCounted' <= logs[0]
    BY <1>6, <1>9, <1>18, <1>23, <2>2 DEF LimitInv
  <2>7. QED
    BY <1>7, <1>19, <1>20, <2>1, <2>2, <2>3, <2>4, <2>5, <2>6 DEF LimitInv
<1>25. QED
  BY <1>14, <1>24

LEMMA TakenFrom ==
    ASSUME NEW c \in [Hours -> Nat], NEW n \in Nat, n <= c[0]
    PROVE  LET d == [c EXCEPT ![0] = c[0] - n]
           IN  /\ d \in [Hours -> Nat] /\ d[0] = c[0] - n
               /\ \A h \in Hours \ {0} : d[h] = c[h]
               /\ Total(d) <= Total(c)
<1>1. PICK d : d = [c EXCEPT ![0] = c[0] - n]
  OBVIOUS
<1>2. 0 \in Hours /\ c[0] \in Nat
  BY ConstantFacts
<1>3. d \in [Hours -> Nat] /\ d[0] = c[0] - n /\ \A h \in Hours \ {0} : d[h] = c[h]
  BY <1>1, <1>2
<1>4. \A h \in Hours : d[h] <= c[h]
  BY <1>2, <1>3
<1>5. QED
  BY <1>1, <1>3, <1>4, TotalMonotone

\* Attempts whose record was lost no longer count; q is the other process.
Forgotten(p, failed, q, kept) ==
    /\ attempts' \in [Hours -> Nat] /\ limited' \in [Hours -> Nat]
    /\ \A h \in Hours \ {0} : attempts'[h] = attempts[h] /\ limited'[h] = limited[h]
    /\ Total(attempts') <= MostAttempts /\ Total(limited') <= MaxAlertsPerHour
    /\ Pending(q) <= attempts'[0] /\ attempts'[0] - Pending(q) <= logs[0] + kept
    /\ Counted(q) <= limited'[0] /\ limited'[0] - Counted(q) <= logs[0] + kept

LEMMA LostAttempts ==
    ASSUME StoreTypeOK, LimitInv, NEW p \in Process, NEW failed \in SUBSET scan[p].sent, Forget(p, failed)
    PROVE  LET kept == Cardinality(scan[p].sent \ failed)
           IN  kept \in Nat /\ Forgotten(p, failed, Other(p), kept)
<1>1. PICK lost : lost = Cardinality(Limited(failed))
  OBVIOUS
<1>2. PICK kept : kept = Cardinality(scan[p].sent \ failed)
  OBVIOUS
<1>3. PICK q : q = Other(p)
  OBVIOUS
<1>4. scan[p].sent \in SUBSET Delivery
  BY DEF StoreTypeOK
<1>5. lost \in Nat /\ kept \in Nat /\ lost <= Pending(p) /\ Pending(p) - lost <= kept
  BY <1>1, <1>2, <1>4, SplitSent DEF Pending
<1>6. /\ q \in Process /\ AllPending = Pending(p) + Pending(q) /\ AllCounted = Counted(p) + Counted(q)
      /\ Pending(p) \in Nat /\ Pending(q) \in Nat /\ Counted(p) \in Nat /\ Counted(q) \in Nat
  BY <1>3, PendingSplit, PendingType
<1>7. /\ limited \in [Hours -> Nat] /\ attempts \in [Hours -> Nat] /\ logs \in [Hours -> Nat] /\ 0 \in Hours
      /\ limited[0] \in Nat /\ attempts[0] \in Nat /\ logs[0] \in Nat
  BY ConstantFacts DEF StoreTypeOK
<1>8. attempts' = [attempts EXCEPT ![0] = attempts[0] - lost]
  BY <1>1, <1>7 DEF Forget
<1>9. lost <= attempts[0]
  BY <1>5, <1>6, <1>7 DEF LimitInv
<1>10. /\ attempts' \in [Hours -> Nat] /\ attempts'[0] = attempts[0] - lost
       /\ \A h \in Hours \ {0} : attempts'[h] = attempts[h]
       /\ Total(attempts') <= Total(attempts)
  BY <1>5, <1>7, <1>8, <1>9, TakenFrom
<1>11. Total(attempts') <= MostAttempts
  BY <1>7, <1>10, TotalType, MostAttemptsFacts DEF LimitInv, OverlapBounded
<1>12. Pending(q) <= attempts'[0] /\ attempts'[0] - Pending(q) <= logs[0] + kept
  BY <1>5, <1>6, <1>7, <1>10 DEF LimitInv
<1>13. /\ limited' \in [Hours -> Nat] /\ \A h \in Hours \ {0} : limited'[h] = limited[h]
       /\ Total(limited') <= MaxAlertsPerHour
       /\ Counted(q) <= limited'[0] /\ limited'[0] - Counted(q) <= logs[0] + kept
  <2>1. CASE scan[p].raced
    <3>1. limited' = limited /\ Counted(p) = 0
      BY <2>1 DEF Forget, Counted
    <3>2. QED
      BY <1>5, <1>6, <1>7, <3>1 DEF LimitInv, HourlyLimitHolds
  <2>2. CASE ~scan[p].raced
    <3>1. limited' = [limited EXCEPT ![0] = limited[0] - lost] /\ Counted(p) = Pending(p)
      BY <1>1, <1>7, <2>2 DEF Forget, Counted
    <3>2. lost <= limited[0]
      BY <1>5, <1>6, <1>7, <3>1 DEF LimitInv
    <3>3. /\ limited' \in [Hours -> Nat] /\ limited'[0] = limited[0] - lost
          /\ \A h \in Hours \ {0} : limited'[h] = limited[h]
          /\ Total(limited') <= Total(limited)
      BY <1>5, <1>7, <3>1, <3>2, TakenFrom
    <3>4. Total(limited') <= MaxAlertsPerHour
      BY <1>7, <3>3, TotalType, ConstantFacts DEF LimitInv, HourlyLimitHolds
    <3>5. QED
      BY <1>5, <1>6, <1>7, <3>1, <3>3, <3>4 DEF LimitInv
  <2>3. QED
    BY <2>1, <2>2
<1>14. QED
  BY <1>2, <1>3, <1>5, <1>10, <1>11, <1>12, <1>13 DEF Forgotten

\* p has nothing to record any more, and logs has the rest of what it sent.
LEMMA DeliveryEnds ==
    ASSUME StoreTypeOK, LimitInv, StoreTypeOK', NEW p \in Process, NEW failed, NEW kept \in Nat,
           Forgotten(p, failed, Other(p), kept),
           scan'[p].sent = {}, \A q \in Process \ {p} : scan'[q] = scan[q],
           \A h \in Hours \ {0} : logs'[h] = logs[h],
           logs'[0] \in Nat, logs'[0] >= logs[0] + kept \/ logs'[0] >= MostAttempts
    PROVE  LimitInv'
<1>1. PICK q : q = Other(p)
  OBVIOUS
<1>2. q \in Process /\ q # p /\ Process = {p, q} /\ Pending(q) \in Nat /\ Counted(q) \in Nat
  BY <1>1, PendingSplit, PendingType
<1>3. Pending(q)' = Pending(q) /\ Counted(q)' = Counted(q)
  BY <1>2 DEF Pending, Counted, Limited, Bypasses
<1>4. Pending(p)' = 0 /\ Counted(p)' = 0
  <2>1. Limited(scan[p].sent)' = {}
    BY DEF Limited
  <2>2. QED
    BY <2>1, FS_EmptySet DEF Pending, Counted
<1>5. AllPending' = Pending(q) /\ AllCounted' = Counted(q)
  <2>1. /\ AllPending' = Pending(p)' + Pending(Other(p))'
        /\ AllCounted' = Counted(p)' + Counted(Other(p))'
    BY <1>1, <1>2, <1>3, <1>4, PendingSplitNext
  <2>2. QED
    BY <1>1, <1>2, <1>3, <1>4, <2>1
<1>6. /\ attempts' \in [Hours -> Nat] /\ limited' \in [Hours -> Nat] /\ 0 \in Hours
      /\ attempts'[0] \in Nat /\ limited'[0] \in Nat /\ logs[0] \in Nat
  BY ConstantFacts DEF Forgotten, StoreTypeOK
<1>7. attempts'[0] <= MostAttempts /\ limited'[0] <= MaxAlertsPerHour /\ MaxAlertsPerHour <= MostAttempts
  <2>1. attempts'[0] <= Total(attempts') /\ limited'[0] <= Total(limited')
    BY <1>6, TotalAtLeast
  <2>2. Total(attempts') \in Nat /\ Total(limited') \in Nat
    BY <1>6, TotalType
  <2>3. QED
    BY <1>6, <2>1, <2>2, MostAttemptsFacts, ConstantFacts DEF Forgotten
<1>8. HourlyLimitHolds' /\ OverlapBounded'
  BY DEF Forgotten, HourlyLimitHolds, OverlapBounded, MostAttempts
<1>9. Pending(q) <= attempts'[0] /\ attempts'[0] - Pending(q) <= logs'[0]
  BY <1>1, <1>2, <1>6, <1>7, MostAttemptsFacts DEF Forgotten
<1>10. Counted(q) <= limited'[0] /\ limited'[0] - Counted(q) <= logs'[0]
  BY <1>1, <1>2, <1>6, <1>7, MostAttemptsFacts, ConstantFacts DEF Forgotten
<1>11. \A x \in Process : scan'[x].pc # "log" => scan'[x].sent = {}
  BY DEF LimitInv
<1>12. \A x \in Process : Pending(x)' <= MaxAlertsPerHour
  BY <1>2, <1>3, <1>4, ConstantFacts DEF LimitInv
<1>13. \A h \in Hours \ {0} : limited'[h] <= logs'[h] /\ attempts'[h] <= logs'[h]
  BY DEF Forgotten, LimitInv
<1>14. QED
  BY <1>5, <1>8, <1>9, <1>10, <1>11, <1>12, <1>13 DEF LimitInv

LEMMA LogLimit ==
    ASSUME StoreTypeOK, LimitInv, NEW p \in Process, Log(p)
    PROVE  (StoreTypeOK /\ LimitInv)'
<1>1. Moves(p, Locals("prune", {}, FALSE, {}))
  BY LogMoves
<1>2. scan'[p].sent = {} /\ scan'[p].pc = "prune" /\ \A q \in Process \ {p} : scan'[q] = scan[q]
  BY <1>1 DEF Moves, Locals
<1>3. PICK failed \in SUBSET scan[p].sent :
        /\ IF failed = {} THEN UNCHANGED disturbances ELSE Disturb
        /\ logs' = [logs EXCEPT ![0] = @ (+) Cardinality(scan[p].sent \ failed)]
        /\ Forget(p, failed)
  BY DEF Log
<1>4. PICK kept : kept = Cardinality(scan[p].sent \ failed)
  OBVIOUS
<1>5. kept \in Nat /\ Forgotten(p, failed, Other(p), kept)
  BY <1>3, <1>4, LostAttempts
<1>6. logs \in [Hours -> Nat] /\ 0 \in Hours /\ logs[0] \in Nat
  BY ConstantFacts DEF StoreTypeOK
<1>7. PICK top : top = logs[0] (+) kept
  OBVIOUS
<1>8. top = (IF logs[0] + kept <= MostAttempts THEN logs[0] + kept ELSE MostAttempts) /\ top \in Nat
  BY <1>5, <1>6, <1>7, MostAttemptsFacts, MinOfTwo DEF (+)
<1>9. logs' = [logs EXCEPT ![0] = top]
  BY <1>3, <1>4, <1>6, <1>7
<1>10. logs' \in [Hours -> Nat] /\ logs'[0] = top /\ \A h \in Hours \ {0} : logs'[h] = logs[h]
  BY <1>6, <1>8, <1>9
<1>11. disturbances' \in Nat
  BY <1>3 DEF StoreTypeOK, Disturb
<1>12. StoreTypeOK'
  BY <1>1, <1>5, <1>10, <1>11 DEF Log, StoreTypeOK, Moves, ScanRecord, Forgotten, host
<1>13. logs'[0] \in Nat /\ (logs'[0] >= logs[0] + kept \/ logs'[0] >= MostAttempts)
  BY <1>5, <1>6, <1>8, <1>10, MostAttemptsFacts
<1>14. LimitInv'
  BY <1>2, <1>5, <1>10, <1>12, <1>13, DeliveryEnds
<1>15. QED
  BY <1>12, <1>14

LEMMA AbortLimit ==
    ASSUME StoreTypeOK, LimitInv, NEW p \in Process, Abort(p)
    PROVE  (StoreTypeOK /\ LimitInv)'
<1>1. Moves(p, Locals("idle", {}, FALSE, {}))
  BY IdleMoves DEF Abort
<1>2. scan'[p].sent = {} /\ scan'[p].pc = "idle" /\ \A q \in Process \ {p} : scan'[q] = scan[q]
  BY <1>1 DEF Moves, Locals
<1>3. logs \in [Hours -> Nat] /\ 0 \in Hours /\ logs' = logs /\ logs[0] \in Nat
  BY ConstantFacts DEF StoreTypeOK, Abort, tables
<1>4. Cardinality(scan[p].sent \ scan[p].sent) = 0
  <2>1. scan[p].sent \ scan[p].sent = {}
    OBVIOUS
  <2>2. QED
    BY <2>1, FS_EmptySet
<1>5. Forgotten(p, scan[p].sent, Other(p), 0)
  BY <1>4, LostAttempts DEF Abort
<1>6. disturbances' \in Nat /\ notify' \in [Process -> BOOLEAN] /\ stamp' \in [Process -> Age]
  BY ConstantFacts DEF Abort, Disturb, StoreTypeOK
<1>7. StoreTypeOK'
  BY <1>1, <1>3, <1>5, <1>6 DEF StoreTypeOK, Moves, ScanRecord, Abort, tables, host, Forgotten
<1>8. logs'[0] \in Nat /\ logs'[0] >= logs[0] + 0 /\ \A h \in Hours \ {0} : logs'[h] = logs[h]
  BY <1>3
<1>9. LimitInv'
  BY <1>2, <1>5, <1>7, <1>8, DeliveryEnds
<1>10. QED
  BY <1>7, <1>9

\* The hour moves on for the attempts and their rows alike.
LEMMA ShiftBelow ==
    ASSUME NEW c \in [Hours -> Nat], NEW d \in [Hours -> Nat], \A h \in Hours : c[h] <= d[h]
    PROVE  Shift(c)[0] = 0 /\ \A h \in Hours : Shift(c)[h] <= Shift(d)[h]
<1>1. 0 \in Hours
  BY ConstantFacts
<1>2. ASSUME NEW h \in Hours
      PROVE  Shift(c)[h] <= Shift(d)[h]
  <2>1. CASE h = 0
    BY <1>2, <2>1 DEF Shift
  <2>2. CASE h # 0
    <3>1. h - 1 \in Hours
      BY <2>2, ConstantFacts DEF Hours
    <3>2. QED
      BY <2>2, <3>1 DEF Shift
  <2>3. QED
    BY <2>1, <2>2
<1>3. QED
  BY <1>1, <1>2 DEF Shift

LEMMA TickLimit ==
    ASSUME StoreTypeOK, LimitInv, Tick
    PROVE  (StoreTypeOK /\ LimitInv)'
<1>1. /\ limited \in [Hours -> Nat] /\ attempts \in [Hours -> Nat] /\ logs \in [Hours -> Nat] /\ 0 \in Hours
      /\ limited[0] \in Nat /\ attempts[0] \in Nat /\ logs[0] \in Nat
  BY ConstantFacts DEF StoreTypeOK
<1>2. limited' = Shift(limited) /\ attempts' = Shift(attempts) /\ logs' = Shift(logs) /\ scan' = scan
  BY DEF Tick
<1>3. /\ limited' \in [Hours -> Nat] /\ Total(limited') <= Total(limited)
      /\ attempts' \in [Hours -> Nat] /\ Total(attempts') <= Total(attempts)
      /\ logs' \in [Hours -> Nat]
  BY <1>1, <1>2, TotalShift
<1>4. \A p \in Process : scan[p].sent = {}
  BY DEF LimitInv, Tick, At
<1>5. \A p \in Process : Pending(p) = 0 /\ Counted(p) = 0
  BY <1>4, NothingPending
<1>6. AllPending = 0 /\ AllCounted = 0 /\ AllPending' = 0 /\ AllCounted' = 0
  <2>1. AllPending = 0 /\ AllCounted = 0
    BY <1>5, ProcessFacts DEF AllPending, AllCounted
  <2>2. AllPending' = AllPending /\ AllCounted' = AllCounted
    BY <1>2 DEF AllPending, AllCounted, Pending, Counted, Limited, Bypasses
  <2>3. QED
    BY <2>1, <2>2
<1>7. \A h \in Hours : limited[h] <= logs[h] /\ attempts[h] <= logs[h]
  BY <1>1, <1>6 DEF LimitInv
<1>8. /\ limited'[0] = 0 /\ attempts'[0] = 0
      /\ \A h \in Hours : limited'[h] <= logs'[h] /\ attempts'[h] <= logs'[h]
  BY <1>1, <1>2, <1>7, ShiftBelow
<1>9. Total(limited') <= MaxAlertsPerHour /\ Total(attempts') <= MostAttempts
  BY <1>1, <1>3, TotalType, ConstantFacts, MostAttemptsFacts DEF LimitInv, HourlyLimitHolds, OverlapBounded
<1>10. \A p \in Process : Pending(p)' <= MaxAlertsPerHour
  BY <1>2 DEF LimitInv, Pending, Limited, Bypasses
<1>11. logs'[0] \in Nat
  BY <1>1, <1>3
<1>12. LimitInv'
  BY <1>2, <1>6, <1>8, <1>9, <1>10, <1>11 DEF LimitInv, HourlyLimitHolds, OverlapBounded, MostAttempts
<1>13. maintenance' \in 0 .. MaxMaintenance
  BY ConstantFacts, MaxOfTwo DEF Tick, StoreTypeOK
<1>14. rows' \in [Kinds -> Age] /\ dedup' \in [KeysOf -> Age] /\ lastSaved' \in [KeysOf -> Age]
  BY OlderFacts DEF Tick, StoreTypeOK
<1>15. stamp' \in [Process -> Age]
  <2>1. Older(stamp) \in [Process -> Age]
    BY OlderFacts DEF StoreTypeOK
  <2>2. QED
    BY <2>1, ConstantFacts DEF Tick
<1>16. StoreTypeOK'
  BY <1>3, <1>13, <1>14, <1>15 DEF StoreTypeOK, Tick
<1>17. QED
  BY <1>12, <1>16

LEMMA OpenLimit ==
    ASSUME StoreTypeOK, LimitInv, NEW p \in Process, Open(p)
    PROVE  (StoreTypeOK /\ LimitInv)'
<1>1. Moves(p, Locals("detect", {}, FALSE, {}))
  BY OpenMoves
<1>2. scan'[p].sent = {} /\ scan'[p].pc = "detect" /\ \A q \in Process \ {p} : scan'[q] = scan[q]
  BY <1>1 DEF Moves, Locals
<1>3. LimitInv'
  BY <1>2, LimitKeptBy DEF Open, At, counts
<1>4. disturbances' \in Nat
  BY DEF Open, Disturb, StoreTypeOK
<1>5. dedup' \in [KeysOf -> Age]
  BY MigratedType DEF Open
<1>6. notify' \in [Process -> BOOLEAN]
  BY DEF Open, NotifyOptions, StoreTypeOK
<1>7. StoreTypeOK'
  BY <1>1, <1>4, <1>5, <1>6 DEF StoreTypeOK, Open, Moves, ScanRecord, host, counts
<1>8. QED
  BY <1>3, <1>7

LEMMA DetectLimit ==
    ASSUME StoreTypeOK, LimitInv, NEW p \in Process, Detect(p) \/ SuppressRecent(p)
    PROVE  (StoreTypeOK /\ LimitInv)'
<1>1. PICK x : Moves(p, x) /\ x.sent = {} /\ x.pc # "log"
  <2>1. CASE Detect(p)
    BY <2>1, DetectMoves DEF Locals
  <2>2. CASE SuppressRecent(p)
    <3>1. PICK F : Moves(p, Locals("save", F, FALSE, {}))
      BY <2>2, SuppressRecentMoves
    <3>2. Locals("save", F, FALSE, {}).sent = {} /\ Locals("save", F, FALSE, {}).pc = "save"
      BY DEF Locals
    <3>3. QED
      BY <3>1, <3>2
  <2>3. QED
    BY <2>1, <2>2
<1>2. scan'[p].sent = {} /\ scan'[p].pc # "log" /\ \A q \in Process \ {p} : scan'[q] = scan[q]
  BY <1>1 DEF Moves
<1>3. LimitInv'
  BY <1>2, LimitKeptBy DEF Detect, SuppressRecent, At, tables, counts
<1>4. StoreTypeOK'
  BY <1>1 DEF StoreTypeOK, Detect, SuppressRecent, Moves, ScanRecord, host, tables, counts
<1>5. QED
  BY <1>3, <1>4

LEMMA SaveFindingsLimit ==
    ASSUME StoreTypeOK, LimitInv, NEW p \in Process, SaveFindings(p)
    PROVE  (StoreTypeOK /\ LimitInv)'
<1>1. /\ scan' \in [Process -> ScanRecord] /\ Overtaking(p)
      /\ scan'[p] = IF notify[p] THEN Locals("notify", scan[p].found, FALSE, {})
                                 ELSE Locals("prune", {}, FALSE, {})
  BY SaveFindingsMoves
<1>2. scan'[p].sent = {} /\ scan'[p].pc # "log"
  BY <1>1 DEF Locals
<1>3. scan[p].pc = "save" /\ scan[p].sent = {}
  BY DEF SaveFindings, At, LimitInv
<1>4. LimitInv'
  <2>1. UNCHANGED <<logs, attempts, limited>>
    BY DEF SaveFindings, counts
  <2>2. \A q \in Process : /\ scan'[q].sent = scan[q].sent
                           /\ scan'[q].pc = "log" <=> scan[q].pc = "log"
                           /\ scan'[q].raced = scan[q].raced \/ scan[q].sent = {}
    BY <1>1, <1>2, <1>3 DEF Overtaking, LimitInv
  <2>3. QED
    BY <2>1, <2>2, LimitKept
<1>5. \A a, b \in Age : Min({a, b}) \in Age
  BY ConstantFacts, MinOfTwo DEF Age
<1>6. stamp[p] \in Age
  BY DEF StoreTypeOK
<1>7. rows' \in [Kinds -> Age] /\ dedup' \in [KeysOf -> Age] /\ lastSaved' \in [KeysOf -> Age]
  BY <1>5, <1>6, ConstantFacts DEF SaveFindings, StoreTypeOK
<1>8. stamp' \in [Process -> Age]
  BY ConstantFacts DEF SaveFindings, StoreTypeOK
<1>9. StoreTypeOK'
  BY <1>1, <1>7, <1>8 DEF StoreTypeOK, SaveFindings, ScanRecord, host, counts
<1>10. QED
  BY <1>4, <1>9

LEMMA PruneLimit ==
    ASSUME StoreTypeOK, LimitInv, NEW p \in Process, Prune(p)
    PROVE  (StoreTypeOK /\ LimitInv)'
<1>1. Moves(p, Locals("idle", {}, FALSE, {}))
  BY IdleMoves DEF Prune
<1>2. scan'[p].sent = {} /\ scan'[p].pc = "idle" /\ \A q \in Process \ {p} : scan'[q] = scan[q]
  BY <1>1 DEF Moves, Locals
<1>3. LimitInv'
  BY <1>2, LimitKeptBy DEF Prune, At, counts
<1>4. Expire(rows) = rows /\ Expire(dedup) = dedup
  BY ExpireFacts DEF StoreTypeOK
<1>5. rows' \in [Kinds -> Age] /\ dedup' \in [KeysOf -> Age]
  BY <1>4, ConstantFacts DEF Prune, StoreTypeOK
<1>6. notify' \in [Process -> BOOLEAN]
  BY DEF Prune, StoreTypeOK
<1>7. StoreTypeOK'
  BY <1>1, <1>5, <1>6 DEF StoreTypeOK, Prune, Moves, ScanRecord, host, counts
<1>8. QED
  BY <1>3, <1>7

LEMMA ClearLimit ==
    ASSUME StoreTypeOK, LimitInv, ClearRows \/ ClearDedup
    PROVE  (StoreTypeOK /\ LimitInv)'
<1>1. scan' = Overtaken /\ UNCHANGED <<logs, attempts, limited>>
  BY DEF ClearRows, ClearDedup, counts
<1>2. \A q \in Process : scan'[q].raced = scan[q].raced \/ scan[q].sent = {}
  BY <1>1, OvertakenType DEF LimitInv
<1>3. LimitInv'
  BY <1>1, <1>2, OvertakenType, LimitKept
<1>4. scan' \in [Process -> ScanRecord]
  BY <1>1, OvertakenType
<1>5. disturbances' \in Nat
  BY DEF ClearRows, ClearDedup, Disturb, StoreTypeOK
<1>6. rows' \in [Kinds -> Age] /\ dedup' \in [KeysOf -> Age] /\ lastSaved' \in [KeysOf -> Age]
  BY ConstantFacts DEF ClearRows, ClearDedup, StoreTypeOK
<1>7. StoreTypeOK'
  BY <1>1, <1>4, <1>5, <1>6 DEF StoreTypeOK, ClearRows, ClearDedup, ScanRecord, host, counts
<1>8. QED
  BY <1>3, <1>7

LEMMA OperatorLimit ==
    ASSUME StoreTypeOK, LimitInv, StartMaintenance \/ EndMaintenance \/ Change
    PROVE  (StoreTypeOK /\ LimitInv)'
<1>1. UNCHANGED <<rows, dedup, logs, scan, notify, stamp, clearing, lastSaved, attempts, limited>>
  BY DEF StartMaintenance, EndMaintenance, Change, tables, counts
<1>2. LimitInv'
  BY <1>1, LimitKept
<1>3. disturbances' \in Nat
  BY DEF StartMaintenance, EndMaintenance, Change, Disturb, StoreTypeOK
<1>4. maintenance' \in 0 .. MaxMaintenance
  <2>1. CASE StartMaintenance
    <3>1. PICK requested \in 0 .. MaxMaintenance + 1 :
            maintenance' = Max({1, Min({requested, MaxMaintenance})})
      BY <2>1 DEF StartMaintenance
    <3>2. QED
      BY <3>1, MaintenanceType
  <2>2. CASE EndMaintenance \/ Change
    BY <2>2, ConstantFacts DEF EndMaintenance, Change, StoreTypeOK
  <2>3. QED
    BY <2>1, <2>2
<1>5. present' \in SUBSET Kinds /\ quiet' \in BOOLEAN
  BY ScanStoreAssumption DEF StartMaintenance, EndMaintenance, Change, StoreTypeOK
<1>6. StoreTypeOK'
  BY <1>1, <1>3, <1>4, <1>5 DEF StoreTypeOK
<1>7. QED
  BY <1>2, <1>6

LEMMA StoreInitLimit ==
    ASSUME StoreInit
    PROVE  StoreTypeOK /\ LimitInv
<1>1. PICK none : none = [h \in Hours |-> 0]
  OBVIOUS
<1>2. none \in [Hours -> Nat] /\ limited = none /\ attempts = none /\ logs = none
  BY <1>1 DEF StoreInit
<1>3. RowsOf(none) = {}
  <2>1. SUFFICES ASSUME NEW x \in RowsOf(none) PROVE FALSE
    OBVIOUS
  <2>2. PICK h \in Hours, i \in Nat \ {0} : i <= none[h] /\ x = <<h, i>>
    BY <1>2, RowOf
  <2>3. QED
    BY <1>1, <2>2
<1>4. Total(limited) = 0 /\ Total(attempts) = 0
  BY <1>2, <1>3, FS_EmptySet DEF Total
<1>5. \A p \in Process : scan[p] = Idle /\ scan[p].pc = "idle" /\ scan[p].sent = {}
  BY DEF StoreInit, Idle, Locals
<1>6. \A p \in Process : Pending(p) = 0 /\ Counted(p) = 0
  BY <1>5, NothingPending
<1>7. AllPending = 0 /\ AllCounted = 0
  BY <1>6, ProcessFacts DEF AllPending, AllCounted
<1>8. LimitInv
  BY <1>1, <1>2, <1>4, <1>5, <1>6, <1>7, ConstantFacts, MostAttemptsFacts
  DEF LimitInv, HourlyLimitHolds, OverlapBounded
<1>9. scan \in [Process -> ScanRecord]
  BY IdleType DEF StoreInit
<1>10. rows \in [Kinds -> Age] /\ dedup \in [KeysOf -> Age] /\ lastSaved \in [KeysOf -> Age]
       /\ notify \in [Process -> BOOLEAN] /\ stamp \in [Process -> Age]
  BY ConstantFacts DEF StoreInit
<1>11. StoreTypeOK
  <2>1. present \in SUBSET Kinds /\ quiet \in BOOLEAN /\ maintenance = 0 /\ clearing \in BOOLEAN
        /\ disturbances \in Nat
    BY ScanStoreAssumption DEF StoreInit
  <2>2. QED
    BY <1>2, <1>9, <1>10, <2>1, ConstantFacts DEF StoreTypeOK, ScanRecord
<1>12. QED
  BY <1>8, <1>11

LEMMA StoreNextLimit ==
    ASSUME StoreTypeOK, LimitInv, [StoreNext]_storeVars
    PROVE  (StoreTypeOK /\ LimitInv)'
<1>1. CASE StoreNext
  BY <1>1, OpenLimit, DetectLimit, SaveFindingsLimit, NotifyLimit, LogLimit, PruneLimit,
     AbortLimit, ClearLimit, OperatorLimit, TickLimit
  DEF StoreNext, ScanStep
<1>2. CASE UNCHANGED storeVars
  <2>1. UNCHANGED <<logs, attempts, limited, scan>>
    BY <1>2 DEF storeVars
  <2>2. LimitInv'
    BY <2>1, LimitKept
  <2>3. QED
    BY <1>2, <2>2 DEF storeVars, StoreTypeOK
<1>3. QED
  BY <1>1, <1>2

\* The limit's invariant: every attempt that counts has its row in notification_logs,
\* those the daemon or a `vs scan` is making excepted (record_notification_log follows
\* notify_all_with_budget).
THEOREM AttemptsRecorded == StoreSpec => [](StoreTypeOK /\ LimitInv)
<1>1. StoreInit => StoreTypeOK /\ LimitInv
  BY StoreInitLimit
<1>2. StoreTypeOK /\ LimitInv /\ [StoreNext]_storeVars => (StoreTypeOK /\ LimitInv)'
  BY StoreNextLimit
<1>3. QED
  BY <1>1, <1>2, PTL DEF StoreSpec

\* No hour has more rate-limited attempts than max_alerts_per_hour but for those a scan
\* plans while another scan's are not on record, never more than the limit for each of
\* the two, and maintenance mode hides alerts no longer than its maximum, however scans,
\* failed log writes, kills and commands follow each other (notification_delivery_limit,
\* start_maintenance).
THEOREM AlertsAlwaysBounded == StoreSpec => []AlertsBounded
<1>1. StoreTypeOK /\ LimitInv => AlertsBounded
  BY DEF AlertsBounded, LimitInv
<1>2. QED
  BY <1>1, AttemptsRecorded, PTL

-----------------------------------------------------------------------------
(* No repeats within the window.                                            *)

LEMMA OpenRemembers ==
    ASSUME StoreTypeOK, Remembered, NEW p \in Process, Open(p)
    PROVE  Remembered'
<1>1. Moves(p, Locals("detect", {}, FALSE, {}))
  BY OpenMoves
<1>2. scan'[p].pc = "detect" /\ \A q \in Process \ {p} : scan'[q] = scan[q]
  BY <1>1 DEF Moves, Locals
<1>3. UNCHANGED <<rows, lastSaved>> /\ dedup' = Migrated
  BY DEF Open
<1>4. \A k \in KeysOf : Stored(k)' = Stored(k)
  BY <1>3 DEF Stored
<1>5. RowsRecent'
  BY <1>3, <1>4 DEF RowsRecent, Remembered
<1>6. DedupRecent'
  <2>1. SUFFICES ASSUME NEW k \in KeysOf PROVE Migrated[k] <= lastSaved[k]
    BY <1>3 DEF DedupRecent
  <2>2. CASE Stored(k) = {}
    BY <2>2, MigratedType DEF Remembered
  <2>3. CASE Stored(k) # {}
    <3>1. PICK f \in Stored(k) : rows[f] <= lastSaved[k]
      BY <2>3 DEF Remembered, RowsRecent
    <3>2. Migrated[k] <= rows[f] /\ Migrated[k] \in Nat /\ rows[f] \in Nat /\ lastSaved[k] \in Nat
      BY <3>1, MigratedType, ConstantFacts DEF StoreTypeOK, Stored
    <3>3. QED
      BY <3>1, <3>2
  <2>4. QED
    BY <2>2, <2>3
<1>7. \A q \in Process : At(q, "save")' /\ ~scan'[q].raced =>
          \A f \in scan'[q].found : lastSaved'[Finding[f].key] > SuppressionWindow(f)
  BY <1>2, <1>3 DEF At, Remembered
<1>8. \A k \in KeysOf : dedup'[k] <= lastSaved'[k]
  BY <1>6 DEF DedupRecent
<1>9. QED
  BY <1>5, <1>6, <1>7, <1>8 DEF Remembered

\* What was not seen since its window was saved before it.
LEMMA SuppressRecentRemembers ==
    ASSUME StoreTypeOK, Remembered, NEW p \in Process, SuppressRecent(p)
    PROVE  Remembered'
<1>1. PICK F : F = {f \in scan[p].found : ~RecentlySeen(f)}
  OBVIOUS
<1>2. Moves(p, Locals("save", F, FALSE, {}))
  BY <1>1, SuppressRecentMoves
<1>3. scan'[p].pc = "save" /\ scan'[p].found = F /\ \A q \in Process \ {p} : scan'[q] = scan[q]
  BY <1>2 DEF Moves, Locals
<1>4. UNCHANGED <<rows, dedup, lastSaved>> /\ scan[p].pc = "check"
  BY DEF SuppressRecent, tables, At
<1>5. DedupRecent
  BY <1>4 DEF Remembered, At
<1>6. ASSUME NEW f \in F
      PROVE  lastSaved[Finding[f].key] > SuppressionWindow(f)
  <2>1. f \in Kinds /\ ~(dedup[Finding[f].key] <= SuppressionWindow(f))
    BY <1>1 DEF RecentlySeen, SeenSince, StoreTypeOK
  <2>2. Finding[f].key \in KeysOf
    BY <2>1 DEF KeysOf
  <2>3. dedup[Finding[f].key] <= lastSaved[Finding[f].key]
        /\ dedup[Finding[f].key] \in Nat /\ lastSaved[Finding[f].key] \in Nat
    BY <1>5, <2>2, ConstantFacts DEF DedupRecent, StoreTypeOK
  <2>4. QED
    BY <2>1, <2>3, WindowType, ConstantFacts
<1>7. \A k \in KeysOf : Stored(k)' = Stored(k)
  BY <1>4 DEF Stored
<1>8. RowsRecent' /\ DedupRecent'
  BY <1>4, <1>5, <1>7 DEF RowsRecent, Remembered, DedupRecent
<1>9. \A q \in Process : At(q, "save")' /\ ~scan'[q].raced =>
          \A f \in scan'[q].found : lastSaved'[Finding[f].key] > SuppressionWindow(f)
  BY <1>3, <1>4, <1>6 DEF At, Remembered
<1>10. QED
  BY <1>8, <1>9 DEF Remembered, DedupRecent

LEMMA SaveFindingsRemembers ==
    ASSUME StoreTypeOK, Remembered, NEW p \in Process, SaveFindings(p)
    PROVE  Remembered'
<1>1. /\ scan' \in [Process -> ScanRecord] /\ Overtaking(p)
      /\ scan'[p] = IF notify[p] THEN Locals("notify", scan[p].found, FALSE, {})
                                 ELSE Locals("prune", {}, FALSE, {})
  BY SaveFindingsMoves
<1>2. scan'[p].pc \in {"notify", "prune"}
  BY <1>1 DEF Locals
<1>3. scan[p].pc = "save" /\ scan[p].found \subseteq Kinds
  BY DEF SaveFindings, At, StoreTypeOK
<1>4. PICK found : found = scan[p].found
  OBVIOUS
<1>5. PICK keys : keys = {Finding[f].key : f \in found}
  OBVIOUS
<1>6. PICK age : age = stamp[p] /\ age \in Age
  BY DEF StoreTypeOK
<1>7. /\ rows' = [f \in Kinds |-> IF f \in found THEN Min({age, rows[f]}) ELSE rows[f]]
      /\ dedup' = [k \in KeysOf |-> IF k \in keys THEN Min({age, dedup[k]}) ELSE dedup[k]]
      /\ lastSaved' = [k \in KeysOf |-> IF k \in keys THEN age ELSE lastSaved[k]]
  BY <1>4, <1>5, <1>6 DEF SaveFindings
<1>8. \A b \in Age : Min({age, b}) \in Age /\ Min({age, b}) <= age /\ Min({age, b}) <= b
  BY <1>6, ConstantFacts, MinOfTwo DEF Age
<1>9. DedupRecent
  BY <1>3 DEF Remembered, At
<1>10. DedupRecent'
  <2>1. SUFFICES ASSUME NEW k \in KeysOf PROVE dedup'[k] <= lastSaved'[k]
    BY DEF DedupRecent
  <2>2. dedup[k] \in Age
    BY DEF StoreTypeOK
  <2>3. CASE k \in keys
    BY <1>7, <1>8, <2>2, <2>3
  <2>4. CASE k \notin keys
    BY <1>7, <1>9, <2>4 DEF DedupRecent
  <2>5. QED
    BY <2>3, <2>4
<1>11. RowsRecent'
  <2>1. SUFFICES ASSUME NEW k \in KeysOf, NEW g \in Stored(k)'
                 PROVE  \E f \in Stored(k)' : rows'[f] <= lastSaved'[k]
    BY DEF RowsRecent
  <2>2. CASE k \in keys
    <3>1. PICK f \in found : Finding[f].key = k
      BY <1>5, <2>2
    <3>2. f \in Kinds /\ rows[f] \in Age /\ rows'[f] = Min({age, rows[f]}) /\ lastSaved'[k] = age
      BY <1>3, <1>4, <1>7, <2>2, <3>1 DEF StoreTypeOK
    <3>3. rows'[f] \in Age /\ rows'[f] <= age
      BY <1>8, <3>2
    <3>4. CASE rows'[f] # Forever
      BY <3>1, <3>2, <3>3, <3>4 DEF Stored
    <3>5. CASE rows'[f] = Forever
      <4>1. age = Forever
        BY <1>6, <3>3, <3>5, ConstantFacts DEF Age
      <4>2. g \in Kinds /\ rows[g] \in Age
        BY <2>1 DEF Stored, StoreTypeOK
      <4>3. rows'[g] \in Age
        BY <1>7, <1>8, <4>2
      <4>4. rows'[g] <= lastSaved'[k]
        BY <3>2, <4>1, <4>3, ConstantFacts DEF Age
      <4>5. QED
        BY <2>1, <4>4
    <3>6. QED
      BY <3>4, <3>5
  <2>3. CASE k \notin keys
    <3>1. \A f \in Kinds : Finding[f].key = k => rows'[f] = rows[f]
      BY <1>5, <1>7, <2>3
    <3>2. Stored(k)' = Stored(k) /\ lastSaved'[k] = lastSaved[k]
      BY <1>7, <2>3, <3>1 DEF Stored
    <3>3. QED
      BY <2>1, <3>1, <3>2 DEF Remembered, RowsRecent, Stored
  <2>4. QED
    BY <2>2, <2>3
<1>12. \A q \in Process : ~(At(q, "save")' /\ ~scan'[q].raced)
  <2>1. TAKE q \in Process
  <2>2. CASE q = p
    BY <1>2, <2>2 DEF At
  <2>3. CASE q # p
    <3>1. scan'[q].pc = scan[q].pc /\ scan'[q].raced = IF scan[q].pc = "save" THEN TRUE ELSE scan[q].raced
      BY <1>1, <2>3, Zenon DEF Overtaking
    <3>2. QED
      BY <3>1, Zenon DEF At
  <2>4. QED
    BY <2>2, <2>3
<1>13. QED
  BY <1>10, <1>11, <1>12 DEF Remembered, DedupRecent

\* Rows go oldest first, so that what is left of a key still has its youngest row.
LEMMA PruneRemembers ==
    ASSUME StoreTypeOK, Remembered, NEW p \in Process, Prune(p)
    PROVE  Remembered'
<1>1. Moves(p, Locals("idle", {}, FALSE, {}))
  BY IdleMoves DEF Prune
<1>2. scan'[p].pc = "idle" /\ \A q \in Process \ {p} : scan'[q] = scan[q]
  BY <1>1 DEF Moves, Locals
<1>3. Expire(rows) = rows /\ Expire(dedup) = dedup
  BY ExpireFacts DEF StoreTypeOK
<1>4. PICK gone \in SizePruned(rows) : rows' = [f \in Kinds |-> IF f \in gone THEN Forever ELSE rows[f]]
  BY <1>3 DEF Prune
<1>5. \A f \in gone : f \in Kinds /\ rows[f] # Forever
      /\ \A g \in Kinds \ gone : rows[g] # Forever => rows[f] >= rows[g]
  BY <1>4 DEF SizePruned
<1>6. UNCHANGED <<dedup, lastSaved>> /\ scan[p].pc = "prune"
  BY <1>3 DEF Prune, At
<1>7. DedupRecent /\ DedupRecent'
  BY <1>6 DEF Remembered, At, DedupRecent
<1>8. RowsRecent'
  <2>1. SUFFICES ASSUME NEW k \in KeysOf, Stored(k)' # {}
                 PROVE  \E f \in Stored(k)' : rows'[f] <= lastSaved'[k]
    BY DEF RowsRecent
  <2>2. PICK f : f \in Stored(k)'
    BY <2>1
  <2>3. f \in Kinds \ gone /\ rows'[f] = rows[f] /\ f \in Stored(k)
    BY <1>4, <2>2 DEF Stored
  <2>4. PICK g \in Stored(k) : rows[g] <= lastSaved[k]
    BY <2>3 DEF Remembered, RowsRecent
  <2>5. CASE g \notin gone
    <3>1. rows'[g] = rows[g] /\ g \in Stored(k)'
      BY <1>4, <2>4, <2>5 DEF Stored
    <3>2. QED
      BY <1>6, <2>4, <3>1
  <2>6. CASE g \in gone
    <3>1. rows[g] >= rows[f]
      BY <1>5, <2>3, <2>6 DEF Stored
    <3>2. rows[g] \in Nat /\ rows[f] \in Nat /\ lastSaved[k] \in Nat
      BY <2>3, <2>4, ConstantFacts DEF StoreTypeOK, Stored
    <3>3. QED
      BY <1>6, <2>2, <2>3, <2>4, <3>1, <3>2
  <2>7. QED
    BY <2>5, <2>6
<1>9. \A q \in Process : At(q, "save")' /\ ~scan'[q].raced =>
          \A f \in scan'[q].found : lastSaved'[Finding[f].key] > SuppressionWindow(f)
  BY <1>2, <1>6 DEF At, Remembered
<1>10. QED
  BY <1>7, <1>8, <1>9 DEF Remembered, DedupRecent

LEMMA ClearRemembers ==
    ASSUME StoreTypeOK, Remembered, ClearRows \/ ClearDedup
    PROVE  Remembered'
<1>1. scan' = Overtaken /\ lastSaved' = [k \in KeysOf |-> Forever]
  BY DEF ClearRows, ClearDedup
<1>2. rows' \in [Kinds -> Age] /\ dedup' \in [KeysOf -> Age]
  BY ConstantFacts DEF ClearRows, ClearDedup, StoreTypeOK
<1>3. \A k \in KeysOf : dedup'[k] <= lastSaved'[k] /\ \A f \in Kinds : rows'[f] <= lastSaved'[k]
  BY <1>1, <1>2, ConstantFacts DEF Age
<1>4. RowsRecent' /\ DedupRecent'
  BY <1>3 DEF RowsRecent, DedupRecent, Stored
<1>5. \A q \in Process : ~(At(q, "save")' /\ ~scan'[q].raced)
  BY <1>1, OvertakenType, Zenon DEF At
<1>6. QED
  BY <1>4, <1>5 DEF Remembered, DedupRecent

LEMMA TickRemembers ==
    ASSUME StoreTypeOK, Remembered, Tick
    PROVE  Remembered'
<1>1. /\ rows \in [Kinds -> Age] /\ dedup \in [KeysOf -> Age] /\ lastSaved \in [KeysOf -> Age]
      /\ rows' = Older(rows) /\ dedup' = Older(dedup) /\ lastSaved' = Older(lastSaved) /\ scan' = scan
  BY DEF Tick, StoreTypeOK
<1>2. /\ \A f \in Kinds : rows'[f] = IF rows[f] = Forever THEN Forever ELSE rows[f] + 1
      /\ \A k \in KeysOf : dedup'[k] = IF dedup[k] = Forever THEN Forever ELSE dedup[k] + 1
      /\ \A k \in KeysOf : lastSaved'[k] = IF lastSaved[k] = Forever THEN Forever ELSE lastSaved[k] + 1
  BY <1>1, OlderFacts
<1>3. \A a, b \in Age : a <= b => (IF a = Forever THEN Forever ELSE a + 1) <= (IF b = Forever THEN Forever ELSE b + 1)
  BY ConstantFacts DEF Age
<1>4. \A k \in KeysOf : dedup[k] <= lastSaved[k] => dedup'[k] <= lastSaved'[k]
  BY <1>1, <1>2, <1>3
<1>5. \A k \in KeysOf : \A f \in Kinds : rows[f] <= lastSaved[k] => rows'[f] <= lastSaved'[k]
  BY <1>1, <1>2, <1>3
<1>6. \A k \in KeysOf : Stored(k)' \subseteq Stored(k)
  BY <1>2 DEF Stored
<1>7. RowsRecent'
  <2>1. SUFFICES ASSUME NEW k \in KeysOf, Stored(k)' # {}
                 PROVE  \E f \in Stored(k)' : rows'[f] <= lastSaved'[k]
    BY DEF RowsRecent
  <2>2. PICK f : f \in Stored(k)'
    BY <2>1
  <2>3. PICK g \in Stored(k) : rows[g] <= lastSaved[k]
    BY <1>6, <2>2 DEF Remembered, RowsRecent
  <2>4. g \in Kinds /\ rows'[g] <= lastSaved'[k]
    BY <1>5, <2>3 DEF Stored
  <2>5. CASE rows'[g] # Forever
    BY <2>3, <2>4, <2>5 DEF Stored
  <2>6. CASE rows'[g] = Forever
    <3>1. lastSaved'[k] = Forever
      BY <1>1, <1>2, <2>4, <2>6, ConstantFacts DEF Age
    <3>2. rows'[f] \in Age /\ f \in Kinds
      BY <1>1, <2>2, OlderFacts DEF Stored
    <3>3. QED
      BY <2>2, <3>1, <3>2, ConstantFacts DEF Age
  <2>7. QED
    BY <2>5, <2>6
<1>8. \A k \in KeysOf : dedup'[k] <= lastSaved'[k] \/ Stored(k)' # {}
  <2>1. TAKE k \in KeysOf
  <2>2. CASE dedup[k] <= lastSaved[k]
    BY <1>4, <2>2
  <2>3. CASE Stored(k) # {}
    <3>1. PICK g \in Stored(k) : rows[g] <= lastSaved[k]
      BY <2>3 DEF Remembered, RowsRecent
    <3>2. g \in Kinds /\ rows'[g] <= lastSaved'[k]
      BY <1>5, <3>1 DEF Stored
    <3>3. CASE rows'[g] # Forever
      BY <3>1, <3>2, <3>3 DEF Stored
    <3>4. CASE rows'[g] = Forever
      <4>1. lastSaved'[k] = Forever
        BY <1>1, <1>2, <3>2, <3>4, ConstantFacts DEF Age
      <4>2. dedup'[k] \in Age
        BY <1>1, OlderFacts
      <4>3. QED
        BY <4>1, <4>2, ConstantFacts DEF Age
    <3>5. QED
      BY <3>3, <3>4
  <2>4. QED
    BY <2>2, <2>3 DEF Remembered
<1>9. (\E p \in Process : ~At(p, "idle"))' => DedupRecent'
  BY <1>1, <1>4 DEF Remembered, DedupRecent, At
<1>10. ASSUME NEW p \in Process, At(p, "save"), ~scan[p].raced, NEW f \in scan[p].found
       PROVE  lastSaved'[Finding[f].key] > SuppressionWindow(f)
  <2>1. lastSaved[Finding[f].key] > SuppressionWindow(f)
    BY <1>10 DEF Remembered
  <2>2. Finding[f].key \in KeysOf
    BY DEF KeysOf, StoreTypeOK
  <2>3. QED
    BY <1>1, <1>2, <2>1, <2>2, WindowType, ConstantFacts DEF Age
<1>11. QED
  BY <1>1, <1>7, <1>8, <1>9, <1>10 DEF Remembered, At

\* Detection, notification, the log and an abort leave the findings tables alone.
LEMMA DeliveryRemembers ==
    ASSUME StoreTypeOK, Remembered, NEW p \in Process, Detect(p) \/ Notify(p) \/ Log(p) \/ Abort(p)
    PROVE  Remembered'
<1>1. UNCHANGED <<rows, dedup, lastSaved>> /\ ~At(p, "idle")
  BY DEF Detect, Notify, Log, Abort, tables, At
<1>2. PICK x : Moves(p, x) /\ x.pc # "save"
  <2>1. CASE Notify(p)
    <3>1. PICK plan \in Plans(scan[p].found) : scan' = [scan EXCEPT ![p] = Locals("log", {}, Delivering(p), plan)]
      BY <2>1, Zenon DEF Notify
    <3>2. Delivering(p) \in BOOLEAN
      BY DEF Delivering
    <3>3. Moves(p, Locals("log", {}, Delivering(p), plan))
      BY <3>1, <3>2, NotifyMoves, Zenon
    <3>5. Locals("log", {}, Delivering(p), plan).pc = "log"
      BY DEF Locals
    <3>4. QED
      BY <3>3, <3>5, Zenon
  <2>2. CASE Log(p)
    BY <2>2, LogMoves DEF Locals
  <2>3. CASE Abort(p)
    <3>1. Moves(p, Locals("idle", {}, FALSE, {}))
      BY <2>3, IdleMoves DEF Abort
    <3>2. Locals("idle", {}, FALSE, {}).pc = "idle"
      BY DEF Locals
    <3>3. QED
      BY <3>1, <3>2
  <2>4. CASE Detect(p)
    BY <2>4, DetectMoves DEF Locals
  <2>5. QED
    BY <2>1, <2>2, <2>3, <2>4
<1>3. DedupRecent
  BY <1>1 DEF Remembered
<1>4. \A q \in Process : At(q, "save")' /\ ~scan'[q].raced =>
          \A f \in scan'[q].found : lastSaved'[Finding[f].key] > SuppressionWindow(f)
  BY <1>1, <1>2 DEF At, Remembered, Moves
<1>5. QED
  BY <1>1, <1>3, <1>4 DEF Remembered, DedupRecent, RowsRecent, Stored

LEMMA StoreInitRemembers ==
    ASSUME StoreInit
    PROVE  Remembered
<1>1. PICK old \in Legacy :
        /\ rows = [f \in Kinds |-> IF f \in old THEN 0 ELSE Forever]
        /\ lastSaved = [k \in KeysOf |-> IF \E f \in old : Finding[f].key = k THEN 0 ELSE Forever]
  BY DEF StoreInit
<1>2. old \subseteq Kinds
  BY ScanStoreAssumption
<1>3. \A f \in Kinds : rows[f] # Forever <=> f \in old
  BY <1>1, ConstantFacts
<1>4. ASSUME NEW k \in KeysOf, Stored(k) # {}
      PROVE  \E f \in Stored(k) : rows[f] <= lastSaved[k]
  <2>1. PICK f \in Stored(k) : TRUE
    BY <1>4
  <2>2. f \in old /\ Finding[f].key = k /\ f \in Kinds
    BY <1>3, <2>1 DEF Stored
  <2>3. rows[f] = 0 /\ lastSaved[k] = 0
    BY <1>1, <2>2
  <2>4. QED
    BY <2>1, <2>3
<1>5. ASSUME NEW k \in KeysOf
      PROVE  dedup[k] <= lastSaved[k] \/ Stored(k) # {}
  <2>1. CASE \E f \in old : Finding[f].key = k
    BY <1>2, <1>3, <2>1 DEF Stored
  <2>2. CASE ~\E f \in old : Finding[f].key = k
    <3>1. lastSaved[k] = Forever /\ dedup[k] = Forever
      BY <1>1, <2>2 DEF StoreInit
    <3>2. QED
      BY <3>1, ConstantFacts
  <2>3. QED
    BY <2>1, <2>2
<1>6. \A p \in Process : scan[p].pc = "idle"
  BY DEF StoreInit, Idle, Locals
<1>7. QED
  BY <1>4, <1>5, <1>6 DEF Remembered, RowsRecent, At

LEMMA StoreNextRemembers ==
    ASSUME StoreTypeOK, Remembered, [StoreNext]_storeVars
    PROVE  Remembered'
<1>1. CASE StartMaintenance \/ EndMaintenance \/ Change \/ UNCHANGED storeVars
  <2>1. UNCHANGED <<rows, dedup, lastSaved, scan>>
    BY <1>1 DEF StartMaintenance, EndMaintenance, Change, storeVars, tables
  <2>2. QED
    BY <2>1 DEF Remembered, RowsRecent, DedupRecent, Stored, At
<1>2. QED
  BY <1>1, OpenRemembers, SuppressRecentRemembers, SaveFindingsRemembers, DeliveryRemembers,
     PruneRemembers, ClearRemembers, TickRemembers
  DEF StoreNext, ScanStep

\* What the tables remember: while any scan runs, finding_dedup_state is no older than
\* the row of a key saved last, even when size pruning took the rows it was rebuilt
\* from (SqliteStore::migrate, delete_oldest_rows_keep_latest).
THEOREM SavesRemembered == StoreSpec => []Remembered
<1>1. StoreInit => Remembered
  BY StoreInitRemembers
<1>2. StoreTypeOK /\ Remembered /\ [StoreNext]_storeVars => Remembered'
  BY StoreNextRemembers
<1>3. StoreSpec => []StoreTypeOK
  BY AttemptsRecorded, PTL
<1>4. QED
  BY <1>1, <1>2, <1>3, PTL DEF StoreSpec

\* No scan saves, and so none notifies, a finding when the row of its key saved last is
\* younger than its suppression window, unless another process wrote between its check
\* and its save (suppress_recent_duplicates, finding_recently_seen).
THEOREM NeverRepeatsWithinWindow == StoreSpec => NoRepeatWithinWindow
<1>1. Remembered => \A p \in Process : \A f \in scan[p].found :
          At(p, "save") /\ ~scan[p].raced /\ scan'[p].pc \in {"notify", "prune"}
            => lastSaved[Finding[f].key] > SuppressionWindow(f)
  BY DEF Remembered
<1>2. QED
  BY <1>1, SavesRemembered, PTL DEF NoRepeatWithinWindow
=============================================================================
