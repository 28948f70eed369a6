--------------------------- MODULE HostStoreProofs ---------------------------
(***************************************************************************)
(* Proofs about what the agent keeps between scans: the attack fingerprints *)
(* (FingerprintStore) under any number of scanning processes, the size      *)
(* limit of the store (StorageLimit) under any number of pruning ones, what *)
(* scans remember of services, ports and logs (ScanMemory) when they        *)
(* overlap or abort, and the baseline (HostBaseline) for every set of       *)
(* facts, values and terminals: a snapshot holds only what the operator     *)
(* endorsed, a refresh applies all that was approved, and what a drift      *)
(* shows of sensitive facts is true.                                        *)
(***************************************************************************)
EXTENDS HostBaseline, FingerprintStore, StorageLimit, ScanMemory, FiniteSetTheorems, SequenceTheorems,
        WellFoundedInduction, TLAPS

LEMMA LeastOfTwo ==
    ASSUME NEW a \in Int, NEW b \in Int
    PROVE  Min({a, b}) = IF a <= b THEN a ELSE b
  BY DEF Min

LEMMA GreatestOfTwo ==
    ASSUME NEW a \in Int, NEW b \in Int
    PROVE  Max({a, b}) = IF a >= b THEN a ELSE b
  BY DEF Max

-----------------------------------------------------------------------------
(* Fingerprints: the inductive invariant.                                   *)

RowOK(fp) ==
    /\ fp.seen \in Nat /\ IsFiniteSet(fp.ips) /\ Cardinality(fp.ips) <= fp.seen
    /\ fp.score \in 0 .. 100 /\ fp.verdict \in Verdict
EvidenceOK(e) == e.seen \in Nat /\ IsFiniteSet(e.ips)

\* What was observed (e) accounts for a row, and earns a hint.
Accounts(e, fp) == fp.seen <= e.seen /\ fp.ips \subseteq e.ips /\ (fp.verdict = "malicious" => e.malicious)
Earns(e) == e.malicious \/ (e.seen >= MinObservations /\ Cardinality(e.ips) >= MinDistinctIps)
Follows(e, d) == e.seen <= d.seen /\ e.ips \subseteq d.ips /\ (e.malicious => d.malicious)

\* The locals c of a scan, for the evidence E and the rulings R.
EnrichOK(c, E, R) ==
    /\ c.pc = "idle" => ~c.hint
    /\ c.pc # "idle" => c.method \in Held
    /\ c.hint => Earns(E[c.method])
    /\ c.pc = "save" => /\ RowOK(c.row) /\ Accounts(E[c.method], c.row)
                        /\ R[c.method] # "" => c.row.verdict = R[c.method]

RowsInv ==
    /\ DOMAIN prints \subseteq Held
    /\ \A m \in DOMAIN prints : RowOK(prints[m]) /\ Accounts(evidence[m], prints[m])
EvidenceInv == evidence = [m \in Held |-> evidence[m]] /\ \A m \in Held : EvidenceOK(evidence[m])
EnrichInv ==
    enrich = [p \in Enricher |-> enrich[p]] /\ \A p \in Enricher : EnrichOK(enrich[p], evidence, ruling)
RulingInv ==
    /\ ruling \in [Held -> Verdict \cup {""}]
    /\ \A m \in Held : ruling[m] # "" => m \in DOMAIN prints /\ prints[m].verdict = ruling[m]
ObservationInv ==
    /\ observations = [m \in Held |-> observations[m]] /\ untrimmed \in [Held -> Nat]
    /\ \A m \in Held : /\ observations[m] \in Seq(Nat)
                       /\ Len(observations[m]) <= MaxFingerprintObservations + Cardinality(Trimming(m)) + untrimmed[m]

PrintInv == RowsInv /\ EvidenceInv /\ EnrichInv /\ RulingInv /\ ObservationInv

-----------------------------------------------------------------------------
(* Merging.                                                                 *)

LEMMA CandidateScoreRange ==
    ASSUME NEW f \in AttackFindings
    PROVE  CandidateScore(f) \in 0 .. 100
<1>1. FeatureBonus(f) \in Nat
  <2>1. CASE KindOf(f) = "web_probe"
    BY <2>1 DEF FeatureBonus
  <2>2. CASE KindOf(f) = "ssh_bruteforce"
    BY <2>2 DEF FeatureBonus
  <2>3. CASE KindOf(f) \notin {"web_probe", "ssh_bruteforce"}
    BY <2>3 DEF FeatureBonus
  <2>4. QED
    BY <2>1, <2>2, <2>3
<1>2. PICK n \in Nat : n = f.score + FeatureBonus(f)
  BY <1>1, FingerprintAssumption
<1>3. Min({100, n}) = IF 100 <= n THEN 100 ELSE n
  BY LeastOfTwo
<1>4. Min({100, n}) \in 0 .. 100
  BY <1>3
<1>5. QED
  BY <1>2, <1>4 DEF CandidateScore

LEMMA RowFields ==
    ASSUME NEW seen, NEW ips, NEW score, NEW confidence, NEW verdict, NEW age
    PROVE  LET fp == Row(seen, ips, score, confidence, verdict, age)
           IN /\ fp.seen = seen /\ fp.ips = ips /\ fp.score = score /\ fp.confidence = confidence
              /\ fp.verdict = verdict /\ fp.age = age
  BY DEF Row

LEMMA NewRow ==
    ASSUME NEW f \in AttackFindings
    PROVE  RowOK(NewFingerprint(f)) /\ NewFingerprint(f).seen = 0 /\ NewFingerprint(f).ips = {}
           /\ NewFingerprint(f).verdict = "unknown"
<1>1. PICK fp : fp = NewFingerprint(f)
  OBVIOUS
<1>2. fp.seen = 0 /\ fp.ips = {} /\ fp.score = CandidateScore(f) /\ fp.verdict = "unknown"
  BY <1>1, RowFields DEF NewFingerprint
<1>3. IsFiniteSet({}) /\ Cardinality({}) = 0
  BY FS_EmptySet
<1>4. RowOK(fp)
  BY <1>2, <1>3, CandidateScoreRange DEF RowOK, Verdict
<1>5. QED
  BY <1>1, <1>2, <1>4

\* A merge adds at most the one source of its finding.
LEMMA SourceAdded ==
    ASSUME NEW f, NEW S, IsFiniteSet(S)
    PROVE  /\ IsFiniteSet(S \cup Sources(f)) /\ Cardinality(S) \in Nat
           /\ Cardinality(S \cup Sources(f)) \in Nat
           /\ Cardinality(S \cup Sources(f)) <= Cardinality(S) + 1
<1>0. Cardinality(S) \in Nat
  BY FS_CardinalityType
<1>1. CASE f.source = "" \/ f.source \in S
  <2>1. S \cup Sources(f) = S
    BY <1>1 DEF Sources
  <2>2. Cardinality(S) <= Cardinality(S) + 1
    BY <1>0
  <2>3. QED
    BY <1>0, <2>1, <2>2, Zenon
<1>2. CASE f.source # "" /\ f.source \notin S
  <2>1. S \cup Sources(f) = S \cup {f.source}
    BY <1>2 DEF Sources
  <2>2. IsFiniteSet(S \cup {f.source}) /\ Cardinality(S \cup {f.source}) = Cardinality(S) + 1
    BY <1>2, FS_AddElement
  <2>3. QED
    BY <1>0, <2>1, <2>2
<1>3. QED
  BY <1>1, <1>2

LEMMA Composite ==
    ASSUME NEW score \in 0 .. 100, NEW seen, NEW ips, NEW verdict
    PROVE  CompositeScore(score, seen, ips, verdict) \in 0 .. 100
<1>1. PICK a \in Nat : a = IF seen >= 2 THEN 5 ELSE 0
  OBVIOUS
<1>2. PICK b \in Nat : b = IF Cardinality(ips) >= 2 THEN 10 ELSE 0
  OBVIOUS
<1>3. PICK c \in Nat : c = IF verdict = "malicious" THEN 15 ELSE 0
  OBVIOUS
<1>4. PICK n \in Nat : n = score + a + b + c
  OBVIOUS
<1>5. Min({100, n}) = IF 100 <= n THEN 100 ELSE n
  BY LeastOfTwo
<1>6. Min({100, n}) \in 0 .. 100
  BY <1>5
<1>7. QED
  BY <1>1, <1>2, <1>3, <1>4, <1>6 DEF CompositeScore

LEMMA MergedRow ==
    ASSUME NEW f \in AttackFindings, NEW fp, RowOK(fp)
    PROVE  LET merged == MergeFingerprint(f, fp)
           IN /\ RowOK(merged) /\ merged.seen = fp.seen + 1 /\ merged.ips = fp.ips \cup Sources(f)
              /\ merged.verdict = fp.verdict
<1>1. PICK seen : seen = fp.seen + 1
  OBVIOUS
<1>2. PICK ips : ips = fp.ips \cup Sources(f)
  OBVIOUS
<1>3. PICK score : score = Max({fp.score, CandidateScore(f)})
  OBVIOUS
<1>4. score \in 0 .. 100
  <2>1. PICK a \in 0 .. 100 : a = fp.score
    BY DEF RowOK
  <2>2. PICK b \in 0 .. 100 : b = CandidateScore(f)
    BY CandidateScoreRange
  <2>3. Max({a, b}) = IF a >= b THEN a ELSE b
    BY GreatestOfTwo
  <2>4. QED
    BY <1>3, <2>1, <2>2, <2>3
<1>5. PICK merged : merged = MergeFingerprint(f, fp)
  OBVIOUS
<1>6. merged.seen = seen /\ merged.ips = ips /\ merged.verdict = fp.verdict
      /\ merged.score = CompositeScore(score, seen, ips, fp.verdict)
  BY <1>1, <1>2, <1>3, <1>5, RowFields DEF MergeFingerprint
<1>7. RowOK(merged)
  <2>1. fp.seen \in Nat /\ IsFiniteSet(fp.ips) /\ Cardinality(fp.ips) <= fp.seen /\ fp.verdict \in Verdict
    BY DEF RowOK
  <2>2. IsFiniteSet(ips) /\ Cardinality(fp.ips) \in Nat /\ Cardinality(ips) \in Nat
        /\ Cardinality(ips) <= Cardinality(fp.ips) + 1
    BY <1>2, <2>1, SourceAdded
  <2>3. merged.score \in 0 .. 100
    BY <1>4, <1>6, Composite
  <2>4. seen \in Nat /\ Cardinality(ips) <= seen
    BY <1>1, <2>1, <2>2
  <2>5. QED
    BY <1>6, <2>1, <2>2, <2>3, <2>4 DEF RowOK
<1>8. QED
  BY <1>1, <1>2, <1>5, <1>6, <1>7

-----------------------------------------------------------------------------
(* Evidence only grows.                                                     *)

LEMMA AccountsLater ==
    ASSUME NEW e, NEW d, EvidenceOK(e), EvidenceOK(d), Follows(e, d)
    PROVE  /\ Earns(e) => Earns(d)
           /\ \A fp : RowOK(fp) /\ Accounts(e, fp) => Accounts(d, fp)
<1>1. Cardinality(e.ips) \in Nat /\ Cardinality(d.ips) \in Nat /\ Cardinality(e.ips) <= Cardinality(d.ips)
  BY FS_Subset, FS_CardinalityType DEF EvidenceOK, Follows
<1>2. Earns(e) => Earns(d)
  BY <1>1, FingerprintAssumption DEF Earns, Follows, EvidenceOK
<1>3. \A fp : RowOK(fp) /\ Accounts(e, fp) => Accounts(d, fp)
  BY DEF RowOK, Accounts, Follows, EvidenceOK
<1>4. QED
  BY <1>2, <1>3

\* The scans of other processes keep what they are owed when evidence E grows to F and
\* rulings are left, set on rows nobody merges, or withdrawn.
LEMMA EnrichKept ==
    ASSUME NEW c, NEW E, NEW F, NEW R, NEW Q, EnrichOK(c, E, R),
           \A m \in Held : EvidenceOK(E[m]) /\ EvidenceOK(F[m]) /\ Follows(E[m], F[m]),
           \A m \in Held : Q[m] = R[m] \/ Q[m] = "" \/ ~(c.pc = "save" /\ c.method = m)
    PROVE  EnrichOK(c, F, Q)
<1>1. c.hint => c.method \in Held
  BY DEF EnrichOK
<1>2. c.hint => Earns(F[c.method])
  BY <1>1, AccountsLater DEF EnrichOK
<1>3. ASSUME c.pc = "save"
      PROVE  RowOK(c.row) /\ Accounts(F[c.method], c.row) /\ (Q[c.method] # "" => c.row.verdict = Q[c.method])
  <2>1. c.method \in Held /\ RowOK(c.row) /\ Accounts(E[c.method], c.row)
        /\ (R[c.method] # "" => c.row.verdict = R[c.method])
    BY <1>3 DEF EnrichOK
  <2>2. Accounts(F[c.method], c.row)
    BY <2>1, AccountsLater
  <2>3. QED
    BY <1>3, <2>1, <2>2
<1>4. QED
  BY <1>2, <1>3 DEF EnrichOK

\* Rows are accounted for by later evidence too.
LEMMA RowsKept ==
    ASSUME RowsInv, EvidenceInv, EvidenceInv', \A m \in Held : Follows(evidence[m], evidence'[m]),
           NEW m \in DOMAIN prints
    PROVE  m \in Held /\ RowOK(prints[m]) /\ Accounts(evidence'[m], prints[m])
<1>1. m \in Held /\ RowOK(prints[m]) /\ Accounts(evidence[m], prints[m])
  BY DEF RowsInv
<1>2. EvidenceOK(evidence[m]) /\ EvidenceOK(evidence'[m])
  BY <1>1 DEF EvidenceInv
<1>3. QED
  BY <1>1, <1>2, AccountsLater

LEMMA FollowsSelf ==
    ASSUME EvidenceInv
    PROVE  \A m \in Held : EvidenceOK(evidence[m]) /\ Follows(evidence[m], evidence[m])
  BY DEF EvidenceInv, EvidenceOK, Follows

\* A finding is merged into a row of its own method or of one that is stored.
LEMMA MatchHeld ==
    ASSUME RowsInv, NEW f \in AttackFindings, HasCandidate(f), NEW m \in Matches(f)
    PROVE  m \in Held
<1>1. Method(f) \in Held
  BY DEF Held
<1>2. CASE m = Method(f)
  BY <1>1, <1>2
<1>3. CASE m # Method(f)
  <2>1. PICK S \in Listed(KindOf(f)) : m \in Closest(f, S)
    BY <1>3 DEF Matches
  <2>2. m \in S
    BY <2>1 DEF Closest
  <2>3. S \subseteq DOMAIN prints
    BY <2>1 DEF Listed, kSubset
  <2>4. QED
    BY <2>2, <2>3 DEF RowsInv
<1>4. QED
  BY <1>2, <1>3

-----------------------------------------------------------------------------
(* The actions keep the invariant.                                          *)

LEMMA EnrichFields ==
    ASSUME NEW pc, NEW method, NEW exact, NEW row, NEW hint
    PROVE  LET c == EnrichLocals(pc, method, exact, row, hint)
           IN c.pc = pc /\ c.method = method /\ c.exact = exact /\ c.row = row /\ c.hint = hint
  BY DEF EnrichLocals

LEMMA ObservedFields ==
    ASSUME NEW seen, NEW ips, NEW malicious
    PROVE  /\ Observed(seen, ips, malicious).seen = seen /\ Observed(seen, ips, malicious).ips = ips
           /\ Observed(seen, ips, malicious).malicious = malicious
  BY DEF Observed

\* A hint is given only when the evidence that accounts for the row earns it.
LEMMA HintEarns ==
    ASSUME NEW f, NEW fp, RowOK(fp), ShouldHint(f, fp), NEW e, EvidenceOK(e), Accounts(e, fp)
    PROVE  Earns(e)
<1>1. CASE fp.verdict = "malicious"
  BY <1>1 DEF Accounts, Earns
<1>2. CASE fp.verdict # "malicious"
  <2>1. fp.seen >= MinObservations /\ Cardinality(fp.ips) >= MinDistinctIps
    BY <1>2 DEF ShouldHint
  <2>2. Cardinality(e.ips) \in Nat /\ Cardinality(fp.ips) \in Nat /\ Cardinality(fp.ips) <= Cardinality(e.ips)
    BY FS_Subset, FS_CardinalityType DEF EvidenceOK, Accounts, RowOK
  <2>3. QED
    BY <2>1, <2>2, FingerprintAssumption DEF Accounts, Earns, EvidenceOK, RowOK
<1>3. QED
  BY <1>1, <1>2

LEMMA EnrichStep ==
    ASSUME EnrichInv, NEW p \in Enricher, NEW x, enrich' = [enrich EXCEPT ![p] = x],
           \A m \in Held : /\ EvidenceOK(evidence[m]) /\ EvidenceOK(evidence'[m])
                           /\ Follows(evidence[m], evidence'[m]),
           ruling' = ruling, EnrichOK(x, evidence', ruling')
    PROVE  EnrichInv'
<1>1. enrich' = [q \in Enricher |-> enrich'[q]]
  BY DEF EnrichInv
<1>2. \A q \in Enricher : enrich'[q] = IF q = p THEN x ELSE enrich[q]
  BY DEF EnrichInv
<1>3. \A q \in Enricher : EnrichOK(enrich[q], evidence, ruling)
  BY DEF EnrichInv
<1>4. \A q \in Enricher : EnrichOK(enrich[q], evidence', ruling')
  BY <1>3, EnrichKept
<1>5. QED
  BY <1>1, <1>2, <1>4 DEF EnrichInv

-----------------------------------------------------------------------------
(* Observations stay within their limit but for scans between their INSERT  *)
(* and their DELETE.                                                        *)

LEMMA ScansCounted ==
    ASSUME NEW S \in SUBSET Enricher
    PROVE  IsFiniteSet(S) /\ Cardinality(S) \in Nat
  BY FingerprintAssumption, FS_Subset, FS_CardinalityType

LEMMA TrimmingOthers ==
    ASSUME EnrichInv, NEW p \in Enricher, NEW x, enrich' = [enrich EXCEPT ![p] = x], NEW m,
           (enrich[p].pc = "trim" /\ enrich[p].method = m) <=> (x.pc = "trim" /\ x.method = m)
    PROVE  Trimming(m)' = Trimming(m)
<1>1. \A q \in Enricher : enrich'[q] = IF q = p THEN x ELSE enrich[q]
  BY DEF EnrichInv
<1>2. QED
  BY <1>1 DEF Trimming

LEMMA ObservationsKept ==
    ASSUME PrintInv, NEW p \in Enricher, NEW x, enrich' = [enrich EXCEPT ![p] = x],
           x.pc # "trim", enrich[p].pc # "trim", UNCHANGED <<observations, untrimmed>>
    PROVE  ObservationInv'
<1>1. \A m \in Held : Trimming(m)' = Trimming(m)
  BY TrimmingOthers DEF PrintInv
<1>2. QED
  BY <1>1 DEF PrintInv, ObservationInv

\* Scans that stay where they are, and observations that only go.
LEMMA ObservationsGo ==
    ASSUME PrintInv, UNCHANGED <<enrich, untrimmed>>,
           observations' = [m \in Held |-> observations'[m]],
           \A m \in Held : observations'[m] \in Seq(Nat) /\ Len(observations'[m]) <= Len(observations[m])
    PROVE  ObservationInv'
<1>1. \A m : Trimming(m)' = Trimming(m)
  BY DEF Trimming
<1>2. ASSUME NEW m \in Held
      PROVE  Len(observations'[m]) <= MaxFingerprintObservations + Cardinality(Trimming(m)') + untrimmed'[m]
  <2>1. PICK t \in Nat : t = Cardinality(Trimming(m))
    BY ScansCounted DEF Trimming
  <2>2. untrimmed[m] \in Nat /\ observations[m] \in Seq(Nat)
        /\ Len(observations[m]) <= MaxFingerprintObservations + t + untrimmed[m]
    BY <2>1 DEF PrintInv, ObservationInv
  <2>3. PICK n \in Nat, o \in Nat : n = Len(observations[m]) /\ o = Len(observations'[m]) /\ o <= n
    <3>1. observations'[m] \in Seq(Nat) /\ Len(observations'[m]) <= Len(observations[m])
      OBVIOUS
    <3>2. Len(observations[m]) \in Nat /\ Len(observations'[m]) \in Nat
      BY <2>2, <3>1, LenProperties
    <3>3. QED
      BY <3>1, <3>2
  <2>4. o <= MaxFingerprintObservations + t + untrimmed[m]
    BY <2>2, <2>3, FingerprintAssumption, SMTT(30)
  <2>5. QED
    BY <1>1, <2>1, <2>3, <2>4
<1>3. QED
  BY <1>2 DEF PrintInv, ObservationInv

LEMMA EnrichFindingsInv ==
    ASSUME PrintInv, NEW p \in Enricher, NEW f \in AttackFindings, EnrichFindings(p, f)
    PROVE  PrintInv'
<1>1. PICK m \in Matches(f) :
        /\ enrich' = [enrich EXCEPT ![p] =
              EnrichLocals("save", m, Method(f),
                 MergeFingerprint(f, IF m \in DOMAIN prints THEN prints[m] ELSE NewFingerprint(f)),
                 ShouldHint(f, MergeFingerprint(f, IF m \in DOMAIN prints THEN prints[m] ELSE NewFingerprint(f))))]
        /\ evidence' = [evidence EXCEPT ![m] =
              Observed(evidence[m].seen + 1, evidence[m].ips \cup Sources(f), evidence[m].malicious)]
  BY DEF EnrichFindings
<1>2. m \in Held
  BY MatchHeld DEF EnrichFindings, PrintInv
<1>3. UNCHANGED <<prints, observations, ruling, untrimmed>> /\ enrich[p].pc = "idle"
  BY DEF EnrichFindings
<1>4. PICK old : old = IF m \in DOMAIN prints THEN prints[m] ELSE NewFingerprint(f)
  OBVIOUS
<1>5. RowOK(old) /\ Accounts(evidence[m], old) /\ (ruling[m] # "" => old.verdict = ruling[m])
  <2>1. CASE m \in DOMAIN prints
    BY <1>2, <1>4, <2>1 DEF PrintInv, RowsInv, RulingInv
  <2>2. CASE m \notin DOMAIN prints
    <3>1. old = NewFingerprint(f) /\ ruling[m] = ""
      BY <1>2, <1>4, <2>2 DEF PrintInv, RulingInv
    <3>2. RowOK(old) /\ old.seen = 0 /\ old.ips = {} /\ old.verdict = "unknown"
      BY <3>1, NewRow
    <3>3. evidence[m].seen \in Nat
      BY <1>2 DEF PrintInv, EvidenceInv, EvidenceOK
    <3>4. old.seen <= evidence[m].seen /\ old.ips \subseteq evidence[m].ips /\ old.verdict # "malicious"
      BY <3>2, <3>3
    <3>5. QED
      BY <3>1, <3>2, <3>4, Zenon DEF Accounts
  <2>3. QED
    BY <2>1, <2>2
<1>6. PICK fp : fp = MergeFingerprint(f, old)
  OBVIOUS
<1>7. RowOK(fp) /\ fp.seen = old.seen + 1 /\ fp.ips = old.ips \cup Sources(f) /\ fp.verdict = old.verdict
  BY <1>5, <1>6, MergedRow
<1>8. PICK d : d = Observed(evidence[m].seen + 1, evidence[m].ips \cup Sources(f), evidence[m].malicious)
  OBVIOUS
<1>9. d.seen = evidence[m].seen + 1 /\ d.ips = evidence[m].ips \cup Sources(f) /\ d.malicious = evidence[m].malicious
  BY <1>8, ObservedFields
<1>10. EvidenceOK(evidence[m]) /\ EvidenceOK(d) /\ Follows(evidence[m], d)
  <2>1. EvidenceOK(evidence[m])
    BY <1>2 DEF PrintInv, EvidenceInv
  <2>2. IsFiniteSet(evidence[m].ips \cup Sources(f))
    BY <2>1, SourceAdded DEF EvidenceOK
  <2>3. QED
    BY <1>9, <2>1, <2>2 DEF EvidenceOK, Follows
<1>11. Accounts(d, fp)
  <2>0. old.seen <= evidence[m].seen /\ old.ips \subseteq evidence[m].ips
        /\ old.seen \in Nat /\ evidence[m].seen \in Nat
    BY <1>5, <1>10 DEF Accounts, RowOK, EvidenceOK
  <2>1. fp.seen <= d.seen /\ fp.ips \subseteq d.ips
    BY <1>7, <1>9, <2>0
  <2>2. fp.verdict = "malicious" => d.malicious
    BY <1>5, <1>7, <1>9, Zenon DEF Accounts
  <2>3. QED
    BY <2>1, <2>2, Zenon DEF Accounts
<1>12. evidence' = [n \in Held |-> evidence'[n]] /\ \A n \in Held : evidence'[n] = IF n = m THEN d ELSE evidence[n]
  BY <1>1, <1>2, <1>8 DEF PrintInv, EvidenceInv
<1>13. EvidenceInv' /\ \A n \in Held : /\ EvidenceOK(evidence[n]) /\ EvidenceOK(evidence'[n])
                                      /\ Follows(evidence[n], evidence'[n])
  BY <1>10, <1>12, FollowsSelf DEF PrintInv, EvidenceInv
<1>14. PICK x : x = EnrichLocals("save", m, Method(f), fp, ShouldHint(f, fp))
  OBVIOUS
<1>15. x.pc = "save" /\ x.method = m /\ x.row = fp /\ x.hint = ShouldHint(f, fp)
  BY <1>14, EnrichFields
<1>16. ShouldHint(f, fp) => Earns(d)
  BY <1>7, <1>10, <1>11, HintEarns
<1>17. EnrichOK(x, evidence', ruling')
  BY <1>2, <1>3, <1>5, <1>7, <1>11, <1>12, <1>15, <1>16 DEF EnrichOK
<1>18. enrich' = [enrich EXCEPT ![p] = x]
  BY <1>1, <1>4, <1>6, <1>14
<1>19. EnrichInv'
  BY <1>3, <1>13, <1>17, <1>18, EnrichStep DEF PrintInv
<1>20. RowsInv'
  BY <1>3, <1>13, RowsKept DEF PrintInv, RowsInv
<1>21. ObservationInv'
  BY <1>3, <1>15, <1>18, ObservationsKept
<1>22. QED
  BY <1>3, <1>13, <1>19, <1>20, <1>21 DEF PrintInv, RulingInv

LEMMA SaveFingerprintInv ==
    ASSUME PrintInv, NEW p \in Enricher, SaveFingerprint(p)
    PROVE  PrintInv'
<1>1. PICK c : c = enrich[p]
  OBVIOUS
<1>2. c.pc = "save" /\ EnrichOK(c, evidence, ruling)
  BY <1>1 DEF SaveFingerprint, PrintInv, EnrichInv
<1>3. c.method \in Held /\ RowOK(c.row) /\ Accounts(evidence[c.method], c.row)
      /\ (ruling[c.method] # "" => c.row.verdict = ruling[c.method]) /\ (c.hint => Earns(evidence[c.method]))
  BY <1>2 DEF EnrichOK
<1>4. UNCHANGED <<observations, ruling, evidence, untrimmed>> /\ prints' = Put(c.method, c.row)
  BY <1>1 DEF SaveFingerprint
<1>5. PICK x : x = EnrichLocals("observe", c.method, c.exact, c.row, c.hint)
  OBVIOUS
<1>6. enrich' = [enrich EXCEPT ![p] = x]
  BY <1>1, <1>5 DEF SaveFingerprint
<1>7. x.pc = "observe" /\ x.method = c.method /\ x.hint = c.hint
  BY <1>5, EnrichFields
<1>8. EnrichOK(x, evidence', ruling')
  BY <1>3, <1>4, <1>7 DEF EnrichOK
<1>9. EnrichInv'
  BY <1>4, <1>6, <1>8, FollowsSelf, EnrichStep DEF PrintInv
<1>10. DOMAIN prints' = DOMAIN prints \cup {c.method} /\ prints'[c.method] = c.row
       /\ \A n \in DOMAIN prints \ {c.method} : prints'[n] = prints[n]
  BY <1>4 DEF Put
<1>11. RowsInv'
  BY <1>3, <1>4, <1>10 DEF PrintInv, RowsInv
<1>12. RulingInv'
  BY <1>3, <1>4, <1>10 DEF PrintInv, RulingInv
<1>13. ObservationInv'
  BY <1>1, <1>2, <1>4, <1>6, <1>7, ObservationsKept
<1>14. QED
  BY <1>4, <1>9, <1>11, <1>12, <1>13 DEF PrintInv, EvidenceInv

LEMMA RestingOK ==
    ASSUME NEW E, NEW R
    PROVE  EnrichOK(Resting, E, R)
<1>1. Resting.pc = "idle" /\ Resting.hint = FALSE
  BY DEF Resting
<1>2. QED
  BY <1>1 DEF EnrichOK

LEMMA PrefixFacts ==
    ASSUME NEW rows \in Seq(Nat), NEW n \in Nat, n <= Len(rows)
    PROVE  SubSeq(rows, 1, n) \in Seq(Nat) /\ Len(SubSeq(rows, 1, n)) = n
<1>1. \A i \in 1 .. n : rows[i] \in Nat
  OBVIOUS
<1>2. /\ SubSeq(rows, 1, n) \in Seq(Nat)
      /\ Len(SubSeq(rows, 1, n)) = IF 1 <= n THEN n - 1 + 1 ELSE 0
  BY <1>1, SubSeqProperties
<1>3. QED
  BY <1>2

LEMMA LatestBounded ==
    ASSUME NEW rows \in Seq(Nat)
    PROVE  Latest(rows) \in Seq(Nat) /\ Len(Latest(rows)) <= MaxFingerprintObservations
<1>1. PICK n \in Nat : n = Min({Len(rows), MaxFingerprintObservations})
                       /\ n <= Len(rows) /\ n <= MaxFingerprintObservations
  <2>1. PICK a \in Int : a = Len(rows) /\ a >= 0
    OBVIOUS
  <2>2. PICK b \in Int : b = MaxFingerprintObservations /\ b >= 0
    BY FingerprintAssumption
  <2>3. Min({a, b}) = IF a <= b THEN a ELSE b
    BY LeastOfTwo
  <2>4. QED
    BY <2>1, <2>2, <2>3
<1>2. SubSeq(rows, 1, n) \in Seq(Nat) /\ Len(SubSeq(rows, 1, n)) = n
  BY <1>1, PrefixFacts
<1>3. QED
  BY <1>1, <1>2, FingerprintAssumption DEF Latest

LEMMA InsertObservationInv ==
    ASSUME PrintInv, NEW p \in Enricher, InsertObservation(p)
    PROVE  PrintInv'
<1>1. PICK c : c = enrich[p]
  OBVIOUS
<1>2. c.pc = "observe" /\ c.method \in Held /\ EnrichOK(c, evidence, ruling)
  BY <1>1 DEF InsertObservation, PrintInv, EnrichInv, EnrichOK
<1>3. PICK m \in Held : m = c.method
  BY <1>2
<1>4. PICK x : x = EnrichLocals("trim", c.method, c.exact, c.row, c.hint)
  OBVIOUS
<1>5. x.pc = "trim" /\ x.method = m /\ x.hint = c.hint
  BY <1>3, <1>4, EnrichFields
<1>6. UNCHANGED <<prints, ruling, evidence, untrimmed>> /\ enrich' = [enrich EXCEPT ![p] = x]
      /\ observations' = [observations EXCEPT ![m] = <<0>> \o observations[m]]
  BY <1>1, <1>3, <1>4 DEF InsertObservation
<1>7. EnrichOK(x, evidence', ruling')
  BY <1>2, <1>3, <1>5, <1>6 DEF EnrichOK
<1>8. EnrichInv'
  BY <1>6, <1>7, FollowsSelf, EnrichStep DEF PrintInv
<1>9. PICK rows : rows = <<0>> \o observations[m]
  OBVIOUS
<1>10. rows \in Seq(Nat) /\ Len(rows) = Len(observations[m]) + 1
  BY <1>9 DEF PrintInv, ObservationInv
<1>11. Cardinality(Trimming(m)') = Cardinality(Trimming(m)) + 1
  <2>1. \A q \in Enricher : enrich'[q] = IF q = p THEN x ELSE enrich[q]
    BY <1>6 DEF PrintInv, EnrichInv
  <2>2. Trimming(m)' = Trimming(m) \cup {p} /\ p \notin Trimming(m)
    BY <1>1, <1>2, <1>5, <2>1 DEF Trimming
  <2>3. IsFiniteSet(Trimming(m))
    BY ScansCounted DEF Trimming
  <2>4. QED
    BY <2>2, <2>3, FS_AddElement
<1>12. \A n \in Held \ {m} : Trimming(n)' = Trimming(n)
  BY <1>1, <1>2, <1>5, <1>6, TrimmingOthers DEF PrintInv
<1>13. Cardinality(Trimming(m)) \in Nat
  BY ScansCounted DEF Trimming
<1>14. observations' = [observations EXCEPT ![m] = rows]
  BY <1>6, <1>9
<1>15. ObservationInv'
  <2>1. observations' = [n \in Held |-> observations'[n]] /\ observations'[m] = rows
        /\ \A n \in Held \ {m} : observations'[n] = observations[n]
    BY <1>14 DEF PrintInv, ObservationInv
  <2>2. Len(rows) <= MaxFingerprintObservations + Cardinality(Trimming(m)') + untrimmed'[m]
    <3>1. PICK t \in Nat, u \in Nat, k \in Nat :
             t = Cardinality(Trimming(m)) /\ u = untrimmed[m] /\ k = Len(observations[m])
      BY <1>13 DEF PrintInv, ObservationInv
    <3>2. k <= MaxFingerprintObservations + t + u
      BY <3>1 DEF PrintInv, ObservationInv
    <3>3. k + 1 <= MaxFingerprintObservations + (t + 1) + u
      BY <3>2, FingerprintAssumption
    <3>4. QED
      BY <1>6, <1>10, <1>11, <3>1, <3>3
  <2>3. QED
    BY <1>6, <1>10, <1>12, <2>1, <2>2 DEF PrintInv, ObservationInv
<1>16. QED
  BY <1>6, <1>8, <1>15 DEF PrintInv, EvidenceInv, RowsInv, RulingInv

LEMMA TrimObservationsInv ==
    ASSUME PrintInv, NEW p \in Enricher, TrimObservations(p)
    PROVE  PrintInv'
<1>1. PICK m : m = enrich[p].method
  OBVIOUS
<1>2. m \in Held /\ enrich[p].pc = "trim"
  BY <1>1 DEF TrimObservations, PrintInv, EnrichInv, EnrichOK
<1>3. UNCHANGED <<prints, ruling, evidence>> /\ enrich' = [enrich EXCEPT ![p] = Resting]
      /\ observations' = [observations EXCEPT ![m] = Latest(observations[m])]
      /\ untrimmed' = [untrimmed EXCEPT ![m] = 0]
  BY <1>1 DEF TrimObservations
<1>4. EnrichInv'
  BY <1>3, FollowsSelf, RestingOK, EnrichStep DEF PrintInv
<1>5. PICK kept : kept = Latest(observations[m])
  OBVIOUS
<1>6. kept \in Seq(Nat) /\ Len(kept) <= MaxFingerprintObservations
  BY <1>2, <1>5, LatestBounded DEF PrintInv, ObservationInv
<1>7. \A n \in Held \ {m} : Trimming(n)' = Trimming(n)
  <2>1. Resting.pc = "idle"
    BY DEF Resting
  <2>2. QED
    BY <1>1, <1>3, <2>1, TrimmingOthers DEF PrintInv
<1>8. Cardinality(Trimming(m)') \in Nat
  BY ScansCounted DEF Trimming
<1>9. ObservationInv'
  <2>1. observations' = [observations EXCEPT ![m] = kept]
    BY <1>3, <1>5
  <2>2. /\ observations' = [n \in Held |-> observations'[n]] /\ observations'[m] = kept
        /\ untrimmed' \in [Held -> Nat] /\ untrimmed'[m] = 0
        /\ \A n \in Held \ {m} : observations'[n] = observations[n] /\ untrimmed'[n] = untrimmed[n]
    BY <1>2, <1>3, <2>1 DEF PrintInv, ObservationInv
  <2>3. Len(kept) <= MaxFingerprintObservations + Cardinality(Trimming(m)') + untrimmed'[m]
    BY <1>6, <1>8, <2>2, FingerprintAssumption
  <2>4. QED
    BY <1>6, <1>7, <2>2, <2>3 DEF PrintInv, ObservationInv
<1>10. QED
  BY <1>3, <1>4, <1>9 DEF PrintInv, EvidenceInv, RowsInv, RulingInv

LEMMA AbortEnrichInv ==
    ASSUME PrintInv, NEW p \in Enricher, AbortEnrich(p)
    PROVE  PrintInv'
<1>1. UNCHANGED <<prints, observations, ruling, evidence>> /\ enrich' = [enrich EXCEPT ![p] = Resting]
  BY DEF AbortEnrich
<1>2. EnrichInv'
  BY <1>1, FollowsSelf, RestingOK, EnrichStep DEF PrintInv
<1>3. Resting.pc = "idle"
  BY DEF Resting
<1>4. ObservationInv'
  <2>1. CASE enrich[p].pc # "trim"
    BY <1>1, <1>3, <2>1, ObservationsKept DEF AbortEnrich
  <2>2. CASE enrich[p].pc = "trim"
    <3>1. PICK m \in Held : m = enrich[p].method
      BY <2>2 DEF PrintInv, EnrichInv, EnrichOK
    <3>2. untrimmed' = [untrimmed EXCEPT ![m] = untrimmed[m] + 1]
      BY <2>2, <3>1 DEF AbortEnrich
    <3>3. untrimmed' \in [Held -> Nat] /\ untrimmed'[m] = untrimmed[m] + 1
          /\ \A n \in Held \ {m} : untrimmed'[n] = untrimmed[n]
      BY <3>2 DEF PrintInv, ObservationInv
    <3>4. \A n \in Held \ {m} : Trimming(n)' = Trimming(n)
      BY <1>1, <1>3, <3>1, TrimmingOthers DEF PrintInv
    <3>5. Trimming(m)' = Trimming(m) \ {p} /\ p \in Trimming(m)
      <4>1. \A q \in Enricher : enrich'[q] = IF q = p THEN Resting ELSE enrich[q]
        BY <1>1 DEF PrintInv, EnrichInv
      <4>2. QED
        BY <1>3, <2>2, <3>1, <4>1 DEF Trimming
    <3>6. Cardinality(Trimming(m)) \in Nat /\ Cardinality(Trimming(m)') = Cardinality(Trimming(m)) - 1
      <4>1. IsFiniteSet(Trimming(m)) /\ Cardinality(Trimming(m)) \in Nat
        BY ScansCounted DEF Trimming
      <4>2. QED
        BY <3>5, <4>1, FS_RemoveElement
    <3>7. Len(observations'[m]) <= MaxFingerprintObservations + Cardinality(Trimming(m)') + untrimmed'[m]
      <4>1. PICK t \in Nat, u \in Nat, k \in Nat :
               t = Cardinality(Trimming(m)) /\ u = untrimmed[m] /\ k = Len(observations[m])
        BY <3>6 DEF PrintInv, ObservationInv
      <4>2. k <= MaxFingerprintObservations + t + u
        BY <4>1 DEF PrintInv, ObservationInv
      <4>3. k <= MaxFingerprintObservations + (t - 1) + (u + 1)
        BY <4>2, FingerprintAssumption
      <4>4. QED
        BY <1>1, <3>3, <3>6, <4>1, <4>3
    <3>8. QED
      BY <1>1, <3>3, <3>4, <3>7 DEF PrintInv, ObservationInv
  <2>3. QED
    BY <2>1, <2>2
<1>5. QED
  BY <1>1, <1>2, <1>4 DEF PrintInv, EvidenceInv, RowsInv, RulingInv

LEMMA SetVerdictInv ==
    ASSUME PrintInv, NEW m \in Held, NEW v \in Verdict, SetVerdict(m, v)
    PROVE  PrintInv'
<1>1. m \in DOMAIN prints /\ UNCHANGED <<observations, enrich, untrimmed>>
      /\ ruling' = [ruling EXCEPT ![m] = IF BeingMerged(m) THEN "" ELSE v]
      /\ evidence' = [evidence EXCEPT ![m] =
            Observed(evidence[m].seen, evidence[m].ips, evidence[m].malicious \/ v = "malicious")]
  BY DEF SetVerdict
<1>2. PICK old : old = prints[m]
  OBVIOUS
<1>3. RowOK(old) /\ Accounts(evidence[m], old) /\ EvidenceOK(evidence[m])
  BY <1>1, <1>2 DEF PrintInv, RowsInv, EvidenceInv
<1>4. PICK row : row = Ruled(old, v)
  OBVIOUS
<1>5. row.seen = old.seen /\ row.ips = old.ips /\ row.score = old.score /\ row.verdict = v
  BY <1>4, RowFields DEF Ruled
<1>6. RowOK(row)
  BY <1>3, <1>5 DEF RowOK
<1>7. PICK d : d = Observed(evidence[m].seen, evidence[m].ips, evidence[m].malicious \/ v = "malicious")
  OBVIOUS
<1>8. d.seen = evidence[m].seen /\ d.ips = evidence[m].ips
  BY <1>7, ObservedFields
<1>9. (evidence[m].malicious => d.malicious) /\ (v = "malicious" => d.malicious)
  <2>1. PICK b : b = (evidence[m].malicious \/ v = "malicious")
    OBVIOUS
  <2>2. d.malicious = b
    BY <1>7, <2>1, ObservedFields
  <2>3. QED
    BY <2>1, <2>2, Zenon
<1>10. EvidenceOK(d) /\ Follows(evidence[m], d)
  <2>1. EvidenceOK(d) /\ evidence[m].seen <= d.seen /\ evidence[m].ips \subseteq d.ips
    BY <1>3, <1>8 DEF EvidenceOK
  <2>2. QED
    BY <1>9, <2>1, Zenon DEF Follows
<1>11. Accounts(d, row)
  <2>1. row.seen <= d.seen /\ row.ips \subseteq d.ips
    BY <1>3, <1>5, <1>8 DEF Accounts
  <2>2. QED
    BY <1>5, <1>9, <2>1, Zenon DEF Accounts
<1>12. evidence' = [n \in Held |-> evidence'[n]] /\ \A n \in Held : evidence'[n] = IF n = m THEN d ELSE evidence[n]
  BY <1>1, <1>7 DEF PrintInv, EvidenceInv
<1>13. EvidenceInv' /\ \A n \in Held : /\ EvidenceOK(evidence[n]) /\ EvidenceOK(evidence'[n])
                                      /\ Follows(evidence[n], evidence'[n])
  BY <1>3, <1>10, <1>12, FollowsSelf DEF PrintInv, EvidenceInv
<1>14. DOMAIN prints' = DOMAIN prints \cup {m} /\ prints'[m] = row
       /\ \A n \in DOMAIN prints \ {m} : prints'[n] = prints[n]
  <2>1. prints' = Put(m, row)
    BY <1>2, <1>4 DEF SetVerdict
  <2>2. QED
    BY <2>1 DEF Put
<1>15. RowsInv'
  <2>1. \A n \in DOMAIN prints : n \in Held /\ RowOK(prints[n]) /\ Accounts(evidence'[n], prints[n])
    BY <1>13, RowsKept DEF PrintInv
  <2>2. QED
    BY <1>6, <1>11, <1>12, <1>14, <2>1 DEF RowsInv
<1>16. PICK r : r = IF BeingMerged(m) THEN "" ELSE v
  OBVIOUS
<1>17. r \in Verdict \cup {""} /\ (r # "" => r = v) /\ (BeingMerged(m) => r = "")
  BY <1>16
<1>18. ruling' \in [Held -> Verdict \cup {""}] /\ \A n \in Held : ruling'[n] = IF n = m THEN r ELSE ruling[n]
  BY <1>1, <1>16, <1>17 DEF PrintInv, RulingInv
<1>19. RulingInv'
  BY <1>1, <1>5, <1>14, <1>17, <1>18 DEF PrintInv, RulingInv
<1>20. EnrichInv'
  <2>1. ASSUME NEW q \in Enricher
        PROVE  EnrichOK(enrich[q], evidence', ruling')
    <3>1. EnrichOK(enrich[q], evidence, ruling)
      BY DEF PrintInv, EnrichInv
    <3>2. \A n \in Held : ruling'[n] = ruling[n] \/ ruling'[n] = "" \/ ~(enrich[q].pc = "save" /\ enrich[q].method = n)
      BY <1>17, <1>18 DEF BeingMerged
    <3>3. QED
      BY <1>13, <3>1, <3>2, EnrichKept
  <2>2. QED
    BY <1>1, <2>1 DEF PrintInv, EnrichInv
<1>21. ObservationInv'
  BY <1>1 DEF PrintInv, ObservationInv, Trimming
<1>22. QED
  BY <1>13, <1>15, <1>19, <1>20, <1>21 DEF PrintInv

\* Rulings that are only withdrawn, and evidence that stays, leave the scans as they are.
LEMMA EnrichAsBefore ==
    ASSUME PrintInv, UNCHANGED <<enrich, evidence>>, \A m \in Held : ruling'[m] = ruling[m] \/ ruling'[m] = ""
    PROVE  EnrichInv'
<1>1. ASSUME NEW q \in Enricher
      PROVE  EnrichOK(enrich[q], evidence', ruling')
  <2>1. EnrichOK(enrich[q], evidence, ruling)
    BY DEF PrintInv, EnrichInv
  <2>2. QED
    BY <2>1, FollowsSelf, EnrichKept DEF PrintInv
<1>2. QED
  BY <1>1 DEF PrintInv, EnrichInv

LEMMA PruneInv ==
    ASSUME PrintInv, PruneFingerprints
    PROVE  PrintInv'
<1>1. UNCHANGED <<observations, enrich, evidence, untrimmed>> /\ prints' = Keep({m \in DOMAIN prints : ~Expired(m)})
  BY DEF PruneFingerprints
<1>2. DOMAIN prints' = {m \in DOMAIN prints : ~Expired(m)} /\ \A m \in DOMAIN prints' : prints'[m] = prints[m]
  BY <1>1 DEF Keep
<1>3. RowsInv'
  BY <1>1, <1>2 DEF PrintInv, RowsInv
<1>4. PICK S : S = {m \in Held : m \in DOMAIN prints =>
                       ~(prints[m].age > FingerprintRetention /\ ruling[m] # "malicious")}
  OBVIOUS
<1>5. ruling' = [m \in Held |-> IF m \in S THEN ruling[m] ELSE ""]
  BY <1>4 DEF PruneFingerprints, Rulings
<1>6. ruling' \in [Held -> Verdict \cup {""}]
  BY <1>5 DEF PrintInv, RulingInv
<1>7. ASSUME NEW m \in Held, ruling'[m] # ""
      PROVE  m \in DOMAIN prints' /\ prints'[m].verdict = ruling'[m]
  <2>1. m \in S /\ ruling'[m] = ruling[m]
    BY <1>5, <1>7
  <2>2. m \in DOMAIN prints /\ prints[m].verdict = ruling[m]
    BY <1>7, <2>1 DEF PrintInv, RulingInv
  <2>3. ~Expired(m)
    BY <1>4, <2>1, <2>2 DEF Expired
  <2>4. QED
    BY <1>2, <2>1, <2>2, <2>3
<1>8. RulingInv'
  BY <1>6, <1>7 DEF RulingInv
<1>9. EnrichInv'
  BY <1>1, <1>5, EnrichAsBefore
<1>10. ObservationInv'
  BY <1>1 DEF PrintInv, ObservationInv, Trimming
<1>11. QED
  BY <1>1, <1>3, <1>8, <1>9, <1>10 DEF PrintInv, EvidenceInv

\* What leaves the observations alone or takes some, and nothing else.
LEMMA ObservationsOnly ==
    ASSUME PrintInv, UNCHANGED <<prints, enrich, ruling, evidence>>, ObservationInv'
    PROVE  PrintInv'
  BY DEF PrintInv, RowsInv, EvidenceInv, EnrichInv, RulingInv

LEMMA PruneObservationsInv ==
    ASSUME PrintInv, PruneObservations
    PROVE  PrintInv'
<1>1. observations' = [m \in Held |-> SubSeq(observations[m], 1, Cardinality(Recent(observations[m])))]
      /\ UNCHANGED <<prints, enrich, ruling, evidence, untrimmed>>
  BY DEF PruneObservations
<1>2. ASSUME NEW m \in Held
      PROVE  observations'[m] \in Seq(Nat) /\ Len(observations'[m]) <= Len(observations[m])
  <2>1. PICK rows : rows = observations[m]
    OBVIOUS
  <2>2. rows \in Seq(Nat) /\ Len(rows) \in Nat
    BY <2>1 DEF PrintInv, ObservationInv
  <2>3. Cardinality(1 .. Len(rows)) = Len(rows) /\ IsFiniteSet(1 .. Len(rows))
    <3>1. PICK n \in Nat : n = Len(rows)
      BY <2>2
    <3>2. IsFiniteSet(1 .. n) /\ Cardinality(1 .. n) = IF 1 > n THEN 0 ELSE n - 1 + 1
      BY FS_Interval
    <3>3. QED
      BY <3>1, <3>2
  <2>4. Recent(rows) \subseteq 1 .. Len(rows)
    BY <2>2 DEF Recent
  <2>5. Cardinality(Recent(rows)) \in Nat /\ Cardinality(Recent(rows)) <= Len(rows)
    BY <2>3, <2>4, FS_Subset, FS_CardinalityType
  <2>6. PICK n \in Nat : n = Cardinality(Recent(rows)) /\ n <= Len(rows)
    BY <2>5
  <2>7. SubSeq(rows, 1, n) \in Seq(Nat) /\ Len(SubSeq(rows, 1, n)) = n
    BY <2>2, <2>6, PrefixFacts
  <2>8. observations'[m] = SubSeq(rows, 1, n)
    BY <1>1, <2>1, <2>6
  <2>9. QED
    BY <2>1, <2>6, <2>7, <2>8
<1>3. ObservationInv'
  BY <1>1, <1>2, ObservationsGo
<1>4. QED
  BY <1>1, <1>3, ObservationsOnly

\* The size limit takes a row and the ruling on it.
LEMMA ShrinkInv ==
    ASSUME PrintInv, ShrinkFingerprints
    PROVE  PrintInv'
<1>1. PICK m \in DOMAIN prints : prints' = Keep(DOMAIN prints \ {m}) /\ ruling' = Rulings(Held \ {m})
  BY DEF ShrinkFingerprints
<1>2. UNCHANGED <<observations, enrich, evidence, untrimmed>>
  BY DEF ShrinkFingerprints
<1>3. DOMAIN prints' = DOMAIN prints \ {m} /\ \A n \in DOMAIN prints' : prints'[n] = prints[n]
  BY <1>1 DEF Keep
<1>4. ruling' = [n \in Held |-> IF n \in Held \ {m} THEN ruling[n] ELSE ""]
  BY <1>1 DEF Rulings
<1>5. RowsInv'
  BY <1>2, <1>3 DEF PrintInv, RowsInv
<1>6. RulingInv'
  <2>1. ruling' \in [Held -> Verdict \cup {""}]
    BY <1>4 DEF PrintInv, RulingInv
  <2>2. ASSUME NEW n \in Held, ruling'[n] # ""
        PROVE  n \in DOMAIN prints' /\ prints'[n].verdict = ruling'[n]
    <3>1. n # m /\ ruling'[n] = ruling[n]
      BY <1>4, <2>2
    <3>2. n \in DOMAIN prints /\ prints[n].verdict = ruling[n]
      BY <2>2, <3>1 DEF PrintInv, RulingInv
    <3>3. QED
      BY <1>3, <3>1, <3>2
  <2>3. QED
    BY <2>1, <2>2 DEF RulingInv
<1>7. EnrichInv'
  BY <1>2, <1>4, EnrichAsBefore
<1>8. ObservationInv'
  BY <1>2 DEF PrintInv, ObservationInv, Trimming
<1>9. QED
  BY <1>2, <1>5, <1>6, <1>7, <1>8 DEF PrintInv, EvidenceInv

LEMMA ShrinkObservationsInv ==
    ASSUME PrintInv, ShrinkObservations
    PROVE  PrintInv'
<1>1. PICK m \in Held : observations[m] # << >>
                        /\ observations' = [observations EXCEPT ![m] = SubSeq(observations[m], 1, Len(observations[m]) - 1)]
  BY Zenon DEF ShrinkObservations
<1>2. UNCHANGED <<prints, enrich, ruling, evidence, untrimmed>>
  BY DEF ShrinkObservations
<1>3. PICK rows \in Seq(Nat) : rows = observations[m] /\ rows # << >>
  BY <1>1 DEF PrintInv, ObservationInv
<1>4. PICK n \in Nat : n = Len(rows) - 1 /\ n <= Len(rows)
  <2>1. PICK l \in Nat \ {0} : l = Len(rows)
    BY <1>3, EmptySeq, Zenon
  <2>2. l - 1 \in Nat /\ l - 1 <= l
    OBVIOUS
  <2>3. QED
    BY <2>1, <2>2
<1>5. PICK kept : kept = SubSeq(rows, 1, n)
  OBVIOUS
<1>6. kept \in Seq(Nat) /\ Len(kept) = n
  BY <1>3, <1>4, <1>5, PrefixFacts
<1>7. observations' = [observations EXCEPT ![m] = kept]
  BY <1>1, <1>3, <1>4, <1>5
<1>8. observations' = [o \in Held |-> observations'[o]] /\ observations'[m] = kept
      /\ \A o \in Held \ {m} : observations'[o] = observations[o]
  BY <1>7 DEF PrintInv, ObservationInv
<1>9. \A o \in Held : observations'[o] \in Seq(Nat) /\ Len(observations'[o]) <= Len(observations[o])
  <2>1. \A o \in Held : observations[o] \in Seq(Nat) /\ Len(observations[o]) <= Len(observations[o])
    BY DEF PrintInv, ObservationInv
  <2>2. Len(kept) <= Len(observations[m])
    BY <1>3, <1>4, <1>6
  <2>3. QED
    BY <1>6, <1>8, <2>1, <2>2
<1>10. ObservationInv'
  BY <1>2, <1>8, <1>9, ObservationsGo
<1>11. QED
  BY <1>2, <1>10, ObservationsOnly

LEMMA NoRows == DOMAIN << >> = {}
<1>1. << >> \in Seq(Nat) /\ Len(<< >>) = 0
  BY EmptySeq
<1>2. DOMAIN << >> = 1 .. 0
  BY <1>1
<1>3. QED
  BY <1>2

LEMMA ClearInv ==
    ASSUME PrintInv, ClearFingerprints
    PROVE  PrintInv'
<1>1. UNCHANGED <<observations, enrich, evidence, untrimmed>> /\ prints' = << >> /\ ruling' = [m \in Held |-> ""]
  BY DEF ClearFingerprints
<1>2. DOMAIN prints' = {}
  BY <1>1, NoRows
<1>3. EnrichInv'
  BY <1>1, EnrichAsBefore
<1>4. RowsInv' /\ RulingInv' /\ EvidenceInv'
  BY <1>1, <1>2 DEF PrintInv, RowsInv, RulingInv, EvidenceInv
<1>5. ObservationInv'
  BY <1>1 DEF PrintInv, ObservationInv, Trimming
<1>6. QED
  BY <1>3, <1>4, <1>5 DEF PrintInv

LEMMA ClearObservationsInv ==
    ASSUME PrintInv, ClearObservations
    PROVE  PrintInv'
<1>1. UNCHANGED <<prints, enrich, ruling, evidence, untrimmed>> /\ observations' = [m \in Held |-> << >>]
  BY DEF ClearObservations
<1>2. PICK none : none = << >>
  OBVIOUS
<1>3. none \in Seq(Nat) /\ Len(none) = 0
  BY <1>2, EmptySeq
<1>4. observations' = [m \in Held |-> none]
  BY <1>1, <1>2
<1>5. \A m \in Held : observations[m] \in Seq(Nat)
  BY DEF PrintInv, ObservationInv
<1>6. \A m \in Held : observations'[m] \in Seq(Nat) /\ Len(observations'[m]) <= Len(observations[m])
  BY <1>3, <1>4, <1>5
<1>7. ObservationInv'
  BY <1>1, <1>4, <1>6, ObservationsGo
<1>8. QED
  BY <1>1, <1>7, ObservationsOnly

LEMMA AgeInv ==
    ASSUME PrintInv, AgeFingerprints
    PROVE  PrintInv'
<1>1. UNCHANGED <<enrich, ruling, evidence, untrimmed>> /\ prints' = [m \in DOMAIN prints |-> AgedRow(prints[m])]
      /\ observations' = [m \in Held |-> [i \in DOMAIN observations[m] |-> Aged(observations[m][i])]]
  BY DEF AgeFingerprints
<1>2. ASSUME NEW fp
      PROVE  /\ AgedRow(fp).seen = fp.seen /\ AgedRow(fp).ips = fp.ips /\ AgedRow(fp).score = fp.score
             /\ AgedRow(fp).verdict = fp.verdict
  BY RowFields DEF AgedRow
<1>3. ASSUME NEW m \in DOMAIN prints
      PROVE  RowOK(prints'[m]) /\ Accounts(evidence[m], prints'[m]) /\ prints'[m].verdict = prints[m].verdict
  <2>1. PICK fp : fp = prints[m]
    OBVIOUS
  <2>2. PICK aged : aged = AgedRow(fp)
    OBVIOUS
  <2>3. aged.seen = fp.seen /\ aged.ips = fp.ips /\ aged.score = fp.score /\ aged.verdict = fp.verdict
    BY <1>2, <2>2
  <2>4. RowOK(fp) /\ Accounts(evidence[m], fp)
    BY <2>1 DEF PrintInv, RowsInv
  <2>5. RowOK(aged) /\ Accounts(evidence[m], aged)
    BY <2>3, <2>4 DEF RowOK, Accounts
  <2>6. QED
    BY <1>1, <2>1, <2>2, <2>3, <2>5
<1>4. DOMAIN prints' = DOMAIN prints
  BY <1>1
<1>5. RowsInv' /\ RulingInv'
  BY <1>1, <1>3, <1>4 DEF PrintInv, RowsInv, RulingInv
<1>6. EnrichInv'
  BY <1>1, EnrichAsBefore
<1>7. ASSUME NEW age \in Nat
      PROVE  Aged(age) \in Nat
  <2>1. PICK a \in Int : a = age + 1 /\ a >= 0
    OBVIOUS
  <2>2. PICK b \in Int : b = FingerprintRetention + 1 /\ b >= 0
    BY FingerprintAssumption
  <2>3. Min({a, b}) = IF a <= b THEN a ELSE b
    BY LeastOfTwo
  <2>4. QED
    BY <2>1, <2>2, <2>3 DEF Aged
<1>8. ASSUME NEW m \in Held
      PROVE  observations'[m] \in Seq(Nat) /\ Len(observations'[m]) <= Len(observations[m])
  <2>1. PICK rows : rows = observations[m]
    OBVIOUS
  <2>2. rows \in Seq(Nat)
    BY <2>1 DEF PrintInv, ObservationInv
  <2>3. PICK aged : aged = [i \in 1 .. Len(rows) |-> Aged(rows[i])]
    OBVIOUS
  <2>4. observations'[m] = aged
    BY <1>1, <2>1, <2>2, <2>3
  <2>5. aged \in Seq(Nat) /\ Len(aged) = Len(rows)
    <3>1. PICK n \in Nat : n = Len(rows)
      BY <2>2
    <3>2. \A i \in 1 .. n : rows[i] \in Nat
      BY <2>2, <3>1
    <3>3. aged \in [1 .. n -> Nat]
      BY <1>7, <2>3, <3>1, <3>2
    <3>4. QED
      BY <3>1, <3>3
  <2>6. QED
    BY <2>1, <2>2, <2>4, <2>5
<1>9. ObservationInv'
  BY <1>1, <1>8, ObservationsGo
<1>10. QED
  BY <1>1, <1>5, <1>6, <1>9 DEF PrintInv, EvidenceInv

LEMMA PrintInitInv ==
    ASSUME FingerprintInit
    PROVE  PrintInv
<1>1. DOMAIN prints = {}
  BY NoRows DEF FingerprintInit
<1>2. NoEvidence.seen = 0 /\ NoEvidence.ips = {}
  BY DEF NoEvidence, Observed
<1>3. EvidenceOK(NoEvidence)
  BY <1>2, FS_EmptySet DEF EvidenceOK
<1>4. EvidenceInv /\ RowsInv /\ RulingInv
  BY <1>1, <1>3 DEF FingerprintInit, EvidenceInv, RowsInv, RulingInv
<1>5. EnrichInv
  BY RestingOK DEF FingerprintInit, EnrichInv
<1>6. ObservationInv
  <2>1. PICK none : none = << >>
    OBVIOUS
  <2>2. none \in Seq(Nat) /\ Len(none) = 0
    BY <2>1, EmptySeq
  <2>3. observations = [m \in Held |-> none] /\ untrimmed = [m \in Held |-> 0]
    BY <2>1 DEF FingerprintInit
  <2>4. \A m : Cardinality(Trimming(m)) \in Nat
    BY ScansCounted DEF Trimming
  <2>5. QED
    BY <2>2, <2>3, <2>4, FingerprintAssumption DEF ObservationInv
<1>7. QED
  BY <1>4, <1>5, <1>6 DEF PrintInv

LEMMA PrintStep ==
    ASSUME PrintInv, [FingerprintNext]_printVars
    PROVE  PrintInv'
<1>1. CASE UNCHANGED printVars
  BY <1>1 DEF printVars, PrintInv, RowsInv, EvidenceInv, EnrichInv, RulingInv, ObservationInv, Trimming
<1>2. CASE FingerprintNext
  BY <1>2, EnrichFindingsInv, SaveFingerprintInv, InsertObservationInv, TrimObservationsInv, AbortEnrichInv,
     SetVerdictInv, PruneInv, PruneObservationsInv, ShrinkInv, ShrinkObservationsInv, ClearInv,
     ClearObservationsInv, AgeInv
  DEF FingerprintNext
<1>3. QED
  BY <1>1, <1>2

\* attack_fingerprint.rs and the fingerprint tables: what was observed and what the
\* operator said accounts for every row that is stored or about to be, every ruling that
\* neither a clear nor the size limit has taken has its row, and observations exceed
\* their limit only by scans between INSERT and DELETE or ended there.
THEOREM FingerprintsAccounted == FingerprintSpec => []PrintInv
<1>1. FingerprintInit => PrintInv
  BY PrintInitInv
<1>2. PrintInv /\ [FingerprintNext]_printVars => PrintInv'
  BY PrintStep
<1>3. QED
  BY <1>1, <1>2, PTL DEF FingerprintSpec

\* save_attack_fingerprint, set_attack_fingerprint_verdict, prune_attack_fingerprints:
\* however many processes read, merge and write rows beside the operator's verdicts,
\* retention and the size limit, rows stay within their bounds, a ruling made while no
\* scan held the row stays as long as the row does, which a malicious one does until a
\* clear or the size limit takes it, and the DELETE after an observation restores its limit.
THEOREM PrintsAlwaysSound == FingerprintSpec => []PrintsSound
<1>1. PrintInv => PrintsSound
  <2>1. SUFFICES ASSUME PrintInv PROVE PrintsSound
    OBVIOUS
  <2>2. \A m \in DOMAIN prints : Cardinality(prints[m].ips) \in Nat
    BY <2>1, FS_CardinalityType DEF PrintInv, RowsInv, RowOK
  <2>3. FingerprintTypeOK
    BY <2>1, <2>2 DEF PrintInv, RowsInv, RowOK, RulingInv, ObservationInv, FingerprintTypeOK
  <2>4. VerdictKept
    BY <2>1 DEF PrintInv, RulingInv, VerdictKept
  <2>5. ObservationsTrimmed
    BY <2>1 DEF PrintInv, ObservationInv, ObservationsTrimmed
  <2>6. QED
    BY <2>3, <2>4, <2>5 DEF PrintsSound
<1>2. QED
  BY <1>1, FingerprintsAccounted, PTL

\* should_hint_active_response: a hint to block is given only for a method that was
\* observed often enough from enough sources, or that the operator called malicious.
THEOREM HintsAlwaysEarned == FingerprintSpec => []HintEarned
<1>1. PrintInv => HintEarned
  BY DEF PrintInv, EnrichInv, EnrichOK, HintEarned, Earns
<1>2. QED
  BY <1>1, FingerprintsAccounted, PTL

LEMMA BenignStep ==
    ASSUME PrintInv, [FingerprintNext]_printVars, NEW p \in Enricher, enrich'[p].hint, ~enrich[p].hint
    PROVE  ruling[enrich'[p].exact] # "benign"
<1>1. ASSUME NEW q \in Enricher, NEW x, enrich' = [enrich EXCEPT ![q] = x], x.hint => enrich[q].hint
      PROVE  FALSE
  <2>1. enrich'[p] = IF p = q THEN x ELSE enrich[p]
    BY <1>1 DEF PrintInv, EnrichInv
  <2>2. QED
    BY <1>1, <2>1
<1>2. enrich' # enrich
  OBVIOUS
<1>3. ~\E q \in Enricher : SaveFingerprint(q) \/ InsertObservation(q)
  <2>1. SUFFICES ASSUME NEW q \in Enricher, SaveFingerprint(q) \/ InsertObservation(q) PROVE FALSE
    OBVIOUS
  <2>2. PICK pc : enrich' = [enrich EXCEPT ![q] =
                    EnrichLocals(pc, enrich[q].method, enrich[q].exact, enrich[q].row, enrich[q].hint)]
    BY <2>1 DEF SaveFingerprint, InsertObservation
  <2>3. PICK x : enrich' = [enrich EXCEPT ![q] = x] /\ x.hint = enrich[q].hint
    BY <2>2, EnrichFields
  <2>4. QED
    BY <1>1, <2>3
<1>4. ~\E q \in Enricher : TrimObservations(q) \/ AbortEnrich(q)
  <2>1. SUFFICES ASSUME NEW q \in Enricher, TrimObservations(q) \/ AbortEnrich(q) PROVE FALSE
    OBVIOUS
  <2>2. enrich' = [enrich EXCEPT ![q] = Resting]
    BY <2>1 DEF TrimObservations, AbortEnrich
  <2>3. Resting.hint = FALSE
    BY DEF Resting
  <2>4. QED
    BY <1>1, <2>2, <2>3
<1>5. PICK q \in Enricher, f \in AttackFindings : EnrichFindings(q, f)
  BY <1>2, <1>3, <1>4 DEF FingerprintNext, printVars, SetVerdict, PruneObservations, PruneFingerprints,
     ShrinkObservations, ShrinkFingerprints, ClearObservations, ClearFingerprints, AgeFingerprints
<1>6. PICK m \in Matches(f) :
        enrich' = [enrich EXCEPT ![q] =
              EnrichLocals("save", m, Method(f),
                 MergeFingerprint(f, IF m \in DOMAIN prints THEN prints[m] ELSE NewFingerprint(f)),
                 ShouldHint(f, MergeFingerprint(f, IF m \in DOMAIN prints THEN prints[m] ELSE NewFingerprint(f))))]
  BY <1>5 DEF EnrichFindings
<1>7. PICK old : old = IF m \in DOMAIN prints THEN prints[m] ELSE NewFingerprint(f)
  OBVIOUS
<1>8. PICK fp : fp = MergeFingerprint(f, old)
  OBVIOUS
<1>9. PICK x : x = EnrichLocals("save", m, Method(f), fp, ShouldHint(f, fp))
  OBVIOUS
<1>10. x.exact = Method(f) /\ x.hint = ShouldHint(f, fp)
  BY <1>9, EnrichFields
<1>11. enrich' = [enrich EXCEPT ![q] = x]
  BY <1>6, <1>7, <1>8, <1>9
<1>12. enrich'[p] = IF p = q THEN x ELSE enrich[p]
  BY <1>11 DEF PrintInv, EnrichInv
<1>13. enrich'[p] = x
  BY <1>12
<1>14. ShouldHint(f, fp)
  BY <1>10, <1>13
<1>15. SUFFICES ASSUME ruling[Method(f)] = "benign" PROVE FALSE
  BY <1>10, <1>13
<1>16. Method(f) \in Held
  BY <1>5 DEF EnrichFindings, Held
<1>17. Method(f) \in DOMAIN prints /\ prints[Method(f)].verdict = "benign"
  BY <1>15, <1>16 DEF PrintInv, RulingInv
<1>18. m = Method(f)
  BY <1>6, <1>17 DEF Matches
<1>19. RowOK(old) /\ old.verdict = "benign"
  BY <1>7, <1>17, <1>18 DEF PrintInv, RowsInv
<1>20. fp.verdict = "benign"
  BY <1>8, <1>19, MergedRow
<1>21. QED
  BY <1>14, <1>20 DEF ShouldHint

\* match_fingerprint: no scan asks to block for a method the operator ruled benign,
\* whatever similar rows it could have matched.
THEOREM BenignIsNeverHinted == FingerprintSpec => BenignNeverHinted
<1>1. PrintInv /\ [FingerprintNext]_printVars
         => [\A p \in Enricher : enrich'[p].hint /\ ~enrich[p].hint
                => ruling[enrich'[p].exact] # "benign"]_printVars
  BY BenignStep
<1>2. QED
  BY <1>1, FingerprintsAccounted, PTL DEF FingerprintSpec, BenignNeverHinted

-----------------------------------------------------------------------------
(* The size limit: the inductive invariant.                                 *)

TableOf(i) == Policies[i].table
MinPassOf(i) == Policies[i].min_pass
PolicyCount == 7

\* The locals c of a sweep, for the row counts n, the floors f and the file size s.
SweepOK(c, n, f, s) ==
    /\ c.pass \in Nat /\ c.policy \in 1 .. PolicyCount + 1 /\ c.deleted \in Nat /\ c.batch \in Nat
    /\ c.pc = "delete" =>
          /\ c.policy <= PolicyCount /\ c.batch > 0
          /\ c.overlap \/ c.batch + f[TableOf(c.policy)] <= n[TableOf(c.policy)]
    /\ c.pc \in {"count", "delete"} =>
          \/ c.deleted > 0 \/ c.grown
          \/ \A i \in 1 .. PolicyCount : i < c.policy /\ MinPassOf(i) <= c.pass => n[TableOf(i)] <= KeepRows[TableOf(i)]
    /\ c.pc = "vacuum" =>
          \/ c.deleted > 0 \/ c.grown
          \/ \A i \in 1 .. PolicyCount : MinPassOf(i) <= c.pass => n[TableOf(i)] <= KeepRows[TableOf(i)]
    /\ c.pc = "done" =>
          \/ s <= TargetBytes \/ c.grown \/ c.pass + 1 = MaxPasses
          \/ \A t \in SizeTables : n[t] <= KeepRows[t]

FloorInv ==
    /\ count \in [SizeTables -> Nat] /\ floor \in [SizeTables -> Nat]
    /\ \A t \in SizeTables : floor[t] <= count[t] /\ floor[t] <= KeepRows[t]
SweepInv ==
    pruner = [p \in Pruner |-> pruner[p]] /\ \A p \in Pruner : SweepOK(pruner[p], count, floor, Footprint)
SizeInv == FloorInv /\ SweepInv

LEMMA PolicyFacts ==
    /\ Len(Policies) = PolicyCount /\ DOMAIN Policies = 1 .. PolicyCount
    /\ \A i \in 1 .. PolicyCount : /\ TableOf(i) \in SizeTables /\ Policies[i].divisor \in Nat \ {0, 1}
                            /\ MinPassOf(i) \in Nat
    /\ \A i, j \in 1 .. PolicyCount : TableOf(i) = TableOf(j) => i = j
    /\ \A t \in SizeTables : \E i \in 1 .. PolicyCount : TableOf(i) = t
<1>1. Len(Policies) = 7
  BY DEF Policies
<1>2. /\ TableOf(1) = "raw_events" /\ TableOf(2) = "notification_logs" /\ TableOf(3) = "scan_runs"
      /\ TableOf(4) = "attack_observations" /\ TableOf(5) = "findings" /\ TableOf(6) = "attack_fingerprints"
      /\ TableOf(7) = "baseline_snapshots"
  BY DEF TableOf, Policies
<1>3. /\ MinPassOf(1) = 0 /\ MinPassOf(2) = 0 /\ MinPassOf(3) = 0 /\ MinPassOf(4) = 0
      /\ MinPassOf(5) = 1 /\ MinPassOf(6) = 2 /\ MinPassOf(7) = 2
  BY DEF MinPassOf, Policies
<1>4. /\ Policies[1].divisor = 4 /\ Policies[2].divisor = 3 /\ Policies[3].divisor = 3 /\ Policies[4].divisor = 3
      /\ Policies[5].divisor = 5 /\ Policies[6].divisor = 5 /\ Policies[7].divisor = 2
  BY DEF Policies
<1>5. \A i \in 1 .. 7 : i \in {1, 2, 3, 4, 5, 6, 7}
  OBVIOUS
<1>6. DOMAIN Policies = 1 .. 7
  BY DEF Policies
<1>7. QED
  BY <1>1, <1>2, <1>3, <1>4, <1>5, <1>6 DEF PolicyCount, SizeTables

LEMMA SurplusFacts ==
    ASSUME FloorInv, NEW t \in SizeTables
    PROVE  /\ Surplus(t) \in Nat /\ (Surplus(t) = 0 <=> count[t] <= KeepRows[t])
           /\ Surplus(t) > 0 => Surplus(t) + KeepRows[t] = count[t]
<1>1. PICK d \in Int : d = count[t] - KeepRows[t]
  BY StorageLimitAssumption DEF FloorInv
<1>2. Max({0, d}) = IF 0 >= d THEN 0 ELSE d
  BY GreatestOfTwo
<1>3. Surplus(t) = Max({0, d})
  BY <1>1 DEF Surplus
<1>4. count[t] \in Nat /\ KeepRows[t] \in Nat
  BY StorageLimitAssumption DEF FloorInv
<1>5. QED
  BY <1>1, <1>2, <1>3, <1>4

\* prune_batch_size: nothing exactly when nothing may go, and never more than may go.
LEMMA BatchFacts ==
    ASSUME FloorInv, NEW i \in 1 .. PolicyCount, NEW size
    PROVE  /\ BatchSize(Policies[i], size) \in Nat
           /\ BatchSize(Policies[i], size) <= Surplus(TableOf(i))
           /\ BatchSize(Policies[i], size) = 0 <=> count[TableOf(i)] <= KeepRows[TableOf(i)]
<1>1. TableOf(i) \in SizeTables /\ Policies[i].divisor \in Nat \ {0, 1}
  BY PolicyFacts
<1>2. PICK n \in Nat : n = Surplus(TableOf(i)) /\ (n = 0 <=> count[TableOf(i)] <= KeepRows[TableOf(i)])
  BY <1>1, SurplusFacts
<1>3. PICK d \in Nat \ {0} : d = PressureAdjustedDivisor(Policies[i].divisor, size)
  <2>1. PICK k \in Nat : k = Policies[i].divisor /\ k > 1
    BY <1>1
  <2>2. Min({k, 2}) = (IF k <= 2 THEN k ELSE 2) /\ Min({k, 3}) = (IF k <= 3 THEN k ELSE 3)
    BY LeastOfTwo
  <2>3. Min({k, 2}) \in Nat \ {0} /\ Min({k, 3}) \in Nat \ {0}
    BY <2>1, <2>2
  <2>4. PressureAdjustedDivisor(k, size) \in {k, Min({k, 2}), Min({k, 3})}
    BY DEF PressureAdjustedDivisor
  <2>5. QED
    BY <2>1, <2>3, <2>4
<1>4. PICK b \in Nat : b = MinBatch /\ b > 0
  BY StorageLimitAssumption
<1>5. PICK q \in Nat : q = n \div d
  OBVIOUS
<1>6. PICK m \in Nat : m = Max({b, q}) /\ m > 0
  <2>1. Max({b, q}) = IF b >= q THEN b ELSE q
    BY GreatestOfTwo
  <2>2. QED
    BY <1>4, <2>1
<1>7. Min({n, m}) = IF n <= m THEN n ELSE m
  BY LeastOfTwo
<1>8. BatchSize(Policies[i], size) = IF n = 0 THEN 0 ELSE Min({n, m})
  BY <1>2, <1>3, <1>4, <1>5, <1>6 DEF BatchSize, TableOf
<1>9. QED
  BY <1>2, <1>6, <1>7, <1>8

LEMMA ProductShrinks ==
    ASSUME NEW a \in Nat, NEW b \in Nat, NEW c \in Nat, a <= b
    PROVE  a * c \in Nat /\ b * c \in Nat /\ a * c <= b * c
<1>1. PICK d \in Nat : b = a + d
  OBVIOUS
<1>2. a * c \in Nat /\ d * c \in Nat /\ (a + d) * c = a * c + d * c
  OBVIOUS
<1>3. QED
  BY <1>1, <1>2

LEMMA FootprintShrinks ==
    ASSUME count \in [SizeTables -> Nat], count' \in [SizeTables -> Nat],
           \A t \in SizeTables : count'[t] <= count[t]
    PROVE  Footprint \in Nat /\ Footprint' \in Nat /\ Footprint' <= Footprint
<1>1. ASSUME NEW t \in SizeTables
      PROVE  Bytes(t) \in Nat /\ Bytes(t)' \in Nat /\ Bytes(t)' <= Bytes(t)
  <2>1. PICK a \in Nat : a = count'[t]
    OBVIOUS
  <2>2. PICK b \in Nat : b = count[t]
    OBVIOUS
  <2>3. PICK c \in Nat : c = RowBytes[t]
    BY StorageLimitAssumption
  <2>4. a * c \in Nat /\ b * c \in Nat /\ a * c <= b * c
    BY <2>1, <2>2, ProductShrinks
  <2>5. QED
    BY <2>1, <2>2, <2>3, <2>4 DEF Bytes
<1>2. FixedBytes \in Nat
  BY StorageLimitAssumption
<1>3. \A t \in {"raw_events", "notification_logs", "scan_runs", "attack_observations", "findings",
                "attack_fingerprints", "baseline_snapshots"} : Bytes(t) \in Nat /\ Bytes(t)' \in Nat /\ Bytes(t)' <= Bytes(t)
  BY <1>1 DEF SizeTables
<1>4. QED
  BY <1>2, <1>3 DEF Footprint

-----------------------------------------------------------------------------
(* The sweeps keep the invariant.                                           *)

LEMMA SweepFields ==
    ASSUME NEW pc, NEW pass, NEW policy, NEW size, NEW batch, NEW deleted, NEW crossed, NEW grown
    PROVE  LET c == Sweep(pc, pass, policy, size, batch, deleted, crossed, grown)
           IN /\ c.pc = pc /\ c.pass = pass /\ c.policy = policy /\ c.size = size /\ c.batch = batch
              /\ c.deleted = deleted /\ c.overlap = crossed /\ c.grown = grown
  BY DEF Sweep

\* Rows that others delete, and floors that sink, take nothing from a sweep but the
\* batch it has counted.
LEMMA SweepKept ==
    ASSUME NEW c, NEW n, NEW m, NEW f, NEW g, NEW s \in Nat, NEW r \in Nat, SweepOK(c, n, f, s), r <= s,
           n \in [SizeTables -> Nat], m \in [SizeTables -> Nat], f \in [SizeTables -> Nat], g \in [SizeTables -> Nat],
           \A t \in SizeTables : m[t] <= n[t] /\ g[t] <= f[t],
           c.pc = "delete" => m[TableOf(c.policy)] = n[TableOf(c.policy)]
    PROVE  SweepOK(c, m, g, r)
<1>1. \A t \in SizeTables : m[t] \in Nat /\ n[t] \in Nat /\ f[t] \in Nat /\ g[t] \in Nat /\ KeepRows[t] \in Nat
  BY StorageLimitAssumption
<1>2. \A t \in SizeTables : n[t] <= KeepRows[t] => m[t] <= KeepRows[t]
  BY <1>1
<1>3. \A i \in 1 .. PolicyCount : TableOf(i) \in SizeTables
  BY PolicyFacts
<1>4. ASSUME c.pc = "delete", ~c.overlap
      PROVE  c.batch + g[TableOf(c.policy)] <= m[TableOf(c.policy)]
  <2>1. c.policy \in 1 .. PolicyCount /\ c.batch \in Nat
        /\ c.batch + f[TableOf(c.policy)] <= n[TableOf(c.policy)]
    BY <1>4 DEF SweepOK, PolicyCount
  <2>2. QED
    BY <1>1, <1>3, <1>4, <2>1
<1>5. TargetBytes \in Int
  BY StorageLimitAssumption DEF TargetBytes
<1>6. s <= TargetBytes => r <= TargetBytes
  BY <1>5
<1>7. /\ c.pc = "delete" => c.overlap \/ c.batch + g[TableOf(c.policy)] <= m[TableOf(c.policy)]
      /\ c.pass \in Nat /\ c.policy \in 1 .. PolicyCount + 1 /\ c.deleted \in Nat /\ c.batch \in Nat
      /\ c.pc = "delete" => c.policy <= PolicyCount /\ c.batch > 0
  BY <1>4 DEF SweepOK
<1>8. c.pc \in {"count", "delete"} =>
         \/ c.deleted > 0 \/ c.grown
         \/ \A i \in 1 .. PolicyCount :
               i < c.policy /\ MinPassOf(i) <= c.pass => m[TableOf(i)] <= KeepRows[TableOf(i)]
  BY <1>2, <1>3 DEF SweepOK
<1>9. c.pc = "vacuum" =>
         \/ c.deleted > 0 \/ c.grown
         \/ \A i \in 1 .. PolicyCount : MinPassOf(i) <= c.pass => m[TableOf(i)] <= KeepRows[TableOf(i)]
  BY <1>2, <1>3 DEF SweepOK
<1>10. c.pc = "done" =>
          \/ r <= TargetBytes \/ c.grown \/ c.pass + 1 = MaxPasses
          \/ \A t \in SizeTables : m[t] <= KeepRows[t]
  BY <1>2, <1>6 DEF SweepOK
<1>11. QED
  BY <1>7, <1>8, <1>9, <1>10 DEF SweepOK

LEMMA FootprintNat ==
    ASSUME FloorInv
    PROVE  Footprint \in Nat
<1>1. \A t \in SizeTables : Bytes(t) \in Nat
  BY StorageLimitAssumption DEF FloorInv, Bytes
<1>2. QED
  BY <1>1, StorageLimitAssumption DEF Footprint, SizeTables

\* A step of a sweep that deletes nothing.
LEMMA SweepStep ==
    ASSUME SizeInv, NEW p \in Pruner, NEW x, pruner' = [pruner EXCEPT ![p] = x],
           UNCHANGED <<count, floor>>, SweepOK(x, count, floor, Footprint)
    PROVE  SizeInv'
<1>1. Footprint' = Footprint
  BY DEF Footprint, Bytes
<1>2. \A q \in Pruner : pruner'[q] = IF q = p THEN x ELSE pruner[q]
  BY DEF SizeInv, SweepInv
<1>3. pruner' = [q \in Pruner |-> pruner'[q]]
  BY DEF SizeInv, SweepInv
<1>4. SweepInv'
  BY <1>1, <1>2, <1>3 DEF SizeInv, SweepInv
<1>5. QED
  BY <1>4 DEF SizeInv, FloorInv

LEMMA NewPassOK ==
    ASSUME NEW pass \in Nat, NEW n, NEW f, NEW s
    PROVE  SweepOK(NewPass(pass), n, f, s)
<1>1. PICK x : x = NewPass(pass)
  OBVIOUS
<1>2. x.pc = "count" /\ x.pass = pass /\ x.policy = 1 /\ x.batch = 0 /\ x.deleted = 0
  BY <1>1 DEF NewPass, Sweep
<1>3. \A i \in 1 .. PolicyCount : ~(i < x.policy)
  BY <1>2 DEF PolicyCount
<1>4. QED
  BY <1>1, <1>2, <1>3 DEF SweepOK, PolicyCount

LEMMA DormantOK ==
    ASSUME NEW n, NEW f, NEW s
    PROVE  SweepOK(Dormant, n, f, s)
<1>1. PICK x : x = Dormant
  OBVIOUS
<1>2. x.pc = "idle" /\ x.pass = 0 /\ x.policy = 1 /\ x.batch = 0 /\ x.deleted = 0
  BY <1>1 DEF Dormant, Sweep
<1>3. QED
  BY <1>1, <1>2 DEF SweepOK, PolicyCount

\* The first policy that is due.
LEMMA LeastPolicy ==
    ASSUME NEW due \in SUBSET (1 .. PolicyCount), due # {}
    PROVE  Min(due) \in due /\ \A j \in due : Min(due) <= j
<1>1. due \in SUBSET Nat
  BY DEF PolicyCount
<1>2. PICK x \in due : \A y \in due : ~(<<y, x>> \in OpToRel(<, Nat))
  BY <1>1, NatLessThanWellFounded, WFMin, Zenon
<1>3. \A y \in due : ~(y < x)
  BY <1>1, <1>2 DEF OpToRel
<1>4. x \in due /\ \A y \in due : x <= y
  BY <1>1, <1>3
<1>5. QED
  BY <1>4 DEF Min

LEMMA CountRowsInv ==
    ASSUME SizeInv, NEW p \in Pruner, CountRows(p)
    PROVE  SizeInv'
<1>1. PICK me : me = pruner[p]
  OBVIOUS
<1>2. me.pc = "count" /\ SweepOK(me, count, floor, Footprint)
  BY <1>1 DEF CountRows, SizeInv, SweepInv
<1>3. me.pass \in Nat /\ me.policy \in 1 .. PolicyCount + 1 /\ me.deleted \in Nat /\ me.batch \in Nat
      /\ (\/ me.deleted > 0 \/ me.grown
          \/ \A i \in 1 .. PolicyCount :
                i < me.policy /\ MinPassOf(i) <= me.pass => count[TableOf(i)] <= KeepRows[TableOf(i)])
  BY <1>2 DEF SweepOK
<1>4. PICK due : due = {i \in me.policy .. Len(Policies) :
                          me.pass >= Policies[i].min_pass /\ BatchSize(Policies[i], me.size) > 0}
  OBVIOUS
<1>5. UNCHANGED <<count, floor>>
  BY DEF CountRows
<1>6. due \subseteq 1 .. PolicyCount /\ \A i \in due : i >= me.policy /\ BatchSize(Policies[i], me.size) > 0
  BY <1>3, <1>4, PolicyFacts DEF PolicyCount
<1>7. ASSUME NEW i \in 1 .. PolicyCount, i >= me.policy, MinPassOf(i) <= me.pass, i \notin due
      PROVE  count[TableOf(i)] <= KeepRows[TableOf(i)]
  <2>1. MinPassOf(i) \in Nat /\ Len(Policies) = PolicyCount
    BY PolicyFacts
  <2>2. ~(BatchSize(Policies[i], me.size) > 0)
    BY <1>3, <1>4, <1>7, <2>1 DEF MinPassOf, PolicyCount
  <2>3. BatchSize(Policies[i], me.size) = 0
    BY <2>2, BatchFacts DEF SizeInv
  <2>4. QED
    BY <2>3, BatchFacts DEF SizeInv
<1>8. CASE due = {}
  <2>1. PICK x : x = MoveTo(me, "vacuum")
    OBVIOUS
  <2>2. pruner' = [pruner EXCEPT ![p] = x]
    BY <1>1, <1>4, <1>8, <2>1 DEF CountRows
  <2>3. x.pc = "vacuum" /\ x.pass = me.pass /\ x.policy = me.policy /\ x.deleted = me.deleted
        /\ x.batch = me.batch /\ x.grown = me.grown
    BY <2>1, SweepFields DEF MoveTo
  <2>4. \/ me.deleted > 0 \/ me.grown
        \/ \A i \in 1 .. PolicyCount : MinPassOf(i) <= me.pass => count[TableOf(i)] <= KeepRows[TableOf(i)]
    BY <1>3, <1>7, <1>8 DEF PolicyCount
  <2>5. SweepOK(x, count, floor, Footprint)
    BY <1>3, <2>3, <2>4 DEF SweepOK
  <2>6. QED
    BY <1>5, <2>2, <2>5, SweepStep
<1>9. CASE due # {}
  <2>1. PICK i : i = Min(due)
    OBVIOUS
  <2>2. i \in due /\ \A j \in due : i <= j
    BY <1>6, <1>9, <2>1, LeastPolicy
  <2>3. PICK batch : batch = BatchSize(Policies[i], me.size)
    OBVIOUS
  <2>4. PICK x : x = Sweep("delete", me.pass, i, me.size, batch, me.deleted, FALSE, me.grown)
    OBVIOUS
  <2>5. pruner' = [pruner EXCEPT ![p] = x]
    BY <1>1, <1>4, <1>9, <2>1, <2>3, <2>4 DEF CountRows
  <2>6. x.pc = "delete" /\ x.pass = me.pass /\ x.policy = i /\ x.deleted = me.deleted
        /\ x.batch = batch /\ x.grown = me.grown
    BY <2>4 DEF Sweep
  <2>7. i \in 1 .. PolicyCount /\ batch \in Nat /\ batch > 0 /\ batch <= Surplus(TableOf(i)) /\ TableOf(i) \in SizeTables
    BY <1>6, <2>2, <2>3, BatchFacts, PolicyFacts DEF SizeInv
  <2>8. batch + floor[TableOf(i)] <= count[TableOf(i)]
    <3>1. Surplus(TableOf(i)) \in Nat /\ Surplus(TableOf(i)) > 0
          /\ Surplus(TableOf(i)) + KeepRows[TableOf(i)] = count[TableOf(i)]
      BY <2>7, SurplusFacts DEF SizeInv
    <3>2. floor[TableOf(i)] <= KeepRows[TableOf(i)] /\ floor[TableOf(i)] \in Nat /\ KeepRows[TableOf(i)] \in Nat
      BY <2>7, StorageLimitAssumption DEF SizeInv, FloorInv
    <3>3. QED
      BY <2>7, <3>1, <3>2
  <2>9. \/ me.deleted > 0 \/ me.grown
        \/ \A j \in 1 .. PolicyCount :
              j < i /\ MinPassOf(j) <= me.pass => count[TableOf(j)] <= KeepRows[TableOf(j)]
    <3>1. \A j \in 1 .. PolicyCount : j < i => j \notin due
      BY <2>2, <2>7 DEF PolicyCount
    <3>2. \A j \in 1 .. PolicyCount : j < me.policy \/ j >= me.policy
      BY <1>3 DEF PolicyCount
    <3>3. QED
      BY <1>3, <1>7, <3>1, <3>2
  <2>10. SweepOK(x, count, floor, Footprint)
    BY <1>3, <2>6, <2>7, <2>8, <2>9 DEF SweepOK, PolicyCount
  <2>11. QED
    BY <1>5, <2>5, <2>10, SweepStep
<1>10. QED
  BY <1>8, <1>9

LEMMA EndPassInv ==
    ASSUME SizeInv, NEW p \in Pruner, EndPass(p)
    PROVE  SizeInv'
<1>1. PICK me : me = pruner[p]
  OBVIOUS
<1>2. me.pc = "vacuum" /\ SweepOK(me, count, floor, Footprint)
  BY <1>1 DEF EndPass, SizeInv, SweepInv
<1>3. me.pass \in Nat /\ me.policy \in 1 .. PolicyCount + 1 /\ me.deleted \in Nat /\ me.batch \in Nat
      /\ (\/ me.deleted > 0 \/ me.grown
          \/ \A i \in 1 .. PolicyCount : MinPassOf(i) <= me.pass => count[TableOf(i)] <= KeepRows[TableOf(i)])
  BY <1>2 DEF SweepOK
<1>4. UNCHANGED <<count, floor>>
  BY DEF EndPass
<1>5. CASE \/ Footprint <= TargetBytes
           \/ me.deleted = 0 /\ ~FutureCandidates(me.pass)
           \/ me.pass + 1 = MaxPasses
  <2>1. PICK x : x = MoveTo(me, "done")
    OBVIOUS
  <2>2. pruner' = [pruner EXCEPT ![p] = x]
    BY <1>1, <1>5, <2>1 DEF EndPass
  <2>3. x.pc = "done" /\ x.pass = me.pass /\ x.policy = me.policy /\ x.deleted = me.deleted
        /\ x.batch = me.batch /\ x.grown = me.grown
    BY <2>1, SweepFields DEF MoveTo
  <2>4. ASSUME me.deleted = 0, ~FutureCandidates(me.pass), ~me.grown
        PROVE  \A t \in SizeTables : count[t] <= KeepRows[t]
    <3>1. TAKE t \in SizeTables
    <3>2. PICK i \in 1 .. PolicyCount : TableOf(i) = t /\ MinPassOf(i) \in Nat
      BY PolicyFacts
    <3>3. CASE MinPassOf(i) <= me.pass
      BY <1>3, <2>4, <3>2, <3>3
    <3>4. CASE ~(MinPassOf(i) <= me.pass)
      <4>4. i \in DOMAIN Policies /\ MinPassOf(i) < MaxPasses
        BY PolicyFacts, StorageLimitAssumption, SMTT(30) DEF MinPassOf
      <4>1. MinPassOf(i) > me.pass /\ MinPassOf(i) < MaxPasses /\ i \in DOMAIN Policies
        BY <1>3, <3>2, <3>4, <4>4
      <4>2. ~(Surplus(t) > 0)
        BY <2>4, <3>2, <4>1 DEF FutureCandidates, MinPassOf, TableOf
      <4>3. QED
        BY <3>1, <4>2, SurplusFacts DEF SizeInv
    <3>5. QED
      BY <3>3, <3>4
  <2>5. \/ Footprint <= TargetBytes \/ me.grown \/ me.pass + 1 = MaxPasses
        \/ \A t \in SizeTables : count[t] <= KeepRows[t]
    BY <1>5, <2>4
  <2>6. SweepOK(x, count, floor, Footprint)
    BY <1>3, <2>3, <2>5 DEF SweepOK
  <2>7. QED
    BY <1>4, <2>2, <2>6, SweepStep
<1>6. CASE ~(\/ Footprint <= TargetBytes
             \/ me.deleted = 0 /\ ~FutureCandidates(me.pass)
             \/ me.pass + 1 = MaxPasses)
  <2>1. pruner' = [pruner EXCEPT ![p] = NewPass(me.pass + 1)]
    BY <1>1, <1>6 DEF EndPass
  <2>2. SweepOK(NewPass(me.pass + 1), count, floor, Footprint)
    BY <1>3, NewPassOK
  <2>3. QED
    BY <1>4, <2>1, <2>2, SweepStep
<1>7. QED
  BY <1>5, <1>6

LEMMA SweepCounting ==
    ASSUME NEW c, NEW n, NEW f, NEW s, c.pc = "count",
           c.pass \in Nat, c.policy \in 1 .. PolicyCount + 1, c.deleted \in Nat, c.batch \in Nat,
           \/ c.deleted > 0 \/ c.grown
           \/ \A i \in 1 .. PolicyCount :
                 i < c.policy /\ MinPassOf(i) <= c.pass => n[TableOf(i)] <= KeepRows[TableOf(i)]
    PROVE  SweepOK(c, n, f, s)
  BY DEF SweepOK

\* The batch of a sweep that nobody disturbed leaves what keep_latest keeps.
LEMMA DeleteRowsInv ==
    ASSUME SizeInv, NEW p \in Pruner, DeleteRows(p)
    PROVE  SizeInv'
<1>1. PICK me : me = pruner[p]
  OBVIOUS
<1>2. me.pc = "delete" /\ SweepOK(me, count, floor, Footprint)
  BY <1>1 DEF DeleteRows, SizeInv, SweepInv
<1>3. me.pass \in Nat /\ me.policy \in 1 .. PolicyCount /\ me.deleted \in Nat /\ me.batch \in Nat /\ me.batch > 0
      /\ (me.overlap \/ me.batch + floor[TableOf(me.policy)] <= count[TableOf(me.policy)])
      /\ (\/ me.deleted > 0 \/ me.grown
          \/ \A i \in 1 .. PolicyCount :
                i < me.policy /\ MinPassOf(i) <= me.pass => count[TableOf(i)] <= KeepRows[TableOf(i)])
  BY <1>2 DEF SweepOK, PolicyCount
<1>4. PICK t \in SizeTables : t = TableOf(me.policy)
  BY <1>3, PolicyFacts
<1>5. count[t] \in Nat /\ floor[t] \in Nat /\ KeepRows[t] \in Nat /\ floor[t] <= count[t] /\ floor[t] <= KeepRows[t]
  BY StorageLimitAssumption DEF SizeInv, FloorInv
<1>6. PICK gone \in Nat : /\ gone = Min({me.batch, count[t]})
                          /\ gone = IF me.batch <= count[t] THEN me.batch ELSE count[t]
  <2>1. Min({me.batch, count[t]}) = IF me.batch <= count[t] THEN me.batch ELSE count[t]
    BY <1>3, <1>5, LeastOfTwo
  <2>2. QED
    BY <1>3, <1>5, <2>1
<1>7. PICK left \in Nat : left = count[t] - gone /\ left <= count[t]
  <2>1. PICK n \in Nat : n = count[t]
    BY <1>5
  <2>2. gone <= n
    BY <1>3, <1>6, <2>1, SMTT(30)
  <2>3. n - gone \in Nat /\ n - gone <= n
    BY <2>2
  <2>4. QED
    BY <2>1, <2>3
<1>8. count' = [count EXCEPT ![t] = left]
  <2>1. count' = [count EXCEPT ![t] = count[t] - Min({me.batch, count[t]})]
    BY <1>1, <1>4, SMTT(30) DEF DeleteRows, TableOf
  <2>2. QED
    BY <1>6, <1>7, <2>1, ZenonT(30)
<1>9. count' \in [SizeTables -> Nat] /\ \A u \in SizeTables : count'[u] = IF u = t THEN left ELSE count[u]
  BY <1>7, <1>8 DEF SizeInv, FloorInv
<1>10. PICK low : low = IF me.overlap THEN Min({floor[t], left}) ELSE floor[t]
  OBVIOUS
<1>11. low \in Nat /\ low <= floor[t] /\ low <= left
  <2>1. CASE me.overlap
    <3>1. Min({floor[t], left}) = IF floor[t] <= left THEN floor[t] ELSE left
      BY <1>5, LeastOfTwo
    <3>2. QED
      BY <1>5, <1>10, <2>1, <3>1
  <2>2. CASE ~me.overlap
    <3>1. me.batch + floor[TableOf(me.policy)] <= count[TableOf(me.policy)]
      BY <1>3, <2>2, Zenon
    <3>3. me.batch + floor[t] <= count[t]
      BY <1>4, <3>1, ZenonT(60)
    <3>2. QED
      BY <1>3, <1>5, <1>6, <1>7, <1>10, <2>2, <3>3
  <2>3. QED
    BY <2>1, <2>2
<1>12. floor' = [floor EXCEPT ![t] = low]
  BY <1>1, <1>4, <1>9, <1>10 DEF DeleteRows, TableOf
<1>13. floor' \in [SizeTables -> Nat] /\ \A u \in SizeTables : floor'[u] = IF u = t THEN low ELSE floor[u]
  BY <1>11, <1>12 DEF SizeInv, FloorInv
<1>14. FloorInv'
  BY <1>5, <1>9, <1>11, <1>13 DEF SizeInv, FloorInv
<1>15. \A u \in SizeTables : count'[u] <= count[u] /\ floor'[u] <= floor[u]
  BY <1>7, <1>9, <1>11, <1>13 DEF SizeInv, FloorInv
<1>16. Footprint \in Nat /\ Footprint' \in Nat /\ Footprint' <= Footprint
  BY <1>9, <1>15, FootprintShrinks DEF SizeInv, FloorInv
<1>17. PICK x : x = Sweep("count", me.pass, me.policy + 1, me.size, 0, me.deleted + gone, FALSE, me.grown)
  OBVIOUS
<1>18. x.pc = "count" /\ x.pass = me.pass /\ x.policy = me.policy + 1 /\ x.batch = 0
       /\ x.deleted = me.deleted + gone /\ x.grown = me.grown
  BY <1>17 DEF Sweep
<1>19. SweepOK(x, count', floor', Footprint')
  <2>1. CASE gone > 0
    <3>1. x.deleted > 0 /\ x.deleted \in Nat /\ x.policy \in 1 .. PolicyCount + 1
      BY <1>3, <1>18, <2>1 DEF PolicyCount
    <3>2. QED
      BY <1>3, <1>18, <3>1, SweepCounting
  <2>2. CASE gone = 0
    <3>1. count[t] = 0 /\ left = 0
      <4>1. PICK b \in Nat : b = me.batch /\ b > 0
        BY <1>3
      <4>2. PICK k \in Nat : k = count[t]
        BY <1>5
      <4>3. gone = IF b <= k THEN b ELSE k
        BY <1>6, <4>1, <4>2
      <4>4. k = 0
        BY <2>2, <4>1, <4>3
      <4>5. QED
        BY <1>7, <2>2, <4>2, <4>4
    <3>2. x.deleted = me.deleted /\ x.policy \in 1 .. PolicyCount + 1
      BY <1>3, <1>18, <2>2 DEF PolicyCount
    <3>3. \/ me.deleted > 0 \/ me.grown
          \/ \A i \in 1 .. PolicyCount :
                i < me.policy + 1 /\ MinPassOf(i) <= me.pass => count'[TableOf(i)] <= KeepRows[TableOf(i)]
      <4>1. SUFFICES ASSUME ~(me.deleted > 0), ~me.grown, NEW i \in 1 .. PolicyCount, i < me.policy + 1,
                            MinPassOf(i) <= me.pass
                     PROVE  count'[TableOf(i)] <= KeepRows[TableOf(i)]
        OBVIOUS
      <4>2. CASE i = me.policy
        BY <1>4, <1>5, <1>9, <3>1, <4>2
      <4>3. CASE i # me.policy
        <5>1. i < me.policy
          BY <1>3, <4>1, <4>3 DEF PolicyCount
        <5>2. count[TableOf(i)] <= KeepRows[TableOf(i)] /\ TableOf(i) \in SizeTables
          BY <1>3, <4>1, <5>1, PolicyFacts
        <5>3. count[TableOf(i)] \in Nat /\ KeepRows[TableOf(i)] \in Nat /\ count'[TableOf(i)] \in Nat
              /\ count'[TableOf(i)] <= count[TableOf(i)]
          BY <1>9, <1>15, <5>2, StorageLimitAssumption DEF SizeInv, FloorInv
        <5>4. QED
          BY <5>2, <5>3
      <4>4. QED
        BY <4>2, <4>3
    <3>4. \/ x.deleted > 0 \/ x.grown
          \/ \A i \in 1 .. PolicyCount :
                i < x.policy /\ MinPassOf(i) <= x.pass => count'[TableOf(i)] <= KeepRows[TableOf(i)]
      BY <1>18, <3>2, <3>3
    <3>5. QED
      BY <1>3, <1>18, <3>2, <3>4, SweepCounting
  <2>3. QED
    BY <1>6, <2>1, <2>2
<1>20. ASSUME NEW q \in Pruner, q # p
       PROVE  SweepOK(pruner'[q], count', floor', Footprint')
  <2>1. PICK c : c = pruner[q]
    OBVIOUS
  <2>2. SweepOK(c, count, floor, Footprint)
    BY <2>1 DEF SizeInv, SweepInv
  <2>3. CASE c.pc = "delete" /\ c.policy = me.policy
    <3>1. PICK y : y = Disturbed(c)
      OBVIOUS
    <3>2. pruner'[q] = y
      BY <1>1, <1>20, <2>1, <2>3, <3>1 DEF DeleteRows
    <3>3. y.pc = "delete" /\ y.pass = c.pass /\ y.policy = c.policy /\ y.batch = c.batch
          /\ y.deleted = c.deleted /\ y.overlap = TRUE /\ y.grown = c.grown
      BY <2>3, <3>1 DEF Disturbed, Sweep
    <3>4. \A u \in SizeTables : count[u] <= KeepRows[u] => count'[u] <= KeepRows[u]
      BY <1>9, <1>15, StorageLimitAssumption DEF SizeInv, FloorInv
    <3>5. \A i \in 1 .. PolicyCount : TableOf(i) \in SizeTables
      BY PolicyFacts
    <3>6. \/ c.deleted > 0 \/ c.grown
          \/ \A i \in 1 .. PolicyCount :
                i < c.policy /\ MinPassOf(i) <= c.pass => count'[TableOf(i)] <= KeepRows[TableOf(i)]
      BY <2>2, <2>3, <3>4, <3>5 DEF SweepOK
    <3>7. c.pass \in Nat /\ c.policy \in 1 .. PolicyCount + 1 /\ c.deleted \in Nat /\ c.batch \in Nat
          /\ c.policy <= PolicyCount /\ c.batch > 0
      BY <2>2, <2>3 DEF SweepOK
    <3>8. SweepOK(y, count', floor', Footprint')
      BY <3>3, <3>6, <3>7, SMTT(30) DEF SweepOK
    <3>9. QED
      BY <3>2, <3>8
  <2>4. CASE ~(c.pc = "delete" /\ c.policy = me.policy)
    <3>1. pruner'[q] = c
      BY <1>1, <1>20, <2>1, <2>4 DEF DeleteRows
    <3>2. c.pc = "delete" => count'[TableOf(c.policy)] = count[TableOf(c.policy)]
      <4>1. SUFFICES ASSUME c.pc = "delete" PROVE count'[TableOf(c.policy)] = count[TableOf(c.policy)]
        OBVIOUS
      <4>2. c.policy \in 1 .. PolicyCount /\ c.policy # me.policy
        BY <2>2, <2>4, <4>1 DEF SweepOK, PolicyCount
      <4>3. TableOf(c.policy) # t /\ TableOf(c.policy) \in SizeTables
        BY <1>3, <1>4, <4>2, PolicyFacts
      <4>4. QED
        BY <1>9, <4>3
    <3>3. count \in [SizeTables -> Nat] /\ floor \in [SizeTables -> Nat]
      BY DEF SizeInv, FloorInv
    <3>5. SweepOK(c, count', floor', Footprint')
      BY <1>9, <1>13, <1>15, <1>16, <2>2, <3>2, <3>3, SweepKept, SMTT(30)
    <3>4. QED
      BY <3>1, <3>5
  <2>5. QED
    BY <2>3, <2>4
<1>21. pruner'[p] = x /\ pruner' = [q \in Pruner |-> pruner'[q]]
  BY <1>1, <1>4, <1>6, <1>17 DEF DeleteRows, TableOf
<1>22. SweepInv'
  BY <1>19, <1>20, <1>21 DEF SweepInv
<1>23. QED
  BY <1>14, <1>22 DEF SizeInv

LEMMA GrowInv ==
    ASSUME SizeInv, NEW t \in SizeTables, Grow(t)
    PROVE  SizeInv'
<1>1. count' = [count EXCEPT ![t] = count[t] + 1] /\ floor' = [floor EXCEPT ![t] = Min({KeepRows[t], floor[t] + 1})]
      /\ pruner' = [p \in Pruner |-> IF pruner[p].pc = "idle" THEN pruner[p] ELSE Grown(pruner[p])]
  BY DEF Grow
<1>2. count[t] \in Nat /\ floor[t] \in Nat /\ KeepRows[t] \in Nat /\ floor[t] <= count[t] /\ floor[t] <= KeepRows[t]
  BY StorageLimitAssumption DEF SizeInv, FloorInv
<1>3. PICK low \in Nat : low = Min({KeepRows[t], floor[t] + 1}) /\ low <= KeepRows[t] /\ low <= floor[t] + 1
  <2>1. PICK a \in Int : a = KeepRows[t]
    BY <1>2
  <2>2. PICK b \in Int : b = floor[t] + 1
    BY <1>2
  <2>3. Min({a, b}) = IF a <= b THEN a ELSE b
    BY LeastOfTwo
  <2>4. QED
    BY <1>2, <2>1, <2>2, <2>3
<1>4. count' \in [SizeTables -> Nat] /\ \A u \in SizeTables : count'[u] = IF u = t THEN count[t] + 1 ELSE count[u]
  BY <1>1, <1>2 DEF SizeInv, FloorInv
<1>5. floor' \in [SizeTables -> Nat] /\ \A u \in SizeTables : floor'[u] = IF u = t THEN low ELSE floor[u]
  BY <1>1, <1>3 DEF SizeInv, FloorInv
<1>6. FloorInv'
  BY <1>2, <1>3, <1>4, <1>5 DEF SizeInv, FloorInv
<1>7. ASSUME NEW p \in Pruner
      PROVE  SweepOK(pruner'[p], count', floor', Footprint')
  <2>1. PICK c : c = pruner[p]
    OBVIOUS
  <2>2. SweepOK(c, count, floor, Footprint)
    BY <2>1 DEF SizeInv, SweepInv
  <2>3. CASE c.pc = "idle"
    <3>1. pruner'[p] = c
      BY <1>1, <2>1, <2>3
    <3>2. QED
      BY <2>2, <2>3, <3>1 DEF SweepOK
  <2>4. CASE c.pc # "idle"
    <3>1. PICK y : y = Grown(c)
      OBVIOUS
    <3>2. pruner'[p] = y
      BY <1>1, <2>1, <2>4, <3>1
    <3>3. y.pc = c.pc /\ y.pass = c.pass /\ y.policy = c.policy /\ y.batch = c.batch
          /\ y.deleted = c.deleted /\ y.overlap = c.overlap /\ y.grown
      BY <3>1 DEF Grown, Sweep
    <3>4. ASSUME c.pc = "delete", ~c.overlap
          PROVE  c.batch + floor'[TableOf(c.policy)] <= count'[TableOf(c.policy)]
      <4>1. c.policy \in 1 .. PolicyCount /\ c.batch \in Nat
            /\ c.batch + floor[TableOf(c.policy)] <= count[TableOf(c.policy)]
        BY <2>2, <3>4 DEF SweepOK, PolicyCount
      <4>2. PICK u \in SizeTables : u = TableOf(c.policy)
        BY <4>1, PolicyFacts
      <4>3. count[u] \in Nat /\ floor[u] \in Nat
        BY DEF SizeInv, FloorInv
      <4>4. PICK d \in Nat : d = floor'[u] /\ d <= floor[u] + (IF u = t THEN 1 ELSE 0)
        <5>1. CASE u = t
          <6>1. floor'[u] = low
            BY <1>5, <5>1
          <6>2. low <= floor[u] + 1
            BY <1>3, <5>1
          <6>3. QED
            BY <5>1, <6>1, <6>2
        <5>2. CASE u # t
          <6>1. PICK d \in Nat : d = floor[u]
            BY <4>3
          <6>2. floor'[u] = d
            BY <1>5, <5>2, <6>1
          <6>3. d <= d + 0
            OBVIOUS
          <6>4. QED
            BY <5>2, <6>1, <6>2, <6>3
        <5>3. QED
          BY <5>1, <5>2
      <4>5. count'[u] = count[u] + (IF u = t THEN 1 ELSE 0)
        BY <1>4, <4>3
      <4>6. PICK more \in Nat : more = IF u = t THEN 1 ELSE 0
        OBVIOUS
      <4>7. c.batch + floor[u] <= count[u]
        BY <4>1, <4>2
      <4>8. c.batch + d <= count[u] + more
        BY <4>1, <4>3, <4>4, <4>6, <4>7
      <4>9. QED
        BY <4>2, <4>4, <4>5, <4>6, <4>8
    <3>5. c.pass \in Nat /\ c.policy \in 1 .. PolicyCount + 1 /\ c.deleted \in Nat /\ c.batch \in Nat
          /\ (c.pc = "delete" => c.policy <= PolicyCount /\ c.batch > 0)
      BY <2>2 DEF SweepOK
    <3>6. SweepOK(y, count', floor', Footprint')
      BY <3>3, <3>4, <3>5 DEF SweepOK
    <3>7. QED
      BY <3>2, <3>6
  <2>5. QED
    BY <2>3, <2>4
<1>8. SweepInv'
  BY <1>1, <1>7 DEF SweepInv
<1>9. QED
  BY <1>6, <1>8 DEF SizeInv

LEMMA SizeStep ==
    ASSUME SizeInv, [LimitNext]_limitVars
    PROVE  SizeInv'
<1>1. CASE UNCHANGED limitVars
  BY <1>1 DEF limitVars, SizeInv, FloorInv, SweepInv, Footprint, Bytes
<1>2. ASSUME NEW p \in Pruner, Enforce(p)
      PROVE  SizeInv'
  <2>1. pruner' = [pruner EXCEPT ![p] = NewPass(0)] /\ UNCHANGED <<count, floor>>
    BY <1>2 DEF Enforce
  <2>2. SweepOK(NewPass(0), count, floor, Footprint)
    BY NewPassOK
  <2>3. QED
    BY <2>1, <2>2, SweepStep
<1>3. ASSUME NEW p \in Pruner, Return(p)
      PROVE  SizeInv'
  <2>1. pruner' = [pruner EXCEPT ![p] = Dormant] /\ UNCHANGED <<count, floor>>
    BY <1>3 DEF Return
  <2>2. QED
    BY <2>1, DormantOK, SweepStep
<1>4. QED
  BY <1>1, <1>2, <1>3, CountRowsInv, DeleteRowsInv, EndPassInv, GrowInv DEF LimitNext

LEMMA SizeInitInv ==
    ASSUME LimitInit
    PROVE  SizeInv
<1>1. count \in [SizeTables -> Nat]
  BY StorageLimitAssumption DEF LimitInit
<1>2. ASSUME NEW t \in SizeTables
      PROVE  floor[t] \in Nat /\ floor[t] <= count[t] /\ floor[t] <= KeepRows[t]
  <2>1. PICK a \in Int : a = count[t] /\ a >= 0
    BY <1>1
  <2>2. PICK b \in Int : b = KeepRows[t] /\ b >= 0
    BY StorageLimitAssumption
  <2>3. Min({a, b}) = IF a <= b THEN a ELSE b
    BY LeastOfTwo
  <2>4. floor[t] = Min({a, b})
    BY <2>1, <2>2 DEF LimitInit
  <2>5. QED
    BY <2>1, <2>2, <2>3, <2>4
<1>3. floor \in [SizeTables -> Nat]
  BY <1>2 DEF LimitInit
<1>4. FloorInv
  BY <1>1, <1>2, <1>3 DEF FloorInv
<1>5. SweepInv
  BY DormantOK DEF LimitInit, SweepInv
<1>6. QED
  BY <1>4, <1>5 DEF SizeInv

\* enforce_size_limit: with any number of processes pruning and inserting beside each
\* other, the newest rows of each table survive unless two sweeps delete between each
\* other's count and delete, and a sweep gives up only when the file is small enough,
\* nothing more may go, rows came in meanwhile, or its passes are used up.
THEOREM PruningAlwaysSound == LimitSpec => []PruningSound
<1>1. LimitInit => SizeInv
  BY SizeInitInv
<1>2. SizeInv /\ [LimitNext]_limitVars => SizeInv'
  BY SizeStep
<1>3. SizeInv => PruningSound
  <2>1. SUFFICES ASSUME SizeInv PROVE PruningSound
    OBVIOUS
  <2>2. LatestKept
    BY <2>1 DEF SizeInv, FloorInv, LatestKept
  <2>3. \A t \in SizeTables : count[t] <= KeepRows[t] => Surplus(t) = 0
    BY <2>1, SurplusFacts DEF SizeInv
  <2>4. LimitSettled
    BY <2>1, <2>3 DEF SizeInv, SweepInv, SweepOK, LimitSettled
  <2>5. QED
    BY <2>2, <2>4 DEF PruningSound
<1>4. QED
  BY <1>1, <1>2, <1>3, PTL DEF LimitSpec

-----------------------------------------------------------------------------
(* ScanMemory: what scans remember was flagged                              *)

\* A record of the profile has the kind of its key, and is public as its address is.
GoodRecord(k, r) ==
    /\ r.dynamic = k.dynamic /\ r.count \in Nat
    /\ r.socket.addr.public <=> k.addr.public
GoodProfile(profile) == \A k \in DOMAIN profile : GoodRecord(k, profile[k])

\* Every set of places in a sequence has a first.
LEMMA FirstPlace ==
    ASSUME NEW S, S \subseteq Nat, S # {}
    PROVE  Min(S) \in S
<1>1. PICK n \in S : \A m \in S : ~(<<m, n>> \in OpToRel(<, Nat))
  BY NatLessThanWellFounded, WFMin, Zenon
<1>2. \A m \in S : ~(m < n)
  BY <1>1 DEF OpToRel
<1>3. \A m \in S : n <= m
  BY <1>2
<1>4. QED
  BY <1>3, Zenon DEF Min

\* A socket is public as the address of its key is.
LEMMA KeyPublic ==
    ASSUME NEW s, NEW m
    PROVE  s.addr.public <=> ServiceKey(s, m).addr.public
<1>1. CASE DynamicUdpService(s, m)
  <2>1. ServiceKey(s, m).addr = AnyAddress(s.addr.scope)
    BY <1>1 DEF ServiceKey
  <2>2. AnyAddress(s.addr.scope).public = TRUE
    BY DEF AnyAddress
  <2>3. QED
    BY <1>1, <2>1, <2>2, Zenon DEF DynamicUdpService
<1>2. CASE ~DynamicUdpService(s, m)
  <2>1. ServiceKey(s, m).addr = s.addr
    BY <1>2 DEF ServiceKey
  <2>2. QED
    BY <2>1, Zenon
<1>3. QED
  BY <1>1, <1>2

\* current_profile_with_config builds good records.
LEMMA CurrentGood ==
    ASSUME NEW sockets, DOMAIN sockets \subseteq Nat, NEW m
    PROVE  GoodProfile(CurrentProfile(sockets, m))
<1>1. PICK keys : keys = ListedKeys(sockets, m)
  OBVIOUS
<1>2. PICK seen : seen = CurrentProfile(sockets, m)
  OBVIOUS
<1>3. seen = [k \in keys |-> MergedRecord(k, sockets, ListedAs(k, sockets, m))]
  BY <1>1, <1>2, Zenon DEF CurrentProfile
<1>4. SUFFICES ASSUME NEW k \in keys PROVE GoodRecord(k, seen[k])
  BY <1>2, <1>3 DEF GoodProfile
<1>5. PICK at : at = ListedAs(k, sockets, m)
  OBVIOUS
<1>6. at \subseteq Nat /\ at # {} /\ \A i \in at : ServiceKey(sockets[i], m) = k
  <2>1. at \subseteq DOMAIN sockets /\ \A i \in at : ServiceKey(sockets[i], m) = k
    BY <1>5, Zenon DEF ListedAs, ListedAt
  <2>2. \E i \in ListedAt(sockets) : ServiceKey(sockets[i], m) = k
    BY <1>1, <1>4, Zenon DEF ListedKeys
  <2>3. at # {}
    BY <1>5, <2>2, Zenon DEF ListedAs
  <2>4. QED
    BY <2>1, <2>3
<1>7. PICK first : first = sockets[Min(at)]
  OBVIOUS
<1>8. ServiceKey(first, m) = k
  BY <1>6, <1>7, FirstPlace
<1>9. PICK socket, ports :
         /\ seen[k] = ServiceRecord(socket, IntegrityKey(first), k.dynamic, 1, ports)
         /\ socket.addr = first.addr
  <2>1. seen[k] = MergedRecord(k, sockets, at)
    BY <1>3, <1>5
  <2>2. PICK udp, port, name, package, hash, ports :
           MergedRecord(k, sockets, at) =
              ServiceRecord([udp |-> udp, addr |-> first.addr, port |-> port, name |-> name, package |-> package,
                             hash |-> hash], IntegrityKey(first), k.dynamic, 1, ports)
    BY <1>7, Zenon DEF MergedRecord
  <2>3. PICK socket : socket = [udp |-> udp, addr |-> first.addr, port |-> port, name |-> name, package |-> package,
                                hash |-> hash]
    OBVIOUS
  <2>4. socket.addr = first.addr
    BY <2>3
  <2>5. QED
    BY <2>1, <2>2, <2>3, <2>4
<1>10. seen[k].socket = socket /\ seen[k].dynamic = k.dynamic /\ seen[k].count = 1
  BY <1>9 DEF ServiceRecord
<1>11. seen[k].socket.addr.public <=> k.addr.public
  BY <1>8, <1>9, <1>10, KeyPublic, Zenon
<1>12. seen[k].count \in Nat
  BY <1>10
<1>13. QED
  BY <1>10, <1>11, <1>12, Zenon DEF GoodRecord

\* carry_forward_profile_state changes counts and ports only.
LEMMA CarriedGood ==
    ASSUME NEW seen, NEW prev, NEW m, GoodProfile(seen), GoodProfile(prev)
    PROVE  LET cur == CarryForward(seen, prev, m)
           IN DOMAIN cur = DOMAIN seen /\ GoodProfile(cur)
<1>1. PICK cur : cur = CarryForward(seen, prev, m)
  OBVIOUS
<1>2. DOMAIN cur = DOMAIN seen
  BY <1>1 DEF CarryForward
<1>3. ASSUME NEW k \in DOMAIN seen PROVE GoodRecord(k, cur[k])
  <2>1. PICK before : before = Predecessors(k, seen[k], prev, m)
    OBVIOUS
  <2>2. before \subseteq DOMAIN prev
    BY <2>1 DEF Predecessors
  <2>3. cur[k] = IF before = {} THEN seen[k] ELSE Carried(seen[k], prev[CHOOSE o \in before : TRUE])
    BY <1>1, <2>1 DEF CarryForward
  <2>4. GoodRecord(k, seen[k])
    BY DEF GoodProfile
  <2>5. CASE before = {}
    BY <2>3, <2>4, <2>5, Zenon
  <2>6. CASE before # {}
    <3>1. PICK o : o = (CHOOSE b \in before : TRUE)
      OBVIOUS
    <3>2. o \in before
      BY <2>6, <3>1, Zenon
    <3>3. prev[o].count \in Nat
      BY <2>2, <3>2 DEF GoodProfile, GoodRecord
    <3>4. PICK ports : cur[k] = ServiceRecord(seen[k].socket, seen[k].identity, seen[k].dynamic, prev[o].count + 1, ports)
      BY <2>3, <2>6, <3>1, Zenon DEF Carried
    <3>5. /\ cur[k].socket = seen[k].socket /\ cur[k].dynamic = seen[k].dynamic
          /\ cur[k].count = prev[o].count + 1
      BY <3>4 DEF ServiceRecord
    <3>6. cur[k].count \in Nat
      BY <3>3, <3>5
    <3>7. QED
      BY <2>4, <3>5, <3>6, Zenon DEF GoodRecord
  <2>7. QED
    BY <2>5, <2>6
<1>4. QED
  BY <1>1, <1>2, <1>3 DEF GoodProfile

\* What accounts for a profile goes on doing so.
LEMMA AccountedGrows ==
    ASSUME NEW profile, NEW F, NEW T, NEW G, NEW U, AllAccounted(profile, F, T), F \subseteq G, T \subseteq U
    PROVE  AllAccounted(profile, G, U)
<1>1. \A x : (x \in F => x \in G) /\ (x \in T => x \in U)
  OBVIOUS
<1>2. ASSUME NEW k, NEW r, Accounted(k, r, F, T) PROVE Accounted(k, r, G, U)
  <2>1. ToldOf(k, r.identity, F) => ToldOf(k, r.identity, G)
    BY <1>1, Zenon DEF ToldOf
  <2>2. TakenOver(k, r.identity, T) => TakenOver(k, r.identity, U)
    BY <1>1, Zenon DEF TakenOver
  <2>3. FamilyKnown(r.identity.family, F, T) => FamilyKnown(r.identity.family, G, U)
    BY <1>1, Zenon DEF FamilyKnown
  <2>4. QED
    BY <1>1, <1>2, <2>1, <2>2, <2>3, Zenon DEF Accounted
<1>3. QED
  BY <1>2, Zenon DEF AllAccounted

LEMMA MarkedGrows ==
    ASSUME NEW behavior, NEW F, NEW L, NEW G, NEW M, AllMarked(behavior, F, L), F \subseteq G, L \subseteq M
    PROVE  AllMarked(behavior, G, M)
<1>1. \A x : (x \in F => x \in G) /\ (x \in L => x \in M)
  OBVIOUS
<1>2. QED
  BY <1>1, Zenon DEF AllMarked

\* A profile that becomes the baseline is accounted for by that.
LEMMA BaselineAccounted ==
    ASSUME NEW profile, NEW F, NEW T, Accept(profile, DOMAIN profile, "baseline") \subseteq T
    PROVE  AllAccounted(profile, F, T)
<1>1. ASSUME NEW k \in DOMAIN profile PROVE Accounted(k, profile[k], F, T)
  <2>1. <<k, profile[k].identity, "baseline">> \in Accept(profile, DOMAIN profile, "baseline")
    BY Zenon DEF Accept
  <2>2. <<k, profile[k].identity, "baseline">> \in T
    BY <2>1
  <2>3. QED
    BY <2>2, Zenon DEF Accounted, TakenOver
<1>2. QED
  BY <1>1, Zenon DEF AllAccounted

\* A service that is accounted for and has a known owner makes its family known.
LEMMA FamilyOf ==
    ASSUME NEW k, NEW r, NEW F, NEW T, Accounted(k, r, F, T), KnownIdentity(r)
    PROVE  FamilyKnown(r.identity.family, F, T)
<1>1. CASE ToldOf(k, r.identity, F)
  <2>1. PICK rule \in {"new", "drift"} : <<rule, k, r.identity>> \in F
    BY <1>1, Zenon DEF ToldOf
  <2>2. PICK f : f = <<rule, k, r.identity>>
    OBVIOUS
  <2>3. f[1] = rule /\ f[3] = r.identity
    BY <2>2
  <2>4. f \in F /\ f[1] \in {"new", "drift"} /\ f[3].family = r.identity.family
    BY <2>1, <2>2, <2>3, Zenon
  <2>5. QED
    BY <2>4, Zenon DEF FamilyKnown
<1>2. CASE TakenOver(k, r.identity, T)
  <2>1. PICK reason \in {"baseline", "package"} : <<k, r.identity, reason>> \in T
    BY <1>2, Zenon DEF TakenOver
  <2>2. PICK t : t = <<k, r.identity, reason>>
    OBVIOUS
  <2>3. t[2] = r.identity /\ t[3] = reason
    BY <2>2
  <2>4. t \in T /\ t[3] \in {"baseline", "package"} /\ t[2].family = r.identity.family
    BY <2>1, <2>2, <2>3, Zenon
  <2>5. QED
    BY <2>4, Zenon DEF FamilyKnown
<1>3. QED
  BY <1>1, <1>2, Zenon DEF Accounted

\* A service is in one of these cases of diff_profiles: reported as new or as changed,
\* refreshed by its package, met before under an older key, still in its grace, or
\* unchanged, and then accounted for as in the stored profile.
LEMMA EvaluatedAccounted ==
    ASSUME NEW prev, NEW cur, NEW activity, NEW m, NEW F, NEW T, NEW G, NEW U,
           GoodProfile(prev), GoodProfile(cur), AllAccounted(prev, F, T), F \subseteq G, T \subseteq U,
           DiffProfiles(prev, cur, activity, m) \subseteq G,
           \A k \in DOMAIN cur \cap DOMAIN prev :
               TrustedRefresh(prev[k], cur[k], activity) => <<k, cur[k].identity, "package">> \in U,
           \A k \in DOMAIN cur \ DOMAIN prev :
               LegacySeen(prev, cur[k], m) => <<k, cur[k].identity, "family">> \in U
    PROVE  AllAccounted(cur, G, U)
<1>1. SUFFICES ASSUME NEW k \in DOMAIN cur, cur[k].socket.addr.public
               PROVE  Accounted(k, cur[k], G, U)
  BY Zenon DEF AllAccounted
<1>2. ASSUME NEW rule \in {"new", "drift"},
             <<rule, k, cur[k].identity>> \in DiffProfiles(prev, cur, activity, m)
      PROVE  Accounted(k, cur[k], G, U)
  <2>1. <<rule, k, cur[k].identity>> \in G
    BY <1>2
  <2>2. QED
    BY <2>1, Zenon DEF Accounted, ToldOf
<1>3. cur[k].count \in Nat /\ Grace \in Nat
  BY ServiceProfileAssumption DEF GoodProfile, GoodRecord
<1>4. AllAccounted(prev, G, U)
  BY AccountedGrows
<1>5. CASE k \notin DOMAIN prev
  <2>1. CASE NewServiceReported(prev, cur[k], m)
    <3>1. <<"new", k, cur[k].identity>> \in DiffProfiles(prev, cur, activity, m)
      BY <1>1, <1>5, <2>1, Zenon DEF DiffProfiles
    <3>2. QED
      BY <1>2, <3>1, Zenon
  <2>2. CASE LegacySeen(prev, cur[k], m)
    <3>1. PICK o \in DOMAIN prev : SameDynamicFamily(prev[o], cur[k], m)
      BY <2>2, Zenon DEF LegacySeen
    <3>2. prev[o].socket.addr.public /\ prev[o].identity.family = cur[k].identity.family /\ KnownIdentity(cur[k])
      BY <3>1, Zenon DEF SameDynamicFamily, DynamicUdpService
    <3>3. KnownIdentity(prev[o])
      BY <3>2, Zenon DEF KnownIdentity
    <3>4. Accounted(o, prev[o], G, U)
      BY <1>4, <3>2, Zenon DEF AllAccounted
    <3>5. FamilyKnown(cur[k].identity.family, G, U)
      <4>1. PICK old : old = prev[o]
        OBVIOUS
      <4>2. FamilyKnown(old.identity.family, G, U)
        BY <3>3, <3>4, <4>1, FamilyOf
      <4>3. QED
        BY <3>2, <4>1, <4>2, Zenon
    <3>6. <<k, cur[k].identity, "family">> \in U
      BY <1>5, <2>2
    <3>7. QED
      BY <3>5, <3>6, Zenon DEF Accounted
  <2>3. CASE ~NewServiceReported(prev, cur[k], m) /\ ~LegacySeen(prev, cur[k], m)
    <3>1. cur[k].dynamic /\ ~KnownIdentity(cur[k]) /\ ~(cur[k].count >= Grace)
      BY <2>3, Zenon DEF NewServiceReported
    <3>2. cur[k].count < Grace
      BY <1>3, <3>1
    <3>3. QED
      BY <3>1, <3>2, Zenon DEF Accounted
  <2>4. QED
    BY <2>1, <2>2, <2>3
<1>6. CASE k \in DOMAIN prev
  <2>1. CASE ConfirmationCrossed(prev[k], cur[k])
    <3>1. <<"new", k, cur[k].identity>> \in DiffProfiles(prev, cur, activity, m)
      BY <1>1, <1>6, <2>1, Zenon DEF DiffProfiles
    <3>2. QED
      BY <1>2, <3>1, Zenon
  <2>2. CASE TrustedRefresh(prev[k], cur[k], activity)
    <3>1. <<k, cur[k].identity, "package">> \in U
      BY <1>6, <2>2
    <3>2. QED
      BY <3>1, Zenon DEF Accounted, TakenOver
  <2>3. CASE /\ ~ConfirmationCrossed(prev[k], cur[k]) /\ ~TrustedRefresh(prev[k], cur[k], activity)
             /\ IdentityChanged(prev[k], cur[k])
    <3>1. <<"drift", k, cur[k].identity>> \in DiffProfiles(prev, cur, activity, m)
      BY <1>1, <1>6, <2>3, Zenon DEF DiffProfiles
    <3>2. QED
      BY <1>2, <3>1, Zenon
  <2>4. CASE ~ConfirmationCrossed(prev[k], cur[k]) /\ ~IdentityChanged(prev[k], cur[k])
    <3>1. prev[k].identity = cur[k].identity
      BY <2>4, Zenon DEF IdentityChanged
    <3>2. GoodRecord(k, prev[k]) /\ GoodRecord(k, cur[k])
      BY <1>6, Zenon DEF GoodProfile
    <3>3. prev[k].socket.addr.public
      BY <1>1, <3>2, Zenon DEF GoodRecord
    <3>4. Accounted(k, prev[k], G, U)
      BY <1>4, <1>6, <3>3, Zenon DEF AllAccounted
    <3>5. CASE prev[k].dynamic /\ ~KnownIdentity(prev[k]) /\ prev[k].count < Grace
      <4>1. cur[k].dynamic /\ ~KnownIdentity(cur[k])
        BY <3>1, <3>2, <3>5, Zenon DEF KnownIdentity, GoodRecord
      <4>2. ~(cur[k].count >= Grace)
        BY <2>4, <3>5, <4>1, Zenon DEF ConfirmationCrossed
      <4>3. cur[k].count < Grace
        BY <1>3, <4>2
      <4>4. QED
        BY <4>1, <4>3, Zenon DEF Accounted
    <3>6. CASE ~(prev[k].dynamic /\ ~KnownIdentity(prev[k]) /\ prev[k].count < Grace)
      BY <3>1, <3>4, <3>6, Zenon DEF Accounted
    <3>7. QED
      BY <3>5, <3>6
  <2>5. QED
    BY <2>1, <2>2, <2>3, <2>4
<1>7. QED
  BY <1>5, <1>6

\* What a scan of services is about to save, with its findings, is accounted for.
LEMMA EvaluationGood ==
    ASSUME NEW prev, NEW seen, NEW activity, NEW m, NEW F, NEW T, NEW profiled, NEW e,
           GoodProfile(prev), GoodProfile(seen), AllAccounted(prev, F, T),
           e = IF profiled THEN NextEvaluation(prev, seen, activity, m) ELSE FirstEvaluation(seen)
    PROVE  GoodProfile(e.profile) /\ AllAccounted(e.profile, F \cup e.findings, T \cup e.accepted)
<1>1. CASE ~profiled
  <2>1. e.profile = seen /\ e.accepted = Accept(seen, DOMAIN seen, "baseline")
    BY <1>1 DEF FirstEvaluation, Evaluation
  <2>2. AllAccounted(seen, F \cup e.findings, T \cup e.accepted)
    BY <2>1, BaselineAccounted
  <2>3. QED
    BY <2>1, <2>2
<1>2. CASE profiled
  <2>1. PICK cur : cur = CarryForward(seen, prev, m)
    OBVIOUS
  <2> DEFINE trusted == {k \in DOMAIN cur \cap DOMAIN prev : TrustedRefresh(prev[k], cur[k], activity)}
             legacy == {k \in DOMAIN cur \ DOMAIN prev : LegacySeen(prev, cur[k], m)}
  <2>2. e = Evaluation(cur, DiffProfiles(prev, cur, activity, m),
                       Accept(cur, trusted, "package") \cup Accept(cur, legacy, "family"))
    BY <1>2, <2>1, Zenon DEF NextEvaluation
  <2>3. PICK found1, taken1 :
           /\ found1 = DiffProfiles(prev, cur, activity, m)
           /\ taken1 = Accept(cur, trusted, "package") \cup Accept(cur, legacy, "family")
    OBVIOUS
  <2>4. e.profile = cur /\ e.findings = found1 /\ e.accepted = taken1
    BY <2>2, <2>3 DEF Evaluation
  <2>5. GoodProfile(cur)
    BY <2>1, CarriedGood
  <2>6. ASSUME NEW k \in DOMAIN cur \cap DOMAIN prev, TrustedRefresh(prev[k], cur[k], activity)
        PROVE  <<k, cur[k].identity, "package">> \in T \cup taken1
    BY <2>3, <2>6, Zenon DEF Accept
  <2>7. ASSUME NEW k \in DOMAIN cur \ DOMAIN prev, LegacySeen(prev, cur[k], m)
        PROVE  <<k, cur[k].identity, "family">> \in T \cup taken1
    BY <2>3, <2>7, Zenon DEF Accept
  <2>8. PICK G, U : G = F \cup found1 /\ U = T \cup taken1
    OBVIOUS
  <2>9. F \subseteq G /\ T \subseteq U /\ DiffProfiles(prev, cur, activity, m) \subseteq G
    BY <2>3, <2>8
  <2>10. AllAccounted(cur, G, U)
    BY <2>5, <2>6, <2>7, <2>8, <2>9, EvaluatedAccounted
  <2>11. QED
    BY <2>4, <2>5, <2>8, <2>10
<1>3. QED
  BY <1>1, <1>2

-----------------------------------------------------------------------------
(* ScanMemory: the inductive invariant.                                     *)

\* What a scan works with is as well founded as the rows it was read from.
ScanGood(c, taken, unmarked, told) ==
    /\ DOMAIN c.view.sockets \subseteq Nat
    /\ c.pc \in {"idle", "enrich"} => c.flags = {}
    /\ c.pc = "save_services" =>
          /\ GoodProfile(c.row.profile)
          /\ AllAccounted(c.row.profile, told \cup c.row.findings, taken \cup c.row.accepted)
    /\ c.pc = "save_behavior" =>
          AllMarked(c.row, told, unmarked) /\ BehaviorFlags(c.row, c.view.traffic) \subseteq c.flags

\* What a scan has compared of the logs it has flagged.
LogsSeen(c, logs) ==
    c.pc \in Compared => LogFlags(logs, c.view.logs, c.config.paths) \subseteq c.flags

Rows(m) == m = Remembering(m.profiled, m.services, m.logs, m.starts, m.behavior)

MemoryInv ==
    /\ host \in Hosts /\ Rows(memory)
    /\ scans = [p \in Scanner |-> scans[p]]
    /\ GoodProfile(memory.services) /\ AllAccounted(memory.services, Flagged, accepted)
    /\ AllMarked(memory.behavior, Flagged, learned)
    /\ \A p \in Scanner : ScanGood(scans[p], accepted, learned, Flagged)
    /\ \A p \in Scanner : p \in behind \/ LogsSeen(scans[p], memory.logs)

LEMMA ScanFields ==
    ASSUME NEW pc, NEW view, NEW conf, NEW flags, NEW row
    PROVE  LET c == ScanLocals(pc, view, conf, flags, row)
           IN c.pc = pc /\ c.view = view /\ c.config = conf /\ c.flags = flags /\ c.row = row
BY DEF ScanLocals

LEMMA MemoryFields ==
    ASSUME NEW profiled, NEW services, NEW logs, NEW starts, NEW behavior
    PROVE  LET rows == Remembering(profiled, services, logs, starts, behavior)
           IN /\ rows.services = services /\ rows.logs = logs /\ rows.behavior = behavior
              /\ Rows(rows)
<1>1. PICK rows : rows = Remembering(profiled, services, logs, starts, behavior)
  OBVIOUS
<1>2. /\ rows.profiled = profiled /\ rows.services = services /\ rows.logs = logs
      /\ rows.starts = starts /\ rows.behavior = behavior
  BY <1>1 DEF Remembering
<1>3. Rows(rows)
  BY <1>1, <1>2, Zenon DEF Rows
<1>4. QED
  BY <1>1, <1>2, <1>3

\* The steps that save a row leave the others as they are.
LEMMA RowsSaved ==
    ASSUME NEW m, Rows(m), NEW x
    PROVE  /\ [m EXCEPT !.logs = x] = Remembering(m.profiled, m.services, x, m.starts, m.behavior)
           /\ [m EXCEPT !.starts = x] = Remembering(m.profiled, m.services, m.logs, x, m.behavior)
           /\ [m EXCEPT !.behavior = x] = Remembering(m.profiled, m.services, m.logs, m.starts, x)
<1>1. PICK a, b, c, d, e : m = [profiled |-> a, services |-> b, logs |-> c, starts |-> d, behavior |-> e]
  BY Zenon DEF Rows, Remembering
<1>2. m.profiled = a /\ m.services = b /\ m.logs = c /\ m.starts = d /\ m.behavior = e
  BY <1>1
<1>3. [m EXCEPT !.logs = x] = [profiled |-> a, services |-> b, logs |-> x, starts |-> d, behavior |-> e]
  BY <1>1
<1>4. [m EXCEPT !.starts = x] = [profiled |-> a, services |-> b, logs |-> c, starts |-> x, behavior |-> e]
  BY <1>1
<1>5. [m EXCEPT !.behavior = x] = [profiled |-> a, services |-> b, logs |-> c, starts |-> d, behavior |-> x]
  BY <1>1
<1>6. QED
  BY <1>2, <1>3, <1>4, <1>5, Zenon DEF Remembering

LEMMA GoodGrows ==
    ASSUME NEW c, NEW T, NEW L, NEW F, NEW U, NEW M, NEW G,
           ScanGood(c, T, L, F), T \subseteq U, L \subseteq M, F \subseteq G
    PROVE  ScanGood(c, U, M, G)
<1>1. ASSUME AllAccounted(c.row.profile, F \cup c.row.findings, T \cup c.row.accepted)
      PROVE  AllAccounted(c.row.profile, G \cup c.row.findings, U \cup c.row.accepted)
  <2>1. F \cup c.row.findings \subseteq G \cup c.row.findings /\ T \cup c.row.accepted \subseteq U \cup c.row.accepted
    OBVIOUS
  <2>2. QED
    BY <1>1, <2>1, AccountedGrows
<1>2. AllMarked(c.row, F, L) => AllMarked(c.row, G, M)
  BY MarkedGrows
<1>3. QED
  BY <1>1, <1>2, Zenon DEF ScanGood

LEMMA RowsKeep ==
    ASSUME MemoryInv, accepted \subseteq accepted', learned \subseteq learned', Flagged \subseteq Flagged'
    PROVE  /\ AllAccounted(memory.services, Flagged', accepted')
           /\ AllMarked(memory.behavior, Flagged', learned')
<1>1. AllAccounted(memory.services, Flagged, accepted) /\ AllMarked(memory.behavior, Flagged, learned)
  BY DEF MemoryInv
<1>2. PICK F, T, L, G, U, M : /\ F = Flagged /\ T = accepted /\ L = learned
                              /\ G = Flagged' /\ U = accepted' /\ M = learned'
  OBVIOUS
<1>3. F \subseteq G /\ T \subseteq U /\ L \subseteq M
  BY <1>2
<1>4. AllAccounted(memory.services, G, U)
  BY <1>1, <1>2, <1>3, AccountedGrows
<1>5. AllMarked(memory.behavior, G, M)
  BY <1>1, <1>2, <1>3, MarkedGrows
<1>6. QED
  BY <1>2, <1>4, <1>5

\* No flag is forgotten: it stays with the scan, or is saved or lost.
LEMMA FlagsKept ==
    ASSUME MemoryInv, NEW p \in Scanner, NEW c, Go(p, c),
           scans[p].flags \subseteq c.flags \cup found' \cup signals' \cup lost',
           found \subseteq found', signals \subseteq signals', lost \subseteq lost'
    PROVE  /\ Flagged \subseteq Flagged'
           /\ c.flags \subseteq Flagged'
<1>1. PICK next : next = scans'
  OBVIOUS
<1>2. next = [scans EXCEPT ![p] = c] /\ scans = [q \in Scanner |-> scans[q]]
  BY <1>1 DEF Go, MemoryInv
<1>3. next[p] = c /\ \A q \in Scanner : q # p => next[q] = scans[q]
  BY <1>2
<1>4. Flagged' = found' \cup signals' \cup lost' \cup UNION {next[q].flags : q \in Scanner}
  BY <1>1 DEF Flagged
<1>5. \A q \in Scanner : next[q].flags \subseteq Flagged'
  BY <1>4
<1>6. c.flags \subseteq Flagged'
  BY <1>3, <1>5
<1>7. ASSUME NEW x \in Flagged PROVE x \in Flagged'
  <2>1. CASE x \in found \cup signals \cup lost
    BY <1>4, <2>1
  <2>2. CASE \E q \in Scanner : x \in scans[q].flags
    <3>1. PICK q \in Scanner : x \in scans[q].flags
      BY <2>2
    <3>2. CASE q = p
      BY <1>4, <1>6, <3>1, <3>2
    <3>3. CASE q # p
      BY <1>3, <1>5, <3>1, <3>3
    <3>4. QED
      BY <3>2, <3>3
  <2>3. QED
    BY <2>1, <2>2 DEF Flagged
<1>8. QED
  BY <1>6, <1>7

LEMMA ScanMoves ==
    ASSUME MemoryInv, NEW p \in Scanner, NEW c, Go(p, c), host' \in Hosts, Rows(memory'),
           Flagged \subseteq Flagged', accepted \subseteq accepted', learned \subseteq learned',
           GoodProfile(memory'.services), AllAccounted(memory'.services, Flagged', accepted'),
           AllMarked(memory'.behavior, Flagged', learned'),
           ScanGood(c, accepted', learned', Flagged'),
           p \in behind' \/ LogsSeen(c, memory'.logs),
           \A q \in Scanner \ {p} :
               q \in behind' \/ (q \notin behind /\ (memory'.logs = memory.logs \/ scans[q].pc \notin Compared))
    PROVE  MemoryInv'
<1>1. scans' = [scans EXCEPT ![p] = c] /\ scans = [q \in Scanner |-> scans[q]]
  BY DEF Go, MemoryInv
<1>2. scans' = [q \in Scanner |-> scans'[q]] /\ scans'[p] = c /\ \A q \in Scanner : q # p => scans'[q] = scans[q]
  BY <1>1
<1>3. ASSUME NEW q \in Scanner PROVE ScanGood(scans'[q], accepted', learned', Flagged')
  <2>1. ScanGood(scans[q], accepted', learned', Flagged')
    <3>1. ScanGood(scans[q], accepted, learned, Flagged)
      BY DEF MemoryInv
    <3>2. QED
      BY <3>1, GoodGrows
  <2>2. QED
    BY <1>2, <2>1
<1>4. ASSUME NEW q \in Scanner, q \notin behind' PROVE LogsSeen(scans'[q], memory'.logs)
  <2>1. CASE q = p
    BY <1>2, <1>4, <2>1
  <2>2. CASE q # p
    <3>1. scans'[q] = scans[q]
      BY <1>2, <2>2
    <3>2. LogsSeen(scans[q], memory.logs)
      BY <1>4, <2>2 DEF MemoryInv
    <3>3. CASE memory'.logs = memory.logs
      BY <3>1, <3>2, <3>3, Zenon
    <3>4. CASE scans[q].pc \notin Compared
      BY <3>1, <3>4, Zenon DEF LogsSeen
    <3>5. QED
      BY <1>4, <2>2, <3>3, <3>4
  <2>3. QED
    BY <2>1, <2>2
<1>5. /\ (host \in Hosts /\ Rows(memory))' /\ (scans = [q \in Scanner |-> scans[q]])'
      /\ (GoodProfile(memory.services) /\ AllAccounted(memory.services, Flagged, accepted))'
      /\ (AllMarked(memory.behavior, Flagged, learned))'
      /\ (\A q \in Scanner : ScanGood(scans[q], accepted, learned, Flagged))'
      /\ (\A q \in Scanner : q \in behind \/ LogsSeen(scans[q], memory.logs))'
  BY <1>2, <1>3, <1>4
<1>6. QED
  BY <1>5 DEF MemoryInv

-----------------------------------------------------------------------------
(* ScanMemory: every step keeps the invariant.                              *)

LEMMA SocketsPlaced == ASSUME NEW h \in Hosts PROVE DOMAIN h.sockets \subseteq Nat
<1>1. h.sockets \in Seq(Range(h.sockets))
  BY ScanMemoryAssumption
<1>2. PICK s, S : s = h.sockets /\ S = Range(h.sockets)
  OBVIOUS
<1>3. DOMAIN s = 1 .. Len(s) /\ Len(s) \in Nat
  BY <1>1, <1>2, LenProperties
<1>4. QED
  BY <1>2, <1>3

LEMMA MemoryInitInv == MemoryInit => MemoryInv
<1>1. SUFFICES ASSUME MemoryInit PROVE MemoryInv
  OBVIOUS
<1>2. \A p \in Scanner : scans[p].pc = "idle" /\ scans[p].view = FirstHost /\ scans[p].flags = {}
  BY <1>1, ScanFields DEF MemoryInit, Idle
<1>3. host \in Hosts /\ scans = [p \in Scanner |-> scans[p]]
  BY <1>1, ScanMemoryAssumption DEF MemoryInit
<1>4. DOMAIN FirstHost.sockets \subseteq Nat
  BY ScanMemoryAssumption, SocketsPlaced
<1>5. \A p \in Scanner : ScanGood(scans[p], accepted, learned, Flagged) /\ LogsSeen(scans[p], memory.logs)
  BY <1>2, <1>4 DEF ScanGood, LogsSeen, Compared
<1>6. /\ GoodProfile(memory.services) /\ AllAccounted(memory.services, Flagged, accepted)
      /\ AllMarked(memory.behavior, Flagged, learned) /\ Rows(memory)
  <2>1. CASE memory = Remembering(FALSE, Nothing, Nothing, Nothing, Nothing)
    <3>1. memory.services = Nothing /\ memory.behavior = Nothing /\ Rows(memory)
      <4>1. PICK profiled : profiled = FALSE
        OBVIOUS
      <4>2. memory = Remembering(profiled, Nothing, Nothing, Nothing, Nothing)
        BY <2>1, <4>1, Zenon
      <4>3. QED
        BY <4>2, MemoryFields
    <3>2. DOMAIN Nothing = {}
      BY DEF Nothing
    <3>3. QED
      BY <3>1, <3>2 DEF GoodProfile, AllAccounted, AllMarked
  <2>2. ASSUME NEW first, NEW behavior, NEW logs, NEW starts,
               first = CurrentProfile(FirstHost.sockets, config.minPort),
               memory = Remembering(TRUE, first, logs, starts, behavior),
               accepted = Accept(first, DOMAIN first, "baseline"),
               learned = UnmarkedPorts(Nothing, behavior, FirstHost.traffic)
        PROVE  /\ GoodProfile(memory.services) /\ AllAccounted(memory.services, Flagged, accepted)
               /\ AllMarked(memory.behavior, Flagged, learned) /\ Rows(memory)
    <3>1. memory.services = first /\ memory.behavior = behavior /\ Rows(memory)
      <4>1. PICK profiled : profiled = TRUE
        OBVIOUS
      <4>2. memory = Remembering(profiled, first, logs, starts, behavior)
        BY <2>2, <4>1, Zenon
      <4>3. QED
        BY <4>2, MemoryFields
    <3>2. GoodProfile(first)
      BY <1>4, <2>2, CurrentGood
    <3>3. AllAccounted(first, Flagged, accepted)
      BY <2>2, BaselineAccounted
    <3>4. \A j : j \notin DOMAIN Nothing
      BY DEF Nothing
    <3>5. ASSUME NEW i \in DOMAIN behavior, NEW port \in behavior[i].ports PROVE <<i, port>> \in learned
      BY <2>2, <3>4 DEF UnmarkedPorts
    <3>6. AllMarked(behavior, Flagged, learned)
      BY <3>5 DEF AllMarked
    <3>7. QED
      BY <3>1, <3>2, <3>3, <3>6
  <2>3. QED
    BY <1>1, <2>1, <2>2, Zenon DEF MemoryInit
<1>7. QED
  BY <1>3, <1>5, <1>6 DEF MemoryInv

LEMMA CollectViewKeeps == ASSUME MemoryInv, NEW p \in Scanner, CollectView(p) PROVE MemoryInv'
<1>1. PICK view \in {FullView} \cup PartialViews : Go(p, ScanLocals("enrich", view, config, {}, Nothing))
  BY Zenon DEF CollectView
<1>2. PICK c : c = ScanLocals("enrich", view, config, {}, Nothing)
  OBVIOUS
<1>3. c.pc = "enrich" /\ c.view = view /\ c.flags = {}
  BY <1>2, ScanFields
<1>4. DOMAIN view.sockets \subseteq Nat
  <2>1. DOMAIN host.sockets \subseteq Nat /\ DOMAIN Nothing \subseteq Nat
    BY SocketsPlaced DEF MemoryInv, Nothing
  <2>2. \A sockets, logs : ViewOf(sockets, logs).sockets = sockets
    BY DEF ViewOf
  <2>3. \E sockets \in {host.sockets, Nothing} : \E logs : view = ViewOf(sockets, logs)
    BY <1>1, Zenon DEF FullView, PartialViews
  <2>4. QED
    BY <2>1, <2>2, <2>3
<1>5. UNCHANGED <<host, memory, found, signals, lost, accepted, learned, behind>>
  BY DEF CollectView, histories
<1>6. scans[p].flags = {}
  BY DEF CollectView, ScanAt, MemoryInv, ScanGood
<1>7. Flagged \subseteq Flagged'
  BY <1>1, <1>2, <1>5, <1>6, FlagsKept
<1>8. ScanGood(c, accepted', learned', Flagged') /\ LogsSeen(c, memory'.logs)
  BY <1>3, <1>4 DEF ScanGood, LogsSeen, Compared
<1>9. /\ GoodProfile(memory'.services) /\ AllAccounted(memory'.services, Flagged', accepted')
      /\ AllMarked(memory'.behavior, Flagged', learned')
  BY <1>5, <1>7, RowsKeep DEF MemoryInv
<1>10. /\ host' \in Hosts /\ Rows(memory') /\ accepted \subseteq accepted' /\ learned \subseteq learned'
       /\ memory'.logs = memory.logs
  BY <1>5 DEF MemoryInv
<1>11. QED
  BY <1>1, <1>2, <1>5, <1>7, <1>8, <1>9, <1>10, ScanMoves

LEMMA EnrichEventsKeeps == ASSUME MemoryInv, NEW p \in Scanner, EnrichEvents(p) PROVE MemoryInv'
<1>1. PICK view, conf, seen, marks, c :
         /\ view = scans[p].view /\ conf = scans[p].config
         /\ seen = LogFlags(memory.logs, view.logs, conf.paths) \cup StartFlags(memory.starts, view.starts)
         /\ marks = BehaviorFlags(memory.behavior, view.traffic)
         /\ \/ c = ScanLocals("save_behavior", view, conf, seen \cup marks, memory.behavior)
            \/ c = ScanLocals("services", view, conf, seen, Nothing)
         /\ Go(p, c)
  BY Zenon DEF EnrichEvents
<1>2. /\ c.view = view /\ c.config = conf /\ seen \subseteq c.flags
      /\ \/ c.pc = "save_behavior" /\ c.flags = seen \cup marks /\ c.row = memory.behavior
         \/ c.pc = "services"
  BY <1>1, ScanFields
<1>3. LogFlags(memory.logs, c.view.logs, c.config.paths) \subseteq c.flags
  BY <1>1, <1>2
<1>4. DOMAIN view.sockets \subseteq Nat
  BY <1>1 DEF MemoryInv, ScanGood
<1>5. UNCHANGED <<host, memory, found, signals, lost, accepted, learned>> /\ behind' = behind \ {p}
  BY DEF EnrichEvents
<1>6. scans[p].flags = {}
  BY DEF EnrichEvents, ScanAt, MemoryInv, ScanGood
<1>7. Flagged \subseteq Flagged'
  BY <1>1, <1>5, <1>6, FlagsKept
<1>8. /\ GoodProfile(memory'.services) /\ AllAccounted(memory'.services, Flagged', accepted')
      /\ AllMarked(memory'.behavior, Flagged', learned')
  BY <1>5, <1>7, RowsKeep DEF MemoryInv
<1>9. ScanGood(c, accepted', learned', Flagged') /\ LogsSeen(c, memory'.logs)
  <2>1. LogsSeen(c, memory'.logs)
    BY <1>3, <1>5, Zenon DEF LogsSeen
  <2>2. CASE c.pc = "services"
    BY <1>2, <1>4, <2>1, <2>2 DEF ScanGood
  <2>3. CASE c.pc = "save_behavior" /\ c.flags = seen \cup marks /\ c.row = memory.behavior
    <3>1. BehaviorFlags(c.row, c.view.traffic) \subseteq c.flags
      BY <1>1, <1>2, <2>3
    <3>2. AllMarked(c.row, Flagged', learned')
      BY <1>5, <1>8, <2>3
    <3>3. QED
      BY <1>2, <1>4, <2>1, <2>3, <3>1, <3>2 DEF ScanGood
  <2>4. QED
    BY <1>2, <2>2, <2>3
<1>10. /\ host' \in Hosts /\ Rows(memory') /\ accepted \subseteq accepted' /\ learned \subseteq learned'
       /\ memory'.logs = memory.logs
  BY <1>5 DEF MemoryInv
<1>11. QED
  BY <1>1, <1>5, <1>7, <1>8, <1>9, <1>10, ScanMoves

\* A scan that goes on with at least the flags it had, and nothing else in hand.
LEMMA ScanGoesOn ==
    ASSUME MemoryInv, NEW p \in Scanner, NEW pc, NEW c, NEW flags,
           pc \in {"services", "save_starts", "save_logs", "save_found"},
           c = ScanLocals(pc, scans[p].view, scans[p].config, flags, Nothing), Go(p, c),
           scans[p].pc \in Compared, scans[p].flags \subseteq flags,
           UNCHANGED <<host, found, signals, lost>>, Rows(memory'),
           accepted \subseteq accepted', learned \subseteq learned', behind \subseteq behind',
           GoodProfile(memory'.services),
           Flagged \cup flags \subseteq Flagged' =>
               /\ AllAccounted(memory'.services, Flagged', accepted')
               /\ AllMarked(memory'.behavior, Flagged', learned'),
           \/ memory'.logs = memory.logs /\ behind' = behind
           \/ pc = "save_found" /\ \A q \in Scanner : q \in behind' \/ (q \notin behind /\ scans[q].pc \notin Compared)
    PROVE  MemoryInv'
<1>1. c.pc = pc /\ c.view = scans[p].view /\ c.config = scans[p].config /\ c.flags = flags
  BY ScanFields
<1>2. Flagged \subseteq Flagged' /\ flags \subseteq Flagged'
  <2>1. scans[p].flags \subseteq c.flags \cup found' \cup signals' \cup lost'
    BY <1>1
  <2>2. QED
    BY <1>1, <2>1, FlagsKept
<1>3. ScanGood(c, accepted', learned', Flagged')
  BY <1>1 DEF ScanGood, MemoryInv
<1>4. p \in behind' \/ LogsSeen(c, memory'.logs)
  <2>1. CASE memory'.logs = memory.logs /\ behind' = behind
    <3>1. p \in behind \/ LogsSeen(scans[p], memory.logs)
      BY DEF MemoryInv
    <3>2. QED
      BY <1>1, <2>1, <3>1 DEF LogsSeen
  <2>2. CASE pc = "save_found"
    BY <1>1, <2>2 DEF LogsSeen, Compared
  <2>3. QED
    BY <2>1, <2>2
<1>5. \A q \in Scanner \ {p} :
         q \in behind' \/ (q \notin behind /\ (memory'.logs = memory.logs \/ scans[q].pc \notin Compared))
  OBVIOUS
<1>6. host' \in Hosts
  BY DEF MemoryInv
<1>7. AllAccounted(memory'.services, Flagged', accepted') /\ AllMarked(memory'.behavior, Flagged', learned')
  BY <1>2
<1>8. QED
  BY <1>2, <1>3, <1>4, <1>5, <1>6, <1>7, ScanMoves

\* The same when no row is saved, or one that ScanGood does not speak of.
LEMMA ContinueKeeps ==
    ASSUME MemoryInv, NEW p \in Scanner, NEW pc, pc \in {"services", "save_starts", "save_logs", "save_found"},
           Continue(p, pc), scans[p].pc \in Compared,
           UNCHANGED <<host, found, signals, lost, accepted, learned>>,
           behind \subseteq behind', Rows(memory'),
           memory'.services = memory.services, memory'.behavior = memory.behavior,
           \/ memory'.logs = memory.logs /\ behind' = behind
           \/ pc = "save_found" /\ \A q \in Scanner : q \in behind' \/ (q \notin behind /\ scans[q].pc \notin Compared)
    PROVE  MemoryInv'
<1>1. PICK c, flags : /\ flags = scans[p].flags
                      /\ c = ScanLocals(pc, scans[p].view, scans[p].config, flags, Nothing) /\ Go(p, c)
  BY Zenon DEF Continue
<1>2. Flagged \cup flags \subseteq Flagged' =>
         /\ AllAccounted(memory'.services, Flagged', accepted')
         /\ AllMarked(memory'.behavior, Flagged', learned')
  BY RowsKeep
<1>3. GoodProfile(memory'.services)
  BY DEF MemoryInv
<1>4. accepted \subseteq accepted' /\ learned \subseteq learned' /\ scans[p].flags \subseteq flags
  BY <1>1
<1>5. QED
  BY <1>1, <1>2, <1>3, <1>4, ScanGoesOn

\* next_state takes over no port that was neither stored nor seen now.
LEMMA NextPorts ==
    ASSUME NEW prev, NEW traffic, NEW now, NEW i \in DOMAIN NextBehavior(prev, traffic, now),
           NEW port \in NextBehavior(prev, traffic, now)[i].ports
    PROVE  \/ i \in DOMAIN prev /\ port \in prev[i].ports
           \/ i \in DOMAIN traffic /\ port \in traffic[i].ports
<1> DEFINE old(j) == IF j \in DOMAIN prev THEN prev[j] ELSE FreshIdentity
           merged(j) == [count |-> old(j).count + 1, seen |-> now,
                         ports |-> Smallest(old(j).ports \cup traffic[j].ports, MaxRemotePorts),
                         fanout |-> Max({old(j).fanout, traffic[j].fanout})]
<1>1. PICK all : all = [j \in DOMAIN prev \cup DOMAIN traffic |->
                           IF j \in DOMAIN traffic THEN merged(j) ELSE prev[j]]
  OBVIOUS
<1>2. NextBehavior(prev, traffic, now) = Pruned(all, now)
  BY <1>1, Zenon DEF NextBehavior
<1>3. PICK kept : kept \subseteq DOMAIN all /\ Pruned(all, now) = Restrict(all, kept)
  BY DEF Pruned
<1>4. Restrict(all, kept) = [j \in kept |-> all[j]]
  BY DEF Restrict
<1>5. i \in DOMAIN prev \cup DOMAIN traffic /\ port \in all[i].ports
  <2>1. PICK next : next = NextBehavior(prev, traffic, now)
    OBVIOUS
  <2>2. next = [j \in kept |-> all[j]]
    BY <1>2, <1>3, <1>4, <2>1
  <2>3. DOMAIN all = DOMAIN prev \cup DOMAIN traffic
    BY <1>1
  <2>4. i \in kept /\ next[i] = all[i]
    BY <2>1, <2>2
  <2>5. QED
    BY <1>3, <2>1, <2>3, <2>4
<1>6. CASE i \in DOMAIN traffic
  <2>1. PICK ports : ports = old(i).ports \cup traffic[i].ports
    OBVIOUS
  <2>2. all[i].ports = Smallest(ports, MaxRemotePorts)
    BY <1>1, <1>6, <2>1
  <2>3. port \in ports
    BY <1>5, <2>2 DEF Smallest
  <2>4. FreshIdentity.ports = {}
    BY DEF FreshIdentity
  <2>5. QED
    BY <1>6, <2>1, <2>3, <2>4
<1>7. CASE i \notin DOMAIN traffic
  BY <1>1, <1>5, <1>7
<1>8. QED
  BY <1>6, <1>7

LEMMA SaveBehaviorKeeps == ASSUME MemoryInv, NEW p \in Scanner, SaveBehavior(p) PROVE MemoryInv'
<1>1. PICK prev, traffic, next :
         /\ prev = scans[p].row /\ traffic = scans[p].view.traffic
         /\ next = NextBehavior(prev, traffic, used.scans)
  OBVIOUS
<1>2. /\ scans[p].pc = "save_behavior" /\ Continue(p, "services")
      /\ UNCHANGED <<host, found, signals, lost, accepted, behind>>
  BY DEF SaveBehavior, ScanAt
<1>3. scans[p].pc \in Compared
  BY <1>2 DEF Compared
<1>4. CASE UNCHANGED <<memory, learned>>
  <2>1. Rows(memory') /\ behind \subseteq behind'
    BY <1>2, <1>4 DEF MemoryInv
  <2>2. QED
    BY <1>2, <1>3, <1>4, <2>1, ContinueKeeps
<1>5. CASE /\ memory' = [memory EXCEPT !.behavior = next]
           /\ learned' = learned \cup UnmarkedPorts(prev, next, traffic)
  <2>1. /\ memory'.services = memory.services /\ memory'.logs = memory.logs /\ memory'.behavior = next
        /\ Rows(memory')
    <3>1. memory' = Remembering(memory.profiled, memory.services, memory.logs, memory.starts, next)
      BY <1>5, RowsSaved DEF MemoryInv
    <3>2. QED
      BY <3>1, MemoryFields
  <2>2. ASSUME Flagged \subseteq Flagged', NEW i \in DOMAIN next, NEW port \in next[i].ports
        PROVE  <<i, port>> \in learned' \/ <<"new_remote_port", i, port>> \in Flagged'
    <3>1. CASE \/ i \notin DOMAIN prev \/ ~Mature(prev[i]) \/ Saturated(prev[i])
               \/ (i \in DOMAIN traffic /\ ~traffic[i].process)
      <4>1. <<i, port>> \in UnmarkedPorts(prev, next, traffic)
        BY <2>2, <3>1 DEF UnmarkedPorts
      <4>2. QED
        BY <1>5, <4>1
    <3>2. CASE /\ i \in DOMAIN prev /\ Mature(prev[i]) /\ ~Saturated(prev[i])
               /\ (i \in DOMAIN traffic => traffic[i].process)
      <4>1. CASE port \in prev[i].ports
        <5>1. AllMarked(prev, Flagged, learned)
          BY <1>1, <1>2 DEF MemoryInv, ScanGood
        <5>2. <<i, port>> \in learned \/ <<"new_remote_port", i, port>> \in Flagged
          BY <3>2, <4>1, <5>1, Zenon DEF AllMarked
        <5>3. QED
          BY <1>5, <2>2, <5>2
      <4>2. CASE port \notin prev[i].ports
        <5>1. i \in DOMAIN traffic /\ port \in traffic[i].ports
          BY <1>1, <2>2, <4>2, NextPorts
        <5>2. PICK told : told = <<"new_remote_port", i, port>>
          OBVIOUS
        <5>3. told \in BehaviorFlags(prev, traffic)
          <6>1. PICK fresh : fresh = {<<"new_remote_port", i, q>> : q \in traffic[i].ports \ prev[i].ports}
            OBVIOUS
          <6>2. told \in fresh
            BY <4>2, <5>1, <5>2, <6>1, Zenon
          <6>3. fresh \subseteq BehaviorFlags(prev, traffic)
            BY <3>2, <5>1, <6>1 DEF BehaviorFlags
          <6>4. QED
            BY <6>2, <6>3
        <5>4. BehaviorFlags(prev, traffic) \subseteq scans[p].flags
          BY <1>1, <1>2 DEF MemoryInv, ScanGood
        <5>5. scans[p].flags \subseteq Flagged
          BY DEF Flagged
        <5>6. QED
          BY <2>2, <5>2, <5>3, <5>4, <5>5
      <4>3. QED
        BY <4>1, <4>2
    <3>3. QED
      BY <3>1, <3>2
  <2>3. Flagged \subseteq Flagged' => AllMarked(memory'.behavior, Flagged', learned')
    BY <2>1, <2>2, Zenon DEF AllMarked
  <2>4. learned \subseteq learned' /\ accepted \subseteq accepted' /\ behind \subseteq behind'
    BY <1>2, <1>5
  <2>5. Flagged \subseteq Flagged' => AllAccounted(memory'.services, Flagged', accepted')
    BY <2>1, <2>4, RowsKeep
  <2>6. GoodProfile(memory'.services)
    BY <2>1 DEF MemoryInv
  <2>7. PICK c, flags : /\ flags = scans[p].flags
                        /\ c = ScanLocals("services", scans[p].view, scans[p].config, flags, Nothing) /\ Go(p, c)
    BY <1>2, Zenon DEF Continue
  <2>8. Flagged \cup flags \subseteq Flagged' =>
           /\ AllAccounted(memory'.services, Flagged', accepted')
           /\ AllMarked(memory'.behavior, Flagged', learned')
    BY <2>3, <2>5
  <2>9. QED
    BY <1>2, <1>3, <2>1, <2>4, <2>6, <2>7, <2>8, ScanGoesOn
<1>6. QED
  BY <1>1, <1>4, <1>5, Zenon DEF SaveBehavior

LEMMA EvaluateServicesKeeps == ASSUME MemoryInv, NEW p \in Scanner, EvaluateServices(p) PROVE MemoryInv'
<1>1. UNCHANGED <<host, memory, found, signals, lost, accepted, learned, behind>> /\ scans[p].pc = "services"
  BY DEF EvaluateServices, ScanAt, histories
<1>2. scans[p].pc \in Compared
  BY <1>1 DEF Compared
<1>3. Rows(memory') /\ behind \subseteq behind'
  BY <1>1 DEF MemoryInv
<1>4. CASE Continue(p, "save_starts")
  BY <1>1, <1>2, <1>3, <1>4, ContinueKeeps
<1>5. ASSUME NEW view, NEW conf, NEW seen, NEW e, NEW c,
             view = scans[p].view, conf = scans[p].config,
             seen = CurrentProfile(view.sockets, conf.minPort),
             e = IF memory.profiled THEN NextEvaluation(memory.services, seen, view.packages, conf.minPort)
                 ELSE FirstEvaluation(seen),
             c = ScanLocals("save_services", view, conf, scans[p].flags, e), Go(p, c)
      PROVE  MemoryInv'
  <2>1. c.pc = "save_services" /\ c.view = view /\ c.config = conf /\ c.flags = scans[p].flags /\ c.row = e
    BY <1>5, ScanFields
  <2>2. DOMAIN view.sockets \subseteq Nat
    BY <1>5 DEF MemoryInv, ScanGood
  <2>3. GoodProfile(seen)
    BY <1>5, <2>2, CurrentGood
  <2>4. GoodProfile(memory.services) /\ AllAccounted(memory.services, Flagged, accepted)
    BY DEF MemoryInv
  <2>5. GoodProfile(e.profile) /\ AllAccounted(e.profile, Flagged \cup e.findings, accepted \cup e.accepted)
    <3>1. PICK prev, activity, m, F, T : /\ prev = memory.services /\ activity = view.packages
                                         /\ m = conf.minPort /\ F = Flagged /\ T = accepted
      OBVIOUS
    <3>2. GoodProfile(e.profile) /\ AllAccounted(e.profile, F \cup e.findings, T \cup e.accepted)
      <4>1. PICK profiled : profiled = memory.profiled
        OBVIOUS
      <4>2. e = IF profiled THEN NextEvaluation(prev, seen, activity, m) ELSE FirstEvaluation(seen)
        BY <1>5, <3>1, <4>1, Zenon
      <4>3. GoodProfile(prev) /\ AllAccounted(prev, F, T)
        BY <2>4, <3>1, Zenon
      <4>4. QED
        BY <2>3, <4>2, <4>3, EvaluationGood, Zenon
    <3>3. QED
      BY <3>1, <3>2
  <2>6. Flagged \subseteq Flagged'
    BY <1>1, <1>5, <2>1, FlagsKept
  <2>7. ScanGood(c, accepted', learned', Flagged')
    <3>1. ScanGood(c, accepted, learned, Flagged)
      BY <2>1, <2>2, <2>5 DEF ScanGood
    <3>2. accepted \subseteq accepted' /\ learned \subseteq learned'
      BY <1>1
    <3>3. QED
      BY <2>6, <3>1, <3>2, GoodGrows
  <2>8. /\ GoodProfile(memory'.services) /\ AllAccounted(memory'.services, Flagged', accepted')
        /\ AllMarked(memory'.behavior, Flagged', learned')
    BY <1>1, <2>4, <2>6, RowsKeep, SMTT(30)
  <2>9. p \in behind' \/ LogsSeen(c, memory'.logs)
    <3>1. p \in behind \/ LogsSeen(scans[p], memory.logs)
      BY DEF MemoryInv
    <3>2. QED
      BY <1>1, <1>2, <1>5, <2>1, <3>1, ZenonT(60) DEF LogsSeen
  <2>10. /\ host' \in Hosts /\ accepted \subseteq accepted' /\ learned \subseteq learned'
         /\ memory'.logs = memory.logs
    BY <1>1 DEF MemoryInv
  <2>11. QED
    BY <1>1, <1>3, <1>5, <2>6, <2>7, <2>8, <2>9, <2>10, ScanMoves, SMTT(30)
<1>6. QED
  BY <1>4, <1>5, Zenon DEF EvaluateServices

LEMMA SaveServicesKeeps == ASSUME MemoryInv, NEW p \in Scanner, SaveServices(p) PROVE MemoryInv'
<1>1. UNCHANGED <<host, found, signals, lost, learned, behind>> /\ scans[p].pc = "save_services"
  BY DEF SaveServices, ScanAt
<1>2. scans[p].pc \in Compared
  BY <1>1 DEF Compared
<1>3. CASE Continue(p, "save_starts") /\ UNCHANGED <<memory, accepted>>
  <2>1. Rows(memory') /\ behind \subseteq behind'
    BY <1>1, <1>3 DEF MemoryInv
  <2>2. QED
    BY <1>1, <1>2, <1>3, <2>1, ContinueKeeps
<1>4. ASSUME NEW e, NEW flags, NEW c, e = scans[p].row, flags = scans[p].flags \cup e.findings,
             memory' = Remembering(TRUE, e.profile, memory.logs, memory.starts, memory.behavior),
             accepted' = accepted \cup e.accepted,
             c = ScanLocals("save_starts", scans[p].view, scans[p].config, flags, Nothing), Go(p, c)
      PROVE  MemoryInv'
  <2>1. /\ memory'.services = e.profile /\ memory'.logs = memory.logs /\ memory'.behavior = memory.behavior
        /\ Rows(memory')
    <3>1. PICK profiled : profiled = TRUE
      OBVIOUS
    <3>2. memory' = Remembering(profiled, e.profile, memory.logs, memory.starts, memory.behavior)
      BY <1>4, <3>1, Zenon
    <3>3. QED
      BY <3>2, MemoryFields
  <2>2. GoodProfile(e.profile) /\ AllAccounted(e.profile, Flagged \cup e.findings, accepted \cup e.accepted)
    BY <1>1, <1>4 DEF MemoryInv, ScanGood
  <2>3. /\ accepted \subseteq accepted' /\ learned \subseteq learned' /\ behind \subseteq behind'
        /\ scans[p].flags \subseteq flags
    BY <1>1, <1>4
  <2>4. ASSUME Flagged \cup flags \subseteq Flagged'
        PROVE  /\ AllAccounted(memory'.services, Flagged', accepted')
               /\ AllMarked(memory'.behavior, Flagged', learned')
    <3>1. PICK F, T, G, U : /\ F = Flagged \cup e.findings /\ T = accepted \cup e.accepted
                            /\ G = Flagged' /\ U = accepted'
      OBVIOUS
    <3>2. F \subseteq G /\ T \subseteq U
      BY <1>4, <2>4, <3>1
    <3>3. AllAccounted(e.profile, G, U)
      BY <2>2, <3>1, <3>2, AccountedGrows
    <3>4. AllMarked(memory'.behavior, Flagged', learned')
      BY <2>1, <2>3, <2>4, RowsKeep
    <3>5. QED
      BY <2>1, <3>1, <3>3, <3>4
  <2>5. GoodProfile(memory'.services)
    BY <2>1, <2>2
  <2>6. PICK pc : pc = "save_starts"
    OBVIOUS
  <2>7. /\ pc \in {"services", "save_starts", "save_logs", "save_found"}
        /\ c = ScanLocals(pc, scans[p].view, scans[p].config, flags, Nothing)
    BY <1>4, <2>6
  <2>8. memory'.logs = memory.logs /\ behind' = behind
    BY <1>1, <2>1
  <2>9. Flagged \cup flags \subseteq Flagged' =>
           /\ AllAccounted(memory'.services, Flagged', accepted')
           /\ AllMarked(memory'.behavior, Flagged', learned')
    BY <2>4
  <2>10. UNCHANGED <<host, found, signals, lost>> /\ Go(p, c)
    BY <1>1, <1>4
  <2>11. QED
    BY <1>2, <2>1, <2>3, <2>5, <2>7, <2>8, <2>9, <2>10, ScanGoesOn
<1>5. QED
  BY <1>3, <1>4, Zenon DEF SaveServices

LEMMA SaveStartsKeeps == ASSUME MemoryInv, NEW p \in Scanner, SaveStarts(p) PROVE MemoryInv'
<1>1. /\ UNCHANGED <<host, found, signals, lost, accepted, learned, behind>> /\ scans[p].pc = "save_starts"
      /\ Continue(p, "save_logs")
  BY DEF SaveStarts, ScanAt, histories
<1>2. PICK starts : memory' = [memory EXCEPT !.starts = starts]
  BY Zenon DEF SaveStarts
<1>3. /\ memory'.services = memory.services /\ memory'.logs = memory.logs /\ memory'.behavior = memory.behavior
      /\ Rows(memory')
  <2>1. memory' = Remembering(memory.profiled, memory.services, memory.logs, starts, memory.behavior)
    BY <1>2, RowsSaved DEF MemoryInv
  <2>2. QED
    BY <2>1, MemoryFields
<1>4. scans[p].pc \in Compared /\ behind \subseteq behind'
  BY <1>1 DEF Compared
<1>5. QED
  BY <1>1, <1>3, <1>4, ContinueKeeps

LEMMA SaveLogsRows ==
    ASSUME MemoryInv, NEW p \in Scanner, SaveLogs(p)
    PROVE  /\ memory'.services = memory.services /\ memory'.behavior = memory.behavior
           /\ memory'.logs = Remembered(memory.logs, scans[p].view.logs) /\ Rows(memory')
<1>1. PICK logs : logs = Remembered(memory.logs, scans[p].view.logs) /\ memory' = [memory EXCEPT !.logs = logs]
  BY Zenon DEF SaveLogs
<1>2. memory' = Remembering(memory.profiled, memory.services, logs, memory.starts, memory.behavior)
  BY <1>1, RowsSaved DEF MemoryInv
<1>3. QED
  BY <1>1, <1>2, MemoryFields

LEMMA SaveLogsKeeps == ASSUME MemoryInv, NEW p \in Scanner, SaveLogs(p) PROVE MemoryInv'
<1>1. /\ UNCHANGED <<host, found, signals, lost, accepted, learned>> /\ scans[p].pc = "save_logs"
      /\ Continue(p, "save_found")
      /\ behind' = IF scans[p].view.logs = Nothing THEN behind
                   ELSE behind \cup {o \in Scanner : scans[o].pc \in Compared}
  BY DEF SaveLogs, ScanAt
<1>2. /\ memory'.services = memory.services /\ memory'.behavior = memory.behavior
      /\ memory'.logs = Remembered(memory.logs, scans[p].view.logs) /\ Rows(memory')
  BY SaveLogsRows
<1>3. scans[p].pc \in Compared /\ behind \subseteq behind'
  BY <1>1 DEF Compared
<1>4. CASE scans[p].view.logs = Nothing
  <2>1. memory'.logs = memory.logs /\ behind' = behind
    BY <1>1, <1>2, <1>4 DEF Remembered
  <2>2. QED
    BY <1>1, <1>2, <1>3, <2>1, ContinueKeeps
<1>5. CASE scans[p].view.logs # Nothing
  <2>1. \A q \in Scanner : q \in behind' \/ (q \notin behind /\ scans[q].pc \notin Compared)
    BY <1>1, <1>5
  <2>2. QED
    BY <1>1, <1>2, <1>3, <2>1, ContinueKeeps
<1>6. QED
  BY <1>4, <1>5

\* A scan that ends, or is ended, leaves its flags behind.
LEMMA EndKeeps ==
    ASSUME MemoryInv, NEW p \in Scanner, SaveFound(p) \/ Abort(p)
    PROVE  MemoryInv'
<1>1. /\ Go(p, Idle) /\ UNCHANGED <<host, memory, accepted, learned, behind>>
      /\ scans[p].flags \subseteq found' \cup signals' \cup lost'
      /\ found \subseteq found' /\ signals \subseteq signals' /\ lost \subseteq lost'
  BY DEF SaveFound, Abort
<1>2. Idle.pc = "idle" /\ Idle.view = FirstHost /\ Idle.flags = {}
  BY ScanFields DEF Idle
<1>3. PICK c : c = Idle
  OBVIOUS
<1>4. Flagged \subseteq Flagged'
  BY <1>1, <1>2, <1>3, FlagsKept
<1>5. DOMAIN FirstHost.sockets \subseteq Nat
  BY ScanMemoryAssumption, SocketsPlaced
<1>6. ScanGood(c, accepted', learned', Flagged') /\ LogsSeen(c, memory'.logs)
  BY <1>2, <1>3, <1>5 DEF ScanGood, LogsSeen, Compared
<1>7. /\ GoodProfile(memory'.services) /\ AllAccounted(memory'.services, Flagged', accepted')
      /\ AllMarked(memory'.behavior, Flagged', learned')
  BY <1>1, <1>4, RowsKeep DEF MemoryInv
<1>8. /\ host' \in Hosts /\ Rows(memory') /\ accepted \subseteq accepted' /\ learned \subseteq learned'
      /\ memory'.logs = memory.logs
  BY <1>1 DEF MemoryInv
<1>9. QED
  BY <1>1, <1>3, <1>4, <1>6, <1>7, <1>8, ScanMoves

LEMMA OutsideKeeps ==
    ASSUME MemoryInv, RefreshServiceProfile \/ HostMoves
    PROVE  MemoryInv'
<1>1. UNCHANGED <<scans, found, signals, lost, learned, behind>> /\ host' \in Hosts
  BY DEF RefreshServiceProfile, HostMoves, histories, MemoryInv
<1>2. Flagged' = Flagged
  BY <1>1 DEF Flagged
<1>3. /\ accepted \subseteq accepted' /\ memory'.logs = memory.logs /\ memory'.behavior = memory.behavior
      /\ Rows(memory') /\ GoodProfile(memory'.services) /\ AllAccounted(memory'.services, Flagged', accepted')
  <2>1. CASE RefreshServiceProfile
    <3>1. PICK now : /\ now = CurrentProfile(host.sockets, config.minPort)
                     /\ memory' = Remembering(TRUE, now, memory.logs, memory.starts, memory.behavior)
                     /\ accepted' = accepted \cup Accept(now, DOMAIN now, "baseline")
      BY <2>1, Zenon DEF RefreshServiceProfile
    <3>2. memory'.services = now /\ memory'.logs = memory.logs /\ memory'.behavior = memory.behavior /\ Rows(memory')
      <4>1. PICK profiled : profiled = TRUE
        OBVIOUS
      <4>2. memory' = Remembering(profiled, now, memory.logs, memory.starts, memory.behavior)
        BY <3>1, <4>1, Zenon
      <4>3. QED
        BY <4>2, MemoryFields
    <3>3. GoodProfile(now)
      BY <3>1, SocketsPlaced, CurrentGood DEF MemoryInv
    <3>4. accepted \subseteq accepted' /\ Accept(now, DOMAIN now, "baseline") \subseteq accepted'
      BY <3>1
    <3>5. AllAccounted(now, Flagged', accepted')
      <4>1. PICK F, T : F = Flagged' /\ T = accepted'
        OBVIOUS
      <4>2. AllAccounted(now, F, T)
        BY <3>4, <4>1, BaselineAccounted
      <4>3. QED
        BY <4>1, <4>2
    <3>6. QED
      BY <3>2, <3>3, <3>4, <3>5
  <2>2. CASE HostMoves
    BY <1>2, <2>2 DEF HostMoves, histories, MemoryInv
  <2>3. QED
    BY <2>1, <2>2
<1>4. AllMarked(memory'.behavior, Flagged', learned')
  BY <1>1, <1>2, <1>3 DEF MemoryInv
<1>5. ASSUME NEW q \in Scanner PROVE ScanGood(scans'[q], accepted', learned', Flagged')
  <2>1. ScanGood(scans[q], accepted, learned, Flagged)
    BY DEF MemoryInv
  <2>2. ScanGood(scans[q], accepted', learned', Flagged')
    BY <1>1, <1>2, <1>3, <2>1, GoodGrows
  <2>3. QED
    BY <1>1, <2>2
<1>6. \A q \in Scanner : q \in behind' \/ LogsSeen(scans'[q], memory'.logs)
  BY <1>1, <1>3 DEF MemoryInv
<1>7. (scans = [q \in Scanner |-> scans[q]])'
  BY <1>1 DEF MemoryInv
<1>8. /\ (host \in Hosts /\ Rows(memory))'
      /\ (GoodProfile(memory.services) /\ AllAccounted(memory.services, Flagged, accepted))'
      /\ (AllMarked(memory.behavior, Flagged, learned))'
      /\ (\A q \in Scanner : ScanGood(scans[q], accepted, learned, Flagged))'
      /\ (\A q \in Scanner : q \in behind \/ LogsSeen(scans[q], memory.logs))'
  BY <1>1, <1>3, <1>4, <1>5, <1>6
<1>9. QED
  BY <1>7, <1>8 DEF MemoryInv

LEMMA MemoryStep == MemoryInv /\ [MemoryNext]_memoryVars => MemoryInv'
<1>1. SUFFICES ASSUME MemoryInv, [MemoryNext]_memoryVars PROVE MemoryInv'
  OBVIOUS
<1>2. CASE UNCHANGED memoryVars
  <2>1. UNCHANGED <<host, memory, scans, found, signals, lost, accepted, learned, behind>>
    BY <1>2 DEF memoryVars, histories
  <2>2. Flagged' = Flagged
    BY <2>1 DEF Flagged
  <2>3. QED
    BY <1>1, <2>1, <2>2 DEF MemoryInv
<1>3. ASSUME NEW p \in Scanner,
             \/ CollectView(p) \/ EnrichEvents(p) \/ SaveBehavior(p) \/ EvaluateServices(p) \/ SaveServices(p)
             \/ SaveStarts(p) \/ SaveLogs(p) \/ SaveFound(p) \/ Abort(p)
      PROVE  MemoryInv'
  BY <1>1, <1>3, CollectViewKeeps, EnrichEventsKeeps, SaveBehaviorKeeps, EvaluateServicesKeeps, SaveServicesKeeps,
     SaveStartsKeeps, SaveLogsKeeps, EndKeeps
<1>4. CASE RefreshServiceProfile \/ HostMoves
  BY <1>1, <1>4, OutsideKeeps
<1>5. QED
  BY <1>1, <1>2, <1>3, <1>4 DEF MemoryNext

\* What every scan has in hand, and what the rule_state rows hold, was flagged or is there
\* for one of the reasons the code has for being silent, whatever scans overlap, fail,
\* abort and see only in part; and a scan whose log sizes were not replaced behind its
\* back has flagged what they show (run_scan, from enrichment to persistence).
THEOREM MemoryAccounted == MemorySpec => []MemoryInv
<1>1. MemoryInit => MemoryInv
  BY MemoryInitInv
<1>2. MemoryInv /\ [MemoryNext]_memoryVars => MemoryInv'
  BY MemoryStep
<1>3. QED
  BY <1>1, <1>2, PTL DEF MemorySpec

\* evaluate_service_profile, enrich_local_behavior: with any number of scanning processes,
\* hosts and reconfigurations, a public service is in the stored profile only with an
\* identity that a scan flagged, that was taken over as a baseline or after package
\* activity, that is in its grace, or whose family of dynamic UDP services is known; and a
\* port only when a scan marked it, or when it entered while the profile was being learned
\* or full or without an event of its process.  A flag may have been lost with its scan.
THEOREM ProfilesAlwaysVouched == MemorySpec => []ProfilesVouched
<1>1. MemoryInv => ProfilesVouched
  BY Zenon DEF MemoryInv, ServicesVouched, PortsMarked, ProfilesVouched
<1>2. QED
  BY <1>1, MemoryAccounted, PTL

LEMMA LogsSavedBySaveLogs ==
    ASSUME MemoryInv, MemoryNext, NEW s \in Scanner, ScanAt(s, "save_logs"), ScanAt(s, "save_found")'
    PROVE  SaveLogs(s)
<1>1. scans = [q \in Scanner |-> scans[q]] /\ scans[s].pc = "save_logs" /\ scans'[s].pc = "save_found"
  BY DEF MemoryInv, ScanAt
<1>2. ASSUME NEW p \in Scanner, NEW c, Go(p, c), p = s => c.pc # "save_found" PROVE FALSE
  <2>1. scans' = [scans EXCEPT ![p] = c]
    BY <1>2 DEF Go
  <2>2. QED
    BY <1>1, <1>2, <2>1
<1>3. ASSUME NEW p \in Scanner,
             \/ CollectView(p) \/ EnrichEvents(p) \/ SaveBehavior(p) \/ EvaluateServices(p) \/ SaveServices(p)
             \/ SaveStarts(p) \/ (SaveLogs(p) /\ p # s) \/ SaveFound(p) \/ Abort(p)
      PROVE  FALSE
  <2>1. CASE SaveLogs(p) /\ p # s
    <3>1. PICK c : Go(p, c)
      BY <2>1, Zenon DEF SaveLogs, Continue
    <3>2. QED
      BY <1>2, <2>1, <3>1
  <2>2. CASE \/ CollectView(p) \/ EnrichEvents(p) \/ SaveBehavior(p) \/ EvaluateServices(p)
             \/ SaveServices(p) \/ SaveStarts(p) \/ SaveFound(p) \/ Abort(p)
    <3>1. PICK pc, view, conf, flags, row :
             /\ Go(p, ScanLocals(pc, view, conf, flags, row))
             /\ pc \in {"idle", "enrich", "save_behavior", "services", "save_services", "save_starts", "save_logs"}
      BY <2>2, Zenon
         DEF CollectView, EnrichEvents, SaveBehavior, EvaluateServices, SaveServices, SaveStarts, SaveFound, Abort,
             Continue, Idle
    <3>2. PICK c : c = ScanLocals(pc, view, conf, flags, row)
      OBVIOUS
    <3>3. c.pc # "save_found"
      BY <3>1, <3>2, ScanFields
    <3>4. QED
      BY <1>2, <3>1, <3>2, <3>3
  <2>3. QED
    BY <1>3, <2>1, <2>2
<1>4. CASE RefreshServiceProfile \/ HostMoves
  BY <1>1, <1>4 DEF RefreshServiceProfile, HostMoves
<1>5. QED
  BY <1>3, <1>4 DEF MemoryNext

\* save_log_integrity_state: with any number of scanning processes, configurations and
\* partial views, a scan that replaces the stored sizes of logs has flagged every log that
\* shrank significantly without rotation or that it was configured to look at and is gone,
\* unless another scan has replaced the sizes it compared with.
THEOREM LogLossAlwaysFlagged == MemorySpec => LogLossFlagged
<1>1. ASSUME MemoryInv, [MemoryNext]_memoryVars, NEW s \in Scanner,
             ScanAt(s, "save_logs"), ScanAt(s, "save_found")', memory.logs' # memory.logs, s \notin behind,
             NEW p \in Dropped(memory.logs, memory.logs') \cup Missing(memory.logs, memory.logs', scans[s].config.paths)
      PROVE  \E f \in scans[s].flags : f[1] \in {"log_size_drop", "log_file_missing"} /\ f[2] = p
  <2>1. SaveLogs(s)
    <3>1. MemoryNext
      BY <1>1 DEF memoryVars, ScanAt
    <3>2. QED
      BY <1>1, <3>1, LogsSavedBySaveLogs
  <2>2. PICK old, seen, paths : old = memory.logs /\ seen = scans[s].view.logs /\ paths = scans[s].config.paths
    OBVIOUS
  <2>3. memory'.logs = Remembered(old, seen)
    BY <1>1, <2>1, <2>2, SaveLogsRows
  <2>4. LogFlags(old, seen, paths) \subseteq scans[s].flags
    BY <1>1, <2>2 DEF MemoryInv, LogsSeen, ScanAt, Compared
  <2>5. memory'.logs = seen
    BY <1>1, <2>2, <2>3 DEF Remembered
  <2>6. QED
    <3>1. CASE p \in Dropped(old, seen)
      <4>1. PICK f : f = <<"log_size_drop", p, old[p].size>>
        OBVIOUS
      <4>2. f \in LogFlags(old, seen, paths)
        BY <3>1, <4>1, Zenon DEF LogFlags
      <4>3. f[1] = "log_size_drop" /\ f[2] = p
        BY <4>1
      <4>4. QED
        BY <2>4, <4>2, <4>3
    <3>2. CASE p \in Missing(old, seen, paths)
      <4>1. PICK f : f = <<"log_file_missing", p, old[p].size>>
        OBVIOUS
      <4>2. f \in LogFlags(old, seen, paths)
        BY <3>2, <4>1, Zenon DEF LogFlags
      <4>3. f[1] = "log_file_missing" /\ f[2] = p
        BY <4>1
      <4>4. QED
        BY <2>4, <4>2, <4>3
    <3>3. QED
      BY <1>1, <2>2, <2>5, <3>1, <3>2
<1>2. MemoryInv /\ [MemoryNext]_memoryVars =>
        [\A s \in Scanner :
            (/\ ScanAt(s, "save_logs") /\ ScanAt(s, "save_found")'
             /\ memory.logs' # memory.logs /\ s \notin behind) =>
               \A p \in Dropped(memory.logs, memory.logs')
                        \cup Missing(memory.logs, memory.logs', scans[s].config.paths) :
                  \E f \in scans[s].flags : f[1] \in {"log_size_drop", "log_file_missing"} /\ f[2] = p]_memoryVars
  BY <1>1
<1>3. QED
  BY <1>2, MemoryAccounted, PTL DEF MemorySpec, LogLossFlagged

-----------------------------------------------------------------------------
(* The baseline: the inductive invariant.                                   *)

\* What a collection can see.
View(v) == \A i \in Facts : v[i] \in Values[i] \cup {Absent}

\* What a set E of endorsed pairs accepts of a view, and the keys it stands behind.
Accepts(E, v) ==
    \A i \in Facts :
        IF Fact[i].class = "user" /\ v[i] # Absent
        THEN \E w \in Values[i] \ {Absent} : w.uid = v[i].uid /\ <<i, w>> \in E
        ELSE <<i, v[i]>> \in E
KeyOf(kind, i, v) == <<kind, i, IF kind \in UserChange THEN v.uid ELSE v>>
Backs(E, key) ==
    /\ key[2] \in Facts
    /\ \E v \in Values[key[2]] \cup {Absent} :
          /\ key[1] \in UserChange => v # Absent
          /\ <<key[2], v>> \in E /\ key = KeyOf(key[1], key[2], v)

EventOK(e) ==
    /\ e.fact \in Facts /\ e.new \in Values[e.fact] \cup {Absent}
    /\ e.kind \in UserChange => e.new # Absent

\* The locals c of a command at each of its steps, up to stamp n and for endorsed pairs E.
CommandOK(c, n, E) ==
    /\ c.pc = "save_all" => View(c.cur) /\ c.at \in 0 .. n
    /\ c.pc = "approve" => View(c.prev)
    /\ c.pc = "save_approvals" => \A key \in c.keys : Backs(E, key)
    /\ c.pc = "refresh" => View(c.cur)
    /\ c.pc = "save_refreshed" =>
          /\ c.at \in 0 .. n /\ View(c.next) /\ Accepts(E, c.next)
          /\ \A key \in c.keys : Backs(E, key)
          /\ ApprovalKeys(Diff(c.next, c.cur)) \cap c.used = {}

BaselineInv ==
    /\ facts = [i \in Facts |-> facts[i]] /\ \A i \in Facts : facts[i] \in Values[i]
    /\ stamp \in Nat
    /\ \A s \in snapshots : s[1] \in 0 .. stamp /\ View(s[2]) /\ Accepts(endorsed, s[2])
    /\ \A key \in approvals : Backs(endorsed, key)
    /\ shell = [t \in Terminal |-> shell[t]] /\ \A t \in Terminal : CommandOK(shell[t], stamp, endorsed)
    /\ \A e \in shown : EventOK(e)

-----------------------------------------------------------------------------
(* Diffs look at one fact at a time.                                        *)

LEMMA EventFields ==
    ASSUME NEW kind, NEW i, NEW old, NEW new
    PROVE  /\ Event(kind, i, old, new).kind = kind /\ Event(kind, i, old, new).fact = i
           /\ Event(kind, i, old, new).old = old /\ Event(kind, i, old, new).new = new
  BY DEF Event

\* Each event tells what its fact was and has become.
Tells(e, p, c) ==
    /\ e.fact \in Facts /\ e.old = p[e.fact] /\ e.new = c[e.fact] /\ p[e.fact] # c[e.fact]
    /\ e.kind \in UserChange => c[e.fact] # Absent /\ Fact[e.fact].class = "user"
    /\ e.kind = "file_deleted" => Fact[e.fact].class = "file" /\ c[e.fact] = Absent

LEMMA DiffTells ==
    ASSUME NEW p, NEW c, NEW e \in Diff(p, c)
    PROVE  Tells(e, p, c)
<1>1. CASE e \in DiffFiles(p, c)
  <2>1. PICK i \in Sees("file") :
          \/ e = Event("file_created", i, Absent, c[i]) /\ p[i] = Absent /\ c[i] # Absent
          \/ e = Event("file_modified", i, p[i], c[i]) /\ p[i].lines # c[i].lines
          \/ e = Event("file_deleted", i, p[i], Absent) /\ p[i] # Absent /\ c[i] = Absent
    BY <1>1 DEF DiffFiles
  <2>2. i \in Facts /\ Fact[i].class = "file" /\ p[i] # c[i]
    BY <2>1 DEF Sees
  <2>3. /\ e.fact = i /\ e.old = p[i] /\ e.new = c[i] /\ e.kind \notin UserChange
        /\ e.kind = "file_deleted" => c[i] = Absent
    BY <2>1, EventFields DEF UserChange
  <2>4. QED
    BY <2>2, <2>3 DEF Tells
<1>2. CASE e \in DiffUsers(p, c)
  <2>1. PICK i \in Sees("user"), kind \in {"user_created", "user_uid_changed_to_zero", "user_modified"} :
          e = Event(kind, i, p[i], c[i]) /\ c[i] # Absent /\ c[i] # p[i]
    BY <1>2 DEF DiffUsers
  <2>2. QED
    BY <2>1, EventFields DEF Tells, Sees
<1>3. CASE e \in DiffPersistence(p, c)
  <2>1. PICK i \in Sees("persistence"), kind \in {"persistence_created", "persistence_modified"} :
          /\ e = Event(kind, i, p[i], c[i]) /\ c[i] # Absent
          /\ p[i] = Absent \/ p[i].lines # c[i].lines
    BY <1>3 DEF DiffPersistence
  <2>2. i \in Facts /\ p[i] # c[i]
    BY <2>1 DEF Sees
  <2>3. e.fact = i /\ e.old = p[i] /\ e.new = c[i] /\ e.kind = kind
    BY <2>1, EventFields
  <2>4. QED
    BY <2>1, <2>2, <2>3 DEF Tells, UserChange
<1>4. CASE e \in DiffListeners(p, c)
  <2>1. PICK i \in Sees("listener") :
          \/ e = Event("listening_socket", i, Absent, c[i]) /\ p[i] = Absent /\ c[i] # Absent
          \/ e = Event("listening_socket_owner_changed", i, p[i], c[i]) /\ ListenerOwnerChanged(p[i], c[i])
    BY <1>4 DEF DiffListeners
  <2>2. i \in Facts /\ p[i] # c[i]
    BY <2>1 DEF Sees, ListenerOwnerChanged
  <2>3. e.fact = i /\ e.old = p[i] /\ e.new = c[i] /\ e.kind \notin UserChange /\ e.kind # "file_deleted"
    BY <2>1, EventFields DEF UserChange
  <2>4. QED
    BY <2>2, <2>3 DEF Tells
<1>5. QED
  BY <1>1, <1>2, <1>3, <1>4 DEF Diff

LEMMA DiffLocal ==
    ASSUME NEW p, NEW q, NEW c, NEW e \in Diff(p, c), q[e.fact] = p[e.fact]
    PROVE  e \in Diff(q, c)
<1>1. CASE e \in DiffFiles(p, c)
  <2>1. PICK i \in Sees("file") :
          \/ e = Event("file_created", i, Absent, c[i]) /\ p[i] = Absent /\ c[i] # Absent
          \/ /\ e = Event("file_modified", i, p[i], c[i])
             /\ Absent \notin {p[i], c[i]} /\ p[i].lines # c[i].lines
          \/ e = Event("file_deleted", i, p[i], Absent) /\ p[i] # Absent /\ c[i] = Absent
    BY <1>1 DEF DiffFiles
  <2>2. q[i] = p[i]
    BY <2>1, EventFields
  <2>3. QED
    BY <2>1, <2>2 DEF Diff, DiffFiles
<1>2. CASE e \in DiffUsers(p, c)
  <2>1. PICK i \in Sees("user") :
          /\ e = Event(IF p[i] = Absent THEN "user_created"
                       ELSE IF p[i].uid # c[i].uid /\ c[i].uid = 0 THEN "user_uid_changed_to_zero"
                       ELSE "user_modified", i, p[i], c[i])
          /\ c[i] # Absent /\ c[i] # p[i]
    BY <1>2 DEF DiffUsers
  <2>2. q[i] = p[i]
    BY <2>1, EventFields
  <2>3. QED
    BY <2>1, <2>2 DEF Diff, DiffUsers
<1>3. CASE e \in DiffPersistence(p, c)
  <2>1. PICK i \in Sees("persistence") :
          /\ e = Event(IF p[i] = Absent THEN "persistence_created" ELSE "persistence_modified", i, p[i], c[i])
          /\ c[i] # Absent
          /\ p[i] = Absent \/ p[i].lines # c[i].lines
    BY <1>3 DEF DiffPersistence
  <2>2. q[i] = p[i]
    BY <2>1, EventFields
  <2>3. QED
    BY <2>1, <2>2 DEF Diff, DiffPersistence
<1>4. CASE e \in DiffListeners(p, c)
  <2>1. PICK i \in Sees("listener") :
          \/ e = Event("listening_socket", i, Absent, c[i]) /\ p[i] = Absent /\ c[i] # Absent
          \/ /\ e = Event("listening_socket_owner_changed", i, p[i], c[i])
             /\ Absent \notin {p[i], c[i]} /\ ListenerOwnerChanged(p[i], c[i])
    BY <1>4 DEF DiffListeners
  <2>2. q[i] = p[i]
    BY <2>1, EventFields
  <2>3. QED
    BY <2>1, <2>2 DEF Diff, DiffListeners
<1>5. QED
  BY <1>1, <1>2, <1>3, <1>4 DEF Diff

\* An event of a diff may be shown and asked about.
LEMMA DiffEventOK ==
    ASSUME NEW p, NEW c, View(c), NEW e \in Diff(p, c)
    PROVE  EventOK(e)
  BY DiffTells DEF Tells, EventOK, View

\* A refresh leaves none of the approved changes a difference.
LEMMA RefreshedApplied ==
    ASSUME NEW prev, NEW cur, NEW keys
    PROVE  ApprovalKeys(Diff(Refreshed(prev, cur, keys), cur)) \cap keys = {}
<1>1. PICK next : next = Refreshed(prev, cur, keys)
  OBVIOUS
<1>2. SUFFICES ASSUME NEW e \in Diff(next, cur), ApprovalKey(e) \in keys
               PROVE  FALSE
  BY <1>1 DEF ApprovalKeys
<1>3. e.fact \in Facts /\ next[e.fact] # cur[e.fact]
  BY <1>2, DiffTells DEF Tells
<1>4. next[e.fact] = prev[e.fact] /\ ~\E d \in Diff(prev, cur) : ApprovalKey(d) \in keys /\ d.fact = e.fact
  BY <1>1, <1>3 DEF Refreshed, ApplyEvents
<1>5. e \in Diff(prev, cur)
  BY <1>2, <1>4, DiffLocal
<1>6. QED
  BY <1>2, <1>4, <1>5

\* What is approved and applied is accepted.
LEMMA RefreshedAccepted ==
    ASSUME NEW E, NEW prev, NEW cur, NEW keys, View(prev), View(cur), Accepts(E, prev),
           \A key \in keys : Backs(E, key)
    PROVE  View(Refreshed(prev, cur, keys)) /\ Accepts(E, Refreshed(prev, cur, keys))
<1>1. PICK next : next = Refreshed(prev, cur, keys)
  OBVIOUS
<1>2. ASSUME NEW i \in Facts
      PROVE  /\ next[i] \in Values[i] \cup {Absent}
             /\ IF Fact[i].class = "user" /\ next[i] # Absent
                THEN \E w \in Values[i] \ {Absent} : w.uid = next[i].uid /\ <<i, w>> \in E
                ELSE <<i, next[i]>> \in E
  <2>1. CASE ~\E e \in Diff(prev, cur) : ApprovalKey(e) \in keys /\ e.fact = i
    <3>1. next[i] = prev[i]
      BY <1>1, <2>1 DEF Refreshed, ApplyEvents
    <3>2. QED
      BY <3>1 DEF View, Accepts
  <2>2. CASE \E e \in Diff(prev, cur) : ApprovalKey(e) \in keys /\ e.fact = i
    <3>1. PICK e \in Diff(prev, cur) : ApprovalKey(e) \in keys /\ e.fact = i
      BY <2>2
    <3>2. next[i] = cur[i]
      BY <1>1, <2>2 DEF Refreshed, ApplyEvents
    <3>3. e.new = cur[i] /\ (e.kind \in UserChange => cur[i] # Absent /\ Fact[i].class = "user")
      BY <3>1, DiffTells DEF Tells
    <3>4. PICK key : key = ApprovalKey(e)
      OBVIOUS
    <3>5. key[1] = e.kind /\ key[2] = i /\ key[3] = IF e.kind \in UserChange THEN cur[i].uid ELSE cur[i]
      BY <3>1, <3>3, <3>4 DEF ApprovalKey
    <3>6. PICK v \in Values[i] \cup {Absent} :
            /\ e.kind \in UserChange => v # Absent
            /\ <<i, v>> \in E /\ key = KeyOf(e.kind, i, v)
      BY <3>1, <3>4, <3>5 DEF Backs
    <3>7. (IF e.kind \in UserChange THEN v.uid ELSE v) = IF e.kind \in UserChange THEN cur[i].uid ELSE cur[i]
      BY <3>5, <3>6 DEF KeyOf
    <3>8. CASE e.kind \in UserChange
      BY <3>2, <3>3, <3>6, <3>7, <3>8 DEF View
    <3>9. CASE e.kind \notin UserChange
      BY <3>2, <3>6, <3>7, <3>9 DEF View
    <3>10. QED
      BY <3>8, <3>9
  <2>3. QED
    BY <2>1, <2>2
<1>3. QED
  BY <1>1, <1>2 DEF View, Accepts

-----------------------------------------------------------------------------
(* The commands keep the invariant.                                         *)

LEMMA LatestExists ==
    ASSUME BaselineInv, HasBaseline
    PROVE  \E s \in snapshots : LatestSnapshot = s[2]
<1> DEFINE T == {stamp - s[1] : s \in snapshots}
<1>1. T \in SUBSET Nat /\ T # {}
  <2>1. \A s \in snapshots : stamp - s[1] \in Nat
    BY DEF BaselineInv
  <2>2. PICK s : s \in snapshots
    BY DEF HasBaseline
  <2>3. stamp - s[1] \in T
    BY <2>2
  <2>4. QED
    BY <2>1, <2>3
<1>2. PICK least \in T : \A y \in T : ~(<<y, least>> \in OpToRel(<, Nat))
  BY <1>1, NatLessThanWellFounded, WFMin, Zenon
<1>3. \A y \in T : ~(y < least)
  BY <1>1, <1>2 DEF OpToRel
<1>4. PICK s \in snapshots : least = stamp - s[1]
  BY <1>2
<1>5. \A o \in snapshots : s[1] >= o[1]
  <2>1. TAKE o \in snapshots
  <2>2. stamp - o[1] \in T
    OBVIOUS
  <2>3. stamp \in Nat /\ s[1] \in 0 .. stamp /\ o[1] \in 0 .. stamp
    BY DEF BaselineInv
  <2>4. ~(stamp - o[1] < stamp - s[1])
    BY <1>3, <1>4, <2>2
  <2>5. QED
    BY <2>3, <2>4
<1>6. PICK newest : newest = {x \in snapshots : \A o \in snapshots : x[1] >= o[1]}
  OBVIOUS
<1>7. newest # {}
  BY <1>5, <1>6
<1>8. PICK z : z = CHOOSE x \in newest : TRUE
  OBVIOUS
<1>9. z \in newest /\ LatestSnapshot = z[2]
  BY <1>6, <1>7, <1>8 DEF LatestSnapshot
<1>10. QED
  BY <1>6, <1>9

LEMMA LatestOK ==
    ASSUME BaselineInv, HasBaseline
    PROVE  View(LatestSnapshot) /\ Accepts(endorsed, LatestSnapshot)
  BY LatestExists DEF BaselineInv

LEMMA CollectedView ==
    ASSUME BaselineInv, NEW failed
    PROVE  View(Collected(failed))
  BY DEF BaselineInv, Collected, View

\* Endorsements and stamps only grow.
LEMMA Monotone ==
    ASSUME NEW E, NEW F, E \subseteq F
    PROVE  /\ \A v : Accepts(E, v) => Accepts(F, v)
           /\ \A key : Backs(E, key) => Backs(F, key)
<1>1. ASSUME NEW v, Accepts(E, v)
      PROVE  Accepts(F, v)
  BY <1>1 DEF Accepts
<1>2. ASSUME NEW key, Backs(E, key)
      PROVE  Backs(F, key)
  BY <1>2 DEF Backs
<1>3. QED
  BY <1>1, <1>2

LEMMA CommandKept ==
    ASSUME NEW E, NEW F, E \subseteq F, NEW n \in Nat, NEW m \in Nat, n <= m,
           NEW c, CommandOK(c, n, E)
    PROVE  CommandOK(c, m, F)
<1>1. 0 .. n \subseteq 0 .. m
  OBVIOUS
<1>2. QED
  BY <1>1, Monotone DEF CommandOK

LEMMA ShellStep ==
    ASSUME BaselineInv, NEW t \in Terminal, NEW x, shell' = [shell EXCEPT ![t] = x],
           stamp' \in Nat, stamp <= stamp', endorsed \subseteq endorsed',
           CommandOK(x, stamp', endorsed')
    PROVE  shell' = [u \in Terminal |-> shell'[u]]
           /\ \A u \in Terminal : CommandOK(shell'[u], stamp', endorsed')
<1>1. stamp \in Nat
  BY DEF BaselineInv
<1>2. \A u \in Terminal : shell'[u] = IF u = t THEN x ELSE shell[u]
  BY DEF BaselineInv
<1>3. \A u \in Terminal : CommandOK(shell[u], stamp', endorsed')
  BY <1>1, CommandKept DEF BaselineInv
<1>4. shell' = [u \in Terminal |-> shell'[u]]
  BY DEF BaselineInv
<1>5. QED
  BY <1>2, <1>3, <1>4

\* Everything a command leaves alone stays as the invariant has it.
LEMMA StoreKept ==
    ASSUME BaselineInv, stamp' \in Nat, stamp <= stamp', endorsed \subseteq endorsed'
    PROVE  /\ \A s \in snapshots : s[1] \in 0 .. stamp' /\ View(s[2]) /\ Accepts(endorsed', s[2])
           /\ \A key \in approvals : Backs(endorsed', key)
<1>1. stamp \in Nat /\ 0 .. stamp \subseteq 0 .. stamp'
  BY DEF BaselineInv
<1>2. QED
  BY <1>1, Monotone DEF BaselineInv

\* What a step of a command does to the rest.
Beside ==
    /\ stamp' \in Nat /\ stamp <= stamp' /\ endorsed \subseteq endorsed' /\ facts' = facts /\ shown' = shown
    /\ \A s \in snapshots' : s \in snapshots \/ (s[1] \in 0 .. stamp' /\ View(s[2]) /\ Accepts(endorsed', s[2]))
    /\ \A key \in approvals' : key \in approvals \/ Backs(endorsed', key)

LEMMA CommandStep ==
    ASSUME BaselineInv, NEW t \in Terminal, NEW x, shell' = [shell EXCEPT ![t] = x],
           CommandOK(x, stamp', endorsed'), Beside
    PROVE  BaselineInv'
<1>0. stamp' \in Nat /\ stamp <= stamp' /\ endorsed \subseteq endorsed' /\ facts' = facts /\ shown' = shown
  BY DEF Beside
<1>1. shell' = [u \in Terminal |-> shell'[u]]
      /\ \A u \in Terminal : CommandOK(shell'[u], stamp', endorsed')
  BY <1>0, ShellStep
<1>2. \A s \in snapshots' : s[1] \in 0 .. stamp' /\ View(s[2]) /\ Accepts(endorsed', s[2])
  BY <1>0, StoreKept DEF Beside
<1>3. \A key \in approvals' : Backs(endorsed', key)
  BY <1>0, StoreKept DEF Beside
<1>4. facts' = [i \in Facts |-> facts'[i]] /\ (\A i \in Facts : facts'[i] \in Values[i])
      /\ \A e \in shown' : EventOK(e)
  BY <1>0 DEF BaselineInv
<1>5. QED
  BY <1>0, <1>1, <1>2, <1>3, <1>4 DEF BaselineInv

LEMMA PromptOK ==
    ASSUME NEW n, NEW E
    PROVE  CommandOK(Done, n, E)
<1>1. Done.pc = "prompt"
  BY DEF Done
<1>2. QED
  BY <1>1 DEF CommandOK

LEMMA CollectAllInv ==
    ASSUME BaselineInv, NEW t \in Terminal, CollectAll(t)
    PROVE  BaselineInv'
<1>1. PICK failed \in SUBSET Collectors :
        shell' = [shell EXCEPT ![t] = [pc |-> "save_all", cur |-> Collected(failed), at |-> stamp + 1]]
  BY DEF CollectAll
<1>2. PICK x : x = [pc |-> "save_all", cur |-> Collected(failed), at |-> stamp + 1]
  OBVIOUS
<1>3. stamp \in Nat /\ stamp' = stamp + 1 /\ UNCHANGED <<facts, snapshots, approvals, shown, endorsed>>
  BY DEF CollectAll, BaselineInv
<1>4. x.pc = "save_all" /\ x.cur = Collected(failed) /\ x.at = stamp + 1
  BY <1>2
<1>5. CommandOK(x, stamp', endorsed')
  BY <1>3, <1>4, CollectedView DEF CommandOK
<1>6. Beside
  BY <1>3 DEF Beside
<1>7. QED
  BY <1>1, <1>2, <1>5, <1>6, CommandStep

LEMMA SaveAllInv ==
    ASSUME BaselineInv, NEW t \in Terminal, SaveAll(t)
    PROVE  BaselineInv'
<1>1. shell' = [shell EXCEPT ![t] = Done] /\ UNCHANGED <<facts, approvals, shown, stamp>> /\ stamp \in Nat
  BY DEF SaveAll, BaselineInv
<1>2. PICK cur : cur = shell[t].cur
  OBVIOUS
<1>3. PICK at : at = shell[t].at
  OBVIOUS
<1>4. View(cur) /\ at \in 0 .. stamp
  BY <1>2, <1>3 DEF SaveAll, At_, BaselineInv, CommandOK
<1>5. snapshots' = snapshots \cup {<<at, cur>>} /\ endorsed' = endorsed \cup Whole(cur)
  BY <1>2, <1>3 DEF SaveAll
<1>6. Accepts(endorsed', cur)
  <2>1. \A i \in Facts : <<i, cur[i]>> \in endorsed'
    BY <1>5 DEF Whole
  <2>2. QED
    BY <1>4, <2>1 DEF Accepts, View
<1>7. Beside
  BY <1>1, <1>4, <1>5, <1>6 DEF Beside
<1>8. QED
  BY <1>1, <1>7, CommandStep, PromptOK

LEMMA ApproveLoadInv ==
    ASSUME BaselineInv, NEW t \in Terminal, ApproveLoad(t)
    PROVE  BaselineInv'
<1>1. PICK x : x = [pc |-> "approve", prev |-> LatestSnapshot]
  OBVIOUS
<1>2. shell' = [shell EXCEPT ![t] = x] /\ UNCHANGED <<facts, snapshots, approvals, shown, stamp, endorsed>>
      /\ stamp \in Nat
  BY <1>1 DEF ApproveLoad, BaselineInv
<1>3. x.pc = "approve" /\ View(x.prev)
  BY <1>1, LatestOK DEF ApproveLoad
<1>4. CommandOK(x, stamp', endorsed')
  BY <1>3 DEF CommandOK
<1>5. Beside
  BY <1>2 DEF Beside
<1>6. QED
  BY <1>2, <1>4, <1>5, CommandStep

LEMMA BackedEvent ==
    ASSUME NEW E, NEW e, EventOK(e), <<e.fact, e.new>> \in E
    PROVE  Backs(E, ApprovalKey(e))
<1>1. PICK key : key = ApprovalKey(e)
  OBVIOUS
<1>2. key[1] = e.kind /\ key[2] = e.fact /\ key = KeyOf(e.kind, e.fact, e.new)
  BY <1>1 DEF ApprovalKey, KeyOf
<1>3. QED
  BY <1>1, <1>2 DEF Backs, EventOK

\* Approving: every key that is stored has an event among those endorsed.
LEMMA ApprovedInv ==
    ASSUME BaselineInv, NEW t \in Terminal, NEW stored, NEW events,
           Approved(t, stored), Endorse(events),
           \A key \in stored : \E e \in events : ApprovalKey(e) = key,
           \A e \in events : EventOK(e),
           UNCHANGED <<facts, snapshots, approvals, shown, stamp>>
    PROVE  BaselineInv'
<1>1. PICK x : x = IF stored = {} THEN Done ELSE [pc |-> "save_approvals", keys |-> approvals \cup stored]
  OBVIOUS
<1>2. shell' = [shell EXCEPT ![t] = x]
  BY <1>1 DEF Approved
<1>3. endorsed \subseteq endorsed' /\ \A e \in events : <<e.fact, e.new>> \in endorsed'
  BY DEF Endorse
<1>4. \A key \in stored : Backs(endorsed', key)
  BY <1>3, BackedEvent
<1>5. \A key \in approvals : Backs(endorsed', key)
  BY <1>3, Monotone DEF BaselineInv
<1>6. CommandOK(x, stamp', endorsed')
  <2>1. CASE stored = {}
    BY <1>1, <2>1, PromptOK
  <2>2. CASE stored # {}
    <3>1. x.pc = "save_approvals" /\ x.keys = approvals \cup stored
      BY <1>1, <2>2
    <3>2. QED
      BY <1>4, <1>5, <3>1 DEF CommandOK
  <2>3. QED
    BY <2>1, <2>2
<1>7. stamp \in Nat
  BY DEF BaselineInv
<1>8. Beside
  BY <1>3, <1>7 DEF Beside
<1>9. QED
  BY <1>2, <1>6, <1>8, CommandStep

LEMMA ApproveKeysInv ==
    ASSUME BaselineInv, NEW t \in Terminal, ApproveKeys(t)
    PROVE  BaselineInv'
<1>1. PICK failed \in SUBSET Collectors :
        LET pending == Diff(shell[t].prev, Collected(failed))
        IN \/ \E asked \in (SUBSET ApprovalKeys(shown)) \ {{}} :
                 /\ Approved(t, asked \cap ApprovalKeys(pending))
                 /\ Endorse({e \in shown : ApprovalKey(e) \in asked \cap ApprovalKeys(pending)})
           \/ Approved(t, ApprovalKeys(pending)) /\ Endorse(pending)
  BY DEF ApproveKeys
<1>2. PICK pending : pending = Diff(shell[t].prev, Collected(failed))
  OBVIOUS
<1>3. UNCHANGED <<facts, snapshots, approvals, shown, stamp>>
  BY DEF ApproveKeys
<1>4. CASE \E asked \in (SUBSET ApprovalKeys(shown)) \ {{}} :
             /\ Approved(t, asked \cap ApprovalKeys(pending))
             /\ Endorse({e \in shown : ApprovalKey(e) \in asked \cap ApprovalKeys(pending)})
  <2>1. PICK asked \in (SUBSET ApprovalKeys(shown)) \ {{}} :
             /\ Approved(t, asked \cap ApprovalKeys(pending))
             /\ Endorse({e \in shown : ApprovalKey(e) \in asked \cap ApprovalKeys(pending)})
    BY <1>4
  <2>2. PICK named : named = asked \cap ApprovalKeys(pending)
    OBVIOUS
  <2>3. PICK events : events = {e \in shown : ApprovalKey(e) \in named}
    OBVIOUS
  <2>4. \A key \in named : \E e \in events : ApprovalKey(e) = key
    BY <2>1, <2>2, <2>3 DEF ApprovalKeys
  <2>5. \A e \in events : EventOK(e)
    BY <2>3 DEF BaselineInv
  <2>6. Approved(t, named) /\ Endorse(events)
    BY <2>1, <2>2, <2>3
  <2>7. QED
    BY <1>3, <2>4, <2>5, <2>6, ApprovedInv
<1>5. CASE Approved(t, ApprovalKeys(pending)) /\ Endorse(pending)
  <2>1. \A key \in ApprovalKeys(pending) : \E e \in pending : ApprovalKey(e) = key
    BY DEF ApprovalKeys
  <2>2. \A e \in pending : EventOK(e)
    BY <1>2, CollectedView, DiffEventOK
  <2>3. QED
    BY <1>3, <1>5, <2>1, <2>2, ApprovedInv
<1>6. QED
  BY <1>1, <1>2, <1>4, <1>5

LEMMA SaveApprovalsInv ==
    ASSUME BaselineInv, NEW t \in Terminal, SaveApprovals(t)
    PROVE  BaselineInv'
<1>1. shell' = [shell EXCEPT ![t] = Done] /\ UNCHANGED <<facts, snapshots, shown, stamp, endorsed>>
      /\ stamp \in Nat
  BY DEF SaveApprovals, BaselineInv
<1>2. \A key \in approvals' : Backs(endorsed', key)
  BY <1>1 DEF SaveApprovals, At_, BaselineInv, CommandOK
<1>3. Beside
  BY <1>1, <1>2 DEF Beside
<1>4. QED
  BY <1>1, <1>3, CommandStep, PromptOK

LEMMA RefreshCollectInv ==
    ASSUME BaselineInv, NEW t \in Terminal, RefreshCollect(t)
    PROVE  BaselineInv'
<1>1. PICK failed \in SUBSET Collectors :
        shell' = [shell EXCEPT ![t] = [pc |-> "refresh", cur |-> Collected(failed)]]
  BY DEF RefreshCollect
<1>2. PICK x : x = [pc |-> "refresh", cur |-> Collected(failed)]
  OBVIOUS
<1>3. stamp \in Nat /\ UNCHANGED <<facts, snapshots, approvals, shown, stamp, endorsed>>
  BY DEF RefreshCollect, BaselineInv
<1>4. x.pc = "refresh" /\ x.cur = Collected(failed)
  BY <1>2
<1>5. CommandOK(x, stamp', endorsed')
  BY <1>4, CollectedView DEF CommandOK
<1>6. Beside
  BY <1>3 DEF Beside
<1>7. QED
  BY <1>1, <1>2, <1>5, <1>6, CommandStep

LEMMA RefreshApplyInv ==
    ASSUME BaselineInv, NEW t \in Terminal, RefreshApply(t)
    PROVE  BaselineInv'
<1>1. PICK cur : cur = shell[t].cur
  OBVIOUS
<1>2. View(cur)
  BY <1>1 DEF RefreshApply, At_, BaselineInv, CommandOK
<1>3. PICK applied : applied = IF HasBaseline THEN approvals \cap ApprovalKeys(Diff(LatestSnapshot, cur)) ELSE {}
  OBVIOUS
<1>4. stamp \in Nat /\ UNCHANGED <<facts, snapshots, approvals, shown, endorsed>>
  BY DEF RefreshApply, BaselineInv
<1>5. CASE applied = {}
  <2>1. shell' = [shell EXCEPT ![t] = Done] /\ stamp' = stamp
    BY <1>1, <1>3, <1>5 DEF RefreshApply
  <2>2. Beside
    BY <1>4, <2>1 DEF Beside
  <2>3. QED
    BY <2>1, <2>2, CommandStep, PromptOK
<1>6. CASE applied # {}
  <2>1. HasBaseline
    BY <1>3, <1>6
  <2>2. PICK next : next = Refreshed(LatestSnapshot, cur, approvals)
    OBVIOUS
  <2>3. PICK x : x = [pc |-> "save_refreshed", cur |-> cur, at |-> stamp + 1, used |-> approvals,
                      next |-> next, keys |-> approvals \ applied]
    OBVIOUS
  <2>4. shell' = [shell EXCEPT ![t] = x] /\ stamp' = stamp + 1
    BY <1>1, <1>3, <1>6, <2>2, <2>3 DEF RefreshApply
  <2>5. \A key \in approvals : Backs(endorsed, key)
    BY DEF BaselineInv
  <2>6. View(next) /\ Accepts(endorsed, next)
    BY <1>2, <2>1, <2>2, <2>5, LatestOK, RefreshedAccepted
  <2>7. ApprovalKeys(Diff(next, cur)) \cap approvals = {}
    BY <2>2, RefreshedApplied
  <2>8. /\ x.pc = "save_refreshed" /\ x.cur = cur /\ x.at = stamp + 1 /\ x.used = approvals
        /\ x.next = next /\ x.keys = approvals \ applied
    BY <2>3
  <2>9. CommandOK(x, stamp', endorsed')
    BY <1>4, <2>4, <2>5, <2>6, <2>7, <2>8 DEF CommandOK
  <2>10. Beside
    BY <1>4, <2>4 DEF Beside
  <2>11. QED
    BY <2>4, <2>9, <2>10, CommandStep
<1>7. QED
  BY <1>5, <1>6

LEMMA SaveRefreshedInv ==
    ASSUME BaselineInv, NEW t \in Terminal, SaveRefreshed(t)
    PROVE  BaselineInv'
<1>1. PICK c : c = shell[t]
  OBVIOUS
<1>2. c.pc = "save_refreshed" /\ CommandOK(c, stamp, endorsed)
  BY <1>1 DEF SaveRefreshed, At_, BaselineInv
<1>3. c.at \in 0 .. stamp /\ View(c.next) /\ Accepts(endorsed, c.next) /\ \A key \in c.keys : Backs(endorsed, key)
  BY <1>2 DEF CommandOK
<1>4. PICK x : x = [pc |-> "save_approvals", keys |-> c.keys]
  OBVIOUS
<1>5. shell' = [shell EXCEPT ![t] = x] /\ snapshots' = snapshots \cup {<<c.at, c.next>>}
      /\ UNCHANGED <<facts, approvals, shown, stamp, endorsed>> /\ stamp \in Nat
  BY <1>1, <1>4 DEF SaveRefreshed, BaselineInv
<1>6. CommandOK(x, stamp', endorsed')
  <2>1. x.pc = "save_approvals" /\ x.keys = c.keys
    BY <1>4
  <2>2. QED
    BY <1>3, <1>5, <2>1 DEF CommandOK
<1>7. Beside
  BY <1>3, <1>5 DEF Beside
<1>8. QED
  BY <1>5, <1>6, <1>7, CommandStep

LEMMA BaselineStep ==
    ASSUME BaselineInv, [BaselineNext]_baseVars
    PROVE  BaselineInv'
<1>1. ASSUME NEW t \in Terminal, Reset(t)
      PROVE  BaselineInv'
  BY <1>1 DEF Reset, BaselineInv
<1>2. ASSUME NEW t \in Terminal, Interrupt(t)
      PROVE  BaselineInv'
  <2>1. shell' = [shell EXCEPT ![t] = Done] /\ stamp \in Nat
        /\ UNCHANGED <<facts, snapshots, approvals, shown, stamp, endorsed>>
    BY <1>2 DEF Interrupt, BaselineInv
  <2>2. Beside
    BY <2>1 DEF Beside
  <2>3. QED
    BY <2>1, <2>2, CommandStep, PromptOK
<1>3. CASE ScanDiff
  BY <1>3 DEF ScanDiff, BaselineInv
<1>4. CASE ShowDiff
  <2>1. PICK failed \in SUBSET Collectors :
          shown' = shown \cup Diff(LatestSnapshot, Collected(failed))
    BY <1>4 DEF ShowDiff
  <2>2. \A e \in shown' : EventOK(e)
    BY <2>1, CollectedView, DiffEventOK DEF BaselineInv
  <2>3. QED
    BY <1>4, <2>2 DEF ShowDiff, BaselineInv
<1>5. CASE HostChanges
  <2>1. PICK i \in Facts : \E v \in Values[i] : facts' = [facts EXCEPT ![i] = v]
    BY <1>5 DEF HostChanges
  <2>2. facts' = [j \in Facts |-> facts'[j]] /\ \A j \in Facts : facts'[j] \in Values[j]
    BY <2>1 DEF BaselineInv
  <2>3. QED
    BY <1>5, <2>2 DEF HostChanges, BaselineInv
<1>6. CASE UNCHANGED baseVars
  BY <1>6 DEF baseVars, BaselineInv
<1>7. QED
  BY <1>1, <1>2, <1>3, <1>4, <1>5, <1>6, CollectAllInv, SaveAllInv, ApproveLoadInv, ApproveKeysInv,
     SaveApprovalsInv, RefreshCollectInv, RefreshApplyInv, SaveRefreshedInv
  DEF BaselineNext

LEMMA BaselineInitInv ==
    ASSUME BaselineInit
    PROVE  BaselineInv
<1>1. View(FirstFacts) /\ FirstFacts = [i \in Facts |-> FirstFacts[i]]
      /\ \A i \in Facts : FirstFacts[i] \in Values[i]
  BY HostBaselineAssumption DEF View
<1>2. Accepts(endorsed, FirstFacts)
  <2>1. \A i \in Facts : <<i, FirstFacts[i]>> \in endorsed
    BY DEF BaselineInit, Whole
  <2>2. QED
    BY <1>1, <2>1 DEF Accepts
<1>3. shell = [t \in Terminal |-> shell[t]] /\ \A t \in Terminal : CommandOK(shell[t], stamp, endorsed)
  BY PromptOK DEF BaselineInit
<1>4. QED
  BY <1>1, <1>2, <1>3 DEF BaselineInit, BaselineInv

\* Every key that is approved, or about to be saved as approved, stands for a value of
\* its fact that the operator endorsed, and every snapshot and every refresh under way
\* holds endorsed values only.
THEOREM ApprovalsBacked == BaselineSpec => []BaselineInv
<1>1. BaselineInit => BaselineInv
  BY BaselineInitInv
<1>2. BaselineInv /\ [BaselineNext]_baseVars => BaselineInv'
  BY BaselineStep
<1>3. QED
  BY <1>1, <1>2, PTL DEF BaselineSpec

\* apply_approved_changes: with any number of terminals, failing collectors and
\* interrupted commands, snapshots hold only values the operator endorsed, and no change
\* that was approved when a refresh ran is still a difference after it.
THEOREM RefreshAlwaysSound == BaselineSpec => []RefreshSound
<1>1. BaselineInv => RefreshSound
  <2>1. SUFFICES ASSUME BaselineInv PROVE RefreshSound
    OBVIOUS
  <2>2. OnlyReviewedAccepted
    BY <2>1 DEF BaselineInv, OnlyReviewedAccepted, Accepts, Reviewed
  <2>3. ApprovedChangesApplied
    BY <2>1 DEF BaselineInv, ApprovedChangesApplied, At_, CommandOK
  <2>4. QED
    BY <2>2, <2>3 DEF RefreshSound
<1>2. QED
  BY <1>1, ApprovalsBacked, PTL

-----------------------------------------------------------------------------
(* The risk that is shown, and the event budget.                            *)

LEMMA BaseScoreRange ==
    ASSUME NEW kind
    PROVE  EventBaseScore(kind) \in Int /\ EventBaseScore(kind) >= 50
<1>1. CASE kind = "user_uid_changed_to_zero"
  BY <1>1 DEF EventBaseScore
<1>2. CASE kind \in {"user_created", "user_modified"}
  BY <1>2 DEF EventBaseScore
<1>3. CASE kind \in {"persistence_created", "persistence_modified"}
  BY <1>3 DEF EventBaseScore
<1>4. CASE kind = "listening_socket_owner_changed"
  BY <1>4 DEF EventBaseScore
<1>5. CASE kind = "file_modified" \/ kind = "listening_socket"
  BY <1>5 DEF EventBaseScore
<1>6. CASE kind \notin {"user_uid_changed_to_zero", "user_created", "user_modified", "persistence_created",
              "persistence_modified", "listening_socket_owner_changed", "file_modified", "listening_socket"}
  BY <1>6 DEF EventBaseScore
<1>7. QED
  BY <1>1, <1>2, <1>3, <1>4, <1>5, <1>6

\* No discount takes a sensitive event below the suspicious tier.
LEMMA SensitiveRisk ==
    ASSUME NEW e, SecuritySensitive(e)
    PROVE  DriftTier(DriftRisk(e)) \in {"suspicious", "critical"}
<1>1. PICK base \in Int : base = EventBaseScore(e.kind) /\ base >= 50
  BY BaseScoreRange
<1>2. PICK preload \in {0, 25} : preload = IF Fact[e.fact].path = "/etc/ld.so.preload" THEN 25 ELSE 0
  OBVIOUS
<1>3. PICK privilege \in {0, 25} : privilege = IF Privileged(e) THEN 25 ELSE 0
  OBVIOUS
<1>4. PICK owner \in {0, 15} : owner = IF e.kind = "listening_socket_owner_changed" THEN 15 ELSE 0
  OBVIOUS
<1>5. PICK meaning \in {0, 18} :
        meaning = IF HasContent(e) /\ SemanticDelta(e.fact, e.old, e.new) THEN 18 ELSE 0
  OBVIOUS
<1>6. PICK feature \in {0, 25} :
        feature = IF HasContent(e) /\ ProfileOf(e.fact, e.new).features \cap RiskyFeatures # {} THEN 25 ELSE 0
  OBVIOUS
<1>7. PICK public \in {0, 12} : public = IF Listens(e) /\ Fact[e.fact].public THEN 12 ELSE 0
  OBVIOUS
<1>8. PICK private \in {0, 18} : private = IF Listens(e) /\ ~Fact[e.fact].public THEN 18 ELSE 0
  OBVIOUS
<1>9. PICK dynamic \in {0, 25} : dynamic = IF DynamicUdp(e) THEN 25 ELSE 0
  OBVIOUS
<1>10. PICK late \in {0, 8} :
        late = IF HasContent(e) /\ Absent \notin {e.old, e.new} /\ e.old.executable # e.new.executable
               THEN 8 ELSE 0
  OBVIOUS
<1>11. (dynamic = 25 => public = 12 /\ private = 0)
  BY <1>7, <1>8, <1>9 DEF DynamicUdp
<1>12. PICK added \in Int :
         added = RiskSignals(e) /\ added = 35 + preload + privilege + owner + meaning + feature + public
  BY <1>2, <1>3, <1>4, <1>5, <1>6, <1>7 DEF RiskSignals
<1>13. PICK discount \in Int : discount = RiskDiscount(e) /\ discount = private + dynamic
  BY <1>8, <1>9 DEF RiskDiscount
<1>14. PICK raised \in Int : /\ raised = Min({100, base + added})
                            /\ raised = IF 100 <= base + added THEN 100 ELSE base + added
  BY LeastOfTwo
<1>15. PICK reduced \in Int : /\ reduced = Max({0, raised - discount})
                             /\ reduced = IF 0 >= raised - discount THEN 0 ELSE raised - discount
  BY GreatestOfTwo
<1>16. DriftRisk(e) = Min({100, reduced + late})
  BY <1>1, <1>10, <1>12, <1>13, <1>14, <1>15, ZenonT(60) DEF DriftRisk, LateSignal
<1>17. PICK risk \in Int : risk = DriftRisk(e) /\ risk = IF 100 <= reduced + late THEN 100 ELSE reduced + late
  BY <1>16, LeastOfTwo
<1>18. raised - discount >= 65
  BY <1>1, <1>11, <1>12, <1>13, <1>14
<1>19. risk >= 65
  BY <1>15, <1>17, <1>18
<1>20. QED
  BY <1>17, <1>19 DEF DriftTier

\* A sensitive file gives way in the event budget to sensitive files only.
LEMMA BudgetSparesSensitive ==
    ASSUME NEW view, NEW noise \in Nat, NEW cur \in Budgeted(view, noise), NEW i \in SensitiveFiles,
           view[i] # Absent, cur[i] = Absent
    PROVE  noise + Cardinality(SensitiveFiles) > RawEventLimit
<1>1. PICK seen : seen = {j \in Facts : view[j] # Absent}
  OBVIOUS
<1>2. i \in seen /\ i \in Facts
  BY <1>1 DEF SensitiveFiles, Sees
<1>3. IsFiniteSet(seen) /\ Cardinality(seen) \in Nat
  BY <1>1, HostBaselineAssumption, FS_Subset, FS_CardinalityType
<1>4. PICK room \in Nat : room = Max({0, RawEventLimit - noise}) /\ room >= RawEventLimit - noise
  <2>1. PICK d \in Int : d = RawEventLimit - noise
    BY HostBaselineAssumption
  <2>2. Max({0, d}) = IF 0 >= d THEN 0 ELSE d
    BY GreatestOfTwo
  <2>3. Max({0, d}) \in Nat /\ Max({0, d}) >= d
    BY <2>2
  <2>4. QED
    BY <2>1, <2>3
<1>5. PICK K \in kSubset(Min({room, Cardinality(seen)}), seen) :
        /\ \A a \in K, j \in seen \ K : RawEventPriority(a) >= RawEventPriority(j)
        /\ cur = [j \in Facts |-> IF j \in K THEN view[j] ELSE Absent]
  BY <1>1, <1>4 DEF Budgeted
<1>6. K \subseteq seen /\ Cardinality(K) = Min({room, Cardinality(seen)})
  BY <1>5 DEF kSubset
<1>7. i \notin K
  BY <1>2, <1>5
<1>8. IsFiniteSet(K) /\ Cardinality(K) \in Nat /\ IsFiniteSet(SensitiveFiles)
      /\ Cardinality(SensitiveFiles) \in Nat
  <2>1. SensitiveFiles \subseteq Facts
    BY DEF SensitiveFiles, Sees
  <2>2. QED
    BY <1>3, <1>6, <2>1, HostBaselineAssumption, FS_Subset, FS_CardinalityType
<1>9. Cardinality(K \cup {i}) = Cardinality(K) + 1 /\ IsFiniteSet(K \cup {i})
  BY <1>7, <1>8, FS_AddElement
<1>10. Cardinality(K) = room
  <2>1. Cardinality(K \cup {i}) <= Cardinality(seen)
    BY <1>2, <1>3, <1>6, FS_Subset
  <2>2. QED
    BY <1>3, <1>6, <1>8, <1>9, <2>1, LeastOfTwo
<1>11. K \subseteq SensitiveFiles
  <2>1. SUFFICES ASSUME NEW j \in K PROVE j \in SensitiveFiles
    OBVIOUS
  <2>2. RawEventPriority(i) = 98
    BY DEF SensitiveFiles, Sees, RawEventPriority
  <2>3. RawEventPriority(j) >= 98
    BY <1>2, <1>5, <1>6, <2>2
  <2>4. j \in Facts
    BY <1>1, <1>6
  <2>5. QED
    BY <2>3, <2>4 DEF SensitiveFiles, Sees, RawEventPriority
<1>12. Cardinality(K \cup {i}) <= Cardinality(SensitiveFiles)
  BY <1>8, <1>11, FS_Subset
<1>13. QED
  BY <1>4, <1>8, <1>9, <1>10, <1>12, HostBaselineAssumption

LEMMA ScanDiffReal ==
    ASSUME ScanDiff
    PROVE  SensitiveDeletionReal'
<1>1. PICK failed \in SUBSET Collectors, noise \in {0, RawEventLimit - 1, RawEventLimit} :
        \E cur \in Budgeted(Collected(failed), noise) :
            drift' = [events |-> IF HasBaseline THEN Diff(LatestSnapshot, cur) ELSE {},
                      failed |-> failed, noise |-> noise, host |-> facts]
  BY DEF ScanDiff
<1>2. PICK cur \in Budgeted(Collected(failed), noise) :
        drift' = [events |-> IF HasBaseline THEN Diff(LatestSnapshot, cur) ELSE {},
                  failed |-> failed, noise |-> noise, host |-> facts]
  BY <1>1
<1>3. /\ drift'.failed = failed /\ drift'.noise = noise /\ drift'.host = facts
      /\ \A e \in drift'.events : e \in Diff(LatestSnapshot, cur)
  BY <1>2
<1>4. noise \in Nat
  BY HostBaselineAssumption
<1>5. SUFFICES ASSUME NEW e \in drift'.events, e.kind = "file_deleted", facts[e.fact] # Absent,
                      Fact[e.fact].path \in AccessPaths, "file" \notin failed
               PROVE  noise + Cardinality(SensitiveFiles) > RawEventLimit
  BY <1>3 DEF SensitiveDeletionReal
<1>6. e.fact \in Facts /\ Fact[e.fact].class = "file" /\ cur[e.fact] = Absent
  BY <1>3, <1>5, DiffTells DEF Tells
<1>7. Collected(failed)[e.fact] = facts[e.fact]
  BY <1>5, <1>6 DEF Collected, CollectorOf
<1>8. e.fact \in SensitiveFiles
  BY <1>5, <1>6 DEF SensitiveFiles, Sees
<1>9. QED
  BY <1>2, <1>4, <1>5, <1>6, <1>7, <1>8, BudgetSparesSensitive

LEMMA ProfileFields ==
    ASSUME NEW p, NEW k, NEW h, NEW s, NEW f,
           p = [kind |-> k, hash |-> h, summary |-> s, features |-> f]
    PROVE  p.kind = k /\ p.hash = h
OBVIOUS

\* The meaning of a file is in the hash of its profile: the texts of its entries.
LEMMA HashHoldsMeaning ==
    ASSUME NEW i, NEW v, Fact[i].semantic # ""
    PROVE  MeaningOf(i, v) = {h[2] : h \in ProfileOf(i, v).hash}
<1>1. PICK lines : lines = (IF v = Absent THEN NoLines ELSE v).lines
  OBVIOUS
<1>2. PICK kind : kind = Fact[i].semantic
  OBVIOUS
<1>3. MeaningOf(i, v) = {lines[n].text : n \in Relevant(kind, lines)}
  BY <1>1, <1>2, ZenonT(60) DEF MeaningOf, Range, Relevant
<1>4. PICK place : Hashed(kind, lines) = {<<place[n], lines[n].text>> : n \in Relevant(kind, lines)}
  BY DEF Hashed
<1>5. ProfileOf(i, v).hash = Hashed(kind, lines)
  <2>1. ProfileOf(i, v) = Profile(kind, lines)
    BY <1>1, <1>2 DEF ProfileOf
  <2>2. Relevant(kind, lines) = {} => Hashed(kind, lines) = {}
    BY <1>4
  <2>3. kind # ""
    BY <1>2
  <2>4. \A p, k, h, s, f : p = [kind |-> k, hash |-> h, summary |-> s, features |-> f] => p.hash = h
    BY ProfileFields, Zenon
  <2>5. CASE Relevant(kind, lines) = {}
    <3>1. ProfileOf(i, v) = [kind |-> "", hash |-> {}, summary |-> <<0, {}>>, features |-> {}]
      BY <2>1, <2>5, Zenon DEF Profile
    <3>2. QED
      BY <2>2, <2>4, <2>5, <3>1, Zenon
  <2>6. CASE Relevant(kind, lines) # {}
    <3>1. PICK summary, features :
             ProfileOf(i, v) = [kind |-> kind, hash |-> Hashed(kind, lines),
                                summary |-> summary, features |-> features]
      BY <2>1, <2>3, <2>6, Zenon DEF Profile
    <3>2. QED
      BY <2>4, <3>1, Zenon
  <2>7. QED
    BY <2>5, <2>6
<1>6. PICK items : items = Relevant(kind, lines)
  OBVIOUS
<1>7. {h[2] : h \in {<<place[n], lines[n].text>> : n \in items}} = {lines[n].text : n \in items}
  <2>1. PICK text : text = [n \in items |-> lines[n].text]
    OBVIOUS
  <2>2. {h[2] : h \in {<<place[n], text[n]>> : n \in items}} = {text[n] : n \in items}
    <3>1. PICK H : H = {<<place[n], text[n]>> : n \in items}
      OBVIOUS
    <3>2. ASSUME NEW h \in H PROVE h[2] \in {text[n] : n \in items}
      <4>1. PICK n \in items : h = <<place[n], text[n]>>
        BY <3>1, Zenon
      <4>2. QED
        BY <4>1
    <3>3. ASSUME NEW n \in items PROVE \E h \in H : h[2] = text[n]
      <4>1. PICK h : h = <<place[n], text[n]>>
        OBVIOUS
      <4>2. h \in H
        BY <3>1, <4>1, Zenon
      <4>3. QED
        BY <4>1, <4>2
    <3>4. {h[2] : h \in H} \subseteq {text[n] : n \in items}
      BY <3>2
    <3>5. {text[n] : n \in items} \subseteq {h[2] : h \in H}
      BY <3>3
    <3>6. QED
      BY <3>1, <3>4, <3>5
  <2>3. QED
    BY <2>1, <2>2
<1>8. QED
  BY <1>3, <1>4, <1>5, <1>6, <1>7

\* attach_semantic_delta marks every change of meaning, of whatever file.
LEMMA MeaningMarked ==
    ASSUME NEW i, NEW old, NEW new, Fact[i].semantic # "", MeaningOf(i, old) # MeaningOf(i, new)
    PROVE  SemanticDelta(i, old, new)
<1>1. ProfileOf(i, old).hash # ProfileOf(i, new).hash
  BY HashHoldsMeaning
<1>2. ASSUME NEW v, ProfileOf(i, v).kind = "" PROVE ProfileOf(i, v).hash = {}
  BY <1>2 DEF ProfileOf, Profile
<1>3. ~(ProfileOf(i, old).kind = "" /\ ProfileOf(i, new).kind = "")
  BY <1>1, <1>2
<1>4. QED
  BY <1>1, <1>3 DEF SemanticDelta

\* assess_event and apply_raw_event_budget, for every set of facts and every budget:
\* what gives access or privilege is always offered as suspicious or critical, and a
\* sensitive file that exists is reported deleted only when its collector failed or the
\* budget has no room for all sensitive files; and every change of the keys, commands or
\* rules in a file is marked as one of meaning (attach_semantic_delta).
THEOREM DriftAlwaysJudged == BaselineSpec => []DriftJudged
<1>1. BaselineInit => SensitiveDeletionReal
  BY DEF BaselineInit, NoDrift, SensitiveDeletionReal
<1>2. SensitiveDeletionReal /\ [BaselineNext]_baseVars => SensitiveDeletionReal'
  <2>1. SUFFICES ASSUME SensitiveDeletionReal, [BaselineNext]_baseVars PROVE SensitiveDeletionReal'
    OBVIOUS
  <2>2. CASE drift' = NoDrift
    BY <2>2 DEF NoDrift, SensitiveDeletionReal
  <2>3. CASE UNCHANGED baseVars
    BY <2>1, <2>3 DEF baseVars, SensitiveDeletionReal
  <2>4. CASE BaselineNext
    <3>1. drift' = NoDrift \/ ScanDiff
      BY <2>4 DEF BaselineNext, CollectAll, SaveAll, ApproveLoad, ApproveKeys, SaveApprovals, RefreshCollect,
         RefreshApply, SaveRefreshed, Reset, Interrupt, ShowDiff, HostChanges
    <3>2. QED
      BY <2>2, <3>1, ScanDiffReal
  <2>5. QED
    BY <2>1, <2>3, <2>4
<1>3. SensitiveNeverRoutine
  BY SensitiveRisk DEF SensitiveNeverRoutine
<1>4. MeaningfulChangeMarked
  BY MeaningMarked DEF MeaningfulChangeMarked
<1>5. SensitiveDeletionReal => DriftJudged
  BY <1>3, <1>4 DEF DriftJudged
<1>6. QED
  BY <1>1, <1>2, <1>5, PTL DEF BaselineSpec

==============================================================================
