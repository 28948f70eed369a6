---------------------------- MODULE DetectionProofs ----------------------------
(* Proofs about Detection, for every configuration and every set of events:   *)
(* incremental mode costs no finding, active response plans no block of a     *)
(* protected address, no stage of a scan loses a sensitive change, what the   *)
(* stages hand on is well formed and silences nothing it should not, and an   *)
(* event more never makes the detectors quieter.                              *)
EXTENDS Detection, FiniteSetTheorems, WellFoundedInduction, TLAPS

--------------------------------------------------------------------------------
(* What the detectors read of the events                                      *)

\* The events of a scan with some file snapshots and package activity left out.
Leaves(R, es) ==
    /\ R \subseteq es
    /\ \A e \in es : e.kind \notin {"file_snapshot", "package_manager_activity"} => e \in R

\* detect_ssh_events reads logins only.
LEMMA SameLogins ==
    ASSUME NEW es, NEW R, NEW c, Leaves(R, es)
    PROVE  Logins(R, c) = Logins(es, c)
  BY DEF Leaves, Logins

\* Nor does the count of failed logins change.
LEMMA SameFailures ==
    ASSUME NEW es, NEW R, NEW c, NEW ip, Leaves(R, es)
    PROVE  Failures(R, ip, c) = Failures(es, ip, c)
  BY SameLogins DEF Failures

\* So detect_ssh_events reports the same.
LEMMA SameSsh ==
    ASSUME NEW es, NEW R, NEW c, Leaves(R, es)
    PROVE  SshFindings(R, c) = SshFindings(es, c)
  BY SameLogins, SameFailures DEF SshFindings

\* detect_web_events reads requests only.
LEMMA SameWebEvents ==
    ASSUME NEW es, NEW R, NEW c, Leaves(R, es)
    PROVE  WebEvents(R, c) = WebEvents(es, c)
  BY DEF Leaves, WebEvents

\* So detect_web_events reports the same.
LEMMA SameWeb ==
    ASSUME NEW es, NEW R, NEW c, Leaves(R, es)
    PROVE  WebFindings(R, c) = WebFindings(es, c)
  BY SameWebEvents DEF WebFindings

\* The context that is joined to an event does not come from file snapshots,
\* and only the mark of package activity comes from package activity.
LEMMA SameOutbound ==
    ASSUME NEW es, NEW R, NEW pid, Leaves(R, es)
    PROVE  OutboundProfile(R, pid) = OutboundProfile(es, pid)
<1>1. {e \in R : e.kind = "outbound_connection" /\ e.pid = pid} = {e \in es : e.kind = "outbound_connection" /\ e.pid = pid}
  BY DEF Leaves
<1>2. QED
  BY <1>1 DEF OutboundProfile

\* gpu_context_by_pid reads GPU processes only.
LEMMA SameGpu ==
    ASSUME NEW es, NEW R, NEW pid, Leaves(R, es)
    PROVE  GpuTags(R, pid) = GpuTags(es, pid)
<1>1. {e \in R : e.kind = "gpu_compute_process" /\ e.pid = pid} = {e \in es : e.kind = "gpu_compute_process" /\ e.pid = pid}
  BY DEF Leaves
<1>2. QED
  BY <1>1 DEF GpuTags

\* A process is enriched the same way.
LEMMA SameEnriched ==
    ASSUME NEW es, NEW R, NEW p, Leaves(R, es), PackageActivity(R) = PackageActivity(es)
    PROVE  Enriched(p, R) = Enriched(p, es)
  BY SameOutbound, SameGpu DEF Enriched

\* So processes and listeners are judged alike.
LEMMA SameProcess ==
    ASSUME NEW es, NEW R, NEW c, Leaves(R, es), PackageActivity(R) = PackageActivity(es)
    PROVE  ProcessFindings(R, c) = ProcessFindings(es, c)
<1>1. {e \in R : e.kind \in {"process_snapshot", "process_exec"} /\ ~Allowlisted(e)}
        = {e \in es : e.kind \in {"process_snapshot", "process_exec"} /\ ~Allowlisted(e)}
  BY DEF Leaves
<1>2. QED
  BY <1>1, SameEnriched DEF ProcessFindings

\* The process behind a listener is found the same way.
LEMMA SameContext ==
    ASSUME NEW es, NEW R, NEW e, Leaves(R, es)
    PROVE  ListenerContext(e, R) = ListenerContext(e, es)
<1>1. {p \in R : p.kind = "process_snapshot" /\ p.pid = e.pid} = {p \in es : p.kind = "process_snapshot" /\ p.pid = e.pid}
  BY DEF Leaves
<1>2. \A p : ProcessContext(p, R) = ProcessContext(p, es)
  BY SameOutbound DEF ProcessContext
<1>3. QED
  BY <1>1, <1>2 DEF ListenerContext

\* The firewall state is read the same way.
LEMMA SameFirewall ==
    ASSUME NEW es, NEW R, Leaves(R, es)
    PROVE  FirewallEvents(R) = FirewallEvents(es)
  BY DEF Leaves, FirewallEvents

\* So a listener is judged alike ...
LEMMA SameListenerFindings ==
    ASSUME NEW es, NEW R, NEW e, NEW c, Leaves(R, es)
    PROVE  ListenerFindings(e, R, c) = ListenerFindings(e, es, c)
<1>1. ProtectedByFirewall(e, R) = ProtectedByFirewall(e, es)
  BY SameFirewall DEF ProtectedByFirewall
<1>2. SocketEvidence(e, R) = SocketEvidence(e, es)
  BY SameFirewall DEF SocketEvidence
<1>3. QED
  BY <1>1, <1>2, SameContext, SMTT(30) DEF ListenerFindings, SuspiciousListener, RiskyPort, OwnerChanged, PublicListen, ListenerFinding

\* ... and detect_network_events reports the same.
LEMMA SameNetwork ==
    ASSUME NEW es, NEW R, NEW c, Leaves(R, es)
    PROVE  NetworkFindings(R, c) = NetworkFindings(es, c)
<1>1. {f \in R : f.kind \in ListenerKinds} = {f \in es : f.kind \in ListenerKinds}
  BY DEF Leaves, ListenerKinds
<1>2. QED
  BY <1>1, SameListenerFindings DEF NetworkFindings

\* file_snapshot_needed_for_detection drops only snapshots that no rule reports.
LEMMA DroppedUnreported ==
    ASSUME NEW e, NEW es, NEW pkg, NEW c, e.kind = "file_snapshot", ~SnapshotNeeded(e, es)
    PROVE  EventFindings(e, pkg, c) = {}
<1>1. EventFindings(e, pkg, c) = FileFindings(e, pkg, c)
  BY DEF EventFindings, FileDiffKinds
<1>2. CASE e.path = ""
  BY <1>1, <1>2 DEF FileFindings
<1>3. CASE e.path # ""
  <2>1. /\ e.path \notin AuthorizedKeysPaths
        /\ e.tags \cap ContentMarkers = {}
        /\ ~("is_web_path" \in e.tags /\ ("executable" \in e.tags \/ e.path \in WebScriptPaths))
    BY <1>3 DEF SnapshotNeeded
  <2>2. FileSnapshotFindings(e, c) = {}
    BY <2>1 DEF FileSnapshotFindings, ExecutableWebFile, When
  <2>3. FileFindings(e, pkg, c) \in {{}, FileSnapshotFindings(e, c)}
    BY DEF FileFindings, FileDiffKinds
  <2>4. QED
    BY <1>1, <2>2, <2>3
<1>4. QED
  BY <1>2, <1>3

\* retain_incremental_file_events leaves out nothing but unneeded snapshots.
LEMMA RetainedEvents ==
    ASSUME NEW es, NEW c
    PROVE  /\ Leaves(RetainIncremental(es, c), es)
           /\ \A e \in es : e \in RetainIncremental(es, c) \/ (e.kind = "file_snapshot" /\ ~SnapshotNeeded(e, es))
           /\ PackageActivity(RetainIncremental(es, c)) = PackageActivity(es)
  BY DEF RetainIncremental, Leaves, PackageActivity

\* Nor do the detectors of single host facts miss a snapshot that was left out.
LEMMA SameHost ==
    ASSUME NEW es, NEW c
    PROVE  HostFindings(RetainIncremental(es, c), c) = HostFindings(es, c)
<1>1. PICK R : R = RetainIncremental(es, c)
  OBVIOUS
<1>2. Leaves(R, es) /\ \A e \in es : e \in R \/ (e.kind = "file_snapshot" /\ ~SnapshotNeeded(e, es))
  BY <1>1, RetainedEvents
<1>3. PICK pkg : pkg = PackageActivity(es) /\ pkg = PackageActivity(R)
  BY <1>1, RetainedEvents
<1>4. \A e \in es \ R : EventFindings(e, pkg, c) = {}
  BY <1>2, DroppedUnreported
<1>5. UNION {EventFindings(e, pkg, c) : e \in R} = UNION {EventFindings(e, pkg, c) : e \in es}
  BY <1>2, <1>4 DEF Leaves
<1>6. SshFindings(R, c) = SshFindings(es, c)
  BY <1>2, SameSsh
<1>7. QED
  BY <1>1, <1>3, <1>5, <1>6 DEF HostFindings

\* The built-in detectors see no difference between the retained events and all.
LEMMA SameBuiltin ==
    ASSUME NEW es, NEW c
    PROVE  BuiltinFindings(RetainIncremental(es, c), c) = BuiltinFindings(es, c)
  BY RetainedEvents, SameHost, SameProcess, SameNetwork, SameWeb DEF BuiltinFindings

\* IncrementalLossless is inductive with what Detect computed.
LEMMA LosslessStep ==
    ASSUME IncrementalLossless, [Next]_vars
    PROVE  IncrementalLossless'
<1>1. CASE Detect
  <2>1. detected' = Detectors(RetainIncremental(events, conf), conf) /\ events' = events /\ conf' = conf
    BY <1>1 DEF Detect, KeepInput
  <2>2. QED
    BY <2>1, SameBuiltin DEF IncrementalLossless, Detectors
<1>2. CASE \E e \in pool : Collect(e)
  BY <1>2 DEF Collect, IncrementalLossless
<1>3. CASE NextScan \/ Correlate \/ Respond \/ Fingerprint \/ Suppress \/ Budget \/ Maintain \/ Rate \/ Merge
  <2>1. stage' # "detected"
    BY <1>3 DEF NextScan, Correlate, Respond, Fingerprint, Suppress, Budget, Maintain, Rate, Merge, Advance
  <2>2. QED
    BY <2>1 DEF IncrementalLossless
<1>4. CASE UNCHANGED vars
  BY <1>4 DEF vars, IncrementalLossless
<1>5. QED
  BY <1>1, <1>2, <1>3, <1>4 DEF Next

\* Leaving out unneeded file snapshots costs no finding of a built-in detector,
\* whatever the host shows and however the scan is configured.
THEOREM IncrementalScanLossless == Spec => []IncrementalLossless
<1>1. Init => IncrementalLossless
  BY DEF Init, IncrementalLossless
<1>2. QED
  BY <1>1, LosslessStep, PTL DEF Spec

--------------------------------------------------------------------------------
(* Which addresses active response may block                                  *)

\* Every decision passes filter_block_candidate.
LEMMA DecideFiltered ==
    ASSUME NEW b, NEW f, NEW c, Decide(b, f, c) # NoCandidate
    PROVE  Decide(b, f, c).ip \in c.public_ips \ (c.allowed_ips \cup c.trusted_proxies)
  BY DEF Decide, FilterCandidate

\* So is every candidate, of a single finding and of an aggregate.
LEMMA CandidateFiltered ==
    ASSUME NEW ip, NEW fs, NEW c, NEW b \in CandidatesFor(ip, fs, c)
    PROVE  b.ip \in c.public_ips \ (c.allowed_ips \cup c.trusted_proxies)
<1>1. b # NoCandidate /\ \E f \in fs : b = BlockCandidate(f, c) \/ b = AggregateCandidate(f, c)
  BY DEF CandidatesFor
<1>2. PICK f \in fs : b = BlockCandidate(f, c) \/ b = AggregateCandidate(f, c)
  BY <1>1
<1>3. \E x : b = Decide(x, f, c)
  BY <1>1, <1>2 DEF BlockCandidate, AggregateCandidate
<1>4. QED
  BY <1>1, <1>3, DecideFiltered

\* Every step keeps the candidates clear of protected sources.
LEMMA SparedStep ==
    ASSUME ProtectedSourcesSpared, [Next]_vars
    PROVE  ProtectedSourcesSpared'
<1>1. conf' = conf
  BY DEF Next, vars, Collect, Detect, Merge, Rate, Maintain, Budget, Suppress, Fingerprint, Respond, Correlate, NextScan, KeepInput
<1>2. CASE Respond
  <2> DEFINE targets == {ip \in {f.source : f \in findings} \ {""} : CandidatesFor(ip, findings, conf) # {}}
  <2>3. PICK pick : /\ \A ip \in targets : pick[ip] \in CandidatesFor(ip, findings, conf)
                    /\ candidates' = {pick[ip] : ip \in targets}
    BY <1>2, Zenon DEF Respond
  <2>1. \A b \in candidates' : \E ip : b \in CandidatesFor(ip, findings, conf)
    BY <2>3, Zenon
  <2>2. QED
    BY <1>1, <2>1, CandidateFiltered DEF ProtectedSourcesSpared
<1>3. CASE ~Respond
  <2>1. candidates' = candidates \/ candidates' = {}
    BY <1>3 DEF Next, vars, Collect, Detect, Merge, Rate, Maintain, Budget, Suppress, Fingerprint, Correlate, NextScan
  <2>2. QED
    BY <1>1, <2>1 DEF ProtectedSourcesSpared
<1>4. QED
  BY <1>2, <1>3

\* Whichever rule, fingerprint verdict, policy or aggregate asks for a block,
\* the planned address is public, not allowlisted and no trusted proxy.
THEOREM ProtectedSourcesAlwaysSpared == Spec => []ProtectedSourcesSpared
<1>1. Init => ProtectedSourcesSpared
  BY DEF Init, ProtectedSourcesSpared
<1>2. QED
  BY <1>1, SparedStep, PTL DEF Spec

--------------------------------------------------------------------------------
(* Sums, maxima and risk scores                                               *)

\* The member a fold takes next.
Chosen(s) == CHOOSE x \in s : TRUE

\* What the fold that adds weights up computes on the subsets of T.
Adds(it, w, T) ==
    it = [s \in SUBSET T |-> IF s = {} THEN 0
                             ELSE w[Chosen(s)] + it[s \ {Chosen(s)}]]

\* The same on subsets of at most n members.
AddsUpTo(it, w, T, n) ==
    it = [s \in {r \in SUBSET T : Cardinality(r) <= n} |->
            IF s = {} THEN 0 ELSE w[Chosen(s)] + it[s \ {Chosen(s)}]]

\* Every set of naturals has a least member: the induction of the proofs below
\* is an argument about a least counterexample.
LEMMA LeastNatural ==
    ASSUME NEW B, B \subseteq Nat, B # {}
    PROVE  \E n \in B : \A m \in B : n <= m
<1>1. PICK n \in B : \A m \in B : ~(<<m, n>> \in OpToRel(<, Nat))
  BY NatLessThanWellFounded, WFMin, Zenon
<1>2. \A m \in B : ~(m < n)
  BY <1>1 DEF OpToRel
<1>3. QED
  BY <1>2

\* Signals with weights a sum can be taken of.
Weighted(w, T) == IsFiniteSet(T) /\ \A t \in T : w[t] \in Nat

\* A chosen member, and what is left without it.
LEMMA ChosenMember ==
    ASSUME NEW w, NEW T, Weighted(w, T), NEW s \in SUBSET T, s # {}, NEW x, x = Chosen(s)
    PROVE  /\ x \in s /\ w[x] \in Nat /\ s \ {x} \in SUBSET T
           /\ Cardinality(s) \in Nat /\ Cardinality(s) > 0 /\ Cardinality(s \ {x}) = Cardinality(s) - 1
<1>1. x \in s
  BY DEF Chosen
<1>2. IsFiniteSet(s)
  BY FS_Subset DEF Weighted
<1>3. Cardinality(s) \in Nat /\ Cardinality(s \ {x}) = Cardinality(s) - 1 /\ Cardinality(s \ {x}) \in Nat
  BY <1>1, <1>2, FS_CardinalityType, FS_RemoveElement
<1>4. QED
  BY <1>1, <1>3 DEF Weighted

\* The fold is defined on the subsets of at most n members, for every n ...
LEMMA AddsUpToAll ==
    ASSUME NEW w, NEW T, Weighted(w, T), NEW n \in Nat
    PROVE  \E it : AddsUpTo(it, w, T, n)
<1> DEFINE B == {m \in Nat : ~\E it : AddsUpTo(it, w, T, m)}
           D(m) == {r \in SUBSET T : Cardinality(r) <= m}
<1>1. SUFFICES ASSUME B # {} PROVE FALSE
  OBVIOUS
<1>2. PICK m \in B : \A k \in B : m <= k
  BY <1>1, LeastNatural
<1>3. CASE m = 0
  <2>1. ASSUME NEW s \in SUBSET T, Cardinality(s) <= 0 PROVE s = {}
    <3>1. s # {} => Cardinality(s) \in Nat /\ Cardinality(s) > 0
      BY ChosenMember
    <3>2. QED
      BY <2>1, <3>1
  <2>2. AddsUpTo([s \in D(0) |-> 0], w, T, 0)
    BY <2>1 DEF AddsUpTo
  <2>3. QED
    BY <1>2, <1>3, <2>2
<1>4. CASE m > 0
  <2>1. m - 1 \in Nat /\ m - 1 \notin B
    BY <1>2, <1>4
  <2>2. PICK it : AddsUpTo(it, w, T, m - 1)
    BY <2>1
  <2> DEFINE jt == [s \in D(m) |-> IF s = {} THEN 0 ELSE w[Chosen(s)] + it[s \ {Chosen(s)}]]
  <2>3. ASSUME NEW s \in D(m), s # {} PROVE s \ {Chosen(s)} \in D(m) /\ jt[s \ {Chosen(s)}] = it[s \ {Chosen(s)}]
    <3>1. PICK x : x = Chosen(s)
      OBVIOUS
    <3>2. s \ {x} \in D(m - 1) /\ s \ {x} \in D(m)
      BY <2>1, <2>3, <3>1, ChosenMember
    <3>3. \A r \in D(m - 1) : it[r] = IF r = {} THEN 0 ELSE w[Chosen(r)] + it[r \ {Chosen(r)}]
      BY <2>2 DEF AddsUpTo
    <3>4. PICK r : r = s \ {x}
      OBVIOUS
    <3>5. it[r] = IF r = {} THEN 0 ELSE w[Chosen(r)] + it[r \ {Chosen(r)}]
      BY <3>2, <3>3, <3>4
    <3>6. jt[r] = IF r = {} THEN 0 ELSE w[Chosen(r)] + it[r \ {Chosen(r)}]
      BY <3>2, <3>4
    <3>7. QED
      BY <3>1, <3>2, <3>4, <3>5, <3>6
  <2>4. jt = [s \in D(m) |-> IF s = {} THEN 0 ELSE w[Chosen(s)] + jt[s \ {Chosen(s)}]]
    BY <2>3
  <2>5. AddsUpTo(jt, w, T, m)
    BY <2>4 DEF AddsUpTo
  <2>6. QED
    BY <1>2, <2>5
<1>5. QED
  BY <1>2, <1>3, <1>4

\* ... and so on all subsets of a finite set ...
LEMMA AddsExists ==
    ASSUME NEW w, NEW T, Weighted(w, T)
    PROVE  \E it : Adds(it, w, T)
<1>1. PICK n \in Nat : n = Cardinality(T)
  BY FS_CardinalityType DEF Weighted
<1>2. {r \in SUBSET T : Cardinality(r) <= n} = SUBSET T
  BY <1>1, FS_Subset DEF Weighted
<1>3. PICK it : AddsUpTo(it, w, T, n)
  BY AddsUpToAll
<1>4. QED
  BY <1>2, <1>3 DEF Adds, AddsUpTo

\* ... which is a natural number.
LEMMA AddsNat ==
    ASSUME NEW w, NEW T, Weighted(w, T), NEW it, Adds(it, w, T), NEW s \in SUBSET T
    PROVE  it[s] \in Nat
<1> DEFINE B == {Cardinality(r) : r \in {q \in SUBSET T : it[q] \notin Nat}}
<1>1. SUFFICES ASSUME B # {} PROVE FALSE
  OBVIOUS
<1>2. \A r \in SUBSET T : Cardinality(r) \in Nat
  BY FS_Subset, FS_CardinalityType DEF Weighted
<1>3. B \subseteq Nat
  BY <1>2
<1>4. PICK n \in B : \A k \in B : n <= k
  BY <1>1, <1>3, LeastNatural
<1>5. PICK r \in SUBSET T : it[r] \notin Nat /\ n = Cardinality(r)
  BY <1>4
<1>6. it[r] = IF r = {} THEN 0 ELSE w[Chosen(r)] + it[r \ {Chosen(r)}]
  BY <1>5 DEF Adds
<1>7. PICK x : x = Chosen(r)
  OBVIOUS
<1>8. r # {} /\ it[r] = w[x] + it[r \ {x}]
  BY <1>5, <1>6, <1>7
<1>9. w[x] \in Nat /\ r \ {x} \in SUBSET T /\ Cardinality(r \ {x}) = n - 1
  BY <1>5, <1>7, <1>8, ChosenMember
<1>10. it[r \ {x}] \in Nat
  <2>1. n \in Nat /\ ~(n <= n - 1)
    BY <1>3, <1>4
  <2>2. PICK q : q = r \ {x}
    OBVIOUS
  <2>3. Cardinality(q) \notin B
    BY <1>4, <1>9, <2>1, <2>2
  <2>4. QED
    BY <1>9, <2>2, <2>3
<1>11. QED
  BY <1>5, <1>8, <1>9, <1>10


\* The order in which a fold takes the members does not matter.
LEMMA AddsAny ==
    ASSUME NEW w, NEW T, Weighted(w, T), NEW it, Adds(it, w, T), NEW s \in SUBSET T, NEW y \in s
    PROVE  it[s] = w[y] + it[s \ {y}]
<1> DEFINE Bad(q) == \E z \in q : it[q] # w[z] + it[q \ {z}]
           B == {Cardinality(r) : r \in {q \in SUBSET T : Bad(q)}}
<1>1. SUFFICES ASSUME B # {} PROVE FALSE
  OBVIOUS
<1>2. \A r \in SUBSET T : Cardinality(r) \in Nat
  BY FS_Subset, FS_CardinalityType DEF Weighted
<1>3. B \subseteq Nat
  BY <1>2
<1>4. PICK n \in B : \A k \in B : n <= k
  BY <1>1, <1>3, LeastNatural
<1>5. PICK r \in SUBSET T : Bad(r) /\ n = Cardinality(r)
  BY <1>4
<1>6. PICK z \in r : it[r] # w[z] + it[r \ {z}]
  BY <1>5
<1>7. PICK x : x = Chosen(r)
  OBVIOUS
<1>8. \A q \in SUBSET T : q # {} => it[q] = w[Chosen(q)] + it[q \ {Chosen(q)}]
  BY DEF Adds
<1>9. x \in r /\ it[r] = w[x] + it[r \ {x}] /\ x # z
  BY <1>6, <1>7, <1>8 DEF Chosen
<1>10. \A u \in r : r \ {u} \in SUBSET T /\ ~Bad(r \ {u})
  <2>1. SUFFICES ASSUME NEW u \in r PROVE r \ {u} \in SUBSET T /\ ~Bad(r \ {u})
    OBVIOUS
  <2>2. IsFiniteSet(r)
    BY FS_Subset DEF Weighted
  <2>3. PICK q : q = r \ {u}
    OBVIOUS
  <2>4. Cardinality(q) = n - 1
    BY <1>5, <2>2, <2>3, FS_RemoveElement
  <2>5. n \in Nat /\ ~(n <= n - 1)
    BY <1>3, <1>4
  <2>6. Cardinality(q) \notin B
    BY <1>4, <2>4, <2>5
  <2>7. QED
    BY <2>3, <2>6
<1>11. it[r \ {x}] = w[z] + it[(r \ {x}) \ {z}]
  BY <1>6, <1>9, <1>10
<1>12. it[r \ {z}] = w[x] + it[(r \ {z}) \ {x}]
  BY <1>6, <1>9, <1>10
<1>13. PICK q : q = (r \ {x}) \ {z} /\ q = (r \ {z}) \ {x} /\ q \in SUBSET T
  OBVIOUS
<1>14. it[q] \in Nat
  BY <1>13, AddsNat
<1>15. w[x] \in Nat /\ w[z] \in Nat
  BY <1>6, <1>9 DEF Weighted
<1>16. it[r] = w[x] + (w[z] + it[q]) /\ it[r \ {z}] = w[x] + it[q]
  BY <1>9, <1>11, <1>12, <1>13
<1>17. QED
  BY <1>6, <1>14, <1>15, <1>16

\* A fold over a part computes what the fold over the whole computes on it.
LEMMA AddsPart ==
    ASSUME NEW w, NEW T, Weighted(w, T), NEW S \in SUBSET T,
           NEW it, Adds(it, w, T), NEW jt, Adds(jt, w, S), NEW s \in SUBSET S
    PROVE  jt[s] = it[s]
<1> DEFINE B == {Cardinality(r) : r \in {q \in SUBSET S : jt[q] # it[q]}}
<1>1. SUFFICES ASSUME B # {} PROVE FALSE
  OBVIOUS
<1>2. \A r \in SUBSET S : Cardinality(r) \in Nat
  BY FS_Subset, FS_CardinalityType DEF Weighted
<1>3. B \subseteq Nat
  BY <1>2
<1>4. PICK n \in B : \A k \in B : n <= k
  BY <1>1, <1>3, LeastNatural
<1>5. PICK r \in SUBSET S : jt[r] # it[r] /\ n = Cardinality(r)
  BY <1>4
<1>6. /\ it[r] = IF r = {} THEN 0 ELSE w[Chosen(r)] + it[r \ {Chosen(r)}]
      /\ jt[r] = IF r = {} THEN 0 ELSE w[Chosen(r)] + jt[r \ {Chosen(r)}]
  BY <1>5 DEF Adds
<1>7. PICK x : x = Chosen(r)
  OBVIOUS
<1>8. r # {} /\ jt[r \ {x}] # it[r \ {x}]
  BY <1>5, <1>6, <1>7
<1>9. PICK q : q = r \ {x} /\ q \in SUBSET S
  OBVIOUS
<1>10. Cardinality(q) = n - 1
  BY <1>5, <1>7, <1>8, <1>9, ChosenMember
<1>11. n \in Nat /\ ~(n <= n - 1)
  BY <1>3, <1>4
<1>12. Cardinality(q) \in B
  BY <1>8, <1>9
<1>13. QED
  BY <1>4, <1>10, <1>11, <1>12

\* A sum of naturals grows with its set.
LEMMA AddsMore ==
    ASSUME NEW w, NEW T, Weighted(w, T), NEW it, Adds(it, w, T), NEW s \in SUBSET T, NEW t \in SUBSET T, s \subseteq t
    PROVE  it[s] <= it[t]
<1> DEFINE B == {Cardinality(r) : r \in {q \in SUBSET T : s \subseteq q /\ ~(it[s] <= it[q])}}
<1>1. SUFFICES ASSUME B # {} PROVE FALSE
  OBVIOUS
<1>2. \A r \in SUBSET T : Cardinality(r) \in Nat
  BY FS_Subset, FS_CardinalityType DEF Weighted
<1>3. B \subseteq Nat
  BY <1>2
<1>4. PICK n \in B : \A k \in B : n <= k
  BY <1>1, <1>3, LeastNatural
<1>5. PICK r \in SUBSET T : s \subseteq r /\ ~(it[s] <= it[r]) /\ n = Cardinality(r)
  BY <1>4
<1>6. \A q \in SUBSET T : it[q] \in Nat
  BY AddsNat
<1>7. PICK y \in r : y \notin s
  <2>1. r # s
    BY <1>5, <1>6
  <2>2. QED
    BY <1>5, <2>1
<1>8. it[r] = w[y] + it[r \ {y}]
  BY AddsAny
<1>9. PICK q : q = r \ {y} /\ q \in SUBSET T /\ s \subseteq q
  BY <1>5, <1>7
<1>10. Cardinality(q) = n - 1
  <2>1. IsFiniteSet(r)
    BY FS_Subset DEF Weighted
  <2>2. QED
    BY <1>5, <1>9, <2>1, FS_RemoveElement
<1>11. n \in Nat /\ ~(n <= n - 1)
  BY <1>3, <1>4
<1>12. it[s] <= it[q]
  BY <1>4, <1>9, <1>10, <1>11
<1>13. w[y] \in Nat
  BY DEF Weighted
<1>14. QED
  BY <1>5, <1>6, <1>8, <1>9, <1>12, <1>13

\* Both together, for two folds.
LEMMA SumsGrow ==
    ASSUME NEW w, NEW T, Weighted(w, T), NEW S \in SUBSET T,
           NEW it, Adds(it, w, T), NEW jt, Adds(jt, w, S)
    PROVE  it[T] \in Nat /\ jt[S] \in Nat /\ jt[S] <= it[T]
<1>1. jt[S] = it[S]
  BY AddsPart
<1>2. it[S] <= it[T] /\ it[S] \in Nat /\ it[T] \in Nat
  BY AddsMore, AddsNat
<1>3. QED
  BY <1>1, <1>2

\* BehaviorAssessment's sum of weights.
SignalSum(T) == MapThenSumSet(LAMBDA s : s[1], T)

\* It is the value of such a fold ...
LEMMA SignalAdds ==
    ASSUME NEW w, NEW T, Weighted(w, T), \A t \in T : w[t] = t[1]
    PROVE  \E it : Adds(it, w, T) /\ SignalSum(T) = it[T]
<1> DEFINE folds(it) == it = [s \in SUBSET T |-> IF s = {} THEN 0 ELSE Chosen(s)[1] + it[s \ {Chosen(s)}]]
<1>1. \A s \in SUBSET T : s # {} => w[Chosen(s)] = Chosen(s)[1]
  BY DEF Chosen
<1>2. \A it : folds(it) <=> Adds(it, w, T)
  BY <1>1 DEF Adds
<1>3. SignalSum(T) = (CHOOSE it : folds(it))[T]
  BY DEF SignalSum, MapThenSumSet, MapThenFoldSet, Chosen
<1> HIDE DEF folds
<1>4. folds(CHOOSE it : folds(it))
  BY <1>2, AddsExists, Zenon
<1>5. QED
  BY <1>2, <1>3, <1>4

\* ... and so a natural number that grows with the signals present.
LEMMA SignalsGrow ==
    ASSUME NEW T, IsFiniteSet(T), \A t \in T : t[1] \in Nat, NEW S \in SUBSET T
    PROVE  SignalSum(S) \in Nat /\ SignalSum(T) \in Nat /\ SignalSum(S) <= SignalSum(T)
<1>1. PICK w : w = [t \in T |-> t[1]]
  OBVIOUS
<1>2. Weighted(w, T) /\ Weighted(w, S) /\ \A t \in T : w[t] = t[1]
  BY <1>1, FS_Subset DEF Weighted
<1>3. PICK it : Adds(it, w, T) /\ SignalSum(T) = it[T]
  BY <1>2, SignalAdds
<1>4. PICK jt : Adds(jt, w, S) /\ SignalSum(S) = jt[S]
  BY <1>2, SignalAdds
<1>5. QED
  BY <1>2, <1>3, <1>4, SumsGrow

\* So the sum of natural weights is a natural number.
LEMMA SumScoreNat ==
    ASSUME NEW signals, IsFiniteSet(signals), \A t \in signals : t[1] \in Nat
    PROVE  SumScore(signals) \in Nat
<1>1. PICK T : T = {t \in signals : t[3]}
  OBVIOUS
<1>2. IsFiniteSet(T) /\ \A t \in T : t[1] \in Nat
  BY <1>1, FS_Subset
<1>3. SumScore(signals) = SignalSum(T)
  BY <1>1 DEF SumScore, SignalSum
<1>4. QED
  BY <1>2, <1>3, SignalsGrow

\* The greatest of naturals with a bound.
LEMMA MaxNat ==
    ASSUME NEW n \in Nat, NEW S, S \subseteq 0 .. n, S # {}
    PROVE  Max(S) \in S /\ Max(S) \in 0 .. n /\ \A y \in S : Max(S) >= y
<1> DEFINE B == {n - x : x \in S}
<1>1. B \subseteq Nat /\ B # {}
  OBVIOUS
<1>2. PICK k \in B : \A m \in B : k <= m
  BY <1>1, LeastNatural
<1>3. PICK x \in S : k = n - x
  BY <1>2
<1>4. \A y \in S : x >= y
  <2>1. SUFFICES ASSUME NEW y \in S PROVE x >= y
    OBVIOUS
  <2>2. k <= n - y
    BY <1>2
  <2>3. x \in 0 .. n /\ y \in 0 .. n
    OBVIOUS
  <2>4. QED
    BY <1>3, <2>2, <2>3
<1>5. \E z \in S : \A y \in S : z >= y
  BY <1>4
<1>6. Max(S) \in S /\ \A y \in S : Max(S) >= y
  BY <1>5 DEF Max
<1>7. QED
  BY <1>6

\* min(100, n)
LEMMA Capped ==
    ASSUME NEW n \in Nat
    PROVE  Min({100, n}) \in 0 .. 100
<1>1. \E x \in {100, n} : \A y \in {100, n} : x <= y
  BY 100 \in Nat
<1>2. Min({100, n}) \in {100, n} /\ \A y \in {100, n} : Min({100, n}) <= y
  BY <1>1 DEF Min
<1>3. QED
  BY <1>2

\* The largest of weights up to 100 is at most 100.
LEMMA MaxScoreNat ==
    ASSUME NEW signals, \A t \in signals : t[1] \in 0 .. 100
    PROVE  MaxScore(signals) \in 0 .. 100
<1>1. PICK S : S = {0} \cup {s[1] : s \in {t \in signals : t[3]}}
  OBVIOUS
<1>2. S \subseteq 0 .. 100 /\ S # {}
  BY <1>1
<1>3. MaxScore(signals) = Max(S)
  BY <1>1 DEF MaxScore
<1>4. QED
  BY <1>2, <1>3, MaxNat, 100 \in Nat

\* Sets written out are finite.
LEMMA PairFinite == \A a, b : IsFiniteSet({a, b})
<1>1. ASSUME NEW a, NEW b PROVE IsFiniteSet({a, b})
  <2>1. IsFiniteSet({a}) /\ IsFiniteSet({b})
    BY FS_Singleton
  <2>2. IsFiniteSet({a} \cup {b})
    BY <2>1, FS_Union
  <2>3. {a} \cup {b} = {a, b}
    OBVIOUS
  <2>4. QED
    BY <2>2, <2>3
<1>2. QED
  BY <1>1

\* Three members.
LEMMA ThreeFinite == \A a, b, c : IsFiniteSet({a, b, c})
<1>1. ASSUME NEW a, NEW b, NEW c PROVE IsFiniteSet({a, b, c})
  <2>1. IsFiniteSet({a, b} \cup {c})
    BY PairFinite, FS_AddElement
  <2>2. {a, b} \cup {c} = {a, b, c}
    OBVIOUS
  <2>3. QED
    BY <2>1, <2>2
<1>2. QED
  BY <1>1

\* Five members.
LEMMA FiveFinite == \A a, b, c, d, e : IsFiniteSet({a, b, c, d, e})
<1>1. ASSUME NEW a, NEW b, NEW c, NEW d, NEW e PROVE IsFiniteSet({a, b, c, d, e})
  <2>1. IsFiniteSet({a, b, c} \cup {d, e})
    BY PairFinite, ThreeFinite, FS_Union
  <2>2. {a, b, c} \cup {d, e} = {a, b, c, d, e}
    OBVIOUS
  <2>3. QED
    BY <2>1, <2>2
<1>2. QED
  BY <1>1

\* Six members.
LEMMA SixFinite == \A a, b, c, d, e, g : IsFiniteSet({a, b, c, d, e, g})
<1>1. ASSUME NEW a, NEW b, NEW c, NEW d, NEW e, NEW g PROVE IsFiniteSet({a, b, c, d, e, g})
  <2>1. IsFiniteSet({a, b, c} \cup {d, e, g})
    BY ThreeFinite, FS_Union
  <2>2. {a, b, c} \cup {d, e, g} = {a, b, c, d, e, g}
    OBVIOUS
  <2>3. QED
    BY <2>1, <2>2
<1>2. QED
  BY <1>1

\* Eight members.
LEMMA EightFinite == \A a, b, c, d, e, g, h, i : IsFiniteSet({a, b, c, d, e, g, h, i})
<1>1. ASSUME NEW a, NEW b, NEW c, NEW d, NEW e, NEW g, NEW h, NEW i PROVE IsFiniteSet({a, b, c, d, e, g, h, i})
  <2>1. IsFiniteSet({a, b, c, d, e} \cup {g, h, i})
    BY ThreeFinite, FiveFinite, FS_Union
  <2>2. {a, b, c, d, e} \cup {g, h, i} = {a, b, c, d, e, g, h, i}
    OBVIOUS
  <2>3. QED
    BY <2>1, <2>2
<1>2. QED
  BY <1>1

\* Nine members.
LEMMA NineFinite == \A a, b, c, d, e, g, h, i, j : IsFiniteSet({a, b, c, d, e, g, h, i, j})
<1>1. ASSUME NEW a, NEW b, NEW c, NEW d, NEW e, NEW g, NEW h, NEW i, NEW j PROVE IsFiniteSet({a, b, c, d, e, g, h, i, j})
  <2>1. IsFiniteSet({a, b, c, d, e, g, h, i} \cup {j})
    BY EightFinite, FS_AddElement
  <2>2. {a, b, c, d, e, g, h, i} \cup {j} = {a, b, c, d, e, g, h, i, j}
    OBVIOUS
  <2>3. QED
    BY <2>1, <2>2
<1>2. QED
  BY <1>1

\* Thirteen members.
LEMMA ThirteenFinite ==
    \A a, b, c, d, e, g, h, i, j, k, l, m, n : IsFiniteSet({a, b, c, d, e, g, h, i, j, k, l, m, n})
<1>1. ASSUME NEW a, NEW b, NEW c, NEW d, NEW e, NEW g, NEW h, NEW i, NEW j, NEW k, NEW l, NEW m, NEW n
      PROVE  IsFiniteSet({a, b, c, d, e, g, h, i, j, k, l, m, n})
  <2>1. IsFiniteSet({a, b, c, d, e, g, h, i} \cup {j, k, l, m, n})
    BY EightFinite, FiveFinite, FS_Union
  <2>2. {a, b, c, d, e, g, h, i} \cup {j, k, l, m, n} = {a, b, c, d, e, g, h, i, j, k, l, m, n}
    OBVIOUS
  <2>3. QED
    BY <2>1, <2>2
<1>2. QED
  BY <1>1

\* Every risk score of a detector is a natural number.
LEMMA CommandScores ==
    ASSUME NEW features
    PROVE  NetworkExecutionScore(features) \in 0 .. 100
  BY MaxScoreNat DEF NetworkExecutionScore

\* The score of a script's content.
LEMMA WebshellScores ==
    ASSUME NEW e
    PROVE  WebshellScore(e) \in 0 .. 100
<1> DEFINE command == e.tags \cap CommandExecutionMarkers # {}
           dynamic == e.tags \cap DynamicExecutionMarkers # {}
           encoded == e.tags \cap EncodedPayloadMarkers # {}
           context == "is_web_path" \in e.tags /\ "script" \in e.tags
           base(b1, b2, b3, b4, b5, b6, b7, b8) ==
              {<<55, "command_execution_marker", b1>>, <<40, "dynamic_code_marker", b2>>,
               <<35, "encoded_payload_marker", b3>>, <<60, "web_script_context", b4>>,
               <<80, "web_command_execution", b5>>, <<85, "encoded_dynamic_execution", b6>>,
               <<90, "encoded_command_execution", b7>>, <<75, "large_encoded_web_script", b8>>}
           signals(b1, b2, b3, b4, b5, b6, b7, b8, b9) ==
              base(b1, b2, b3, b4, b5, b6, b7, b8) \cup {<<75, "hidden_suspicious_script", b9>>}
           large == "long_base64" \in e.tags /\ context
           weak == base(command, dynamic, encoded, context, command /\ context, dynamic /\ encoded, command /\ encoded, large)
           hidesScript == "hidden" \in e.tags /\ MaxScore(weak) >= 55
<1>1. WebshellScore(e) = MaxScore(signals(command, dynamic, encoded, context, command /\ context, dynamic /\ encoded,
                                          command /\ encoded, large, hidesScript))
  BY Zenon DEF WebshellScore
<1>2. \A b1, b2, b3, b4, b5, b6, b7, b8, b9 : \A t \in signals(b1, b2, b3, b4, b5, b6, b7, b8, b9) : t[1] \in 0 .. 100
  OBVIOUS
<1> HIDE DEF command, dynamic, encoded, context, signals, hidesScript, large
<1>3. QED
  BY <1>1, <1>2, MaxScoreNat

\* The score of a persistence entry.
LEMMA PersistenceScores ==
    ASSUME NEW e
    PROVE  PersistenceScore(e) \in 0 .. 100
<1>1. \A line : PersistenceLineScore(line) \in 0 .. 100
  BY MaxScoreNat DEF PersistenceLineScore
<1>2. PICK S : S = {0} \cup {PersistenceLineScore(line) : line \in e.lines}
  OBVIOUS
<1>3. S \subseteq 0 .. 100 /\ S # {}
  BY <1>1, <1>2
<1>4. PersistenceScore(e) = Max(S)
  BY <1>2 DEF PersistenceScore
<1>5. QED
  BY <1>3, <1>4, MaxNat, 100 \in Nat

\* The scores of PROC-002 and PROC-006.
LEMMA ProcessMaxScores ==
    ASSUME NEW p
    PROVE  DeletedScore(p) \in 0 .. 100 /\ GpuScore(p) \in 0 .. 100
<1>1. DeletedScore(p) \in 0 .. 100
  BY MaxScoreNat DEF DeletedScore
<1>2. GpuScore(p) \in 0 .. 100
  BY MaxScoreNat DEF GpuScore
<1>3. QED
  BY <1>1, <1>2

\* The score of behavior_cluster_assessment.
LEMMA ClusterScores ==
    ASSUME NEW p
    PROVE  ClusterScore(p) \in Nat
<1> DEFINE signals(b1, b2, b3, b4, b5, b6, b7, b8, b9, b10, b11, b12, b13) ==
              {<<55, "kernel_thread_masquerade", b1>>, <<40, "web_path_executable", b2>>,
               <<25, "hidden_executable_name", b3>>, <<10, "runtime_cwd", b4>>,
               <<30, "suspicious_cwd", b5>>, <<30, "many_socket_fds", b6>>,
               <<15, "socket_activity", b7>>, <<25, "sustained_high_cpu", b8>>,
               <<20, "public_outbound_connections", b9>>, <<35, "public_outbound_fanout", b10>>,
               <<35, "systemd_execstart_mismatch", b11>>, <<45, "unpackaged_network_process", b12>>,
               <<20, "shell_or_scheduler_parent", b13>>}
           started == ShellParent(p) /\ ~LowRiskInteractive(p)
           unpackaged == /\ Has(p, "unowned") /\ p.outbound > 0
                         /\ \/ started
                            \/ HighCpu(p)
                            \/ p.tags \cap {"hidden", "execstart_mismatch", "kernel_thread_name"} # {}
           scheduled == started /\ (p.outbound > 0 \/ Has(p, "hidden"))
           mine == signals(KernelThreadMasquerade(p), InWebRoots(p), Has(p, "hidden"), p.cwd = "run",
                           p.cwd \in SuspiciousDirs \ {"run"}, p.sockets = ManySockets, p.sockets = SomeSockets,
                           HighCpu(p), p.outbound > 0, p.outbound = FanoutOutbound, Has(p, "execstart_mismatch"),
                           unpackaged, scheduled)
<1>1. ClusterSignals(p) = mine
  BY Zenon DEF ClusterSignals
<1>2. ASSUME NEW b1, NEW b2, NEW b3, NEW b4, NEW b5, NEW b6, NEW b7, NEW b8, NEW b9, NEW b10, NEW b11, NEW b12, NEW b13
      PROVE  /\ IsFiniteSet(signals(b1, b2, b3, b4, b5, b6, b7, b8, b9, b10, b11, b12, b13))
             /\ \A t \in signals(b1, b2, b3, b4, b5, b6, b7, b8, b9, b10, b11, b12, b13) : t[1] \in Nat
  <2>1. IsFiniteSet(signals(b1, b2, b3, b4, b5, b6, b7, b8, b9, b10, b11, b12, b13))
    BY ThirteenFinite, ZenonT(60)
  <2>2. \A t \in signals(b1, b2, b3, b4, b5, b6, b7, b8, b9, b10, b11, b12, b13) : t[1] \in Nat
    OBVIOUS
  <2>3. QED
    BY <2>1, <2>2
<1> HIDE DEF signals, unpackaged, scheduled
<1>3. IsFiniteSet(mine) /\ \A t \in mine : t[1] \in Nat
  BY <1>2
<1>4. SumScore(ClusterSignals(p)) \in Nat
  BY <1>1, <1>3, SumScoreNat
<1>5. QED
  BY <1>4 DEF ClusterScore

\* The score of executable_path_assessment.
LEMMA PathScores ==
    ASSUME NEW p
    PROVE  ExecutablePathScore(p) \in Nat
<1> DEFINE signals(weight, name, b2, b3, b4, b5, b6, b7, b8, b9) ==
              {<<weight, name, TRUE>>, <<25, "hidden_executable_name", b2>>,
               <<30, "deleted_executable_path", b3>>, <<60, "network_execution_bridge", b4>>,
               <<80, "known_bad_tool", b5>>, <<20, "public_outbound_connections", b6>>,
               <<20, "many_socket_fds", b7>>, <<10, "socket_activity", b8>>, <<25, "sustained_high_cpu", b9>>}
           weight == IF p.exe = "run" THEN 45 ELSE IF p.exe = "tmp" THEN 75 ELSE 70
           base == signals(weight, PathSignal(p), Has(p, "hidden"), Deleted(p), Bridge(p), KnownTool(p), p.outbound > 0,
                           p.sockets = ManySockets, p.sockets = SomeSockets, HighCpu(p))
           last == <<10, "privileged_runtime_process", Has(p, "root") /\ SumScore(base) >= 45>>
<1>1. ExecutablePathScore(p) = SumScore(base \cup {last})
  BY Zenon DEF ExecutablePathScore
<1>2. weight \in Nat /\ last[1] \in Nat
  OBVIOUS
<1>3. ASSUME NEW w \in Nat, NEW n, NEW b2, NEW b3, NEW b4, NEW b5, NEW b6, NEW b7, NEW b8, NEW b9
      PROVE  /\ IsFiniteSet(signals(w, n, b2, b3, b4, b5, b6, b7, b8, b9))
             /\ \A t \in signals(w, n, b2, b3, b4, b5, b6, b7, b8, b9) : t[1] \in Nat
  <2>1. IsFiniteSet(signals(w, n, b2, b3, b4, b5, b6, b7, b8, b9))
    BY NineFinite, ZenonT(30)
  <2>2. PICK first : first = <<w, n, TRUE>>
    OBVIOUS
  <2>3. first[1] \in Nat
    BY <1>3, <2>2
  <2> DEFINE rest == {<<25, "hidden_executable_name", b2>>,
                      <<30, "deleted_executable_path", b3>>, <<60, "network_execution_bridge", b4>>,
                      <<80, "known_bad_tool", b5>>, <<20, "public_outbound_connections", b6>>,
                      <<20, "many_socket_fds", b7>>, <<10, "socket_activity", b8>>, <<25, "sustained_high_cpu", b9>>}
  <2>4. \A t \in rest : t[1] \in Nat
    OBVIOUS
  <2>6. \A t \in signals(w, n, b2, b3, b4, b5, b6, b7, b8, b9) : t = first \/ t \in rest
    BY <2>2, Zenon
  <2> HIDE DEF signals, rest
  <2>5. QED
    BY <2>1, <2>3, <2>4, <2>6
<1> HIDE DEF signals, weight, last
<1>4. IsFiniteSet(base) /\ \A t \in base : t[1] \in Nat
  BY <1>2, <1>3
<1> HIDE DEF base
<1>5. IsFiniteSet(base \cup {last})
  BY <1>4, FS_AddElement
<1>6. \A t \in base \cup {last} : t[1] \in Nat
  BY <1>2, <1>4
<1>7. QED
  BY <1>1, <1>5, <1>6, SumScoreNat

\* The score of a listener.
LEMMA ListenerScores ==
    ASSUME NEW e, NEW ctx
    PROVE  ListenerScore(e, ctx) \in Nat
<1> DEFINE traits == {<<50, "suspicious_executable_path", e.exe \in SuspiciousDirs>>,
                      <<40, "deleted_listener_executable", Deleted(e)>>,
                      <<70, "network_execution_bridge", Bridge(e)>>,
                      <<70, "known_bad_tool", KnownTool(e)>>,
                      <<35, "interactive_shell_listener", Has(e, "shell_name")>>,
                      <<30, "systemd_execstart_mismatch", ExecStartMismatch(ctx)>>}
<1>1. IsFiniteSet(traits)
  BY SixFinite, ZenonT(30)
<1>2. \A t \in traits : t[1] \in Nat
  OBVIOUS
<1>3. SumScore(traits) \in Nat
  BY <1>1, <1>2, SumScoreNat
<1>4. QED
  BY <1>3 DEF ListenerScore

--------------------------------------------------------------------------------
(* The findings of the detectors                                              *)

\* The fields of a finding.
FieldNames ==
    {"rule", "cat", "sev", "conf", "subject", "ev", "path", "source", "process", "pid", "score", "drift", "unified",
     "count", "probe"}

\* The rules that report sensitive changes.
CoveringRules == UserRules \cup ResourceRules \cup {"SSH-005"}
CriticalProcessRules == {"PROC-003", "PROC-004", "PROC-006"}

\* What the constructor of a finding sets.
Built(f, rule, sev, subject, path, source, ev) ==
    /\ DOMAIN f = FieldNames
    /\ f.rule = rule /\ f.sev = sev /\ f.conf = ConfidenceFor(sev) /\ f.subject = subject /\ f.ev = ev
    /\ f.path = path /\ f.source = source /\ f.drift = 0 /\ f.unified = 0 /\ f.score \in Nat

\* What the detectors of drift report about one event.
DriftFindings(e, pkg) ==
    {AuthorizedKeysChanged(e), CriticalFileChanged(e, pkg), PersistenceChanged(e, pkg), LdPreloadChanged(e, pkg),
     NewUser(e, pkg), UidZeroUser(e), UserModified(e)}

\* What the rules about processes may report about one process.
ProcessReports(p) ==
    {ProcessFinding("PROC-001", High, p, ExecutablePathScore(p)), ProcessFinding("PROC-002", High, p, DeletedScore(p)),
     ProcessFinding("PROC-003", Critical, p, NetworkExecutionScore(CommandFeatures(p.cmd))),
     ProcessFinding("PROC-004", Critical, p, 70), ProcessFinding("PROC-004", Critical, p, 90),
     ProcessFinding("PROC-005", High, p, ClusterScore(p)), ProcessFinding("PROC-006", Critical, p, GpuScore(p))}

\* A finding that is not about a remote address.
Sourceless(f) == f.source = ""

\* What the detectors report under the rules that later stages name.
Shape(f, es) ==
    /\ DOMAIN f = FieldNames
    /\ f.sev \in Info .. Critical /\ f.conf = ConfidenceFor(f.sev) /\ f.drift = 0 /\ f.unified = 0
    /\ f.score \in Nat
    /\ f.rule \in CoveringRules =>
          Sourceless(f) /\ "identity_files" \notin f.ev /\ \E e \in es : f \in DriftFindings(e, PackageActivity(es))
    /\ f.rule \in ResourceRules \cup {"SSH-005"} => f.subject = <<f.path>> /\ f.sev = High
    /\ f.rule = "FILE-001" => f.path \in CriticalPaths
    /\ f.rule \in UserRules => f.path = "" /\ \E e \in es : f.subject = <<e.user>>
    /\ f.rule \in ProcessRules =>
          /\ f.sev = IF f.rule \in CriticalProcessRules THEN Critical ELSE High
          /\ \E e \in es : f \in ProcessReports(Enriched(e, es))
    /\ f.rule = "SSH-007" => f.subject = <<f.source>>

\* A nonempty set of severities has a greatest member, and Max is it.
LEMMA MaxRating ==
    ASSUME NEW S \in SUBSET (1 .. 5), S # {}
    PROVE  Max(S) \in S /\ \A y \in S : Max(S) >= y
<1>1. \E x \in S : \A y \in S : x >= y
  <2>1. CASE 5 \in S
    BY <2>1
  <2>2. CASE 5 \notin S /\ 4 \in S
    BY <2>2
  <2>3. CASE 5 \notin S /\ 4 \notin S /\ 3 \in S
    BY <2>3
  <2>4. CASE 5 \notin S /\ 4 \notin S /\ 3 \notin S /\ 2 \in S
    BY <2>4
  <2>5. CASE 5 \notin S /\ 4 \notin S /\ 3 \notin S /\ 2 \notin S
    <3>1. \A y \in S : y = 1
      BY <2>5
    <3>2. 1 \in S
      BY <3>1
    <3>3. QED
      BY <3>1, <3>2
  <2>6. QED
    BY <2>1, <2>2, <2>3, <2>4, <2>5
<1>2. QED
  BY <1>1 DEF Max

\* Listing a finite set in some order loses nothing.
LEMMA SetToSeqRange ==
    ASSUME NEW S, IsFiniteSet(S)
    PROVE  ToSet(SetToSeq(S)) = S
<1>1. PICK n \in Nat : n = Cardinality(S)
  BY FS_CardinalityType
<1>2. \E f \in [1 .. n -> S] : IsInjective(f)
  <2>1. ExistsBijection(1 .. n, S)
    BY <1>1, FS_CardinalityType
  <2>2. QED
    BY <2>1 DEF ExistsBijection, Bijection, Injection
<1>3. PICK f : f = SetToSeq(S)
  OBVIOUS
<1>4. f \in [1 .. n -> S] /\ IsInjective(f)
  BY <1>1, <1>2, <1>3 DEF SetToSeq
<1>5. Cardinality(1 .. n) = n
  BY FS_Interval
<1>6. f \in Injection(1 .. n, S)
  BY <1>4 DEF Injection
<1>7. f \in Surjection(1 .. n, S)
  BY <1>1, <1>5, <1>6, FS_Injection
<1>8. QED
  BY <1>3, <1>4, <1>7 DEF Surjection, ToSet

\* What Finding::new sets.
LEMMA NewFinding ==
    ASSUME NEW rule, NEW cat, NEW sev, NEW subject, NEW ev
    PROVE  Built(F(rule, cat, sev, subject, ev), rule, sev, subject, "", "", ev)
  BY DEF F, FieldNames, Built

\* The part of it that does not mention path and source.
LEMMA NewFindingFields ==
    ASSUME NEW rule, NEW cat, NEW sev, NEW subject, NEW ev, NEW g, g = F(rule, cat, sev, subject, ev)
    PROVE  DOMAIN g = FieldNames /\ g.rule = rule /\ g.sev = sev
<1>1. Built(g, rule, sev, subject, "", "", ev)
  BY NewFinding, Zenon
<1>2. QED
  BY <1>1, Zenon DEF Built

\* What a detector sets on a finding about a path.
LEMMA NewPathFinding ==
    ASSUME NEW rule, NEW cat, NEW sev, NEW path, NEW ev
    PROVE  Built(PathFinding(rule, cat, sev, path, ev), rule, sev, <<path>>, path, "", ev)
<1>1. PICK g : g = F(rule, cat, sev, <<path>>, ev)
  OBVIOUS
<1>2. Built(g, rule, sev, <<path>>, "", "", ev)
  BY <1>1, NewFinding
<1>3. QED
  BY <1>1, <1>2 DEF PathFinding, FieldNames, Built

\* What a detector sets on a finding about a remote address.
LEMMA NewSourceFinding ==
    ASSUME NEW rule, NEW cat, NEW sev, NEW subject, NEW ip
    PROVE  Built(SourceFinding(rule, cat, sev, subject, ip), rule, sev, subject, "", ip, {})
<1>1. PICK g : g = F(rule, cat, sev, subject, {})
  OBVIOUS
<1>2. Built(g, rule, sev, subject, "", "", {})
  BY <1>1, NewFinding
<1>3. QED
  BY <1>1, <1>2 DEF SourceFinding, FieldNames, Built

\* A risk score adds evidence and keeps the rest.
LEMMA ScoredFinding ==
    ASSUME NEW f, NEW rule, NEW sev, NEW subject, NEW path, NEW source, NEW ev, NEW score \in Nat,
           Built(f, rule, sev, subject, path, source, ev)
    PROVE  Built(Scored(f, score), rule, sev, subject, path, source, ev \cup {"risk"})
  BY DEF Scored, FieldNames, Built

\* Nothing more is asked of a finding under a rule no later stage names.
LEMMA OtherShape ==
    ASSUME NEW f, NEW es, NEW rule, NEW sev \in Info .. Critical, NEW subject, NEW path, NEW source, NEW ev,
           Built(f, rule, sev, subject, path, source, ev), rule \notin NamedRules
    PROVE  Shape(f, es)
<1>1. "FILE-001" \in ResourceRules
  BY DEF ResourceRules
<1>2. f.rule \notin UserRules /\ f.rule \notin ResourceRules /\ f.rule \notin ProcessRules /\ f.rule \notin CoveringRules
      /\ f.rule \notin {"SSH-005", "SSH-007"}
  BY DEF Built, NamedRules, CoveringRules
<1>3. DOMAIN f = FieldNames /\ f.sev \in Info .. Critical /\ f.conf = ConfidenceFor(f.sev) /\ f.drift = 0 /\ f.unified = 0
      /\ f.score \in Nat
  BY DEF Built
<1>4. QED
  BY <1>1, <1>2, <1>3 DEF Shape


\* Rules no later stage names.
OtherRules ==
    {"SSH-001", "SSH-002", "SSH-003", "SSH-004", "SSH-006", "FILE-002", "FILE-003", "FILE-004", "PERSIST-002",
     "TAMPER-001", "TAMPER-002", "TAMPER-003", "AUDIT-001", "AUDIT-002", "CONFIG-001", "CONFIG-003", "CONFIG-004",
     "ROOTKIT-003", "DOCKER-001", "NET-001", "NET-002", "NET-003", "WEB-001", "WEB-002"}

\* The families of rules do not overlap.
LEMMA RuleFacts ==
    /\ OtherRules \cap NamedRules = {}
    /\ ResourceRules \cap UserRules = {} /\ ResourceRules \cap ProcessRules = {} /\ UserRules \cap ProcessRules = {}
    /\ "SSH-005" \notin UserRules \cup ProcessRules \cup ResourceRules
    /\ "SSH-007" \notin UserRules \cup ProcessRules \cup ResourceRules
    /\ "FILE-001" \in ResourceRules
  BY DEF OtherRules, NamedRules, CoveringRules, ResourceRules, UserRules, ProcessRules

\* The severities by name.
LEMMA Severities == {Info, Low, Medium, High, Critical} = Info .. Critical
  BY DEF Info, Low, Medium, High, Critical

\* A drift finding about a path has the shape.
LEMMA PathShape ==
    ASSUME NEW f, NEW es, NEW rule \in ResourceRules \cup {"SSH-005"}, NEW path, NEW ev,
           Built(f, rule, High, <<path>>, path, "", ev), "identity_files" \notin ev,
           rule = "FILE-001" => path \in CriticalPaths,
           \E e \in es : f \in DriftFindings(e, PackageActivity(es))
    PROVE  Shape(f, es)
<1>1. f.rule \notin UserRules /\ f.rule \notin ProcessRules /\ f.rule # "SSH-007"
  BY RuleFacts DEF Built
<1>2. High \in Info .. Critical
  BY Severities
<1>3. DOMAIN f = FieldNames /\ f.sev \in Info .. Critical /\ f.conf = ConfidenceFor(f.sev) /\ f.drift = 0 /\ f.unified = 0
      /\ f.score \in Nat
      /\ Sourceless(f) /\ "identity_files" \notin f.ev /\ f.subject = <<f.path>> /\ f.sev = High
      /\ (f.rule = "FILE-001" => f.path \in CriticalPaths)
  BY <1>2 DEF Built, Sourceless
<1>4. QED
  BY <1>1, <1>3 DEF Shape

\* A drift finding about an account has the shape.
LEMMA UserShape ==
    ASSUME NEW es, NEW e \in es, NEW f, NEW rule \in UserRules, NEW sev \in Info .. Critical, NEW ev,
           Built(f, rule, sev, <<e.user>>, "", "", ev), "identity_files" \notin ev,
           f \in DriftFindings(e, PackageActivity(es))
    PROVE  Shape(f, es)
<1>1. f.rule \notin ResourceRules \cup {"SSH-005"} /\ f.rule \notin ProcessRules /\ f.rule # "SSH-007" /\ f.rule # "FILE-001"
  BY RuleFacts DEF Built
<1>3. DOMAIN f = FieldNames /\ f.sev \in Info .. Critical /\ f.conf = ConfidenceFor(f.sev) /\ f.drift = 0 /\ f.unified = 0
      /\ f.score \in Nat
      /\ Sourceless(f) /\ "identity_files" \notin f.ev /\ f.subject = <<e.user>> /\ f.path = ""
  BY DEF Built, Sourceless
<1>4. QED
  BY <1>1, <1>3 DEF Shape

\* A finding about a process has the shape.
LEMMA ProcessShape ==
    ASSUME NEW f, NEW es, NEW rule \in ProcessRules, NEW sev, NEW subject, NEW path, NEW source, NEW ev,
           Built(f, rule, sev, subject, path, source, ev), \E e \in es : f \in ProcessReports(Enriched(e, es)),
           sev = IF rule \in CriticalProcessRules THEN Critical ELSE High
    PROVE  Shape(f, es)
<1>1. f.rule \notin ResourceRules \cup {"SSH-005"} /\ f.rule \notin UserRules /\ f.rule # "SSH-007" /\ f.rule # "FILE-001"
      /\ f.rule \notin CoveringRules
  BY RuleFacts DEF Built, CoveringRules
<1>2. sev \in Info .. Critical
  BY Severities
<1>3. DOMAIN f = FieldNames /\ f.sev \in Info .. Critical /\ f.conf = ConfidenceFor(f.sev) /\ f.drift = 0 /\ f.unified = 0
      /\ f.score \in Nat
      /\ f.sev = IF f.rule \in CriticalProcessRules THEN Critical ELSE High
  BY <1>2 DEF Built
<1>4. QED
  BY <1>1, <1>3 DEF Shape

\* A finding about a path under any other rule has the shape.
LEMMA OtherPathShape ==
    ASSUME NEW f, NEW es, NEW rule \in OtherRules, NEW cat, NEW sev \in Info .. Critical, NEW path, NEW ev, NEW score \in Nat,
           f = PathFinding(rule, cat, sev, path, ev) \/ f = Scored(PathFinding(rule, cat, sev, path, ev), score)
    PROVE  Shape(f, es)
<1>1. PICK g : g = PathFinding(rule, cat, sev, path, ev)
  OBVIOUS
<1>2. Built(g, rule, sev, <<path>>, path, "", ev)
  BY <1>1, NewPathFinding
<1>3. Built(Scored(g, score), rule, sev, <<path>>, path, "", ev \cup {"risk"})
  BY <1>2, ScoredFinding
<1>4. rule \notin NamedRules
  BY RuleFacts
<1>5. QED
  BY <1>1, <1>2, <1>3, <1>4, OtherShape

\* The detectors of single facts.
LEMMA FileShape ==
    ASSUME NEW es, NEW e \in es, NEW pkg, pkg = PackageActivity(es), NEW c, NEW f \in FileFindings(e, pkg, c)
    PROVE  Shape(f, es)
<1>1. CASE f \in FileDiffFindings(e, pkg)
  <2>1. CASE f = AuthorizedKeysChanged(e)
    <3>1. Built(f, "SSH-005", High, <<e.path>>, e.path, "", DiffEvidence(e))
      BY <2>1, NewPathFinding DEF AuthorizedKeysChanged
    <3>2. "identity_files" \notin DiffEvidence(e)
      BY DEF DiffEvidence, When
    <3>3. f \in DriftFindings(e, PackageActivity(es))
      BY <2>1 DEF DriftFindings
    <3>4. QED
      BY <3>1, <3>2, <3>3, PathShape, "SSH-005" # "FILE-001", "SSH-005" \in ResourceRules \cup {"SSH-005"}
  <2>2. CASE e.path \in CriticalPaths /\ f = CriticalFileChanged(e, pkg)
    <3>1. Built(f, "FILE-001", High, <<e.path>>, e.path, "", DiffEvidence(e) \cup PackageEvidence(pkg))
      BY <2>2, NewPathFinding DEF CriticalFileChanged
    <3>2. "identity_files" \notin DiffEvidence(e) \cup PackageEvidence(pkg)
      BY DEF DiffEvidence, PackageEvidence, When
    <3>3. f \in DriftFindings(e, PackageActivity(es))
      BY <2>2 DEF DriftFindings
    <3>4. QED
      BY <2>2, <3>1, <3>2, <3>3, PathShape, RuleFacts
  <2>3. CASE f = WebshellPathCreated(e)
    <3>1. Built(f, "FILE-002", Medium, <<e.path>>, e.path, "", DiffEvidence(e))
      BY <2>3, NewPathFinding DEF WebshellPathCreated
    <3>2. "FILE-002" \notin NamedRules /\ Medium \in Info .. Critical
      BY RuleFacts, Severities DEF OtherRules
    <3>3. QED
      BY <3>1, <3>2, OtherShape
  <2>4. QED
    BY <1>1, <2>1, <2>2, <2>3 DEF FileDiffFindings
<1>2. CASE f \in FileSnapshotFindings(e, c) \cup FileActivityFindings(e)
  <2>1. PICK rule, sev, cat, ev, score :
           /\ rule \in {"SSH-006", "FILE-002", "FILE-003", "FILE-004"} /\ sev \in {High, Medium}
           /\ f = PathFinding(rule, cat, sev, e.path, ev) \/ f = Scored(PathFinding(rule, cat, sev, e.path, ev), score)
           /\ score \in {0, WebshellScore(e)}
    BY <1>2
       DEF FileSnapshotFindings, FileActivityFindings, AuthorizedKeysUnsafeState, WebshellContent, ExecutableWebFile, When
  <2>2. rule \in OtherRules /\ sev \in Info .. Critical
    BY <2>1, Severities DEF OtherRules
  <2>3. score \in Nat
    BY <2>1, WebshellScores
  <2>4. QED
    BY <2>1, <2>2, <2>3, OtherPathShape
<1>3. QED
  BY <1>1, <1>2 DEF FileFindings

\* The detector of persistence entries.
LEMMA PersistenceShape ==
    ASSUME NEW es, NEW e \in es, NEW pkg, pkg = PackageActivity(es), NEW c, NEW f \in PersistenceFindings(e, pkg, c)
    PROVE  Shape(f, es)
<1>1. CASE f \in {LdPreloadChanged(e, pkg), PersistenceChanged(e, pkg)}
  <2>1. PICK rule \in {"PERSIST-001", "PERSIST-003"} :
           f = PathFinding(rule, "Persistence", High, e.path, PersistenceEvidence(e, pkg))
    BY <1>1 DEF LdPreloadChanged, PersistenceChanged
  <2>2. Built(f, rule, High, <<e.path>>, e.path, "", PersistenceEvidence(e, pkg))
    BY <2>1, NewPathFinding
  <2>3. "identity_files" \notin PersistenceEvidence(e, pkg)
    BY DEF PersistenceEvidence, DiffEvidence, PackageEvidence, When
  <2>4. rule \in ResourceRules /\ rule # "FILE-001"
    BY DEF ResourceRules
  <2>5. f \in DriftFindings(e, PackageActivity(es))
    BY <1>1 DEF DriftFindings
  <2>6. QED
    BY <2>2, <2>3, <2>4, <2>5, PathShape
<1>2. CASE f \in SuspiciousEntry(e, c)
  <2>1. f = Scored(PathFinding("PERSIST-002", "Persistence", High, e.path, {}), PersistenceScore(e))
    BY <1>2 DEF SuspiciousEntry, When
  <2>2. "PERSIST-002" \in OtherRules /\ High \in Info .. Critical
    BY Severities DEF OtherRules
  <2>3. PersistenceScore(e) \in Nat
    BY PersistenceScores
  <2>4. QED
    BY <2>1, <2>2, <2>3, OtherPathShape
<1>3. QED
  BY <1>1, <1>2 DEF PersistenceFindings

\* The detector of accounts.
LEMMA UserFindingShape ==
    ASSUME NEW es, NEW e \in es, NEW pkg, pkg = PackageActivity(es), NEW c, NEW f \in UserFindings(e, pkg, c)
    PROVE  Shape(f, es)
<1>1. f \in {NewUser(e, pkg), UidZeroUser(e), UserModified(e)}
  BY DEF UserFindings
<1>2. ASSUME NEW rule \in UserRules, NEW cat, NEW sev \in Info .. Critical, NEW ev, "identity_files" \notin ev,
             f = F(rule, cat, sev, <<e.user>>, ev)
      PROVE  Shape(f, es)
  <2>1. f \in DriftFindings(e, PackageActivity(es))
    BY <1>1 DEF DriftFindings
  <2>2. QED
    BY <1>2, <2>1, NewFinding, UserShape
<1>3. {"USER-001", "USER-002", "USER-003"} \subseteq UserRules /\ {Low, Medium, High, Critical} \subseteq Info .. Critical
  BY Severities DEF UserRules
<1>4. "identity_files" \notin UserEvidence(e) \cup PackageEvidence(pkg)
  BY DEF UserEvidence, PackageEvidence, When
<1>5. CASE f = NewUser(e, pkg)
  <2>1. PICK sev : sev = IF PackageManagedUser(e, pkg) THEN Low ELSE Medium
    OBVIOUS
  <2>2. sev \in Info .. Critical
    BY <1>3, <2>1
  <2>3. f = F("USER-001", "User", sev, <<e.user>>, UserEvidence(e) \cup PackageEvidence(pkg))
    BY <1>5, <2>1 DEF NewUser
  <2>4. QED
    BY <1>2, <1>3, <1>4, <2>2, <2>3
<1>6. CASE f = UidZeroUser(e)
  BY <1>2, <1>3, <1>4, <1>6 DEF UidZeroUser
<1>7. CASE f = UserModified(e)
  BY <1>2, <1>3, <1>4, <1>7 DEF UserModified
<1>8. QED
  BY <1>1, <1>5, <1>6, <1>7

\* The detectors that judge one fact at a time.
LEMMA SingleFactShape ==
    ASSUME NEW e, NEW es, NEW c,
           NEW f \in TamperFindings(e) \cup AuditFindings(e, c) \cup ConfigFindings(e) \cup RootkitFindings(e) \cup DockerFindings(e)
    PROVE  Shape(f, es)
<1>4. /\ {"TAMPER-001", "TAMPER-002", "TAMPER-003", "CONFIG-001", "CONFIG-004", "ROOTKIT-003", "DOCKER-001"} \subseteq OtherRules
      /\ {Info, Medium, High, Critical} \subseteq Info .. Critical
  BY Severities DEF OtherRules
<1>1. CASE f \in TamperFindings(e) \cup ConfigFindings(e) \cup RootkitFindings(e) \cup DockerFindings(e)
  <2>1. CASE f = LogRedirected(e) \/ f = LogTruncated(e) \/ f = LogMissing(e)
    BY <1>4, <2>1, OtherPathShape DEF LogRedirected, LogTruncated, LogMissing
  <2>2. CASE f = PasswordAuthEnabled(e) \/ f = RootLoginEnabled(e)
    BY <1>4, <2>2, OtherPathShape DEF PasswordAuthEnabled, RootLoginEnabled
  <2>3. CASE f \in RootkitFindings(e) \cup DockerFindings(e)
    BY <1>4, <2>3, OtherPathShape DEF RootkitFindings, DockerFindings, When
  <2>4. QED
    BY <1>1, <2>1, <2>2, <2>3 DEF TamperFindings, ConfigFindings, When
<1>2. CASE f \in AuditFindings(e, c)
  <2>1. ASSUME NEW rule \in OtherRules, NEW cat, NEW sev \in Info .. Critical, NEW score \in Nat,
               f = Scored(AuditFinding(rule, cat, sev, e), score)
        PROVE  Shape(f, es)
    <3>1. PICK ev : ev = When(NetworkExecution(e.tags), {"execution_intent"})
      OBVIOUS
    <3>2. PICK g : g = PathFinding(rule, cat, sev, e.path, ev)
      OBVIOUS
    <3>3. Built(g, rule, sev, <<e.path>>, e.path, "", ev)
      BY <3>2, NewPathFinding
    <3>4. Built([g EXCEPT !.process = e.comm], rule, sev, <<e.path>>, e.path, "", ev)
      BY <3>3 DEF Built, FieldNames
    <3>5. Built(f, rule, sev, <<e.path>>, e.path, "", ev \cup {"risk"})
      BY <2>1, <3>1, <3>2, <3>4, ScoredFinding DEF AuditFinding
    <3>6. QED
      BY <3>5, OtherShape, RuleFacts
  <2>2. {"AUDIT-001", "AUDIT-002"} \subseteq OtherRules
    BY DEF OtherRules
  <2>3. CASE f = AuditNetworkExecution(e)
    <3>1. NetworkExecutionScore(CommandFeatures(e.tags)) \in Nat
      BY CommandScores
    <3>2. QED
      BY <1>4, <2>1, <2>2, <2>3, <3>1 DEF AuditNetworkExecution
  <2>4. CASE f = AuditPrivilegeExecution(e)
    BY <1>4, <2>1, <2>2, <2>4, 65 \in Nat DEF AuditPrivilegeExecution
  <2>5. QED
    BY <1>2, <2>3, <2>4 DEF AuditFindings, When
<1>3. QED
  BY <1>1, <1>2

\* All detectors that look at one event.
LEMMA EventShape ==
    ASSUME NEW es, NEW e \in es, NEW pkg, pkg = PackageActivity(es), NEW c, NEW f \in EventFindings(e, pkg, c)
    PROVE  Shape(f, es)
<1>1. \/ f \in FileFindings(e, pkg, c) \/ f \in PersistenceFindings(e, pkg, c) \/ f \in UserFindings(e, pkg, c)
      \/ f \in TamperFindings(e) \cup AuditFindings(e, c) \cup ConfigFindings(e) \cup RootkitFindings(e) \cup DockerFindings(e)
  BY DEF EventFindings
<1>2. QED
  BY <1>1, FileShape, PersistenceShape, UserFindingShape, SingleFactShape

\* The detector of logins.
LEMMA SshShape ==
    ASSUME NEW es, NEW c, NEW f \in SshFindings(es, c)
    PROVE  Shape(f, es)
<1>1. \/ \E e : f \in SuccessFindings(e, c)
      \/ \E ip, n : f = BruteForce(ip, n)
      \/ \E ip, n : f = BruteForceSuccess(ip, n)
  BY DEF SshFindings
<1>2. ASSUME NEW rule \in OtherRules, NEW sev \in Info .. Critical, NEW subject, NEW ip, NEW n,
             \/ f = SourceFinding(rule, "Ssh", sev, subject, ip)
             \/ f = [SourceFinding(rule, "Ssh", sev, subject, ip) EXCEPT !.count = n]
      PROVE  Shape(f, es)
  <2>1. PICK g : g = SourceFinding(rule, "Ssh", sev, subject, ip)
    OBVIOUS
  <2>2. Built(g, rule, sev, subject, "", ip, {})
    BY <2>1, NewSourceFinding
  <2>3. Built([g EXCEPT !.count = n], rule, sev, subject, "", ip, {})
    BY <2>2 DEF Built, FieldNames
  <2>4. QED
    BY <1>2, <2>1, <2>2, <2>3, OtherShape, RuleFacts
<1>3. {"SSH-001", "SSH-002", "SSH-003", "SSH-004"} \subseteq OtherRules /\ {Info, Medium, High} \subseteq Info .. Critical
  BY Severities DEF OtherRules
<1>4. CASE \E e : f \in SuccessFindings(e, c)
  <2>1. PICK e : f = RootLogin(e) \/ f = PasswordLogin(e) \/ f = SuccessfulLogin(e)
    BY <1>4 DEF SuccessFindings, When
  <2>2. QED
    BY <1>2, <1>3, <2>1 DEF RootLogin, PasswordLogin, SuccessfulLogin
<1>5. CASE \E ip, n : f = BruteForce(ip, n)
  BY <1>2, <1>3, <1>5 DEF BruteForce
<1>6. CASE \E ip, n : f = BruteForceSuccess(ip, n)
  <2>1. PICK ip, n : f = BruteForceSuccess(ip, n)
    BY <1>6
  <2>2. PICK g : g = SourceFinding("SSH-007", "Ssh", High, <<ip>>, ip)
    OBVIOUS
  <2>3. Built(g, "SSH-007", High, <<ip>>, "", ip, {})
    BY <2>2, NewSourceFinding
  <2>4. Built(f, "SSH-007", High, <<ip>>, "", ip, {})
    BY <2>1, <2>2, <2>3 DEF BruteForceSuccess, Built, FieldNames
  <2>5. f.rule \notin ResourceRules \cup {"SSH-005"} /\ f.rule \notin UserRules /\ f.rule \notin ProcessRules
        /\ f.rule \notin CoveringRules /\ f.rule # "FILE-001"
    BY <2>4, RuleFacts DEF Built, CoveringRules
  <2>6. DOMAIN f = FieldNames /\ f.sev \in Info .. Critical /\ f.conf = ConfidenceFor(f.sev) /\ f.drift = 0 /\ f.unified = 0
        /\ f.score \in Nat
        /\ f.subject = <<f.source>>
    BY <1>3, <2>4 DEF Built
  <2>7. QED
    BY <2>5, <2>6 DEF Shape
<1>7. QED
  BY <1>1, <1>4, <1>5, <1>6

\* The rules about processes.
LEMMA ProcessFindingShape ==
    ASSUME NEW es, NEW c, NEW e \in es, NEW p, p = Enriched(e, es), NEW f \in ProcessRuleFindings(p, c)
    PROVE  Shape(f, es)
<1>1. ASSUME NEW rule \in ProcessRules, NEW sev, NEW score \in Nat, f = ProcessFinding(rule, sev, p, score), f \in ProcessReports(p),
             sev = IF rule \in CriticalProcessRules THEN Critical ELSE High
      PROVE  Shape(f, es)
  <2>1. PICK g, path : /\ g = F(rule, "Process", sev, ProcessSubject(p), ProcessEvidence(p))
                       /\ path = IF p.exe = "none" THEN "" ELSE p.exe
    OBVIOUS
  <2>2. Built(g, rule, sev, ProcessSubject(p), "", "", ProcessEvidence(p))
    BY <2>1, NewFinding
  <2>3. PICK h : h = [g EXCEPT !.path = path, !.process = p.name, !.pid = p.pid]
    OBVIOUS
  <2>4. Built(h, rule, sev, ProcessSubject(p), path, "", ProcessEvidence(p))
    BY <2>2, <2>3 DEF Built, FieldNames
  <2>5. Built(f, rule, sev, ProcessSubject(p), path, "", ProcessEvidence(p) \cup {"risk"})
    BY <1>1, <2>1, <2>3, <2>4, ScoredFinding DEF ProcessFinding
  <2>6. QED
    BY <1>1, <2>5, ProcessShape
<1>2. /\ "PROC-001" \in ProcessRules \ CriticalProcessRules /\ "PROC-002" \in ProcessRules \ CriticalProcessRules
      /\ "PROC-005" \in ProcessRules \ CriticalProcessRules /\ "PROC-003" \in ProcessRules \cap CriticalProcessRules
      /\ "PROC-004" \in ProcessRules \cap CriticalProcessRules /\ "PROC-006" \in ProcessRules \cap CriticalProcessRules
  BY DEF ProcessRules, CriticalProcessRules
<1>10. /\ DeletedScore(p) \in Nat /\ ExecutablePathScore(p) \in Nat /\ NetworkExecutionScore(CommandFeatures(p.cmd)) \in Nat
       /\ GpuScore(p) \in Nat /\ ClusterScore(p) \in Nat /\ (IF HighCpu(p) THEN 90 ELSE 70) \in Nat
  BY ProcessMaxScores, PathScores, CommandScores, ClusterScores
<1>3. CASE f \in DeletedExecutable(p, c)
  BY <1>1, <1>2, <1>10, <1>3 DEF DeletedExecutable, ProcessReports, When
<1>4. CASE f \in TempProcess(p, c)
  BY <1>1, <1>2, <1>4, <1>10 DEF TempProcess, ProcessReports, When
<1>5. CASE f \in NetworkExecutionBridge(p)
  BY <1>1, <1>2, <1>5, <1>10 DEF NetworkExecutionBridge, ProcessReports, When
<1>6. CASE f \in MinerOrScanner(p)
  <2>1. PICK score : score = IF HighCpu(p) THEN 90 ELSE 70
    OBVIOUS
  <2>2. score \in Nat
    BY <1>10, <2>1
  <2>3. f = ProcessFinding("PROC-004", Critical, p, score)
    BY <1>6, <2>1 DEF MinerOrScanner, When
  <2>4. f \in ProcessReports(p)
    BY <2>1, <2>3 DEF ProcessReports
  <2>5. QED
    BY <1>1, <1>2, <2>2, <2>3, <2>4
<1>7. CASE f \in GpuComputeProcess(p, c)
  BY <1>1, <1>2, <1>7, <1>10 DEF GpuComputeProcess, ProcessReports, When
<1>8. CASE f \in BehaviorCluster(p, c)
  BY <1>1, <1>2, <1>8, <1>10 DEF BehaviorCluster, ProcessReports, When
<1>9. QED
  BY <1>3, <1>4, <1>5, <1>6, <1>7, <1>8 DEF ProcessRuleFindings

\* The detector of listeners.
LEMMA ListenerShape ==
    ASSUME NEW es, NEW c, NEW e, NEW f \in ListenerFindings(e, es, c)
    PROVE  Shape(f, es)
<1>1. ASSUME NEW rule \in OtherRules, NEW cat, NEW sev \in Info .. Critical, NEW g, g = ListenerFinding(rule, cat, sev, e, es)
      PROVE  Built(g, rule, sev, <<"*", ToString(e.port)>>, "", "", SocketEvidence(e, es))
  <2>1. PICK h : h = F(rule, cat, sev, <<"*", ToString(e.port)>>, SocketEvidence(e, es))
    OBVIOUS
  <2>2. Built(h, rule, sev, <<"*", ToString(e.port)>>, "", "", SocketEvidence(e, es))
    BY <2>1, NewFinding
  <2>3. g = [h EXCEPT !.process = e.name]
    BY <1>1, <2>1 DEF ListenerFinding
  <2>4. QED
    BY <2>2, <2>3 DEF Built, FieldNames
<1>2. {"NET-001", "NET-002", "NET-003", "CONFIG-003"} \subseteq OtherRules /\ {Medium, High} \subseteq Info .. Critical
  BY Severities DEF OtherRules
<1>3. \A rule \in OtherRules : rule \notin NamedRules
  BY RuleFacts
<1>4. CASE f = OwnerChanged(e, es)
  BY <1>1, <1>2, <1>3, <1>4, OtherShape DEF OwnerChanged
<1>5. CASE f = RiskyPort(e, es)
  BY <1>1, <1>2, <1>3, <1>5, OtherShape DEF RiskyPort
<1>6. CASE f = PublicListen(e, es)
  <2>1. PICK g : g = ListenerFinding("NET-001", "Network", Medium, e, es)
    OBVIOUS
  <2>2. Built(g, "NET-001", Medium, <<"*", ToString(e.port)>>, "", "", SocketEvidence(e, es))
    BY <1>1, <1>2, <2>1
  <2>3. PICK ev : f = [g EXCEPT !.ev = ev]
    BY <1>6, <2>1, <2>2 DEF PublicListen, Built, FieldNames
  <2>4. Built(f, "NET-001", Medium, <<"*", ToString(e.port)>>, "", "", ev)
    BY <2>2, <2>3 DEF Built, FieldNames
  <2>5. QED
    BY <1>2, <1>3, <2>4, OtherShape
<1>7. CASE f = SuspiciousListener(e, es, ListenerScore(e, ListenerContext(e, es)))
  <2>1. PICK score, g : /\ g = ListenerFinding("NET-003", "Network", High, e, es) /\ f = Scored(g, score)
                        /\ score = ListenerScore(e, ListenerContext(e, es))
    BY <1>7 DEF SuspiciousListener
  <2>2. Built(g, "NET-003", High, <<"*", ToString(e.port)>>, "", "", SocketEvidence(e, es))
    BY <1>1, <1>2, <2>1
  <2>3. Built(f, "NET-003", High, <<"*", ToString(e.port)>>, "", "", SocketEvidence(e, es) \cup {"risk"})
    BY <2>1, <2>2, ListenerScores, ScoredFinding
  <2>4. QED
    BY <1>2, <1>3, <2>3, OtherShape
<1>8. QED
  BY <1>4, <1>5, <1>6, <1>7 DEF ListenerFindings, When

\* A probe is rated Low, Medium or High.
LEMMA RequestRating ==
    ASSUME NEW family, NEW response
    PROVE  ProbeSeverity(family, response) \in Info .. Critical
<1>1. {Low, Medium, High} \subseteq Info .. Critical
  BY Severities
<1>2. SuccessSeverity(family) \in {Low, Medium, High} /\ ProtectedSeverity(family) \in {Low, Medium, High}
      /\ BaseSeverity(family) \in {Low, Medium, High}
  BY DEF SuccessSeverity, ProtectedSeverity, BaseSeverity
<1>3. ProbeSeverity(family, response) \in {Low, Medium, High}
  BY <1>2 DEF ProbeSeverity
<1>4. QED
  BY <1>1, <1>3

\* The detector of web requests.
LEMMA WebShape ==
    ASSUME NEW es, NEW c, NEW f \in WebFindings(es, c)
    PROVE  Shape(f, es)
<1>1. \/ \E ip, probes : probes # {} /\ f = ProbeFinding(ip, probes)
      \/ \E ip, n : f = WebErrorBurst(ip, n)
  BY ZenonT(30) DEF WebFindings, SourceFindings
<1>2. "WEB-001" \notin NamedRules /\ "WEB-002" \notin NamedRules /\ Low \in Info .. Critical
  BY RuleFacts, Severities DEF OtherRules
<1>3. CASE \E ip, probes : probes # {} /\ f = ProbeFinding(ip, probes)
  <2>1. PICK ip, probes : probes # {} /\ f = ProbeFinding(ip, probes)
    BY <1>3
  <2>2. PICK ratings : ratings = {ProbeSeverity(Family(e), ResponseProfile(e.status)) : e \in probes}
    OBVIOUS
  <2>3. ratings \in SUBSET (Info .. Critical) /\ ratings # {}
    BY <2>1, <2>2, RequestRating
  <2>4. Max(ratings) \in Info .. Critical
    BY <2>3, MaxRating DEF Info, Critical
  <2>5. PICK g : g = SourceFinding("WEB-001", "Web", Max(ratings), <<ip>>, ip)
    OBVIOUS
  <2>6. Built(g, "WEB-001", Max(ratings), <<ip>>, "", ip, {})
    BY <2>5, NewSourceFinding
  <2>7. PICK n, probe, ev : f = [g EXCEPT !.count = n, !.probe = probe, !.ev = ev]
    BY <2>1, <2>2, <2>5, ZenonT(30) DEF ProbeFinding
  <2>8. Built(f, "WEB-001", Max(ratings), <<ip>>, "", ip, ev)
    BY <2>6, <2>7 DEF Built, FieldNames
  <2>9. QED
    BY <1>2, <2>4, <2>8, OtherShape
<1>4. CASE \E ip, n : f = WebErrorBurst(ip, n)
  <2>1. PICK ip, n : f = WebErrorBurst(ip, n)
    BY <1>4
  <2>2. PICK g : g = SourceFinding("WEB-002", "Web", Low, <<ip>>, ip)
    OBVIOUS
  <2>3. Built(g, "WEB-002", Low, <<ip>>, "", ip, {})
    BY <2>2, NewSourceFinding
  <2>4. Built(f, "WEB-002", Low, <<ip>>, "", ip, {})
    BY <2>1, <2>2, <2>3 DEF WebErrorBurst, Built, FieldNames
  <2>5. QED
    BY <1>2, <2>4, OtherShape
<1>5. QED
  BY <1>1, <1>3, <1>4

\* What the inputs say of a configuration.
ConfigOK(c) ==
    /\ c.threat_intel_bonus \in Nat /\ c.active_response_bonus \in Nat
    /\ c.rootkit_bonus \in Nat /\ c.state_drift_deduction \in Nat
    /\ \A r \in c.external_rules : r.severity \in Info .. Critical /\ "EXT-" \o r.id \notin NamedRules
    /\ \A m \in c.yara_matches : "YARA-" \o m[1] \notin NamedRules

\* The rules of the operator, whose ids never meet a built-in one.
LEMMA ExternalShape ==
    ASSUME NEW es, NEW c, ConfigOK(c), NEW f \in ExternalFindings(es, c) \cup YaraFindings(c)
    PROVE  Shape(f, es)
<1>1. CASE f \in ExternalFindings(es, c)
  <2>1. PICK r, e : r \in c.external_rules /\ f = RuleFinding(r, e)
    BY <1>1 DEF ExternalFindings, LoadedRules
  <2>2. PICK subject : f = F("EXT-" \o r.id, r.category, r.severity, subject, {})
    BY <2>1 DEF RuleFinding
  <2>3. Built(f, "EXT-" \o r.id, r.severity, subject, "", "", {})
    BY <2>2, NewFinding
  <2>4. QED
    BY <2>1, <2>3, OtherShape DEF ConfigOK
<1>2. CASE f \in YaraFindings(c)
  <2>1. PICK m \in c.yara_matches : f = PathFinding("YARA-" \o m[1], "FileIntegrity", High, m[2], {})
    BY <1>2 DEF YaraFindings
  <2>2. Built(f, "YARA-" \o m[1], High, <<m[2]>>, m[2], "", {})
    BY <2>1, NewPathFinding
  <2>3. High \in Info .. Critical
    BY Severities
  <2>4. QED
    BY <2>2, <2>3, OtherShape DEF ConfigOK
<1>3. QED
  BY <1>1, <1>2

\* What the detectors report has the shape the later stages rely on.
LEMMA DetectedShape ==
    ASSUME NEW es, NEW c, ConfigOK(c), NEW f \in Detectors(es, c)
    PROVE  Shape(f, es)
<1>1. CASE f \in HostFindings(es, c)
  <2>1. f \in SshFindings(es, c) \/ \E e \in es : f \in EventFindings(e, PackageActivity(es), c)
    BY <1>1 DEF HostFindings
  <2>2. QED
    BY <2>1, SshShape, EventShape
<1>2. CASE f \in ProcessFindings(es, c)
  <2>1. \E e \in es : f \in ProcessRuleFindings(Enriched(e, es), c)
    BY <1>2 DEF ProcessFindings
  <2>2. QED
    BY <2>1, ProcessFindingShape
<1>3. CASE f \in NetworkFindings(es, c)
  BY <1>3, ListenerShape DEF NetworkFindings
<1>4. QED
  BY <1>1, <1>2, <1>3, WebShape, ExternalShape DEF Detectors, BuiltinFindings

--------------------------------------------------------------------------------
(* coalesce_related_findings                                                  *)

\* A nonempty set of priorities has a least member.
LEMMA LeastOfSix ==
    ASSUME NEW S \in SUBSET (1 .. 6), S # {}
    PROVE  \E x \in S : \A y \in S : x <= y
<1>1. CASE 1 \in S
  BY <1>1
<1>2. CASE 1 \notin S /\ 2 \in S
  BY <1>2
<1>3. CASE 1 \notin S /\ 2 \notin S /\ 3 \in S
  BY <1>3
<1>4. CASE 1 \notin S /\ 2 \notin S /\ 3 \notin S /\ 4 \in S
  BY <1>4
<1>5. CASE 1 \notin S /\ 2 \notin S /\ 3 \notin S /\ 4 \notin S /\ 5 \in S
  BY <1>5
<1>6. CASE 1 \notin S /\ 2 \notin S /\ 3 \notin S /\ 4 \notin S /\ 5 \notin S
  <2>1. \A y \in S : y = 6
    BY <1>6
  <2>2. 6 \in S
    BY <2>1
  <2>3. QED
    BY <2>1, <2>2
<1>7. QED
  BY <1>1, <1>2, <1>3, <1>4, <1>5, <1>6

\* The primary finding of a group comes first in its list.
LEMMA PrimaryFirst ==
    ASSUME NEW list, DOMAIN list \subseteq 1 .. 6, NEW group, group # {},
           \A f \in group : \E i \in DOMAIN list : list[i] = f.rule
    PROVE  /\ Primary(list, group) \in group
           /\ \A f \in group : /\ Priority(list, f) \in DOMAIN list
                               /\ list[Priority(list, f)] = f.rule
                               /\ Priority(list, Primary(list, group)) <= Priority(list, f)
<1>1. \A f \in group : Priority(list, f) \in DOMAIN list /\ list[Priority(list, f)] = f.rule
  BY DEF Priority
<1>2. PICK S : S = {Priority(list, f) : f \in group}
  OBVIOUS
<1>3. S \in SUBSET (1 .. 6) /\ S # {}
  BY <1>1, <1>2
<1>4. PICK x \in S : \A y \in S : x <= y
  BY <1>3, LeastOfSix
<1>5. \E f \in group : \A o \in group : Priority(list, f) <= Priority(list, o)
  BY <1>2, <1>4
<1>6. /\ Primary(list, group) \in group
      /\ \A o \in group : Priority(list, Primary(list, group)) <= Priority(list, o)
  BY <1>5, Zenon DEF Primary
<1>7. QED
  BY <1>1, <1>6

\* The primary of an account group: uid 0 first, the identity file last.
LEMMA AccountPrimary ==
    ASSUME NEW group, group # {}, \A f \in group : f.rule \in UserRules \cup {"FILE-001"},
           NEW p, p = Primary(AccountPriority, group)
    PROVE  /\ p \in group
           /\ (\E o \in group : o.rule = "USER-002") => p.rule = "USER-002"
           /\ p.rule = "FILE-001" => \A o \in group : o.rule = "FILE-001"
<1>1. DOMAIN AccountPriority = 1 .. 4 /\ AccountPriority[1] = "USER-002" /\ AccountPriority[2] = "USER-003"
      /\ AccountPriority[3] = "USER-001" /\ AccountPriority[4] = "FILE-001"
  BY DEF AccountPriority
<1>2. \A f \in group : \E i \in DOMAIN AccountPriority : AccountPriority[i] = f.rule
  <2>1. SUFFICES ASSUME NEW f \in group PROVE \E i \in DOMAIN AccountPriority : AccountPriority[i] = f.rule
    OBVIOUS
  <2>2. f.rule = "USER-001" \/ f.rule = "USER-002" \/ f.rule = "USER-003" \/ f.rule = "FILE-001"
    BY DEF UserRules
  <2>3. 1 \in 1 .. 4 /\ 2 \in 1 .. 4 /\ 3 \in 1 .. 4 /\ 4 \in 1 .. 4
    OBVIOUS
  <2>4. QED
    BY <1>1, <2>2, <2>3, Zenon
<1>3. DOMAIN AccountPriority \subseteq 1 .. 6
  BY <1>1
<1>4. /\ p \in group
      /\ \A f \in group : /\ Priority(AccountPriority, f) \in 1 .. 4
                          /\ AccountPriority[Priority(AccountPriority, f)] = f.rule
                          /\ Priority(AccountPriority, p) <= Priority(AccountPriority, f)
  BY <1>1, <1>2, <1>3, PrimaryFirst
<1>5. ASSUME NEW o \in group, o.rule = "USER-002" PROVE p.rule = "USER-002"
  BY <1>1, <1>4, <1>5
<1>6. ASSUME NEW o \in group, p.rule = "FILE-001" PROVE o.rule = "FILE-001"
  BY <1>1, <1>4, <1>6
<1>7. QED
  BY <1>4, <1>5, <1>6

\* The primary of a resource group: a preload entry first.
LEMMA ResourcePrimary ==
    ASSUME NEW group, group # {}, \A f \in group : f.rule \in ResourceRules,
           NEW p, p = Primary(ResourcePriority, group)
    PROVE  p \in group /\ ((\E o \in group : o.rule = "PERSIST-003") => p.rule = "PERSIST-003")
<1>1. DOMAIN ResourcePriority = 1 .. 3 /\ ResourcePriority[1] = "PERSIST-003" /\ ResourcePriority[2] = "PERSIST-001"
      /\ ResourcePriority[3] = "FILE-001"
  BY DEF ResourcePriority
<1>2. \A f \in group : \E i \in DOMAIN ResourcePriority : ResourcePriority[i] = f.rule
  <2>1. SUFFICES ASSUME NEW f \in group PROVE \E i \in DOMAIN ResourcePriority : ResourcePriority[i] = f.rule
    OBVIOUS
  <2>2. f.rule = "PERSIST-001" \/ f.rule = "PERSIST-003" \/ f.rule = "FILE-001"
    BY DEF ResourceRules
  <2>3. 1 \in 1 .. 3 /\ 2 \in 1 .. 3 /\ 3 \in 1 .. 3
    OBVIOUS
  <2>4. QED
    BY <1>1, <2>2, <2>3, Zenon
<1>3. DOMAIN ResourcePriority \subseteq 1 .. 6
  BY <1>1
<1>4. /\ p \in group
      /\ \A f \in group : /\ Priority(ResourcePriority, f) \in 1 .. 3
                          /\ ResourcePriority[Priority(ResourcePriority, f)] = f.rule
                          /\ Priority(ResourcePriority, p) <= Priority(ResourcePriority, f)
  BY <1>1, <1>2, <1>3, PrimaryFirst
<1>5. ASSUME NEW o \in group, o.rule = "PERSIST-003" PROVE p.rule = "PERSIST-003"
  BY <1>1, <1>4, <1>5
<1>6. QED
  BY <1>4, <1>5

\* The critical rules come first.
LEMMA ProcessPrimary ==
    ASSUME NEW group, group # {}, \A f \in group : f.rule \in ProcessRules,
           NEW p, p = Primary(ProcessPriority, group)
    PROVE  p \in group /\ ((\E o \in group : o.rule \in CriticalProcessRules) => p.rule \in CriticalProcessRules)
<1>1. DOMAIN ProcessPriority = 1 .. 6 /\ ProcessPriority[1] = "PROC-003" /\ ProcessPriority[2] = "PROC-006"
      /\ ProcessPriority[3] = "PROC-004" /\ ProcessPriority[4] = "PROC-002" /\ ProcessPriority[5] = "PROC-005"
      /\ ProcessPriority[6] = "PROC-001"
  BY DEF ProcessPriority
<1>2. \A f \in group : \E i \in DOMAIN ProcessPriority : ProcessPriority[i] = f.rule
  <2>1. SUFFICES ASSUME NEW f \in group PROVE \E i \in DOMAIN ProcessPriority : ProcessPriority[i] = f.rule
    OBVIOUS
  <2>2. f.rule = "PROC-001" \/ f.rule = "PROC-002" \/ f.rule = "PROC-003" \/ f.rule = "PROC-004" \/ f.rule = "PROC-005"
        \/ f.rule = "PROC-006"
    BY DEF ProcessRules
  <2>3. 1 \in 1 .. 6 /\ 2 \in 1 .. 6 /\ 3 \in 1 .. 6 /\ 4 \in 1 .. 6 /\ 5 \in 1 .. 6 /\ 6 \in 1 .. 6
    OBVIOUS
  <2>4. QED
    BY <1>1, <2>2, <2>3, Zenon
<1>3. DOMAIN ProcessPriority \subseteq 1 .. 6
  BY <1>1
<1>4. /\ p \in group
      /\ \A f \in group : /\ Priority(ProcessPriority, f) \in 1 .. 6
                          /\ ProcessPriority[Priority(ProcessPriority, f)] = f.rule
                          /\ Priority(ProcessPriority, p) <= Priority(ProcessPriority, f)
  BY <1>1, <1>2, <1>3, PrimaryFirst
<1>5. ASSUME NEW o \in group, o.rule \in CriticalProcessRules PROVE p.rule \in CriticalProcessRules
  <2>1. Priority(ProcessPriority, o) \in 1 .. 3
    BY <1>1, <1>4, <1>5 DEF CriticalProcessRules
  <2>2. Priority(ProcessPriority, p) \in 1 .. 3
    BY <1>4, <2>1
  <2>3. QED
    BY <1>1, <1>4, <2>2 DEF CriticalProcessRules
<1>6. QED
  BY <1>4, <1>5

\* The image of a finite set is finite.
LEMMA FiniteRange ==
    ASSUME NEW S, IsFiniteSet(S), NEW h, NEW R, h \in [S -> R], \A y \in R : \E x \in S : y = h[x]
    PROVE  IsFiniteSet(R)
<1>1. h \in Surjection(S, R)
  BY DEF Surjection
<1>2. QED
  BY <1>1, FS_Surjection

\* One event gives at most seven drift findings.
LEMMA DriftFindingsFinite ==
    ASSUME NEW e, NEW pkg
    PROVE  IsFiniteSet(DriftFindings(e, pkg))
<1>1. \A a, b, c, d, r, s, t : IsFiniteSet({a, b, c, d, r, s, t})
  <2>1. SUFFICES ASSUME NEW a, NEW b, NEW c, NEW d, NEW r, NEW s, NEW t PROVE IsFiniteSet({a, b, c, d, r, s, t})
    OBVIOUS
  <2>2. IsFiniteSet({a}) /\ IsFiniteSet({b}) /\ IsFiniteSet({c}) /\ IsFiniteSet({d}) /\ IsFiniteSet({r}) /\ IsFiniteSet({s})
        /\ IsFiniteSet({t})
    BY FS_Singleton
  <2>3. IsFiniteSet({a} \cup {b}) /\ IsFiniteSet({c} \cup {d}) /\ IsFiniteSet({r} \cup {s})
    BY <2>2, FS_Union
  <2>4. IsFiniteSet(({a} \cup {b}) \cup ({c} \cup {d})) /\ IsFiniteSet(({r} \cup {s}) \cup {t})
    BY <2>2, <2>3, FS_Union
  <2>5. IsFiniteSet((({a} \cup {b}) \cup ({c} \cup {d})) \cup (({r} \cup {s}) \cup {t}))
    BY <2>4, FS_Union
  <2>6. {a, b, c, d, r, s, t} = (({a} \cup {b}) \cup ({c} \cup {d})) \cup (({r} \cup {s}) \cup {t})
    OBVIOUS
  <2>7. QED
    BY <2>5, <2>6
<1>2. QED
  BY <1>1 DEF DriftFindings

\* A scan has finitely many findings about drift.
LEMMA DriftGroupFinite ==
    ASSUME NEW es, IsFiniteSet(es), NEW group, \A f \in group : Shape(f, es) /\ f.rule \in CoveringRules
    PROVE  IsFiniteSet(group)
<1>1. PICK h : h = [e \in es |-> DriftFindings(e, PackageActivity(es))]
  OBVIOUS
<1>2. PICK T : T = {h[e] : e \in es}
  OBVIOUS
<1>3. IsFiniteSet(T)
  <2>1. h \in [es -> T] /\ \A y \in T : \E x \in es : y = h[x]
    BY <1>1, <1>2
  <2>2. QED
    BY <1>2, <2>1, FiniteRange
<1>4. \A X \in T : IsFiniteSet(X)
  BY <1>1, <1>2, DriftFindingsFinite
<1>5. IsFiniteSet(UNION T)
  BY <1>3, <1>4, FS_UNION
<1>6. group \in SUBSET UNION T
  <2>1. SUFFICES ASSUME NEW f \in group PROVE f \in UNION T
    OBVIOUS
  <2>2. PICK e \in es : f \in DriftFindings(e, PackageActivity(es))
    BY DEF Shape
  <2>3. f \in h[e] /\ h[e] \in T
    BY <1>1, <1>2, <2>2
  <2>4. QED
    BY <2>3
<1>7. QED
  BY <1>5, <1>6, FS_Subset

\* The users a group of account findings is about.
LEMMA UsersFinite ==
    ASSUME NEW es, IsFiniteSet(es), NEW group, \A f \in group : Shape(f, es)
    PROVE  IsFiniteSet(UNION {ToSet(f.subject) : f \in {g \in group : g.rule \in UserRules}})
<1>1. PICK h : h = [e \in es |-> e.user]
  OBVIOUS
<1>2. PICK T : T = {h[e] : e \in es}
  OBVIOUS
<1>3. IsFiniteSet(T)
  <2>1. h \in [es -> T] /\ \A y \in T : \E x \in es : y = h[x]
    BY <1>1, <1>2
  <2>2. QED
    BY <1>2, <2>1, FiniteRange
<1>4. ASSUME NEW f \in group, f.rule \in UserRules, NEW u \in ToSet(f.subject) PROVE u \in T
  <2>1. PICK e \in es : f.subject = <<e.user>>
    BY <1>4 DEF Shape
  <2>2. u = e.user
    BY <1>4, <2>1 DEF ToSet
  <2>3. QED
    BY <1>1, <1>2, <2>2
<1>5. UNION {ToSet(f.subject) : f \in {g \in group : g.rule \in UserRules}} \in SUBSET T
  BY <1>4
<1>6. QED
  BY <1>3, <1>5, FS_Subset

\* A subject of one name.
LEMMA ToSetOne ==
    ASSUME NEW u
    PROVE  ToSet(<<u>>) = {u}
  BY DEF ToSet

\* merge_account_findings.
LEMMA MergedAccount ==
    ASSUME NEW es, IsFiniteSet(es), NEW group, group # {}, \A f \in group : Shape(f, es) /\ AccountDrift(f),
           NEW g, g = MergeAccount(group)
    PROVE  /\ DOMAIN g = FieldNames /\ g.sev \in Info .. Critical /\ Sourceless(g)
           /\ g.rule \in UserRules \cup {"FILE-001"}
           /\ \A f \in group : g.sev >= f.sev
           /\ g.rule = "FILE-001" =>
                 \/ g.subject = <<g.path>> /\ g.path \in AccountFiles
                 \/ g.subject = <<"identity database">>
           /\ \A f \in group : f.rule = "FILE-001" => g = f \/ "identity_files" \in g.ev
           /\ \A f \in group : f.rule = "USER-002" =>
                 g.rule = "USER-002" /\ ToSet(f.subject) \subseteq ToSet(g.subject)
<1>1. PICK p : p = Primary(AccountPriority, group)
  OBVIOUS
<1>2. \A f \in group : f.rule \in UserRules \cup {"FILE-001"} /\ f.rule \in CoveringRules
  BY RuleFacts DEF AccountDrift, CoveringRules
<1>3. /\ p \in group
      /\ (\E o \in group : o.rule = "USER-002") => p.rule = "USER-002"
      /\ p.rule = "FILE-001" => \A o \in group : o.rule = "FILE-001"
  BY <1>1, <1>2, AccountPrimary
<1>4. IsFiniteSet(group)
  BY <1>2, DriftGroupFinite
<1>5. /\ DOMAIN p = FieldNames /\ p.sev \in Info .. Critical /\ Sourceless(p) /\ p.rule \in UserRules \cup {"FILE-001"}
      /\ p.rule = "FILE-001" => p.subject = <<p.path>> /\ p.path \in AccountFiles
  <2>1. Shape(p, es) /\ AccountDrift(p)
    BY <1>3
  <2>2. p.rule = "FILE-001" => p.rule \notin UserRules /\ p.rule \in ResourceRules
    BY RuleFacts
  <2>3. QED
    BY <1>2, <1>3, <2>1, <2>2 DEF Shape, AccountDrift
<1>6. CASE Cardinality(group) = 1
  <2>1. g = p
    BY <1>1, <1>6 DEF MergeAccount
  <2>2. group = {p}
    BY <1>3, <1>4, <1>6, FS_Singleton
  <2>3. \A f \in group : f = g
    BY <2>1, <2>2
  <2>4. g.sev >= g.sev
    <3>1. g.sev \in Info .. Critical
      BY <1>5, <2>1
    <3>2. QED
      BY <3>1 DEF Info, Critical
  <2>5. QED
    BY <1>3, <1>5, <2>1, <2>3, <2>4, Zenon
<1>7. CASE Cardinality(group) # 1
  <2>1. PICK ratings : ratings = {f.sev : f \in group}
    OBVIOUS
  <2>2. ratings \in SUBSET (1 .. 5) /\ ratings # {}
    BY <2>1 DEF Shape, Info, Critical
  <2>3. Max(ratings) \in ratings /\ \A y \in ratings : Max(ratings) >= y
    BY <2>2, MaxRating
  <2>4. PICK users : users = UNION {ToSet(f.subject) : f \in {o \in group : o.rule \in UserRules}}
    OBVIOUS
  <2>5. IsFiniteSet(users)
    BY <2>4, UsersFinite
  <2>6. PICK certainty, subject, ev : /\ certainty = Max({f.conf : f \in group}) /\ subject = AccountSubject(group)
                                  /\ ev = AccountEvidence(p, group)
    OBVIOUS
  <2>7. g = [p EXCEPT !.sev = Max(ratings), !.conf = certainty, !.subject = subject, !.path = "", !.ev = ev]
    BY <1>1, <1>7, <2>1, <2>6, Zenon DEF MergeAccount
  <2>8. /\ DOMAIN g = FieldNames /\ g.sev = Max(ratings) /\ g.subject = subject /\ g.path = "" /\ g.ev = ev
        /\ g.rule = p.rule /\ g.source = p.source
    BY <1>5, <2>7 DEF FieldNames
  <2>9. g.sev \in Info .. Critical /\ \A f \in group : g.sev >= f.sev
    BY <2>1, <2>2, <2>3, <2>8 DEF Info, Critical
  <2>10. g.rule = "FILE-001" => g.subject = <<"identity database">>
    <3>1. SUFFICES ASSUME g.rule = "FILE-001" PROVE g.subject = <<"identity database">>
      OBVIOUS
    <3>2. \A o \in group : o.rule \notin UserRules
      BY <1>3, <2>8, <3>1, RuleFacts
    <3>3. users = {}
      BY <2>4, <3>2
    <3>4. QED
      BY <2>4, <2>6, <2>8, <3>3 DEF AccountSubject
  <2>11. ASSUME NEW f \in group, f.rule = "FILE-001" PROVE "identity_files" \in g.ev
    <3>1. f.path \in AccountFiles
      BY <2>11, RuleFacts DEF AccountDrift
    <3>2. "identity_files" \in AccountEvidence(p, group)
      BY <3>1 DEF AccountEvidence, When
    <3>3. QED
      BY <2>6, <2>8, <3>2
  <2>12. ASSUME NEW f \in group, f.rule = "USER-002"
         PROVE  g.rule = "USER-002" /\ ToSet(f.subject) \subseteq ToSet(g.subject)
    <3>1. f.rule \in UserRules
      BY <2>12 DEF UserRules
    <3>2. ToSet(f.subject) \subseteq users
      BY <2>4, <3>1
    <3>3. PICK e : f.subject = <<e.user>>
      BY <3>1 DEF Shape
    <3>4. users # {}
      BY <3>2, <3>3, ToSetOne
    <3>5. subject = SetToSeq(users)
      BY <2>4, <2>6, <3>4 DEF AccountSubject
    <3>6. ToSet(subject) = users
      BY <2>5, <3>5, SetToSeqRange
    <3>7. QED
      BY <1>3, <2>8, <2>12, <3>2, <3>6
  <2>13. Sourceless(g)
    BY <1>5, <2>8, Zenon DEF Sourceless
  <2>14. QED
    BY <1>5, <2>8, <2>9, <2>10, <2>11, <2>12, <2>13
<1>8. QED
  BY <1>6, <1>7

\* Findings about one resource.
AboutResource(group, path, es) ==
    /\ group # {}
    /\ \A f \in group : Shape(f, es) /\ f.rule \in ResourceRules /\ f.path = path /\ ~AccountDrift(f)

\* merge_resource_findings.
LEMMA MergedResource ==
    ASSUME NEW es, IsFiniteSet(es), NEW path, NEW group, AboutResource(group, path, es),
           NEW g, g = MergeResource(group)
    PROVE  /\ DOMAIN g = FieldNames /\ g.sev = High /\ Sourceless(g) /\ g.rule \in ResourceRules
           /\ g.path = path /\ g.subject = <<path>> /\ "identity_files" \notin g.ev
           /\ g.rule = "FILE-001" => path \in CriticalPaths \ AccountFiles
           /\ \A f \in group : f.rule = "PERSIST-003" => g.rule = "PERSIST-003"
           /\ \A f \in group : "sensitive_path" \in f.ev => "sensitive_path" \in g.ev
<1>1. PICK p : p = Primary(ResourcePriority, group)
  OBVIOUS
<1>2. p \in group /\ ((\E o \in group : o.rule = "PERSIST-003") => p.rule = "PERSIST-003")
  BY <1>1, ResourcePrimary DEF AboutResource
<1>3. IsFiniteSet(group)
  BY DriftGroupFinite DEF AboutResource, CoveringRules
<1>4. /\ DOMAIN p = FieldNames /\ p.sev = High /\ Sourceless(p) /\ p.rule \in ResourceRules
      /\ p.path = path /\ p.subject = <<path>> /\ "identity_files" \notin p.ev
      /\ p.rule = "FILE-001" => path \in CriticalPaths \ AccountFiles
  <2>1. Shape(p, es) /\ p.rule \in ResourceRules /\ p.path = path /\ ~AccountDrift(p)
    BY <1>2 DEF AboutResource
  <2>2. p.rule \in CoveringRules
    BY <2>1 DEF CoveringRules
  <2>3. QED
    BY <2>1, <2>2 DEF Shape, AccountDrift
<1>5. CASE Cardinality(group) = 1
  <2>1. g = p
    BY <1>1, <1>5 DEF MergeResource
  <2>2. \A f \in group : f = g
    BY <1>2, <1>3, <1>5, <2>1, FS_Singleton
  <2>3. QED
    BY <1>4, <2>1, <2>2
<1>6. CASE Cardinality(group) # 1
  <2>1. PICK ev : ev = ResourceEvidence(p, group)
    OBVIOUS
  <2>2. g = [p EXCEPT !.ev = ev]
    BY <1>1, <1>6, <2>1 DEF MergeResource
  <2>3. /\ DOMAIN g = FieldNames /\ g.ev = ev /\ g.sev = p.sev /\ g.source = p.source /\ g.rule = p.rule
        /\ g.path = p.path /\ g.subject = p.subject
    BY <1>4, <2>2 DEF FieldNames
  <2>4. "identity_files" \notin ev
    BY <2>1 DEF ResourceEvidence
  <2>5. ASSUME NEW f \in group, "sensitive_path" \in f.ev PROVE "sensitive_path" \in ev
    BY <2>1, <2>5 DEF ResourceEvidence, Evidences
  <2>6. Sourceless(g)
    BY <1>4, <2>3, Zenon DEF Sourceless
  <2>7. QED
    BY <1>2, <1>4, <2>3, <2>4, <2>5, <2>6
<1>7. QED
  BY <1>5, <1>6

\* Findings about one process.
AboutProcess(group, pid, es) ==
    /\ group # {}
    /\ \A f \in group : Shape(f, es) /\ f.rule \in ProcessRules /\ f.pid = pid

\* merge_process_findings: the critical rules come first, so the rating of the
\* primary finding is the highest of its group.
LEMMA MergedProcess ==
    ASSUME NEW es, NEW pid, NEW group, AboutProcess(group, pid, es),
           NEW g, g = MergeProcess(group)
    PROVE  /\ DOMAIN g = FieldNames /\ g.sev \in Info .. Critical /\ g.rule \in ProcessRules /\ g.pid = pid
           /\ \A f \in group : g.sev >= f.sev
<1>1. PICK p : p = Primary(ProcessPriority, group)
  OBVIOUS
<1>2. p \in group /\ ((\E o \in group : o.rule \in CriticalProcessRules) => p.rule \in CriticalProcessRules)
  BY <1>1, ProcessPrimary DEF AboutProcess
<1>3. /\ DOMAIN p = FieldNames /\ p.sev \in Info .. Critical /\ p.rule \in ProcessRules /\ p.pid = pid
      /\ p.sev = IF p.rule \in CriticalProcessRules THEN Critical ELSE High
  BY <1>2 DEF AboutProcess, Shape
<1>4. \A f \in group : p.sev >= f.sev
  <2>1. SUFFICES ASSUME NEW f \in group PROVE p.sev >= f.sev
    OBVIOUS
  <2>2. f.sev = IF f.rule \in CriticalProcessRules THEN Critical ELSE High
    BY DEF AboutProcess, Shape
  <2>3. QED
    BY <1>2, <1>3, <2>2 DEF High, Critical
<1>5. CASE Cardinality(group) = 1
  <2>1. g = p
    BY <1>1, <1>5 DEF MergeProcess
  <2>2. QED
    BY <1>3, <1>4, <2>1
<1>6. CASE Cardinality(group) # 1
  <2>1. PICK score, ev : score = Max({f.score : f \in group}) /\ ev = MergedProcessEvidence(group)
    OBVIOUS
  <2>2. g = [p EXCEPT !.score = score, !.ev = ev]
    BY <1>1, <1>6, <2>1, Zenon DEF MergeProcess
  <2>3. DOMAIN g = FieldNames /\ g.sev = p.sev /\ g.rule = p.rule /\ g.pid = p.pid
    BY <1>3, <2>2 DEF FieldNames
  <2>4. QED
    BY <1>3, <1>4, <2>3
<1>7. QED
  BY <1>5, <1>6

\* What coalesce_related_findings merges: account drift, the findings about one
\* resource, the findings about one process.
AccountGroup(fs) == {f \in fs : AccountDrift(f)}
ResourceGroup(fs, path) == {f \in fs : f.rule \in ResourceRules /\ f.path = path /\ ~AccountDrift(f)}
ProcessGroup(fs, pid) == {f \in fs : f.rule \in ProcessRules /\ f.pid = pid}

\* Where a finding comes from that coalesce_related_findings hands on.
LEMMA CoalesceOrigin ==
    ASSUME NEW fs, NEW g \in Coalesce(fs)
    PROVE  \/ g \in fs /\ ~AccountDrift(g) /\ g.rule \notin ResourceRules \cup ProcessRules
           \/ AccountGroup(fs) # {} /\ g = MergeAccount(AccountGroup(fs))
           \/ \E path : ResourceGroup(fs, path) # {} /\ g = MergeResource(ResourceGroup(fs, path))
           \/ \E pid : ProcessGroup(fs, pid) # {} /\ g = MergeProcess(ProcessGroup(fs, pid))
<1> DEFINE account == {f \in fs : AccountDrift(f)}
           resource == {f \in fs \ account : f.rule \in ResourceRules}
           process == {f \in fs : f.rule \in ProcessRules}
<1>1. \/ g \in fs \ (account \cup resource \cup process)
      \/ account # {} /\ g = MergeAccount(account)
      \/ \E p \in {f.path : f \in resource} : g = MergeResource({f \in resource : f.path = p})
      \/ \E p \in {f.pid : f \in process} : g = MergeProcess({f \in process : f.pid = p})
  BY DEF Coalesce, When
<1>2. account = AccountGroup(fs)
  BY DEF AccountGroup
<1>3. \A p : {f \in resource : f.path = p} = ResourceGroup(fs, p)
  BY DEF ResourceGroup
<1>4. \A p : {f \in process : f.pid = p} = ProcessGroup(fs, p)
  BY DEF ProcessGroup
<1>5. CASE g \in fs \ (account \cup resource \cup process)
  BY <1>5
<1>6. CASE \E p \in {f.path : f \in resource} : g = MergeResource({f \in resource : f.path = p})
  <2>1. PICK h \in resource : g = MergeResource({f \in resource : f.path = h.path})
    BY <1>6
  <2>2. h \in ResourceGroup(fs, h.path)
    BY DEF ResourceGroup
  <2>3. QED
    BY <1>3, <2>1, <2>2
<1>7. CASE \E p \in {f.pid : f \in process} : g = MergeProcess({f \in process : f.pid = p})
  <2>1. PICK h \in process : g = MergeProcess({f \in process : f.pid = h.pid})
    BY <1>7
  <2>2. h \in ProcessGroup(fs, h.pid)
    BY DEF ProcessGroup
  <2>3. QED
    BY <1>4, <2>1, <2>2
<1>8. QED
  BY <1>1, <1>2, <1>5, <1>6, <1>7

\* And where a finding goes.
LEMMA CoalesceResult ==
    ASSUME NEW fs, NEW f \in fs
    PROVE  \/ f \in Coalesce(fs) /\ ~AccountDrift(f) /\ f.rule \notin ResourceRules \cup ProcessRules
           \/ f \in AccountGroup(fs) /\ MergeAccount(AccountGroup(fs)) \in Coalesce(fs)
           \/ f \in ResourceGroup(fs, f.path) /\ MergeResource(ResourceGroup(fs, f.path)) \in Coalesce(fs)
           \/ f \in ProcessGroup(fs, f.pid) /\ MergeProcess(ProcessGroup(fs, f.pid)) \in Coalesce(fs)
<1> DEFINE account == {o \in fs : AccountDrift(o)}
           resource == {o \in fs \ account : o.rule \in ResourceRules}
           process == {o \in fs : o.rule \in ProcessRules}
<1>1. account = AccountGroup(fs)
  BY DEF AccountGroup
<1>2. {o \in resource : o.path = f.path} = ResourceGroup(fs, f.path)
  BY DEF ResourceGroup
<1>3. {o \in process : o.pid = f.pid} = ProcessGroup(fs, f.pid)
  BY DEF ProcessGroup
<1>4. CASE f \in account
  <2>1. MergeAccount(account) \in Coalesce(fs)
    BY <1>4 DEF Coalesce, When
  <2>2. QED
    BY <1>1, <1>4, <2>1
<1>5. CASE f \in resource
  <2>1. MergeResource({o \in resource : o.path = f.path}) \in Coalesce(fs)
    BY <1>5 DEF Coalesce
  <2>2. f \in ResourceGroup(fs, f.path)
    BY <1>2, <1>5
  <2>3. QED
    BY <1>2, <2>1, <2>2
<1>6. CASE f \in process
  <2>1. MergeProcess({o \in process : o.pid = f.pid}) \in Coalesce(fs)
    BY <1>6 DEF Coalesce
  <2>2. f \in ProcessGroup(fs, f.pid)
    BY <1>3, <1>6
  <2>3. QED
    BY <1>3, <2>1, <2>2
<1>7. CASE f \notin account \cup resource \cup process
  <2>1. f \in Coalesce(fs)
    BY <1>7 DEF Coalesce
  <2>2. QED
    BY <1>7, <2>1
<1>8. QED
  BY <1>4, <1>5, <1>6, <1>7

--------------------------------------------------------------------------------
(* Sensitive changes, stage by stage                                          *)

\* What the code relies on in an event.
EventOK(e) ==
    /\ e.kind \in FileDiffKinds \cup {"persistence_created", "persistence_modified"} => "user" \notin DOMAIN e
    /\ e.kind \in {"user_created", "user_uid_changed_to_zero"} => "user" \in DOMAIN e

\* A finding that tells the operator of the change e.
Reports(f, e) == f.rule \in CoveringRules /\ f.sev >= High /\ Covers(f, e)

\* What every stage keeps of the findings.
Regular(fs) ==
    \A f \in fs : DOMAIN f = FieldNames /\ f.sev \in Info .. Critical /\ (f.rule \in CoveringRules => Sourceless(f))

\* Findings about drift with the same key cover the same changes.
Twins(fs) ==
    \A f, g \in fs : f.rule = g.rule /\ f.rule \in CoveringRules /\ f.subject = g.subject =>
        f.path = g.path /\ ("identity_files" \in f.ev <=> "identity_files" \in g.ev)

\* The detectors report every sensitive change, at High or above.
LEMMA SensitiveDetected ==
    ASSUME NEW es, NEW c, NEW e \in es, EventOK(e), SensitiveChange(e, c),
           NEW fs, fs = Detectors(RetainIncremental(es, c), c)
    PROVE  \E f \in fs :
              \/ /\ "user" \notin DOMAIN e /\ f.path = e.path
                 /\ \/ f.rule = "SSH-005"
                    \/ f.rule = "FILE-001" /\ "sensitive_path" \in f.ev
                    \/ f.rule = "PERSIST-003"
              \/ "user" \in DOMAIN e /\ f.rule = "USER-002" /\ f.subject = <<e.user>> /\ f.sev = Critical
<1>1. PICK R : R = RetainIncremental(es, c)
  OBVIOUS
<1>2. PICK pkg : pkg = PackageActivity(R)
  OBVIOUS
<1>3. ASSUME e.kind # "file_snapshot" PROVE \A f \in EventFindings(e, pkg, c) : f \in fs
  <2>1. e \in R
    BY <1>1, <1>3 DEF RetainIncremental
  <2>2. QED
    BY <1>1, <1>2, <2>1 DEF Detectors, BuiltinFindings, HostFindings
<1>4. CASE e.kind \in FileDiffKinds /\ e.path \in SecuritySensitivePaths \ c.file_allowlist
  <2>1. e.kind # "file_snapshot" /\ "user" \notin DOMAIN e
    BY <1>4 DEF FileDiffKinds, EventOK
  <2>2. e.path # ""
    BY <1>4 DEF SecuritySensitivePaths, AuthorizedKeysPaths, AccountFiles
  <2>3. EventFindings(e, pkg, c) = FileDiffFindings(e, pkg)
    BY <1>4, <2>2 DEF EventFindings, FileFindings, FileDiffKinds
  <2>4. CASE e.path \in AuthorizedKeysPaths
    <3>1. PICK f : f = AuthorizedKeysChanged(e)
      OBVIOUS
    <3>2. Built(f, "SSH-005", High, <<e.path>>, e.path, "", DiffEvidence(e))
      BY <3>1, NewPathFinding DEF AuthorizedKeysChanged
    <3>3. f \in EventFindings(e, pkg, c)
      <4>1. e.path \notin CriticalPaths /\ e.path \notin WebScriptPaths
        BY <2>4 DEF AuthorizedKeysPaths, CriticalPaths, AccountFiles, WebScriptPaths
      <4>2. QED
        BY <2>3, <2>4, <3>1, <4>1 DEF FileDiffFindings
    <3>4. QED
      BY <1>3, <2>1, <3>2, <3>3 DEF Built
  <2>5. CASE e.path \in AccountFiles \cup {"/etc/sudoers"}
    <3>1. PICK f : f = CriticalFileChanged(e, pkg)
      OBVIOUS
    <3>2. Built(f, "FILE-001", High, <<e.path>>, e.path, "", DiffEvidence(e) \cup PackageEvidence(pkg))
      BY <3>1, NewPathFinding DEF CriticalFileChanged
    <3>3. f \in EventFindings(e, pkg, c)
      <4>1. e.path \notin AuthorizedKeysPaths /\ e.path \notin WebScriptPaths /\ e.path \in CriticalPaths
        BY <2>5 DEF AuthorizedKeysPaths, CriticalPaths, AccountFiles, WebScriptPaths
      <4>2. QED
        BY <2>3, <3>1, <4>1 DEF FileDiffFindings
    <3>4. "sensitive_path" \in DiffEvidence(e) \cup PackageEvidence(pkg)
      BY <1>4 DEF DiffEvidence, When
    <3>5. QED
      BY <1>3, <2>1, <3>2, <3>3, <3>4 DEF Built
  <2>6. QED
    BY <1>4, <2>4, <2>5 DEF SecuritySensitivePaths
<1>5. CASE /\ e.kind \in {"persistence_created", "persistence_modified"} /\ "ld_preload" \in e.tags
           /\ e.path \notin c.file_allowlist
  <2>1. e.kind # "file_snapshot" /\ "user" \notin DOMAIN e
    BY <1>5 DEF EventOK
  <2>2. PICK f : f = LdPreloadChanged(e, pkg)
    OBVIOUS
  <2>3. Built(f, "PERSIST-003", High, <<e.path>>, e.path, "", PersistenceEvidence(e, pkg))
    BY <2>2, NewPathFinding DEF LdPreloadChanged
  <2>4. f \in EventFindings(e, pkg, c)
    BY <1>5, <2>2 DEF EventFindings, PersistenceFindings, FileDiffKinds
  <2>5. QED
    BY <1>3, <2>1, <2>3, <2>4 DEF Built
<1>6. CASE /\ e.kind = "user_uid_changed_to_zero" \/ (e.kind = "user_created" /\ e.uid = 0)
           /\ e.user \notin c.allowed_users \cup {"root", ""}
  <2>1. e.kind # "file_snapshot" /\ "user" \in DOMAIN e
    BY <1>6 DEF EventOK
  <2>2. PICK f : f = UidZeroUser(e)
    OBVIOUS
  <2>3. Built(f, "USER-002", Critical, <<e.user>>, "", "", UserEvidence(e))
    BY <2>2, NewFinding DEF UidZeroUser
  <2>4. f \in EventFindings(e, pkg, c)
    BY <1>6, <2>2 DEF EventFindings, UserFindings, FileDiffKinds
  <2>5. QED
    BY <1>3, <2>1, <2>3, <2>4 DEF Built
<1>7. QED
  BY <1>4, <1>5, <1>6 DEF SensitiveChange

\* Merging keeps a change covered by a finding that drift rating protects.
LEMMA SensitiveMerged ==
    ASSUME NEW es, NEW R, IsFiniteSet(R), NEW c, NEW e \in es, EventOK(e), SensitiveChange(e, c),
           R = RetainIncremental(es, c), NEW fs, fs = Detectors(R, c), \A f \in fs : Shape(f, R)
    PROVE  \E g \in Coalesce(fs) : Reports(g, e) /\ Protected(g)
<1>1. PICK f \in fs :
         \/ /\ "user" \notin DOMAIN e /\ f.path = e.path
            /\ \/ f.rule = "SSH-005"
               \/ f.rule = "FILE-001" /\ "sensitive_path" \in f.ev
               \/ f.rule = "PERSIST-003"
         \/ "user" \in DOMAIN e /\ f.rule = "USER-002" /\ f.subject = <<e.user>> /\ f.sev = Critical
  BY SensitiveDetected
<1>2. {"SSH-005", "FILE-001", "PERSIST-003", "USER-002"} \subseteq CoveringRules
  BY DEF CoveringRules, ResourceRules, UserRules
<1>3. High >= High /\ Critical >= High
  BY DEF High, Critical
<1>4. PICK g : g = MergeAccount(AccountGroup(fs))
  OBVIOUS
<1>5. PICK h : h = MergeResource(ResourceGroup(fs, f.path))
  OBVIOUS
<1>6. ASSUME AccountGroup(fs) # {}
      PROVE  /\ g.sev \in Info .. Critical /\ g.rule \in CoveringRules
             /\ \A o \in AccountGroup(fs) : g.sev >= o.sev
             /\ \A o \in AccountGroup(fs) : o.rule = "FILE-001" => g = o \/ "identity_files" \in g.ev
             /\ \A o \in AccountGroup(fs) : o.rule = "USER-002" =>
                   g.rule = "USER-002" /\ ToSet(o.subject) \subseteq ToSet(g.subject)
  <2>1. \A o \in AccountGroup(fs) : Shape(o, R) /\ AccountDrift(o)
    BY DEF AccountGroup
  <2>2. UserRules \cup {"FILE-001"} \subseteq CoveringRules
    BY <1>2 DEF CoveringRules
  <2>3. QED
    BY <1>4, <1>6, <2>1, <2>2, MergedAccount
<1>7. ASSUME ResourceGroup(fs, f.path) # {}
      PROVE  /\ h.sev = High /\ h.path = f.path /\ h.rule \in CoveringRules
             /\ \A o \in ResourceGroup(fs, f.path) : o.rule = "PERSIST-003" => h.rule = "PERSIST-003"
             /\ \A o \in ResourceGroup(fs, f.path) : "sensitive_path" \in o.ev => "sensitive_path" \in h.ev
  <2>1. \A o \in ResourceGroup(fs, f.path) : Shape(o, R) /\ o.rule \in ResourceRules /\ o.path = f.path /\ ~AccountDrift(o)
    BY DEF ResourceGroup
  <2>2. ResourceRules \subseteq CoveringRules
    BY DEF CoveringRules
  <2>3. AboutResource(ResourceGroup(fs, f.path), f.path, R)
    BY <1>7, <2>1 DEF AboutResource
  <2>4. QED
    BY <1>5, <2>2, <2>3, MergedResource
<1>8. f.rule \in ResourceRules \cup {"SSH-005"} => f.sev = High
  BY DEF Shape
<1>9. CASE f.rule = "SSH-005"
  <2>1. ~AccountDrift(f) /\ f.rule \notin ResourceRules /\ f.rule \notin ProcessRules
    BY <1>9, RuleFacts DEF AccountDrift
  <2>2. f \in Coalesce(fs)
    BY <2>1, CoalesceResult DEF AccountGroup, ResourceGroup, ProcessGroup
  <2>3. "user" \notin DOMAIN e /\ f.path = e.path
    BY <1>1, <1>9
  <2>4. Reports(f, e) /\ Protected(f)
    BY <1>2, <1>3, <1>8, <1>9, <2>3 DEF Reports, Covers, Protected
  <2>5. QED
    BY <2>2, <2>4
<1>10. CASE f.rule = "USER-002"
  <2>1. AccountDrift(f) /\ f.rule \notin ResourceRules /\ f.rule \notin ProcessRules
    BY <1>10, RuleFacts DEF AccountDrift, UserRules
  <2>2. f \in AccountGroup(fs) /\ g \in Coalesce(fs)
    BY <1>4, <2>1, CoalesceResult DEF AccountGroup, ResourceGroup, ProcessGroup
  <2>3. "user" \in DOMAIN e /\ f.subject = <<e.user>> /\ f.sev = Critical
    BY <1>1, <1>10
  <2>4. g.rule = "USER-002" /\ e.user \in ToSet(g.subject)
    BY <1>6, <1>10, <2>2, <2>3, ToSetOne
  <2>5. g.sev >= High
    <3>1. g.sev \in Info .. Critical /\ g.sev >= Critical
      BY <1>6, <2>2, <2>3
    <3>2. QED
      BY <3>1 DEF Info, High, Critical
  <2>6. Reports(g, e) /\ Protected(g)
    BY <1>2, <2>3, <2>4, <2>5 DEF Reports, Covers, Protected
  <2>7. QED
    BY <2>2, <2>6
<1>11. CASE f.rule = "FILE-001" /\ AccountDrift(f)
  <2>1. "user" \notin DOMAIN e /\ f.path = e.path /\ "sensitive_path" \in f.ev /\ f.sev = High /\ f.path \in AccountFiles
        /\ f.rule \notin ProcessRules
    BY <1>1, <1>8, <1>11, RuleFacts DEF AccountDrift
  <2>2. f \in AccountGroup(fs) /\ g \in Coalesce(fs)
    BY <1>4, <1>11, <2>1, CoalesceResult DEF AccountGroup, ResourceGroup, ProcessGroup
  <2>3. g.sev >= High
    BY <1>6, <2>1, <2>2
  <2>4. g = f \/ "identity_files" \in g.ev
    BY <1>6, <1>11, <2>2
  <2>5. Reports(g, e) /\ Protected(g)
    BY <1>6, <2>1, <2>2, <2>3, <2>4 DEF Reports, Covers, Protected
  <2>6. QED
    BY <2>2, <2>5
<1>12. CASE f.rule \in ResourceRules /\ ~AccountDrift(f)
  <2>1. /\ "user" \notin DOMAIN e /\ f.path = e.path /\ f.rule \notin ProcessRules
        /\ "sensitive_path" \in f.ev \/ f.rule = "PERSIST-003"
    BY <1>1, <1>12, RuleFacts DEF UserRules
  <2>2. f \in ResourceGroup(fs, f.path) /\ h \in Coalesce(fs)
    BY <1>5, <1>12, <2>1, CoalesceResult DEF AccountGroup, ResourceGroup, ProcessGroup
  <2>3. Reports(h, e)
    BY <1>3, <1>7, <2>1, <2>2 DEF Reports, Covers
  <2>4. Protected(h)
    BY <1>7, <2>1, <2>2 DEF Protected
  <2>5. QED
    BY <2>2, <2>3, <2>4
<1>13. QED
  <2>1. f.rule \in {"FILE-001", "PERSIST-003"} => f.rule \in ResourceRules
    BY DEF ResourceRules
  <2>2. f.rule = "PERSIST-003" => ~AccountDrift(f)
    BY <2>1, RuleFacts DEF AccountDrift
  <2>3. QED
    BY <1>1, <1>9, <1>10, <1>11, <1>12, <2>1, <2>2

\* A finding about one path, not merged with account findings.
Plain(g) ==
    /\ g.subject = <<g.path>> /\ "identity_files" \notin g.ev /\ g.rule \notin UserRules
    /\ g.rule = "FILE-001" => g.path \in CriticalPaths \ AccountFiles

\* What merging hands on: a regular finding, and about drift either the one of
\* all account findings or one about a path.
LEMMA MergedFinding ==
    ASSUME NEW es, IsFiniteSet(es), NEW fs, \A f \in fs : Shape(f, es), NEW g \in Coalesce(fs)
    PROVE  /\ Regular({g})
           /\ g.rule \in CoveringRules =>
                 \/ /\ g = MergeAccount(AccountGroup(fs)) /\ g.rule \in UserRules \cup {"FILE-001"}
                    /\ g.rule = "FILE-001" =>
                          (g.subject = <<g.path>> /\ g.path \in AccountFiles) \/ g.subject = <<"identity database">>
                 \/ Plain(g)
<1>1. CASE g \in fs /\ ~AccountDrift(g) /\ g.rule \notin ResourceRules \cup ProcessRules
  <2>1. Shape(g, es)
    BY <1>1
  <2>2. g.rule \notin UserRules /\ g.rule # "FILE-001"
    BY <1>1, RuleFacts DEF AccountDrift
  <2>3. g.rule \in CoveringRules => g.rule = "SSH-005"
    BY <1>1, <2>2 DEF CoveringRules
  <2>4. Regular({g})
    BY <2>1 DEF Shape, Regular
  <2>5. g.rule \in CoveringRules => Plain(g)
    BY <2>1, <2>2, <2>3 DEF Shape, Plain
  <2>6. QED
    BY <2>4, <2>5
<1>2. CASE AccountGroup(fs) # {} /\ g = MergeAccount(AccountGroup(fs))
  <2>1. \A f \in AccountGroup(fs) : Shape(f, es) /\ AccountDrift(f)
    BY DEF AccountGroup
  <2>2. /\ DOMAIN g = FieldNames /\ g.sev \in Info .. Critical /\ Sourceless(g) /\ g.rule \in UserRules \cup {"FILE-001"}
        /\ g.rule = "FILE-001" =>
              (g.subject = <<g.path>> /\ g.path \in AccountFiles) \/ g.subject = <<"identity database">>
    BY <1>2, <2>1, MergedAccount
  <2>3. QED
    BY <1>2, <2>2 DEF Regular
<1>3. ASSUME NEW path, ResourceGroup(fs, path) # {}, g = MergeResource(ResourceGroup(fs, path))
      PROVE  Regular({g}) /\ Plain(g)
  <2>1. AboutResource(ResourceGroup(fs, path), path, es)
    BY <1>3 DEF AboutResource, ResourceGroup
  <2>2. /\ DOMAIN g = FieldNames /\ g.sev = High /\ Sourceless(g) /\ g.rule \in ResourceRules
        /\ g.path = path /\ g.subject = <<path>> /\ "identity_files" \notin g.ev
        /\ g.rule = "FILE-001" => path \in CriticalPaths \ AccountFiles
    BY <1>3, <2>1, MergedResource
  <2>3. High \in Info .. Critical
    BY Severities
  <2>4. QED
    BY <2>2, <2>3, RuleFacts DEF Regular, Plain
<1>4. ASSUME NEW pid, ProcessGroup(fs, pid) # {}, g = MergeProcess(ProcessGroup(fs, pid))
      PROVE  Regular({g}) /\ g.rule \notin CoveringRules
  <2>1. AboutProcess(ProcessGroup(fs, pid), pid, es)
    BY <1>4 DEF AboutProcess, ProcessGroup
  <2>3. DOMAIN g = FieldNames /\ g.sev \in Info .. Critical /\ g.rule \in ProcessRules
    BY <1>4, <2>1, MergedProcess
  <2>4. g.rule \notin CoveringRules
    BY <2>3, RuleFacts DEF CoveringRules
  <2>5. QED
    BY <2>3, <2>4 DEF Regular
<1>5. QED
  BY <1>1, <1>2, <1>3, <1>4, CoalesceOrigin

\* Coalescing hands on well-formed findings, and twins that cover the same.
LEMMA MergedRegular ==
    ASSUME NEW es, IsFiniteSet(es), NEW fs, \A f \in fs : Shape(f, es)
    PROVE  Regular(Coalesce(fs)) /\ Twins(Coalesce(fs))
<1>1. Regular(Coalesce(fs))
  BY MergedFinding DEF Regular
<1>2. ASSUME NEW f \in Coalesce(fs), NEW g \in Coalesce(fs), f.rule = g.rule, f.rule \in CoveringRules, f.subject = g.subject
      PROVE  f = g \/ (Plain(f) /\ Plain(g))
  <2>1. ASSUME NEW a \in Coalesce(fs), NEW b \in Coalesce(fs), a.rule = b.rule, a.rule \in CoveringRules, a.subject = b.subject,
               a = MergeAccount(AccountGroup(fs)), a.rule = "FILE-001" =>
                   (a.subject = <<a.path>> /\ a.path \in AccountFiles) \/ a.subject = <<"identity database">>,
               a.rule \in UserRules \cup {"FILE-001"}, Plain(b)
        PROVE  FALSE
    <3>1. b.rule = "FILE-001" /\ b.path \in CriticalPaths \ AccountFiles /\ b.subject = <<b.path>>
      BY <2>1 DEF Plain
    <3>2. "identity database" \notin CriticalPaths
      BY DEF CriticalPaths, AccountFiles
    <3>3. \A x, y : <<x>> = <<y>> => x = y
      OBVIOUS
    <3>4. b.path \in AccountFiles \/ b.path = "identity database"
      BY <2>1, <3>1, <3>3
    <3>5. QED
      BY <3>1, <3>2, <3>4
  <2>2. ASSUME NEW a \in Coalesce(fs), a.rule \in CoveringRules
        PROVE  \/ /\ a = MergeAccount(AccountGroup(fs))
                  /\ a.rule = "FILE-001" =>
                        (a.subject = <<a.path>> /\ a.path \in AccountFiles) \/ a.subject = <<"identity database">>
                  /\ a.rule \in UserRules \cup {"FILE-001"}
               \/ Plain(a)
    BY <2>2, MergedFinding
  <2>3. QED
    BY <1>2, <2>1, <2>2
<1>3. ASSUME NEW f, NEW g, Plain(f), Plain(g), f.subject = g.subject
      PROVE  f.path = g.path /\ ("identity_files" \in f.ev <=> "identity_files" \in g.ev)
  <2>1. \A x, y : <<x>> = <<y>> => x = y
    OBVIOUS
  <2>2. QED
    BY <1>3, <2>1 DEF Plain
<1>4. Twins(Coalesce(fs))
  BY <1>2, <1>3 DEF Twins
<1>5. QED
  BY <1>1, <1>4

\* Rating keeps what a finding is about, and the severity of a protected one.
LEMMA RatingKeeps ==
    ASSUME NEW f, NEW c, DOMAIN f = FieldNames, f.sev \in Info .. Critical, NEW g, g = EnrichFinding(f, c)
    PROVE  /\ DOMAIN g = FieldNames /\ g.sev \in Info .. Critical
           /\ g.rule = f.rule /\ g.subject = f.subject /\ g.path = f.path /\ g.source = f.source
           /\ "identity_files" \in g.ev <=> "identity_files" \in f.ev
           /\ Protected(f) => g.sev = f.sev
<1>1. PICK a : a = AdjustDrift(f)
  OBVIOUS
<1>2. PICK b : b = MatchIntel(a, c)
  OBVIOUS
<1>3. PICK score, low, rating, certainty :
         /\ score = DriftScore(f) /\ rating = Min({f.sev, Medium}) /\ certainty = Min({f.conf, 2}) /\ low = Low
  OBVIOUS
<1>4. rating \in Info .. Critical /\ low \in Info .. Critical
  <2>1. \E x \in {f.sev, 3} : \A y \in {f.sev, 3} : x =< y
    BY DEF Info, Critical
  <2>2. rating \in {f.sev, 3}
    BY <1>3, <2>1 DEF Min, Medium
  <2>3. QED
    BY <1>3, <2>2 DEF Info, Low, Critical
<1>5. \/ a = f \/ a = [f EXCEPT !.drift = score]
      \/ ~Protected(f) /\ a = [f EXCEPT !.drift = score, !.sev = low, !.conf = 1]
      \/ ~Protected(f) /\ a = [f EXCEPT !.drift = score, !.sev = rating, !.conf = certainty]
  BY <1>1, <1>3, Zenon DEF AdjustDrift
<1>6. /\ DOMAIN a = FieldNames /\ a.sev \in Info .. Critical
      /\ a.rule = f.rule /\ a.subject = f.subject /\ a.path = f.path /\ a.source = f.source /\ a.ev = f.ev
      /\ Protected(f) => a.sev = f.sev
  BY <1>4, <1>5 DEF FieldNames
<1>7. b = a \/ b = [a EXCEPT !.ev = @ \cup {"threat_intel"}]
  BY <1>2 DEF MatchIntel
<1>8. /\ DOMAIN b = FieldNames /\ b.sev = a.sev
      /\ b.rule = f.rule /\ b.subject = f.subject /\ b.path = f.path /\ b.source = f.source
      /\ "identity_files" \in b.ev <=> "identity_files" \in f.ev
  BY <1>6, <1>7 DEF FieldNames
<1>9. PICK unified : g = [b EXCEPT !.unified = unified]
  BY <1>1, <1>2, Zenon DEF EnrichFinding
<1>10. /\ DOMAIN g = FieldNames /\ g.sev = b.sev /\ g.ev = b.ev
       /\ g.rule = b.rule /\ g.subject = b.subject /\ g.path = b.path /\ g.source = b.source
  BY <1>8, <1>9 DEF FieldNames
<1>11. QED
  BY <1>6, <1>8, <1>10

\* The budget keeps the most severe findings.
LEMMA KeptRanked ==
    ASSUME NEW fs, Regular(fs), NEW c, NEW K \in WithinBudget(fs, c)
    PROVE  K \subseteq fs /\ \A f \in fs \ K, g \in K : g.sev >= f.sev
<1>1. CASE Cardinality(fs) <= c.max_findings_per_scan
  BY <1>1 DEF WithinBudget
<1>2. CASE ~(Cardinality(fs) <= c.max_findings_per_scan)
  <2>1. K \subseteq fs /\ \A f \in K, g \in fs \ K : RankedBefore(f, g)
    BY <1>2 DEF WithinBudget, kSubset
  <2>2. ASSUME NEW f \in fs \ K, NEW g \in K PROVE g.sev >= f.sev
    <3>1. f.sev \in 1 .. 5 /\ g.sev \in 1 .. 5
      BY <2>1 DEF Regular, Info, Critical
    <3>2. g.sev > f.sev \/ g.sev = f.sev
      BY <2>1 DEF RankedBefore
    <3>3. QED
      BY <3>1, <3>2
  <2>3. QED
    BY <2>1, <2>2
<1>3. QED
  BY <1>1, <1>2

\* Dropping findings keeps both.
LEMMA SubsetKept ==
    ASSUME NEW fs, NEW gs, Regular(fs), Twins(fs), gs \subseteq fs
    PROVE  Regular(gs) /\ Twins(gs)
  BY DEF Regular, Twins

\* Twins cover the same changes.
LEMMA TwinCovers ==
    ASSUME NEW fs, Twins(fs), NEW f \in fs, NEW g \in fs, NEW e, Reports(f, e), g.rule = f.rule, g.subject = f.subject, g.sev >= High
    PROVE  Reports(g, e)
  BY DEF Twins, Reports, Covers

\* A candidate names the source it was decided for.
LEMMA CandidateSource ==
    ASSUME NEW ip, NEW fs, NEW c, NEW b \in CandidatesFor(ip, fs, c)
    PROVE  b.ip = ip
<1>1. b # NoCandidate /\ \E f \in fs : f.source = ip /\ (b = BlockCandidate(f, c) \/ b = AggregateCandidate(f, c))
  BY DEF CandidatesFor
<1>2. PICK f \in fs : f.source = ip /\ (b = BlockCandidate(f, c) \/ b = AggregateCandidate(f, c))
  BY <1>1
<1>3. ASSUME NEW kind, NEW x, x = Candidate(kind, f), b = Decide(x, f, c)
      PROVE  b.ip = ip
  <2>1. DOMAIN x = {"kind", "ip", "rule", "action", "ttl", "permanent_after"} /\ x.ip = ip
    BY <1>2, <1>3 DEF Candidate
  <2>2. PICK y : y = ApplyResponseLayer(x, f, c)
    OBVIOUS
  <2>3. DOMAIN y = DOMAIN x /\ y.ip = ip
    <3>1. PICK ttl, after, action : y = [x EXCEPT !.ttl = ttl, !.permanent_after = after, !.action = action]
      BY <2>1, <2>2, Zenon DEF ApplyResponseLayer
    <3>2. QED
      BY <2>1, <3>1
  <2>4. PICK z : z = ApplyResponsePolicy(y, f, c)
    OBVIOUS
  <2>5. z = NoCandidate \/ z = y \/ \E action, ttl, after : z = [y EXCEPT !.action = action, !.ttl = ttl, !.permanent_after = after]
    BY <2>4, Zenon DEF ApplyResponsePolicy
  <2>6. z = NoCandidate \/ z.ip = ip
    BY <2>1, <2>3, <2>5
  <2>7. x # NoCandidate
    BY <2>1 DEF NoCandidate
  <2>8. b = NoCandidate \/ b = z
    BY <1>3, <2>2, <2>4, <2>7 DEF Decide, FilterCandidate
  <2>9. QED
    BY <1>1, <2>6, <2>8
<1>4. \E kind, x : (x = Candidate(kind, f) \/ x = NoCandidate) /\ b = Decide(x, f, c)
  <2>1. RuleCandidate(f, c) = NoCandidate \/ \E kind : RuleCandidate(f, c) = Candidate(kind, f)
    BY DEF RuleCandidate, WebProbeCandidate, WebErrorCandidate, SshBruteforceCandidate
  <2>2. FingerprintCandidate(f, c) = NoCandidate \/ \E kind : FingerprintCandidate(f, c) = Candidate(kind, f)
    BY Zenon DEF FingerprintCandidate
  <2>3. CASE b = BlockCandidate(f, c)
    BY <1>1, <2>1, <2>2, <2>3, Zenon DEF BlockCandidate
  <2>4. CASE b = AggregateCandidate(f, c)
    BY <2>4, Zenon DEF AggregateCandidate
  <2>5. QED
    BY <1>2, <2>3, <2>4
<1>5. \A x : x = NoCandidate => b # Decide(x, f, c)
  BY <1>1 DEF Decide
<1>6. QED
  BY <1>3, <1>4, <1>5

\* The change e is told of by a finding that is left, by one the operator
\* suppressed, or by one the budget cut in favour of findings as severe.
Told(e) ==
    \/ \E f \in findings \cup withheld : Reports(f, e)
    \/ /\ \E f \in trimmed : Reports(f, e)
       /\ \A g \in findings : g.sev >= High \/ (stage = "done" /\ g.rule = "TIMELINE-001")

\* The findings about drift that a stage dropped are not among those it kept.
Apart ==
    \A f \in findings \cup withheld : f.rule \in CoveringRules => f \notin trimmed /\ ~(f \in findings /\ f \in withheld)

\* The stages before the budget, and those between merging and the end.
Early == {"collect", "detected", "merged", "rated", "maintained"}
Judged == {"merged", "rated", "maintained", "budgeted", "suppressed", "marked", "responded"}

\* What is known of the input.
InputInv ==
    /\ \E input \in Inputs : conf = input[1] /\ pool = input[2]
    /\ events \subseteq pool /\ IsFiniteSet(events)

\* The inductive invariant: no stage loses what tells of a sensitive change.
SensitiveInv ==
    /\ InputInv
    /\ stage \in Early => trimmed = {} /\ withheld = {}
    /\ stage = "budgeted" => withheld = {}
    /\ stage = "detected" => findings = Detectors(RetainIncremental(events, conf), conf)
    /\ stage = "merged" => \A e \in events : SensitiveChange(e, conf) => \E f \in findings : Reports(f, e) /\ Protected(f)
    /\ stage \in Judged => Regular(findings) /\ Twins(findings)
    /\ stage \in Judged \cup {"done"} => Apart /\ \A e \in events : SensitiveChange(e, conf) => Told(e)

\* What InputsAssumption says of the configuration and events of a scan.
LEMMA InputFacts ==
    ASSUME InputInv
    PROVE  ConfigOK(conf) /\ \A e \in events : EventOK(e)
<1>1. PICK input \in Inputs : conf = input[1] /\ pool = input[2]
  BY DEF InputInv
<1>2. ConfigOK(conf)
  BY <1>1, InputsAssumption DEF ConfigOK
<1>3. \A e \in pool : EventOK(e)
  BY <1>1, InputsAssumption DEF EventOK
<1>4. QED
  BY <1>2, <1>3 DEF InputInv

\* The configuration stays, and events only come from the pool.
LEMMA InputStep ==
    ASSUME InputInv, [Next]_vars
    PROVE  InputInv'
<1>1. conf' = conf /\ pool' = pool
  BY DEF Next, vars, KeepInput, Collect, Detect, Merge, Rate, Maintain, Budget, Suppress, Fingerprint, Respond, Correlate, NextScan
<1>2. \/ events' = events \/ events' = {} \/ \E e \in pool : events' = events \cup {e}
  BY DEF Next, vars, KeepInput, Collect, Detect, Merge, Rate, Maintain, Budget, Suppress, Fingerprint, Respond, Correlate, NextScan
<1>3. events' \subseteq pool /\ IsFiniteSet(events')
  <2>1. IsFiniteSet(events) /\ events \subseteq pool
    BY DEF InputInv
  <2>2. ASSUME NEW e \in pool, events' = events \cup {e} PROVE events' \subseteq pool /\ IsFiniteSet(events')
    <3>1. IsFiniteSet(events \cup {e})
      BY <2>1, FS_AddElement
    <3>2. QED
      BY <2>1, <2>2, <3>1
  <2>3. CASE events' = {}
    BY <2>3, FS_EmptySet
  <2>4. QED
    BY <1>2, <2>1, <2>2, <2>3
<1>4. QED
  BY <1>1, <1>3 DEF InputInv

\* coalesce_related_findings keeps a protected finding for every sensitive change.
LEMMA MergeStep ==
    ASSUME SensitiveInv, Merge
    PROVE  /\ Regular(findings') /\ Twins(findings')
           /\ \A e \in events : SensitiveChange(e, conf) => \E f \in findings' : Reports(f, e) /\ Protected(f)
<1>1. PICK R : R = RetainIncremental(events, conf)
  OBVIOUS
<1>2. findings = Detectors(R, conf) /\ findings' = Coalesce(findings)
  BY <1>1 DEF SensitiveInv, Merge, Advance
<1>3. IsFiniteSet(R)
  <2>1. R \in SUBSET events
    BY <1>1 DEF RetainIncremental
  <2>2. QED
    BY <2>1, FS_Subset DEF SensitiveInv, InputInv
<1>4. ConfigOK(conf) /\ \A e \in events : EventOK(e)
  BY InputFacts DEF SensitiveInv
<1>5. \A f \in findings : Shape(f, R)
  BY <1>2, <1>4, DetectedShape
<1>6. Regular(findings') /\ Twins(findings')
  BY <1>2, <1>3, <1>5, MergedRegular
<1>7. \A e \in events : SensitiveChange(e, conf) => \E f \in findings' : Reports(f, e) /\ Protected(f)
  BY <1>1, <1>2, <1>3, <1>4, <1>5, SensitiveMerged
<1>8. QED
  BY <1>6, <1>7

\* Ratings never lower a severity and leave what a finding covers alone.
LEMMA RateStep ==
    ASSUME SensitiveInv, Rate
    PROVE  /\ Regular(findings') /\ Twins(findings')
           /\ \A e \in events : SensitiveChange(e, conf) => \E f \in findings' : Reports(f, e)
<1>1. /\ findings' = {EnrichFinding(f, conf) : f \in findings} /\ Regular(findings) /\ Twins(findings)
      /\ \A e \in events : SensitiveChange(e, conf) => \E f \in findings : Reports(f, e) /\ Protected(f)
  BY DEF SensitiveInv, Rate, Advance, Judged
<1>2. ASSUME NEW f \in findings, NEW g, g = EnrichFinding(f, conf)
      PROVE  /\ DOMAIN g = FieldNames /\ g.sev \in Info .. Critical
             /\ g.rule = f.rule /\ g.subject = f.subject /\ g.path = f.path /\ g.source = f.source
             /\ "identity_files" \in g.ev <=> "identity_files" \in f.ev
             /\ Protected(f) => g.sev = f.sev
  BY <1>1, <1>2, RatingKeeps DEF Regular
<1>3. \A g \in findings' : \E f \in findings : g = EnrichFinding(f, conf)
  BY <1>1
<1>4. Regular(findings')
  <2>1. SUFFICES ASSUME NEW g \in findings'
                 PROVE  DOMAIN g = FieldNames /\ g.sev \in Info .. Critical /\ (g.rule \in CoveringRules => Sourceless(g))
    BY DEF Regular
  <2>2. PICK f \in findings : g = EnrichFinding(f, conf)
    BY <1>3
  <2>3. g.source = f.source /\ g.rule = f.rule /\ (f.rule \in CoveringRules => Sourceless(f))
    BY <1>1, <1>2, <2>2 DEF Regular
  <2>4. Sourceless(f) => Sourceless(g)
    BY <2>3, Zenon DEF Sourceless
  <2>5. QED
    BY <1>2, <2>2, <2>3, <2>4
<1>5. Twins(findings')
  <2>1. SUFFICES ASSUME NEW a \in findings', NEW b \in findings', a.rule = b.rule, a.rule \in CoveringRules, a.subject = b.subject
                 PROVE  a.path = b.path /\ ("identity_files" \in a.ev <=> "identity_files" \in b.ev)
    BY DEF Twins
  <2>2. PICK f \in findings : a = EnrichFinding(f, conf)
    BY <1>3
  <2>3. PICK g \in findings : b = EnrichFinding(g, conf)
    BY <1>3
  <2>4. /\ a.rule = f.rule /\ a.subject = f.subject /\ a.path = f.path /\ ("identity_files" \in a.ev <=> "identity_files" \in f.ev)
        /\ b.rule = g.rule /\ b.subject = g.subject /\ b.path = g.path /\ ("identity_files" \in b.ev <=> "identity_files" \in g.ev)
    BY <1>2, <2>2, <2>3
  <2>5. f.path = g.path /\ ("identity_files" \in f.ev <=> "identity_files" \in g.ev)
    BY <1>1, <2>1, <2>4 DEF Twins
  <2>6. QED
    BY <2>4, <2>5
<1>6. ASSUME NEW e \in events, SensitiveChange(e, conf) PROVE \E f \in findings' : Reports(f, e)
  <2>1. PICK f \in findings : Reports(f, e) /\ Protected(f)
    BY <1>1, <1>6
  <2>2. PICK g : g = EnrichFinding(f, conf)
    OBVIOUS
  <2>3. /\ g.rule = f.rule /\ g.subject = f.subject /\ g.path = f.path /\ g.sev = f.sev
        /\ "identity_files" \in g.ev <=> "identity_files" \in f.ev
    BY <1>2, <2>1, <2>2
  <2>4. Reports(g, e)
    BY <2>1, <2>3 DEF Reports, Covers
  <2>5. QED
    BY <1>1, <2>2, <2>4
<1>7. QED
  BY <1>4, <1>5, <1>6

\* apply_maintenance_policy hides no protected finding.
LEMMA MaintainStep ==
    ASSUME SensitiveInv, Maintain
    PROVE  /\ Regular(findings') /\ Twins(findings')
           /\ \A e \in events : SensitiveChange(e, conf) => \E f \in findings' : Reports(f, e)
<1>1. /\ findings' = ApplyMaintenance(findings, conf) /\ Regular(findings) /\ Twins(findings) /\ trimmed = {} /\ withheld = {}
      /\ \A e \in events : SensitiveChange(e, conf) => Told(e)
  BY DEF SensitiveInv, Maintain, Advance, Judged, Early
<1>2. findings' \subseteq findings
  BY <1>1 DEF ApplyMaintenance
<1>3. ASSUME NEW f \in findings, f.rule \in CoveringRules, f.sev >= High PROVE f \in findings'
  <2>1. ~(f.sev <= Medium)
    BY <1>1, <1>3 DEF Regular, Info, Medium, High, Critical
  <2>2. f.rule \notin {"SSH-001", "SSH-002", "SSH-004"}
    BY <1>3 DEF CoveringRules, UserRules, ResourceRules
  <2>3. ~Suppressible(f, conf)
    BY <2>1, <2>2 DEF Suppressible
  <2>4. QED
    BY <1>1, <2>3 DEF ApplyMaintenance
<1>4. ASSUME NEW e \in events, SensitiveChange(e, conf) PROVE \E f \in findings' : Reports(f, e)
  <2>1. PICK f \in findings : Reports(f, e)
    BY <1>1, <1>4 DEF Told
  <2>2. f \in findings'
    BY <1>3, <2>1 DEF Reports
  <2>3. QED
    BY <2>1, <2>2
<1>5. QED
  BY <1>1, <1>2, <1>4, SubsetKept

\* The first budget cuts the least severe findings.
LEMMA BudgetStep ==
    ASSUME SensitiveInv, Budget
    PROVE  /\ Regular(findings') /\ Twins(findings') /\ findings' \cap trimmed' = {} /\ withheld = {}
           /\ \A e \in events : SensitiveChange(e, conf) =>
                 \/ \E f \in findings' : Reports(f, e)
                 \/ (\E f \in trimmed' : Reports(f, e)) /\ \A g \in findings' : g.sev >= High
<1>1. /\ findings' \in WithinBudget(findings, conf) /\ trimmed' = findings \ findings'
      /\ Regular(findings) /\ Twins(findings) /\ trimmed = {} /\ withheld = {}
      /\ \A e \in events : SensitiveChange(e, conf) => Told(e)
  BY DEF SensitiveInv, Budget, Advance, Judged, Early
<1>2. findings' \subseteq findings /\ \A f \in findings \ findings', g \in findings' : g.sev >= f.sev
  BY <1>1, KeptRanked
<1>3. ASSUME NEW e \in events, SensitiveChange(e, conf)
      PROVE  \/ \E f \in findings' : Reports(f, e)
             \/ (\E f \in trimmed' : Reports(f, e)) /\ \A g \in findings' : g.sev >= High
  <2>1. PICK f \in findings : Reports(f, e)
    BY <1>1, <1>3 DEF Told
  <2>2. CASE f \in findings'
    BY <2>1, <2>2
  <2>3. CASE f \notin findings'
    <3>1. f \in trimmed'
      BY <1>1, <2>3
    <3>2. ASSUME NEW g \in findings' PROVE g.sev >= High
      <4>1. f.sev \in 1 .. 5 /\ g.sev \in 1 .. 5
        BY <1>1, <1>2 DEF Regular, Info, Critical
      <4>2. g.sev >= f.sev /\ f.sev >= High
        BY <1>2, <2>1, <2>3 DEF Reports
      <4>3. QED
        BY <4>1, <4>2 DEF High
    <3>3. QED
      BY <2>1, <3>1, <3>2
  <2>4. QED
    BY <2>2, <2>3
<1>4. Regular(findings') /\ Twins(findings')
  BY <1>1, <1>2, SubsetKept
<1>5. findings' \cap trimmed' = {}
  BY <1>1
<1>6. QED
  BY <1>1, <1>3, <1>4, <1>5

\* suppress_findings moves what it removes to the suppressed findings.
LEMMA SuppressStep ==
    ASSUME SensitiveInv, Suppress
    PROVE  /\ Regular(findings') /\ Twins(findings') /\ Apart'
           /\ \A e \in events : SensitiveChange(e, conf) => Told(e)'
<1>1. /\ withheld' = {f \in findings : SuppressMatch(f, conf)} /\ findings' = findings \ withheld' /\ trimmed' = trimmed
      /\ Regular(findings) /\ Twins(findings) /\ withheld = {} /\ stage = "budgeted" /\ Apart
      /\ \A e \in events : SensitiveChange(e, conf) => Told(e)
  BY DEF SensitiveInv, Suppress, Advance, Judged
<1>2. findings' \subseteq findings /\ withheld' \subseteq findings
  BY <1>1
<1>3. Regular(findings') /\ Twins(findings')
  BY <1>1, <1>2, SubsetKept
<1>4. Apart'
  BY <1>1, <1>2 DEF Apart
<1>5. ASSUME NEW e \in events, SensitiveChange(e, conf) PROVE Told(e)'
  <2>1. CASE \E f \in findings : Reports(f, e)
    <3>1. \E f \in findings' \cup withheld' : Reports(f, e)
      BY <1>1, <2>1
    <3>2. QED
      BY <3>1 DEF Told, Reports
  <2>2. CASE (\E f \in trimmed : Reports(f, e)) /\ \A g \in findings : g.sev >= High
    BY <1>1, <1>2, <2>2 DEF Told, Reports
  <2>3. QED
    BY <1>1, <1>5, <2>1, <2>2 DEF Told
<1>6. QED
  BY <1>3, <1>4, <1>5

\* Marking, and later the annotation of blocked sources, leave the findings
\* about drift alone, and every severity.
Marks(fs, gs) ==
    /\ \A g \in gs : \/ g \in fs
                     \/ g.sev = High /\ DOMAIN g = FieldNames /\ g.rule \notin CoveringRules
                     \/ \E f \in fs : g.sev = f.sev /\ DOMAIN g = DOMAIN f /\ g.rule = f.rule /\ g.rule \notin CoveringRules
    /\ \A f \in fs : f.rule \in CoveringRules => f \in gs

\* What a stage that only marks findings leaves true.
LEMMA MarksKeep ==
    ASSUME NEW fs, NEW gs, Regular(fs), Twins(fs), Marks(fs, gs)
    PROVE  /\ Regular(gs) /\ Twins(gs)
           /\ \A g \in gs : g.rule \in CoveringRules => g \in fs
           /\ (\A f \in fs : f.sev >= High) => \A g \in gs : g.sev >= High
<1>1. High \in Info .. Critical /\ High >= High
  BY DEF Info, High, Critical
<1>2. \A g \in gs : g.rule \in CoveringRules => g \in fs
  BY DEF Marks
<1>3. Regular(gs)
  BY <1>1 DEF Regular, Marks
<1>4. Twins(gs)
  BY <1>2 DEF Twins
<1>5. (\A f \in fs : f.sev >= High) => \A g \in gs : g.sev >= High
  BY <1>1 DEF Marks
<1>6. QED
  BY <1>2, <1>3, <1>4, <1>5

\* A finding without a source is not marked.
LEMMA MarkedOne ==
    ASSUME NEW f, DOMAIN f = FieldNames, f.rule \in CoveringRules => Sourceless(f), NEW X, NEW g,
           g = IF f.source = "" THEN f ELSE [f EXCEPT !.ev = @ \cup X]
    PROVE  g = f \/ (g.sev = f.sev /\ DOMAIN g = DOMAIN f /\ g.rule = f.rule /\ g.rule \notin CoveringRules)
<1>1. CASE Sourceless(f)
  <2>1. g = f
    BY <1>1, Zenon DEF Sourceless
  <2>2. QED
    BY <2>1
<1>2. CASE ~Sourceless(f)
  <2>1. g = [f EXCEPT !.ev = @ \cup X]
    BY <1>2, Zenon DEF Sourceless
  <2>2. QED
    BY <1>2, <2>1 DEF FieldNames
<1>3. QED
  BY <1>1, <1>2

\* Matching attack fingerprints only marks findings about a source.
LEMMA FingerprintStep ==
    ASSUME SensitiveInv, Fingerprint
    PROVE  /\ Regular(findings') /\ Twins(findings') /\ Apart'
           /\ \A e \in events : SensitiveChange(e, conf) => Told(e)'
<1>1. /\ stage = "suppressed" /\ Regular(findings) /\ Twins(findings) /\ Apart /\ trimmed' = trimmed /\ withheld' = withheld
      /\ \A e \in events : SensitiveChange(e, conf) => Told(e)
  BY DEF SensitiveInv, Fingerprint, Advance, Judged
<1>2. PICK verdict : findings' = {IF f.source = "" THEN f ELSE [f EXCEPT !.ev = @ \cup verdict[f.source]] : f \in findings}
  BY Zenon DEF Fingerprint
<1>3. ASSUME NEW f \in findings, NEW g, g = IF f.source = "" THEN f ELSE [f EXCEPT !.ev = @ \cup verdict[f.source]]
      PROVE  g = f \/ (g.sev = f.sev /\ DOMAIN g = DOMAIN f /\ g.rule = f.rule /\ g.rule \notin CoveringRules)
  <2>1. DOMAIN f = FieldNames /\ (f.rule \in CoveringRules => Sourceless(f))
    BY <1>1 DEF Regular
  <2>2. PICK X : X = verdict[f.source]
    OBVIOUS
  <2>3. g = IF f.source = "" THEN f ELSE [f EXCEPT !.ev = @ \cup X]
    BY <1>3, <2>2, Zenon
  <2>4. QED
    BY <2>1, <2>3, MarkedOne, Zenon
<1>4. Marks(findings, findings')
  <2>1. ASSUME NEW g \in findings'
        PROVE  g \in findings \/ \E f \in findings : g.sev = f.sev /\ DOMAIN g = DOMAIN f /\ g.rule = f.rule /\ g.rule \notin CoveringRules
    <3>1. PICK f \in findings : g = IF f.source = "" THEN f ELSE [f EXCEPT !.ev = @ \cup verdict[f.source]]
      BY <1>2, <2>1, Zenon
    <3>2. QED
      BY <1>3, <3>1, Zenon
  <2>2. ASSUME NEW f \in findings, f.rule \in CoveringRules PROVE f \in findings'
    <3>1. Sourceless(f)
      BY <1>1, <2>2 DEF Regular
    <3>2. QED
      BY <1>2, <3>1, Zenon DEF Sourceless
  <2>3. QED
    BY <2>1, <2>2 DEF Marks
<1>5. /\ Regular(findings') /\ Twins(findings') /\ \A g \in findings' : g.rule \in CoveringRules => g \in findings
      /\ (\A f \in findings : f.sev >= High) => \A g \in findings' : g.sev >= High
  BY <1>1, <1>4, MarksKeep
<1>6. Apart'
  BY <1>1, <1>5 DEF Apart
<1>7. ASSUME NEW e \in events, SensitiveChange(e, conf) PROVE Told(e)'
  <2>1. CASE \E f \in findings \cup withheld : Reports(f, e)
    <3>1. \E f \in findings' \cup withheld' : Reports(f, e)
      BY <1>1, <1>4, <2>1 DEF Marks, Reports
    <3>2. QED
      BY <3>1 DEF Told, Reports
  <2>2. CASE (\E f \in trimmed : Reports(f, e)) /\ \A g \in findings : g.sev >= High
    BY <1>1, <1>5, <2>2 DEF Told, Reports
  <2>3. QED
    BY <1>1, <1>7, <2>1, <2>2 DEF Told
<1>8. QED
  BY <1>5, <1>6, <1>7

\* The finding that stands for more blocked sources than are listed one by one.
BlockedSummary == F("ACTIVE-001", "System", High, <<"active-response">>, {"blocked"})

\* Its fields.
LEMMA BlockedSummaryFields ==
    BlockedSummary.sev = High /\ DOMAIN BlockedSummary = FieldNames /\ BlockedSummary.rule = "ACTIVE-001"
  BY NewFindingFields DEF BlockedSummary

\* annotate_active_response marks findings about blocked sources, or adds one.
LEMMA AnnotatedMarks ==
    ASSUME NEW fs, Regular(fs), NEW planned, NEW blocked, NEW c, \A b \in planned : b.ip # ""
    PROVE  Marks(fs, Annotated(fs, planned, blocked, c))
<1>1. PICK gs : gs = Annotated(fs, planned, blocked, c)
  OBVIOUS
<1>2. CASE Cardinality(blocked) > c.notification_detail_limit
  <2>1. PICK s : s = BlockedSummary
    OBVIOUS
  <2>2. s.sev = High /\ DOMAIN s = FieldNames /\ s.rule = "ACTIVE-001"
    BY <2>1, BlockedSummaryFields, Zenon
  <2>3. s.rule \notin CoveringRules
    BY <2>2 DEF CoveringRules, UserRules, ResourceRules
  <2>4. gs = fs \cup {s}
    BY <1>1, <1>2, <2>1, Zenon DEF Annotated, BlockedSummary
  <2>5. QED
    BY <1>1, <2>2, <2>3, <2>4 DEF Marks
<1>3. CASE ~(Cardinality(blocked) > c.notification_detail_limit)
  <2>1. gs = {IF \E b \in planned : b.ip = f.source THEN [f EXCEPT !.ev = @ \cup {"blocked"}] ELSE f : f \in fs}
    BY <1>1, <1>3 DEF Annotated
  <2>2. ASSUME NEW f \in fs, f.rule \in CoveringRules PROVE ~\E b \in planned : b.ip = f.source
    <3>1. Sourceless(f)
      BY <2>2 DEF Regular
    <3>2. QED
      BY <3>1, Zenon DEF Sourceless
  <2>3. ASSUME NEW g \in gs
        PROVE  g \in fs \/ \E f \in fs : g.sev = f.sev /\ DOMAIN g = DOMAIN f /\ g.rule = f.rule /\ g.rule \notin CoveringRules
    <3>1. PICK f \in fs : g = IF \E b \in planned : b.ip = f.source THEN [f EXCEPT !.ev = @ \cup {"blocked"}] ELSE f
      BY <2>1, <2>3
    <3>2. CASE \E b \in planned : b.ip = f.source
      <4>1. g = [f EXCEPT !.ev = @ \cup {"blocked"}]
        BY <3>1, <3>2
      <4>2. DOMAIN f = FieldNames
        BY DEF Regular
      <4>3. g.sev = f.sev /\ DOMAIN g = DOMAIN f /\ g.rule = f.rule
        BY <4>1, <4>2 DEF FieldNames
      <4>4. f.rule \notin CoveringRules
        BY <2>2, <3>2
      <4>5. QED
        BY <4>3, <4>4
    <3>3. CASE ~\E b \in planned : b.ip = f.source
      BY <3>1, <3>3
    <3>4. QED
      BY <3>2, <3>3
  <2>4. ASSUME NEW f \in fs, f.rule \in CoveringRules PROVE f \in gs
    BY <2>1, <2>2, <2>4
  <2>5. QED
    BY <1>1, <2>3, <2>4 DEF Marks
<1>4. QED
  BY <1>2, <1>3

\* The second budget cuts by key: what stays of a key covers the same changes.
LEMMA RespondStep ==
    ASSUME SensitiveInv, Respond
    PROVE  /\ Regular(findings') /\ Twins(findings') /\ Apart'
           /\ \A e \in events : SensitiveChange(e, conf) => Told(e)'
<1>1. /\ stage = "marked" /\ Regular(findings) /\ Twins(findings) /\ Apart /\ withheld' = withheld
      /\ trimmed' = trimmed \cup (findings \ {f \in findings : \E g \in findings' : g.rule = f.rule /\ g.subject = f.subject})
      /\ \A e \in events : SensitiveChange(e, conf) => Told(e)
  <2>1. /\ stage = "marked" /\ Regular(findings) /\ Twins(findings) /\ Apart
        /\ \A e \in events : SensitiveChange(e, conf) => Told(e)
    BY DEF SensitiveInv, Respond, Advance, Judged
  <2>2. /\ withheld' = withheld
        /\ trimmed' = trimmed \cup (findings \ {f \in findings : \E g \in findings' : g.rule = f.rule /\ g.subject = f.subject})
    BY Zenon DEF Respond
  <2>3. QED
    BY <2>1, <2>2
<1>2. PICK planned, blocked : /\ findings' \in WithinBudget(Annotated(findings, planned, blocked, conf), conf)
                              /\ \A b \in planned : b.ip # ""
  <2> DEFINE ips == {f.source : f \in findings} \ {""}
             targets == {ip \in ips : CandidatesFor(ip, findings, conf) # {}}
  <2>1. PICK pick, refused :
           /\ \A ip \in targets : pick[ip] \in CandidatesFor(ip, findings, conf)
           /\ candidates' = {pick[ip] : ip \in targets}
           /\ findings' \in WithinBudget(
                  Annotated(findings, candidates', {b \in candidates' : b.ip \notin refused}, conf), conf)
    BY ZenonT(30) DEF Respond
  <2>2. \A ip \in targets : pick[ip].ip = ip /\ ip # ""
    BY <2>1, CandidateSource, ZenonT(60)
  <2>3. \A b \in candidates' : b.ip # ""
    BY <2>1, <2>2, Zenon
  <2>4. QED
    BY <2>1, <2>3, Zenon
<1>3. PICK gs : gs = Annotated(findings, planned, blocked, conf)
  OBVIOUS
<1>4. Marks(findings, gs)
  BY <1>1, <1>2, <1>3, AnnotatedMarks, Zenon
<1>5. /\ Regular(gs) /\ Twins(gs) /\ \A g \in gs : g.rule \in CoveringRules => g \in findings
      /\ (\A f \in findings : f.sev >= High) => \A g \in gs : g.sev >= High
  BY <1>1, <1>4, MarksKeep
<1>6. findings' \in WithinBudget(gs, conf)
  BY <1>2, <1>3, Zenon
<1>7. findings' \subseteq gs /\ \A f \in gs \ findings', g \in findings' : g.sev >= f.sev
  BY <1>5, <1>6, KeptRanked
<1>8. Regular(findings') /\ Twins(findings')
  BY <1>5, <1>7, SubsetKept
<1>9. \A g \in findings' : g.rule \in CoveringRules => g \in findings
  BY <1>5, <1>7
<1>10. Apart'
  <2>1. SUFFICES ASSUME NEW f \in findings' \cup withheld, f.rule \in CoveringRules
                 PROVE  f \notin trimmed' /\ ~(f \in findings' /\ f \in withheld)
    BY <1>1 DEF Apart
  <2>2. f \in findings \cup withheld /\ f \notin trimmed /\ ~(f \in findings /\ f \in withheld)
    BY <1>1, <1>9, <2>1 DEF Apart
  <2>3. CASE f \in findings'
    BY <1>1, <1>9, <2>1, <2>2, <2>3
  <2>4. CASE f \in withheld
    BY <1>1, <1>9, <2>1, <2>2, <2>4
  <2>5. QED
    BY <2>1, <2>3, <2>4
<1>11. ASSUME NEW e \in events, SensitiveChange(e, conf) PROVE Told(e)'
  <2>1. SUFFICES \/ \E f \in findings' \cup withheld : Reports(f, e)
                 \/ (\E f \in trimmed' : Reports(f, e)) /\ \A g \in findings' : g.sev >= High
    BY <1>1 DEF Told, Reports
  <2>2. CASE \E f \in withheld : Reports(f, e)
    BY <2>2
  <2>3. CASE (\E f \in trimmed : Reports(f, e)) /\ \A g \in findings : g.sev >= High
    BY <1>1, <1>5, <1>7, <2>3
  <2>4. ASSUME NEW f \in findings, Reports(f, e), f \notin findings'
        PROVE  \/ \E g \in findings' : Reports(g, e)
               \/ f \in trimmed' /\ \A g \in findings' : g.sev >= High
    <3>1. f \in gs \ findings'
      BY <1>4, <2>4 DEF Marks, Reports
    <3>2. ASSUME NEW g \in findings' PROVE g.sev >= High
      <4>1. f.sev \in 1 .. 5 /\ g.sev \in 1 .. 5
        BY <1>1, <1>8 DEF Regular, Info, Critical
      <4>2. g.sev >= f.sev /\ f.sev >= High
        BY <1>7, <2>4, <3>1 DEF Reports
      <4>3. QED
        BY <4>1, <4>2 DEF High
    <3>3. CASE \E g \in findings' : g.rule = f.rule /\ g.subject = f.subject
      <4>1. PICK g \in findings' : g.rule = f.rule /\ g.subject = f.subject
        BY <3>3
      <4>2. g \in gs /\ g.sev >= High
        BY <1>7, <3>2
      <4>3. Reports(g, e)
        BY <1>5, <2>4, <3>1, <4>1, <4>2, TwinCovers
      <4>4. QED
        BY <4>3
    <3>4. CASE ~\E g \in findings' : g.rule = f.rule /\ g.subject = f.subject
      BY <1>1, <3>2, <3>4
    <3>5. QED
      BY <3>3, <3>4
  <2>5. CASE \E f \in findings : Reports(f, e)
    BY <2>4, <2>5
  <2>6. QED
    BY <1>1, <1>11, <2>2, <2>3, <2>5 DEF Told
<1>12. QED
  BY <1>8, <1>10, <1>11

\* The timeline only adds findings of its own rule.
LEMMA CorrelateStep ==
    ASSUME SensitiveInv, Correlate
    PROVE  Apart' /\ \A e \in events : SensitiveChange(e, conf) => Told(e)'
<1>1. /\ stage = "responded" /\ stage' = "done" /\ Apart /\ withheld' = withheld /\ trimmed' = trimmed
      /\ \A e \in events : SensitiveChange(e, conf) => Told(e)
  BY DEF SensitiveInv, Correlate, Advance, Judged
<1>2. PICK new : new = TimelineFindings(findings, conf)
  OBVIOUS
<1>3. findings' = findings \cup new
  BY <1>2 DEF Correlate
<1>4. \A g \in new : g.rule = "TIMELINE-001"
  <2>1. SUFFICES ASSUME NEW g \in new PROVE g.rule = "TIMELINE-001"
    OBVIOUS
  <2>2. PICK k, group : g = EnrichFinding(TimelineFinding(k, group), conf)
    BY <1>2, <2>1, Zenon DEF TimelineFindings, When
  <2>3. PICK f, sev, ev : f = F("TIMELINE-001", "System", sev, <<k[2]>>, ev) /\ sev \in {High, Medium} /\ f = TimelineFinding(k, group)
    <3>1. PICK score : score = Min({300, MapThenSumSet(LAMBDA o : o.unified, group)})
      OBVIOUS
    <3>2. PICK sev : sev = IF score >= 180 THEN High ELSE Medium
      OBVIOUS
    <3>3. TimelineFinding(k, group) = F("TIMELINE-001", "System", sev, <<k[2]>>, {Phase(o) : o \in group} \ {""})
      BY <3>1, <3>2, Zenon DEF TimelineFinding
    <3>4. sev \in {High, Medium}
      BY <3>2
    <3>5. QED
      BY <3>3, <3>4, Zenon
  <2>4. DOMAIN f = FieldNames /\ f.rule = "TIMELINE-001" /\ f.sev = sev
    BY <2>3, NewFindingFields
  <2>5. f.sev \in Info .. Critical
    BY <2>3, <2>4, Severities
  <2>6. QED
    BY <2>2, <2>3, <2>4, <2>5, RatingKeeps
<1>5. "TIMELINE-001" \notin CoveringRules
  BY DEF CoveringRules, UserRules, ResourceRules
<1>6. Apart'
  BY <1>1, <1>3, <1>4, <1>5 DEF Apart
<1>7. ASSUME NEW e \in events, SensitiveChange(e, conf) PROVE Told(e)'
  <2>1. CASE \E f \in findings \cup withheld : Reports(f, e)
    BY <1>1, <1>3, <2>1 DEF Told, Reports
  <2>2. CASE (\E f \in trimmed : Reports(f, e)) /\ \A g \in findings : g.sev >= High
    BY <1>1, <1>3, <1>4, <2>2 DEF Told, Reports
  <2>3. QED
    BY <1>1, <1>7, <2>1, <2>2 DEF Told
<1>8. QED
  BY <1>6, <1>7

\* The input does not change during a scan, and a stage's change of findings
\* is a change of the three sets SensitiveInv speaks of.
LEMMA SensitiveStep ==
    ASSUME SensitiveInv, [Next]_vars
    PROVE  SensitiveInv'
<1>1. InputInv'
  BY InputStep DEF SensitiveInv
<1>2. ASSUME NEW e \in pool, Collect(e) PROVE SensitiveInv'
  BY <1>1, <1>2 DEF SensitiveInv, Collect, Early, Judged
<1>3. CASE Detect
  <2>1. stage' = "detected" /\ trimmed' = {} /\ withheld' = {}
    BY <1>3 DEF SensitiveInv, Detect, Advance, Early
  <2>2. findings' = Detectors(RetainIncremental(events', conf'), conf')
    BY <1>3, Zenon DEF Detect, KeepInput
  <2>3. QED
    BY <1>1, <2>1, <2>2 DEF SensitiveInv, Early, Judged
<1>4. CASE Merge
  <2>1. stage' = "merged" /\ trimmed' = {} /\ withheld' = {} /\ events' = events /\ conf' = conf
    BY <1>4 DEF SensitiveInv, Merge, Advance, Early, KeepInput
  <2>2. /\ Regular(findings') /\ Twins(findings')
        /\ \A e \in events : SensitiveChange(e, conf) => \E f \in findings' : Reports(f, e) /\ Protected(f)
    BY <1>4, MergeStep
  <2>3. Apart' /\ \A e \in events' : SensitiveChange(e, conf') => Told(e)'
    BY <2>1, <2>2 DEF Apart, Told, Reports
  <2>4. (\A e \in events : SensitiveChange(e, conf) => \E f \in findings : Reports(f, e) /\ Protected(f))'
    BY <2>1, <2>2 DEF Reports
  <2>5. (Regular(findings) /\ Twins(findings))'
    BY <2>2 DEF Regular, Twins
  <2>6. QED
    BY <1>1, <2>1, <2>3, <2>4, <2>5 DEF SensitiveInv, Early
<1>5. CASE Rate
  <2>1. stage' = "rated" /\ trimmed' = {} /\ withheld' = {} /\ events' = events /\ conf' = conf
    BY <1>5 DEF SensitiveInv, Rate, Advance, Early, KeepInput
  <2>2. /\ Regular(findings') /\ Twins(findings')
        /\ \A e \in events : SensitiveChange(e, conf) => \E f \in findings' : Reports(f, e)
    BY <1>5, RateStep
  <2>3. Apart' /\ \A e \in events' : SensitiveChange(e, conf') => Told(e)'
    BY <2>1, <2>2 DEF Apart, Told, Reports
  <2>4. (Regular(findings) /\ Twins(findings))'
    BY <2>2 DEF Regular, Twins
  <2>5. QED
    BY <1>1, <2>1, <2>3, <2>4 DEF SensitiveInv, Early
<1>6. CASE Maintain
  <2>1. stage' = "maintained" /\ trimmed' = {} /\ withheld' = {} /\ events' = events /\ conf' = conf
    BY <1>6 DEF SensitiveInv, Maintain, Advance, Early, KeepInput
  <2>2. /\ Regular(findings') /\ Twins(findings')
        /\ \A e \in events : SensitiveChange(e, conf) => \E f \in findings' : Reports(f, e)
    BY <1>6, MaintainStep
  <2>3. Apart' /\ \A e \in events' : SensitiveChange(e, conf') => Told(e)'
    BY <2>1, <2>2 DEF Apart, Told, Reports
  <2>4. (Regular(findings) /\ Twins(findings))'
    BY <2>2 DEF Regular, Twins
  <2>5. QED
    BY <1>1, <2>1, <2>3, <2>4 DEF SensitiveInv, Early
<1>7. CASE Budget
  <2>1. stage' = "budgeted" /\ withheld' = {} /\ events' = events /\ conf' = conf
    BY <1>7 DEF SensitiveInv, Budget, Advance, Early, KeepInput
  <2>2. /\ Regular(findings') /\ Twins(findings') /\ findings' \cap trimmed' = {}
        /\ \A e \in events : SensitiveChange(e, conf) =>
              \/ \E f \in findings' : Reports(f, e)
              \/ (\E f \in trimmed' : Reports(f, e)) /\ \A g \in findings' : g.sev >= High
    BY <1>7, BudgetStep
  <2>3. Apart' /\ \A e \in events' : SensitiveChange(e, conf') => Told(e)'
    BY <2>1, <2>2 DEF Apart, Told, Reports
  <2>4. (Regular(findings) /\ Twins(findings))'
    BY <2>2 DEF Regular, Twins
  <2>5. QED
    BY <1>1, <2>1, <2>3, <2>4 DEF SensitiveInv, Early
<1>8. CASE Suppress
  <2>1. stage' = "suppressed" /\ events' = events /\ conf' = conf
    BY <1>8 DEF Suppress, Advance, KeepInput
  <2>2. Apart' /\ \A e \in events' : SensitiveChange(e, conf') => Told(e)'
    BY <1>8, <2>1, SuppressStep
  <2>3. (Regular(findings) /\ Twins(findings))'
    BY <1>8, SuppressStep DEF Regular, Twins
  <2>4. QED
    BY <1>1, <2>1, <2>2, <2>3 DEF SensitiveInv, Early
<1>9. CASE Fingerprint
  <2>1. stage' = "marked" /\ events' = events /\ conf' = conf
    BY <1>9 DEF Fingerprint, Advance, KeepInput
  <2>2. Apart' /\ \A e \in events' : SensitiveChange(e, conf') => Told(e)'
    BY <1>9, <2>1, FingerprintStep
  <2>3. (Regular(findings) /\ Twins(findings))'
    BY <1>9, FingerprintStep DEF Regular, Twins
  <2>4. QED
    BY <1>1, <2>1, <2>2, <2>3 DEF SensitiveInv, Early
<1>10. CASE Respond
  <2>1. stage' = "responded" /\ events' = events /\ conf' = conf
    BY <1>10, Zenon DEF Respond, Advance, KeepInput
  <2>2. Apart' /\ \A e \in events' : SensitiveChange(e, conf') => Told(e)'
    BY <1>10, <2>1, RespondStep
  <2>3. (Regular(findings) /\ Twins(findings))'
    BY <1>10, RespondStep DEF Regular, Twins
  <2>4. QED
    BY <1>1, <2>1, <2>2, <2>3 DEF SensitiveInv, Early
<1>11. CASE Correlate
  <2>1. stage' = "done" /\ events' = events /\ conf' = conf
    BY <1>11 DEF Correlate, Advance, KeepInput
  <2>2. Apart' /\ \A e \in events' : SensitiveChange(e, conf') => Told(e)'
    BY <1>11, <2>1, CorrelateStep
  <2>3. QED
    BY <1>1, <2>1, <2>2 DEF SensitiveInv, Early, Judged
<1>12. CASE NextScan
  BY <1>1, <1>12 DEF SensitiveInv, NextScan, Advance, Early, Judged
<1>13. CASE UNCHANGED vars
  <2>1. /\ stage' = stage /\ findings' = findings /\ withheld' = withheld /\ trimmed' = trimmed
        /\ events' = events /\ conf' = conf
    BY <1>13 DEF vars
  <2>2. Apart' <=> Apart
    BY <2>1 DEF Apart
  <2>3. \A e : Told(e)' <=> Told(e)
    BY <2>1 DEF Told
  <2>4. QED
    BY <1>1, <2>1, <2>2, <2>3 DEF SensitiveInv
<1>14. QED
  BY <1>2, <1>3, <1>4, <1>5, <1>6, <1>7, <1>8, <1>9, <1>10, <1>11, <1>12, <1>13 DEF Next

\* A change to authorized_keys, an identity file, sudoers or a preload entry,
\* or a new account with uid 0, that the operator did not allow is told of at
\* High or above when a scan ends: after coalesce_related_findings,
\* apply_maintenance_policy, both finding budgets, suppress_findings and the
\* active response, whatever else was found, and whatever the configuration.
THEOREM SensitiveChangesAlwaysReported == Spec => []SensitiveChangeReported
<1>1. Init => SensitiveInv
  BY FS_EmptySet DEF Init, SensitiveInv, InputInv, Early, Judged
<1>2. SensitiveInv /\ [Next]_vars => SensitiveInv'
  BY SensitiveStep
<1>3. SensitiveInv => SensitiveChangeReported
  <2>1. SUFFICES ASSUME SensitiveInv, stage = "done", NEW e \in events, SensitiveChange(e, conf)
                 PROVE  \E f \in findings \cup withheld \cup trimmed :
                           /\ Covers(f, e)
                           /\ f.sev >= High
                           /\ f \in trimmed => \A g \in findings : g.sev >= High \/ g.rule = "TIMELINE-001"
    BY DEF SensitiveChangeReported
  <2>2. Apart /\ Told(e)
    BY <2>1 DEF SensitiveInv
  <2>3. CASE \E f \in findings \cup withheld : Reports(f, e)
    BY <2>2, <2>3 DEF Apart, Reports
  <2>4. CASE (\E f \in trimmed : Reports(f, e)) /\ \A g \in findings : g.sev >= High \/ g.rule = "TIMELINE-001"
    BY <2>4 DEF Reports
  <2>5. QED
    BY <2>2, <2>3, <2>4 DEF Told
<1>4. QED
  BY <1>1, <1>2, <1>3, PTL DEF Spec

--------------------------------------------------------------------------------
(* Well-formed findings and login attacks, stage by stage                     *)

\* A finite set of naturals has an upper bound.
LEMMA FiniteBound ==
    ASSUME NEW S, IsFiniteSet(S), S \subseteq Nat
    PROVE  \E n \in Nat : \A x \in S : x <= n
<1> DEFINE Bounded(r) == \E n \in Nat : \A x \in r : x <= n
           B == {Cardinality(r) : r \in {q \in SUBSET S : ~Bounded(q)}}
<1>1. SUFFICES ASSUME B # {} PROVE FALSE
  <2>1. S \in SUBSET S
    OBVIOUS
  <2>2. QED
    BY <2>1
<1>2. \A r \in SUBSET S : Cardinality(r) \in Nat /\ IsFiniteSet(r)
  BY FS_Subset, FS_CardinalityType
<1>3. B \subseteq Nat
  BY <1>2
<1>4. PICK n \in B : \A k \in B : n <= k
  BY <1>1, <1>3, LeastNatural
<1>5. PICK r \in SUBSET S : ~Bounded(r) /\ n = Cardinality(r)
  BY <1>4
<1>6. r # {}
  BY <1>5
<1>7. PICK x \in r : x \in Nat
  BY <1>6
<1>8. Cardinality(r \ {x}) = n - 1 /\ Cardinality(r \ {x}) \in Nat
  BY <1>2, <1>5, <1>7, FS_RemoveElement, FS_CardinalityType
<1>9. Bounded(r \ {x})
  <2>1. n \in Nat /\ ~(n <= n - 1)
    BY <1>3, <1>4
  <2>2. PICK q : q = r \ {x}
    OBVIOUS
  <2>3. Cardinality(q) \notin B
    BY <1>4, <1>8, <2>1, <2>2
  <2>4. q \in SUBSET S
    BY <2>2
  <2>5. QED
    BY <2>2, <2>3, <2>4
<1>10. PICK m \in Nat : \A y \in r \ {x} : y <= m
  BY <1>9
<1>11. \A y \in r : y <= m + x
  <2>1. SUFFICES ASSUME NEW y \in r PROVE y <= m + x
    OBVIOUS
  <2>2. y \in Nat
    OBVIOUS
  <2>3. CASE y = x
    BY <1>7, <2>3
  <2>4. CASE y # x
    BY <1>7, <1>10, <2>2, <2>4
  <2>5. QED
    BY <2>3, <2>4
<1>12. m + x \in Nat
  BY <1>7
<1>13. QED
  BY <1>5, <1>11, <1>12

\* Listed findings are finitely many.
LEMMA SevenFinite == \A a, b, c, d, r, s, t : IsFiniteSet({a, b, c, d, r, s, t})
<1>1. SUFFICES ASSUME NEW a, NEW b, NEW c, NEW d, NEW r, NEW s, NEW t PROVE IsFiniteSet({a, b, c, d, r, s, t})
  OBVIOUS
<1>2. IsFiniteSet({a, b, c, d, r, s})
  BY SixFinite
<1>3. IsFiniteSet({a, b, c, d, r, s} \cup {t})
  BY <1>2, FS_AddElement
<1>4. {a, b, c, d, r, s, t} = {a, b, c, d, r, s} \cup {t}
  OBVIOUS
<1>5. QED
  BY <1>3, <1>4

\* A scan has finitely many findings about processes.
LEMMA ProcessGroupFinite ==
    ASSUME NEW es, IsFiniteSet(es), NEW group, \A f \in group : Shape(f, es) /\ f.rule \in ProcessRules
    PROVE  IsFiniteSet(group)
<1>1. PICK h : h = [e \in es |-> ProcessReports(Enriched(e, es))]
  OBVIOUS
<1>2. PICK T : T = {h[e] : e \in es}
  OBVIOUS
<1>3. IsFiniteSet(T)
  <2>1. h \in [es -> T] /\ \A y \in T : \E x \in es : y = h[x]
    BY <1>1, <1>2
  <2>2. QED
    BY <1>2, <2>1, FiniteRange
<1>4. \A X \in T : IsFiniteSet(X)
  <2>1. \A p : IsFiniteSet(ProcessReports(p))
    BY SevenFinite, Zenon DEF ProcessReports
  <2>2. QED
    BY <1>1, <1>2, <2>1
<1>5. IsFiniteSet(UNION T)
  BY <1>3, <1>4, FS_UNION
<1>6. group \in SUBSET UNION T
  <2>1. SUFFICES ASSUME NEW f \in group PROVE f \in UNION T
    OBVIOUS
  <2>2. PICK e \in es : f \in ProcessReports(Enriched(e, es))
    BY DEF Shape
  <2>3. f \in h[e] /\ h[e] \in T
    BY <1>1, <1>2, <2>2
  <2>4. QED
    BY <2>3
<1>7. QED
  BY <1>5, <1>6, FS_Subset

\* A finding every stage can work on.
WellFormed(f) ==
    /\ DOMAIN f = FieldNames
    /\ f.sev \in Info .. Critical /\ f.conf \in 1 .. 3 /\ f.drift \in 0 .. 100 /\ f.unified \in 0 .. 100 /\ f.score \in Nat
    /\ f.rule = "SSH-007" => f.subject = <<f.source>>

\* What the detectors report is well formed.
LEMMA ShapeWellFormed ==
    ASSUME NEW f, NEW es, Shape(f, es)
    PROVE  WellFormed(f)
<1>1. /\ DOMAIN f = FieldNames /\ f.sev \in Info .. Critical /\ f.conf = ConfidenceFor(f.sev) /\ f.drift = 0 /\ f.unified = 0
      /\ f.score \in Nat /\ (f.rule = "SSH-007" => f.subject = <<f.source>>)
  BY Zenon DEF Shape
<1>2. f.conf \in 1 .. 3
  BY <1>1 DEF ConfidenceFor
<1>3. 0 \in 0 .. 100
  OBVIOUS
<1>4. QED
  BY <1>1, <1>2, <1>3 DEF WellFormed

\* merge_account_findings hands on a well-formed finding.
LEMMA AccountWellFormed ==
    ASSUME NEW es, IsFiniteSet(es), NEW group, group # {}, \A f \in group : Shape(f, es) /\ AccountDrift(f),
           NEW g, g = MergeAccount(group)
    PROVE  WellFormed(g)
<1>1. PICK p : p = Primary(AccountPriority, group)
  OBVIOUS
<1>2. \A f \in group : f.rule \in UserRules \cup {"FILE-001"}
  BY DEF AccountDrift
<1>3. p \in group
  BY <1>1, <1>2, AccountPrimary
<1>4. WellFormed(p)
  BY <1>3, ShapeWellFormed
<1>5. p.rule # "SSH-007"
  BY <1>2, <1>3, RuleFacts DEF ResourceRules
<1>6. CASE Cardinality(group) = 1
  BY <1>1, <1>4, <1>6 DEF MergeAccount
<1>7. CASE Cardinality(group) # 1
  <2>1. PICK ratings, certainties : ratings = {f.sev : f \in group} /\ certainties = {f.conf : f \in group}
    OBVIOUS
  <2>2. \A f \in group : WellFormed(f)
    BY ShapeWellFormed
  <2>3. ratings \in SUBSET (1 .. 5) /\ ratings # {} /\ certainties \in SUBSET (1 .. 3) /\ certainties # {}
    BY <2>1, <2>2 DEF WellFormed, Info, Critical
  <2>4. Max(ratings) \in 1 .. 5
    BY <2>3, MaxRating
  <2>5. certainties \in SUBSET (1 .. 5)
    BY <2>3
  <2>6. Max(certainties) \in 1 .. 3
    BY <2>3, <2>5, MaxRating
  <2>7. PICK subject, ev : subject = AccountSubject(group) /\ ev = AccountEvidence(p, group)
    OBVIOUS
  <2>8. PICK s, c : s = Max(ratings) /\ c = Max(certainties)
    OBVIOUS
  <2>9. g = [p EXCEPT !.sev = s, !.conf = c, !.subject = subject, !.path = "", !.ev = ev]
    BY <1>1, <1>7, <2>1, <2>7, <2>8, Zenon DEF MergeAccount
  <2>10. s \in Info .. Critical /\ c \in 1 .. 3
    BY <2>4, <2>6, <2>8 DEF Info, Critical
  <2>11. QED
    BY <1>4, <1>5, <2>9, <2>10 DEF WellFormed, FieldNames
<1>8. QED
  BY <1>6, <1>7

\* merge_resource_findings too.
LEMMA ResourceWellFormed ==
    ASSUME NEW es, NEW path, NEW group, AboutResource(group, path, es), NEW g, g = MergeResource(group)
    PROVE  WellFormed(g)
<1>1. PICK p : p = Primary(ResourcePriority, group)
  OBVIOUS
<1>2. p \in group
  BY <1>1, ResourcePrimary DEF AboutResource
<1>3. WellFormed(p) /\ p.rule # "SSH-007"
  BY <1>2, ShapeWellFormed, RuleFacts DEF AboutResource
<1>4. PICK ev : ev = ResourceEvidence(p, group)
  OBVIOUS
<1>5. g = p \/ g = [p EXCEPT !.ev = ev]
  BY <1>1, <1>4 DEF MergeResource
<1>6. QED
  BY <1>3, <1>5 DEF WellFormed, FieldNames

\* merge_process_findings takes the highest of finitely many risk scores.
LEMMA ProcessWellFormed ==
    ASSUME NEW es, IsFiniteSet(es), NEW pid, NEW group, AboutProcess(group, pid, es), NEW g, g = MergeProcess(group)
    PROVE  WellFormed(g) /\ \E f \in group : g.source = f.source
<1>1. PICK p : p = Primary(ProcessPriority, group)
  OBVIOUS
<1>2. p \in group
  BY <1>1, ProcessPrimary DEF AboutProcess
<1>3. WellFormed(p) /\ p.rule # "SSH-007"
  BY <1>2, ShapeWellFormed, RuleFacts DEF AboutProcess
<1>4. PICK scores : scores = {f.score : f \in group}
  OBVIOUS
<1>5. Max(scores) \in Nat
  <2>1. PICK h : h = [f \in group |-> f.score]
    OBVIOUS
  <2>2. IsFiniteSet(group)
    BY ProcessGroupFinite DEF AboutProcess
  <2>3. h \in [group -> scores] /\ \A y \in scores : \E x \in group : y = h[x]
    BY <1>4, <2>1
  <2>4. IsFiniteSet(scores)
    BY <2>2, <2>3, FiniteRange
  <2>5. scores \subseteq Nat /\ scores # {}
    BY <1>2, <1>4, ShapeWellFormed DEF AboutProcess, WellFormed
  <2>6. PICK n \in Nat : \A x \in scores : x <= n
    BY <2>4, <2>5, FiniteBound
  <2>7. scores \subseteq 0 .. n
    BY <2>5, <2>6
  <2>8. QED
    BY <2>5, <2>7, MaxNat
<1>6. PICK score, ev : score = Max(scores) /\ ev = MergedProcessEvidence(group)
  OBVIOUS
<1>7. g = p \/ g = [p EXCEPT !.score = score, !.ev = ev]
  BY <1>1, <1>4, <1>6, Zenon DEF MergeProcess
<1>8. WellFormed(g) /\ g.source = p.source
  BY <1>3, <1>5, <1>6, <1>7, ZenonT(60) DEF WellFormed, FieldNames
<1>9. QED
  BY <1>2, <1>8

\* coalesce_related_findings hands on well-formed findings and names no new
\* source.
LEMMA CoalesceWellFormed ==
    ASSUME NEW es, IsFiniteSet(es), NEW fs, \A f \in fs : Shape(f, es), NEW g \in Coalesce(fs)
    PROVE  WellFormed(g) /\ (Sourceless(g) \/ \E f \in fs : g.source = f.source)
<1>1. CASE g \in fs
  BY <1>1, ShapeWellFormed
<1>2. CASE AccountGroup(fs) # {} /\ g = MergeAccount(AccountGroup(fs))
  <2>1. \A f \in AccountGroup(fs) : Shape(f, es) /\ AccountDrift(f)
    BY DEF AccountGroup
  <2>2. QED
    BY <1>2, <2>1, MergedAccount, AccountWellFormed
<1>3. ASSUME NEW path, ResourceGroup(fs, path) # {}, g = MergeResource(ResourceGroup(fs, path))
      PROVE  WellFormed(g) /\ Sourceless(g)
  <2>1. AboutResource(ResourceGroup(fs, path), path, es)
    BY <1>3 DEF AboutResource, ResourceGroup
  <2>2. QED
    BY <1>3, <2>1, MergedResource, ResourceWellFormed
<1>4. ASSUME NEW pid, ProcessGroup(fs, pid) # {}, g = MergeProcess(ProcessGroup(fs, pid))
      PROVE  WellFormed(g) /\ \E f \in fs : g.source = f.source
  <2>1. AboutProcess(ProcessGroup(fs, pid), pid, es)
    BY <1>4 DEF AboutProcess, ProcessGroup
  <2>2. ProcessGroup(fs, pid) \subseteq fs
    BY DEF ProcessGroup
  <2>3. QED
    BY <1>4, <2>1, <2>2, ProcessWellFormed
<1>5. QED
  BY <1>1, <1>2, <1>3, <1>4, CoalesceOrigin

\* Merging keeps severities: the rating of account findings is their maximum,
\* resource findings are all High, and the process rules rated Critical come
\* first.
LEMMA CoalesceSevere ==
    ASSUME NEW es, IsFiniteSet(es), NEW fs, \A f \in fs : Shape(f, es), NEW f \in fs
    PROVE  \E g \in Coalesce(fs) : Related(f, g) /\ g.sev >= f.sev
<1>1. f.sev \in Info .. Critical /\ f.sev >= f.sev
  BY ShapeWellFormed DEF WellFormed, Info, Critical
<1>2. CASE f \in Coalesce(fs)
  BY <1>1, <1>2 DEF Related
<1>3. CASE f \in AccountGroup(fs) /\ MergeAccount(AccountGroup(fs)) \in Coalesce(fs)
  <2>1. PICK g : g = MergeAccount(AccountGroup(fs))
    OBVIOUS
  <2>2. (\A o \in AccountGroup(fs) : Shape(o, es) /\ AccountDrift(o)) /\ AccountGroup(fs) # {}
    BY <1>3 DEF AccountGroup
  <2>3. g.sev >= f.sev /\ g.rule \in UserRules \cup {"FILE-001"}
    BY <1>3, <2>1, <2>2, MergedAccount
  <2>4. ToSet(AccountPriority) = UserRules \cup {"FILE-001"}
    BY DEF ToSet, AccountPriority, UserRules
  <2>5. AccountDrift(f)
    BY <1>3, <2>2
  <2>6. QED
    BY <1>3, <2>1, <2>3, <2>4, <2>5 DEF Related
<1>4. CASE f \in ResourceGroup(fs, f.path) /\ MergeResource(ResourceGroup(fs, f.path)) \in Coalesce(fs)
  <2>1. PICK g : g = MergeResource(ResourceGroup(fs, f.path))
    OBVIOUS
  <2>2. AboutResource(ResourceGroup(fs, f.path), f.path, es)
    BY <1>4 DEF AboutResource, ResourceGroup
  <2>3. g.sev = High /\ g.rule \in ResourceRules /\ g.path = f.path
    BY <2>1, <2>2, MergedResource
  <2>4. f.rule \in ResourceRules /\ f.sev = High
    BY <1>4 DEF ResourceGroup, Shape
  <2>5. QED
    BY <1>1, <1>4, <2>1, <2>3, <2>4 DEF Related
<1>5. CASE f \in ProcessGroup(fs, f.pid) /\ MergeProcess(ProcessGroup(fs, f.pid)) \in Coalesce(fs)
  <2>1. PICK g : g = MergeProcess(ProcessGroup(fs, f.pid))
    OBVIOUS
  <2>2. AboutProcess(ProcessGroup(fs, f.pid), f.pid, es)
    BY <1>5 DEF AboutProcess, ProcessGroup
  <2>3. g.sev >= f.sev /\ g.rule \in ProcessRules /\ g.pid = f.pid
    BY <1>5, <2>1, <2>2, MergedProcess
  <2>4. f.rule \in ProcessRules
    BY <1>5 DEF ProcessGroup
  <2>5. QED
    BY <1>5, <2>1, <2>3, <2>4 DEF Related
<1>6. QED
  BY <1>2, <1>3, <1>4, <1>5, CoalesceResult

\* The drift score is a percentage.
LEMMA DriftScores ==
    ASSUME NEW f
    PROVE  DriftScore(f) \in 0 .. 100
<1> DEFINE up(w, b2, b3, b4, b5, b6, b7, b8, b9) ==
              {<<w, "base", TRUE>>, <<35, "protected", b2>>, <<25, "ld_preload", b3>>, <<12, "public", b4>>,
               <<12, "owner", b5>>, <<18, "semantic", b6>>, <<25, "risky", b7>>, <<25, "risk_score", b8>>,
               <<15, "risk", b9>>}
           down(b1, b2, b3, b4, b5) ==
              {<<25, "package", b1>>, <<18, "private", b2>>, <<40, "udp", b3>>, <<30, "managed", b4>>,
               <<8, "firewall", b5>>}
           raised == SumScore(up(DriftBase(f.cat), Protected(f), "ld_preload" \in f.ev,
                                 f.ev \cap {"public_addr", "public_exposure"} # {}, "owner_changed" \in f.ev,
                                 "semantic_delta" \in f.ev, "risky_semantic" \in f.ev, f.score >= 70, "risk" \in f.ev))
           lowered == SumScore(down("package_activity" \in f.ev, "not_public" \in f.ev, "dynamic_udp_listener" \in f.ev,
                                    f.rule = "NET-001" /\ "managed_service_listener" \in f.ev, "firewall_status" \in f.ev))
<1>1. DriftScore(f) = IF Protected(f) THEN Min({100, raised})
                      ELSE IF Min({100, raised}) > lowered THEN Min({100, raised}) - lowered ELSE 0
  BY ZenonT(30) DEF DriftScore
<1>2. \A w, b2, b3, b4, b5, b6, b7, b8, b9 : IsFiniteSet(up(w, b2, b3, b4, b5, b6, b7, b8, b9))
  BY NineFinite, ZenonT(30)
<1>3. ASSUME NEW w \in Nat, NEW b2, NEW b3, NEW b4, NEW b5, NEW b6, NEW b7, NEW b8, NEW b9
      PROVE  \A t \in up(w, b2, b3, b4, b5, b6, b7, b8, b9) : t[1] \in Nat
  <2>1. PICK first : first = <<w, "base", TRUE>>
    OBVIOUS
  <2>2. first[1] \in Nat
    BY <1>3, <2>1
  <2> DEFINE rest == {<<35, "protected", b2>>, <<25, "ld_preload", b3>>, <<12, "public", b4>>,
                      <<12, "owner", b5>>, <<18, "semantic", b6>>, <<25, "risky", b7>>, <<25, "risk_score", b8>>,
                      <<15, "risk", b9>>}
  <2>3. \A t \in rest : t[1] \in Nat
    OBVIOUS
  <2>4. \A t \in up(w, b2, b3, b4, b5, b6, b7, b8, b9) : t = first \/ t \in rest
    BY <2>1, Zenon
  <2> HIDE DEF up, rest
  <2>5. QED
    BY <2>2, <2>3, <2>4
<1>4. \A b1, b2, b3, b4, b5 : IsFiniteSet(down(b1, b2, b3, b4, b5))
  BY FiveFinite, ZenonT(30)
<1>5. \A b1, b2, b3, b4, b5 : \A t \in down(b1, b2, b3, b4, b5) : t[1] \in Nat
  OBVIOUS
<1>6. DriftBase(f.cat) \in Nat
  BY DEF DriftBase
<1> HIDE DEF up, down
<1>7. raised \in Nat
  BY <1>2, <1>3, <1>6, SumScoreNat
<1>8. lowered \in Nat
  BY <1>4, <1>5, SumScoreNat
<1> HIDE DEF raised, lowered
<1>9. Min({100, raised}) \in 0 .. 100
  BY <1>7, Capped
<1>10. QED
  BY <1>1, <1>8, <1>9

\* So is the evidence score.
LEMMA EvidenceScores ==
    ASSUME NEW f
    PROVE  EvidenceScore(f) \in 0 .. 100
<1> DEFINE up(v, s, b2, b3, b4, b5, b6, b7, b8) ==
              {<<20, "base", TRUE>>, <<8, "source_ip", b2>>, <<18, "anti_forensics", b3>>,
               <<22, "risky_log_target", b4>>, <<12, "execution_intent", b5>>, <<v, "volume", b6>>,
               <<s, "detector_score", b7>>, <<20, "threat_intel", b8>>}
           down(b1, b2) == {<<12, "package", b1>>, <<20, "proxy", b2>>}
           raised == SumScore(up(VolumeWeight(f.count), ScoreWeight(f.score), SourceIp(f), "log_file_missing" \in f.ev,
                                 "risky_symlink" \in f.ev, "execution_intent" \in f.ev, f.count > 0, f.score > 0,
                                 "threat_intel" \in f.ev))
           lowered == SumScore(down("package_activity" \in f.ev, Unresolved(f)))
<1>1. EvidenceScore(f) = IF Min({100, raised}) > lowered THEN Min({100, raised}) - lowered ELSE 0
  BY ZenonT(30) DEF EvidenceScore
<1>2. \A v, s, b2, b3, b4, b5, b6, b7, b8 : IsFiniteSet(up(v, s, b2, b3, b4, b5, b6, b7, b8))
  BY EightFinite, ZenonT(30)
<1>3. ASSUME NEW v \in Nat, NEW s \in Nat, NEW b2, NEW b3, NEW b4, NEW b5, NEW b6, NEW b7, NEW b8
      PROVE  \A t \in up(v, s, b2, b3, b4, b5, b6, b7, b8) : t[1] \in Nat
  <2>1. PICK volume, detector, base : /\ volume = <<v, "volume", b6>> /\ detector = <<s, "detector_score", b7>>
                                      /\ base = <<20, "base", TRUE>>
    OBVIOUS
  <2>2. volume[1] \in Nat /\ detector[1] \in Nat /\ base[1] \in Nat
    BY <1>3, <2>1
  <2> DEFINE rest == {<<8, "source_ip", b2>>, <<18, "anti_forensics", b3>>,
                      <<22, "risky_log_target", b4>>, <<12, "execution_intent", b5>>, <<20, "threat_intel", b8>>}
  <2>3. \A t \in rest : t[1] \in Nat
    OBVIOUS
  <2>4. \A t \in up(v, s, b2, b3, b4, b5, b6, b7, b8) : t = volume \/ t = detector \/ t = base \/ t \in rest
    BY <2>1, Zenon
  <2> HIDE DEF up, rest
  <2>5. QED
    BY <2>2, <2>3, <2>4
<1>4. \A b1, b2 : IsFiniteSet(down(b1, b2))
  BY PairFinite, ZenonT(30)
<1>5. \A b1, b2 : \A t \in down(b1, b2) : t[1] \in Nat
  OBVIOUS
<1>6. VolumeWeight(f.count) \in Nat /\ ScoreWeight(f.score) \in Nat
  BY DEF VolumeWeight, ScoreWeight
<1> HIDE DEF up, down
<1>7. raised \in Nat
  BY <1>2, <1>3, <1>6, SumScoreNat
<1>8. lowered \in Nat
  BY <1>4, <1>5, SumScoreNat
<1> HIDE DEF raised, lowered
<1>9. Min({100, raised}) \in 0 .. 100
  BY <1>7, Capped
<1>10. QED
  BY <1>1, <1>8, <1>9

\* And the unified score, for weights that are unsigned.
LEMMA UnifiedScores ==
    ASSUME NEW f, WellFormed(f), NEW c, ConfigOK(c)
    PROVE  UnifiedScore(f, c) \in 0 .. 100
<1>1. PICK base : base = Max({SeverityScore(f.sev), ConfidenceScore(f.conf), Min({100, f.score}), f.drift, EvidenceScore(f)})
  OBVIOUS
<1>2. base \in 0 .. 100
  <2>1. f.sev \in 1 .. 5 /\ f.conf \in 1 .. 3 /\ f.score \in Nat /\ f.drift \in 0 .. 100
    BY DEF WellFormed, Info, Critical
  <2>2. SeverityScore(f.sev) \in 0 .. 100
    <3>1. f.sev \in {1, 2, 3, 4, 5}
      BY <2>1
    <3>2. \A n \in {1, 2, 3, 4, 5} : SeverityScore(n) \in 0 .. 100
      BY DEF SeverityScore
    <3>3. QED
      BY <3>1, <3>2
  <2>3. ConfidenceScore(f.conf) \in 0 .. 100
    <3>1. f.conf \in {1, 2, 3}
      BY <2>1
    <3>2. \A n \in {1, 2, 3} : ConfidenceScore(n) \in 0 .. 100
      BY DEF ConfidenceScore
    <3>3. QED
      BY <3>1, <3>2
  <2>4. Min({100, f.score}) \in 0 .. 100
    BY <2>1, Capped
  <2>5. EvidenceScore(f) \in 0 .. 100
    BY EvidenceScores
  <2>6. PICK S : S = {SeverityScore(f.sev), ConfidenceScore(f.conf), Min({100, f.score}), f.drift, EvidenceScore(f)}
    OBVIOUS
  <2>7. S \subseteq 0 .. 100 /\ S # {}
    BY <2>1, <2>2, <2>3, <2>4, <2>5, <2>6
  <2>8. QED
    BY <1>1, <2>6, <2>7, MaxNat, 100 \in Nat
<1>3. PICK bonus : bonus = SumScore({<<c.threat_intel_bonus, "threat_intel", "threat_intel" \in f.ev>>,
                                     <<c.active_response_bonus, "active_response", "blocked" \in f.ev>>})
  OBVIOUS
<1>4. bonus \in Nat
  <2>1. PICK signals : signals = {<<c.threat_intel_bonus, "threat_intel", "threat_intel" \in f.ev>>,
                                  <<c.active_response_bonus, "active_response", "blocked" \in f.ev>>}
    OBVIOUS
  <2>2. IsFiniteSet(signals)
    BY <2>1, PairFinite, Zenon
  <2>3. \A t \in signals : t[1] \in Nat
    BY <2>1 DEF ConfigOK
  <2>4. QED
    BY <1>3, <2>1, <2>2, <2>3, SumScoreNat
<1>5. PICK raised : raised = Min({100, base + bonus})
  OBVIOUS
<1>6. raised \in 0 .. 100
  BY <1>2, <1>4, <1>5, Capped
<1>7. PICK settled : settled = IF "state_drift" \notin f.ev THEN raised
                               ELSE IF raised > c.state_drift_deduction THEN raised - c.state_drift_deduction ELSE 0
  OBVIOUS
<1>8. settled \in 0 .. 100
  BY <1>6, <1>7, SMTT(30) DEF ConfigOK
<1>9. PICK extra : extra = IF f.cat = "Rootkit" THEN c.rootkit_bonus ELSE 0
  OBVIOUS
<1>10. extra \in Nat
  BY <1>9 DEF ConfigOK
<1>11. UnifiedScore(f, c) = Min({100, settled + extra})
  BY <1>1, <1>3, <1>5, <1>7, <1>9, ZenonT(90) DEF UnifiedScore
<1>12. settled + extra \in Nat
  BY <1>8, <1>10
<1>13. QED
  BY <1>11, <1>12, Capped

\* Rating keeps a finding well formed and what it is about.
LEMMA RatingWellFormed ==
    ASSUME NEW f, WellFormed(f), NEW c, ConfigOK(c), NEW g, g = EnrichFinding(f, c)
    PROVE  WellFormed(g) /\ g.rule = f.rule /\ g.subject = f.subject /\ g.source = f.source
<1>1. PICK a : a = AdjustDrift(f)
  OBVIOUS
<1>2. PICK b : b = MatchIntel(a, c)
  OBVIOUS
<1>3. PICK score, low, rating, certainty :
         /\ score = DriftScore(f) /\ rating = Min({f.sev, Medium}) /\ certainty = Min({f.conf, 2}) /\ low = Low
  OBVIOUS
<1>4. rating \in Info .. Critical /\ low \in Info .. Critical /\ certainty \in 1 .. 3 /\ score \in 0 .. 100
  <2>1. \E x \in {f.sev, 3} : \A y \in {f.sev, 3} : x =< y
    BY DEF WellFormed, Info, Critical
  <2>2. rating \in {f.sev, 3}
    BY <1>3, <2>1 DEF Min, Medium
  <2>3. \E x \in {f.conf, 2} : \A y \in {f.conf, 2} : x =< y
    BY DEF WellFormed
  <2>4. certainty \in {f.conf, 2}
    BY <1>3, <2>3 DEF Min
  <2>5. score \in 0 .. 100
    BY <1>3, DriftScores
  <2>6. QED
    BY <1>3, <2>2, <2>4, <2>5 DEF WellFormed, Info, Low, Critical
<1>5. \/ a = f \/ a = [f EXCEPT !.drift = score]
      \/ a = [f EXCEPT !.drift = score, !.sev = low, !.conf = 1]
      \/ a = [f EXCEPT !.drift = score, !.sev = rating, !.conf = certainty]
  BY <1>1, <1>3, Zenon DEF AdjustDrift
<1>6. WellFormed(a) /\ a.rule = f.rule /\ a.subject = f.subject /\ a.source = f.source
  <2>1. \/ a = f
        \/ \E sev \in Info .. Critical, certain \in 1 .. 3 : a = [f EXCEPT !.drift = score, !.sev = sev, !.conf = certain]
    <3>1. CASE a = [f EXCEPT !.drift = score]
      <4>1. a = [f EXCEPT !.drift = score, !.sev = f.sev, !.conf = f.conf]
        BY <3>1 DEF WellFormed, FieldNames
      <4>2. QED
        BY <4>1 DEF WellFormed
    <3>2. 1 \in 1 .. 3
      OBVIOUS
    <3>3. QED
      BY <1>4, <1>5, <3>1, <3>2
  <2>2. QED
    BY <1>4, <2>1, ZenonT(60) DEF WellFormed, FieldNames
<1>7. b = a \/ b = [a EXCEPT !.ev = @ \cup {"threat_intel"}]
  BY <1>2 DEF MatchIntel
<1>8. WellFormed(b) /\ b.rule = f.rule /\ b.subject = f.subject /\ b.source = f.source
  BY <1>6, <1>7 DEF WellFormed, FieldNames
<1>9. PICK unified : unified = UnifiedScore(b, c)
  OBVIOUS
<1>10. unified \in 0 .. 100
  BY <1>8, <1>9, UnifiedScores
<1>11. g = [b EXCEPT !.unified = unified]
  BY <1>1, <1>2, <1>9, Zenon DEF EnrichFinding
<1>12. QED
  BY <1>8, <1>10, <1>11 DEF WellFormed, FieldNames

\* A new finding about no remote address is well formed.
LEMMA NewWellFormed ==
    ASSUME NEW rule, rule # "SSH-007", NEW cat, NEW sev \in Info .. Critical, NEW subject, NEW ev,
           NEW f, f = F(rule, cat, sev, subject, ev)
    PROVE  WellFormed(f) /\ Sourceless(f) /\ f.rule = rule
<1>1. Built(f, rule, sev, subject, "", "", ev)
  BY NewFinding, Zenon
<1>2. /\ DOMAIN f = FieldNames /\ f.rule = rule /\ f.sev = sev /\ f.conf = ConfidenceFor(sev) /\ f.drift = 0 /\ f.unified = 0
      /\ f.score \in Nat
  BY <1>1, Zenon DEF Built
<1>3. Sourceless(f)
  BY <1>1, Zenon DEF Built, Sourceless
<1>4. f.conf \in 1 .. 3 /\ f.drift \in 0 .. 100 /\ f.unified \in 0 .. 100
  BY <1>2 DEF ConfidenceFor
<1>5. QED
  BY <1>2, <1>3, <1>4 DEF WellFormed

\* The timeline adds well-formed findings about no remote address.
LEMMA TimelineWellFormed ==
    ASSUME NEW fs, NEW c, ConfigOK(c), NEW g \in TimelineFindings(fs, c)
    PROVE  WellFormed(g) /\ Sourceless(g)
<1>1. PICK k, group : g = EnrichFinding(TimelineFinding(k, group), c)
  BY Zenon DEF TimelineFindings, When
<1>2. PICK score : score = Min({300, MapThenSumSet(LAMBDA o : o.unified, group)})
  OBVIOUS
<1>3. PICK sev : sev = IF score >= 180 THEN High ELSE Medium
  OBVIOUS
<1>4. PICK f : f = TimelineFinding(k, group)
  OBVIOUS
<1>5. f = F("TIMELINE-001", "System", sev, <<k[2]>>, {Phase(o) : o \in group} \ {""})
  BY <1>2, <1>3, <1>4, Zenon DEF TimelineFinding
<1>6. PICK ev : f = F("TIMELINE-001", "System", sev, <<k[2]>>, ev)
  BY <1>5, Zenon
<1>7. sev \in Info .. Critical
  BY <1>3, Severities
<1>8. WellFormed(f) /\ Sourceless(f)
  <2>1. "TIMELINE-001" # "SSH-007"
    OBVIOUS
  <2>2. QED
    BY <1>6, <1>7, <2>1, NewWellFormed
<1>9. WellFormed(g) /\ g.source = f.source
  BY <1>1, <1>4, <1>8, RatingWellFormed
<1>10. QED
  BY <1>8, <1>9, Zenon DEF Sourceless

\* The budget only leaves findings out.
LEMMA BudgetSubset ==
    ASSUME NEW fs, NEW c, NEW K \in WithinBudget(fs, c)
    PROVE  K \subseteq fs
  BY DEF WithinBudget, kSubset

\* More evidence on a finding changes nothing else of it.
LEMMA MarkWellFormed ==
    ASSUME NEW f, WellFormed(f), NEW X, NEW g, g = f \/ g = [f EXCEPT !.ev = @ \cup X]
    PROVE  WellFormed(g) /\ g.rule = f.rule /\ g.source = f.source /\ g.subject = f.subject
  BY DEF WellFormed, FieldNames

\* What a stage that rates or marks findings one by one keeps of them.
Follows(fs, gs) ==
    /\ \A g \in gs : WellFormed(g) /\ (Sourceless(g) \/ \E f \in fs : g.source = f.source)
    /\ \A f \in fs : \E g \in gs : g.rule = f.rule /\ g.source = f.source /\ g.subject = f.subject

\* annotate_active_response follows the findings.
LEMMA AnnotatedFollows ==
    ASSUME NEW fs, \A f \in fs : WellFormed(f), NEW planned, NEW blocked, NEW c
    PROVE  Follows(fs, Annotated(fs, planned, blocked, c))
<1>1. PICK gs : gs = Annotated(fs, planned, blocked, c)
  OBVIOUS
<1>2. CASE Cardinality(blocked) > c.notification_detail_limit
  <2>1. PICK s : s = BlockedSummary
    OBVIOUS
  <2>2. WellFormed(s) /\ Sourceless(s)
    <3>1. High \in Info .. Critical /\ "ACTIVE-001" # "SSH-007"
      BY Severities
    <3>2. s = F("ACTIVE-001", "System", High, <<"active-response">>, {"blocked"})
      BY <2>1 DEF BlockedSummary
    <3>3. QED
      BY <3>1, <3>2, NewWellFormed
  <2>3. gs = fs \cup {s}
    BY <1>1, <1>2, <2>1, Zenon DEF Annotated, BlockedSummary
  <2>4. QED
    BY <1>1, <2>2, <2>3 DEF Follows
<1>3. CASE ~(Cardinality(blocked) > c.notification_detail_limit)
  <2> DEFINE mark(f) == IF \E b \in planned : b.ip = f.source THEN [f EXCEPT !.ev = @ \cup {"blocked"}] ELSE f
  <2>1. gs = {mark(f) : f \in fs}
    BY <1>1, <1>3 DEF Annotated
  <2>2. ASSUME NEW f \in fs, NEW g, g = mark(f)
        PROVE  WellFormed(g) /\ g.rule = f.rule /\ g.source = f.source /\ g.subject = f.subject
    <3>1. g = f \/ g = [f EXCEPT !.ev = @ \cup {"blocked"}]
      BY <2>2
    <3>2. QED
      BY <3>1, MarkWellFormed
  <2> HIDE DEF mark
  <2>3. QED
    BY <1>1, <2>1, <2>2 DEF Follows
<1>4. QED
  BY <1>2, <1>3

\* So does marking by attack fingerprints.
LEMMA FingerprintFollows ==
    ASSUME Fingerprint, \A f \in findings : WellFormed(f)
    PROVE  Follows(findings, findings')
<1>1. PICK verdict : findings' = {IF f.source = "" THEN f ELSE [f EXCEPT !.ev = @ \cup verdict[f.source]] : f \in findings}
  BY Zenon DEF Fingerprint
<1> DEFINE mark(f) == IF f.source = "" THEN f ELSE [f EXCEPT !.ev = @ \cup verdict[f.source]]
<1>2. findings' = {mark(f) : f \in findings}
  BY <1>1, Zenon
<1>3. ASSUME NEW f \in findings, NEW g, g = mark(f)
      PROVE  WellFormed(g) /\ g.rule = f.rule /\ g.source = f.source /\ g.subject = f.subject
  <2>1. PICK X : X = verdict[f.source]
    OBVIOUS
  <2>2. g = f \/ g = [f EXCEPT !.ev = @ \cup X]
    BY <1>3, <2>1, Zenon
  <2>3. QED
    BY <2>2, MarkWellFormed
<1> HIDE DEF mark
<1>4. QED
  BY <1>2, <1>3 DEF Follows

\* And rating.
LEMMA RateFollows ==
    ASSUME Rate, ConfigOK(conf), \A f \in findings : WellFormed(f)
    PROVE  Follows(findings, findings')
<1>1. findings' = {EnrichFinding(f, conf) : f \in findings}
  BY DEF Rate
<1>2. \A f \in findings : /\ WellFormed(EnrichFinding(f, conf)) /\ EnrichFinding(f, conf).rule = f.rule
                          /\ EnrichFinding(f, conf).subject = f.subject /\ EnrichFinding(f, conf).source = f.source
  BY RatingWellFormed
<1>3. QED
  BY <1>1, <1>2 DEF Follows

\* Every source a set of findings names was named by a detector.
Traced(fs, ds) == \A f \in fs : Sourceless(f) \/ \E d \in ds : d.source = f.source

\* A source that logged in after too many failures.
LoginAttack(ip, es, c) ==
    /\ \E e \in Logins(es, c) : e.outcome = "success" /\ e.ip = ip
    /\ Failures(es, ip, c) >= c.failed_login_threshold

\* A finding says so.
Accuses(fs, ip) == \E f \in fs : f.rule = "SSH-007" /\ f.source = ip

\* The inductive invariant, next to SensitiveInv: well-formed findings whose
\* sources the detectors named, and a report of every login attack.
SoundInv ==
    /\ stage \in Stages
    /\ \A f \in findings \cup hidden \cup trimmed \cup withheld : WellFormed(f)
    /\ Traced(findings, detected)
    /\ \A b \in candidates : \E d \in detected : d.source = b.ip
    /\ stage = "collect" => candidates = {}
    /\ stage = "detected" => detected = findings
    /\ CoalesceKeepsSeverity
    /\ stage # "collect" => \A ip : LoginAttack(ip, events, conf) => Accuses(findings \cup withheld \cup trimmed, ip)

\* detect_ssh_events reports every login attack, in incremental mode too.
LEMMA LoginAttackDetected ==
    ASSUME NEW es, NEW c, NEW ip, LoginAttack(ip, es, c)
    PROVE  Accuses(Detectors(RetainIncremental(es, c), c), ip)
<1>1. PICK R : R = RetainIncremental(es, c)
  OBVIOUS
<1>2. SshFindings(R, c) = SshFindings(es, c)
  BY <1>1, RetainedEvents, SameSsh
<1>3. PICK f : f = BruteForceSuccess(ip, Failures(es, ip, c))
  OBVIOUS
<1>4. f \in SshFindings(es, c)
  BY <1>3 DEF LoginAttack, SshFindings
<1>5. f.rule = "SSH-007" /\ f.source = ip
  <2>1. PICK g : g = SourceFinding("SSH-007", "Ssh", High, <<ip>>, ip)
    OBVIOUS
  <2>2. Built(g, "SSH-007", High, <<ip>>, "", ip, {})
    BY <2>1, NewSourceFinding
  <2>3. QED
    BY <1>3, <2>1, <2>2 DEF BruteForceSuccess, Built, FieldNames
<1>6. f \in Detectors(R, c)
  BY <1>2, <1>4 DEF Detectors, BuiltinFindings, HostFindings
<1>7. QED
  BY <1>1, <1>5, <1>6 DEF Accuses

\* A later stage keeps it when it does three things.
LEMMA StageSound ==
    ASSUME SoundInv, stage # "collect", stage' \in Stages \ {"collect", "detected", "merged"},
           events' = events, conf' = conf, detected' = detected,
           \A f \in findings' \cup hidden' \cup trimmed' \cup withheld' : WellFormed(f),
           Traced(findings', detected),
           \A b \in candidates' : \E d \in detected : d.source = b.ip,
           \A ip : Accuses(findings \cup withheld \cup trimmed, ip) => Accuses(findings' \cup withheld' \cup trimmed', ip)
    PROVE  SoundInv'
<1>1. CoalesceKeepsSeverity'
  BY DEF CoalesceKeepsSeverity
<1>2. (\A ip : LoginAttack(ip, events, conf) => Accuses(findings \cup withheld \cup trimmed, ip))'
  BY DEF SoundInv, Accuses
<1>3. Traced(findings, detected)'
  BY DEF Traced
<1>4. (\A f \in findings \cup hidden \cup trimmed \cup withheld : WellFormed(f))'
  BY DEF WellFormed
<1>5. QED
  BY <1>1, <1>2, <1>3, <1>4 DEF SoundInv, Stages

\* Findings that follow traced ones are traced.
LEMMA FollowsTraced ==
    ASSUME NEW fs, NEW gs, NEW ds, Follows(fs, gs), Traced(fs, ds)
    PROVE  Traced(gs, ds)
<1>1. ASSUME NEW f, NEW g, g.source = f.source, Sourceless(f) PROVE Sourceless(g)
  BY <1>1, Zenon DEF Sourceless
<1>2. QED
  BY <1>1 DEF Follows, Traced

\* The detectors establish it.
LEMMA DetectSound ==
    ASSUME SensitiveInv, SoundInv, Detect
    PROVE  SoundInv'
<1>1. PICK R : R = RetainIncremental(events, conf)
  OBVIOUS
<1>2. /\ stage = "collect" /\ stage' = "detected" /\ detected' = Detectors(R, conf) /\ findings' = detected'
      /\ hidden' = hidden /\ trimmed' = trimmed /\ withheld' = withheld /\ candidates' = candidates
      /\ events' = events /\ conf' = conf
  BY <1>1, Zenon DEF Detect, Advance, KeepInput
<1>3. ConfigOK(conf)
  BY InputFacts DEF SensitiveInv
<1>4. \A f \in findings' : WellFormed(f)
  BY <1>2, <1>3, DetectedShape, ShapeWellFormed
<1>5. (\A f \in findings \cup hidden \cup trimmed \cup withheld : WellFormed(f))'
  BY <1>2, <1>4 DEF SoundInv, WellFormed
<1>6. \A ip : LoginAttack(ip, events, conf) => Accuses(findings', ip)
  BY <1>1, <1>2, LoginAttackDetected
<1>7. (\A ip : LoginAttack(ip, events, conf) => Accuses(findings \cup withheld \cup trimmed, ip))'
  BY <1>2, <1>6 DEF Accuses
<1>8. Traced(findings, detected)'
  BY <1>2 DEF Traced
<1>9. CoalesceKeepsSeverity' /\ candidates' = {}
  BY <1>2 DEF CoalesceKeepsSeverity, SoundInv
<1>10. QED
  BY <1>2, <1>5, <1>7, <1>8, <1>9 DEF SoundInv, Stages

\* coalesce_related_findings keeps severities and login attacks.
LEMMA MergeSound ==
    ASSUME SensitiveInv, SoundInv, Merge
    PROVE  SoundInv'
<1>1. PICK R : R = RetainIncremental(events, conf)
  OBVIOUS
<1>2. /\ stage = "detected" /\ stage' = "merged" /\ detected' = detected /\ findings' = Coalesce(findings)
      /\ hidden' = hidden /\ trimmed' = trimmed /\ withheld' = withheld /\ candidates' = candidates
      /\ events' = events /\ conf' = conf /\ findings = Detectors(R, conf) /\ detected = findings
  BY <1>1 DEF Merge, Advance, KeepInput, SensitiveInv, SoundInv
<1>3. ConfigOK(conf)
  BY InputFacts DEF SensitiveInv
<1>4. IsFiniteSet(R)
  <2>1. R \in SUBSET events
    BY <1>1 DEF RetainIncremental
  <2>2. QED
    BY <2>1, FS_Subset DEF SensitiveInv, InputInv
<1>5. \A f \in findings : Shape(f, R)
  BY <1>2, <1>3, DetectedShape
<1>6. \A g \in findings' : WellFormed(g) /\ (Sourceless(g) \/ \E f \in findings : g.source = f.source)
  BY <1>2, <1>4, <1>5, CoalesceWellFormed
<1>7. (\A f \in findings \cup hidden \cup trimmed \cup withheld : WellFormed(f))'
  BY <1>2, <1>6 DEF SoundInv, WellFormed
<1>8. Traced(findings, detected)'
  BY <1>2, <1>6 DEF Traced
<1>9. \A f \in findings : \E g \in findings' : Related(f, g) /\ g.sev >= f.sev
  BY <1>2, <1>4, <1>5, CoalesceSevere
<1>10. CoalesceKeepsSeverity'
  BY <1>2, <1>9 DEF CoalesceKeepsSeverity, Related
<1>11. ASSUME NEW ip, Accuses(findings \cup withheld \cup trimmed, ip)
       PROVE  Accuses(findings' \cup withheld' \cup trimmed', ip)
  <2>1. PICK f \in findings \cup withheld \cup trimmed : f.rule = "SSH-007" /\ f.source = ip
    BY <1>11 DEF Accuses
  <2>2. CASE f \in findings
    <3>1. f.rule \notin ResourceRules \cup ProcessRules /\ ~AccountDrift(f)
      BY <2>1, RuleFacts DEF AccountDrift
    <3>2. f \in findings'
      BY <1>2, <2>2, <3>1, CoalesceResult DEF AccountGroup, ResourceGroup, ProcessGroup
    <3>3. QED
      BY <2>1, <3>2 DEF Accuses
  <2>3. QED
    BY <1>2, <2>1, <2>2 DEF Accuses
<1>12. (\A ip : LoginAttack(ip, events, conf) => Accuses(findings \cup withheld \cup trimmed, ip))'
  BY <1>2, <1>11 DEF SoundInv, Accuses
<1>13. QED
  BY <1>2, <1>7, <1>8, <1>10, <1>12 DEF SoundInv, Stages

\* Ratings change nothing a report of a login attack is known by.
LEMMA RateSound ==
    ASSUME SensitiveInv, SoundInv, Rate
    PROVE  SoundInv'
<1>1. /\ stage = "merged" /\ stage' = "rated" /\ detected' = detected
      /\ hidden' = hidden /\ trimmed' = trimmed /\ withheld' = withheld /\ candidates' = candidates
      /\ events' = events /\ conf' = conf
  BY DEF Rate, Advance, KeepInput
<1>2. Follows(findings, findings')
  BY InputFacts, RateFollows DEF SensitiveInv, SoundInv
<1>3. Traced(findings', detected)
  BY <1>2, FollowsTraced DEF SoundInv
<1>4. \A f \in findings' \cup hidden' \cup trimmed' \cup withheld' : WellFormed(f)
  BY <1>1, <1>2 DEF Follows, SoundInv
<1>5. \A ip : Accuses(findings \cup withheld \cup trimmed, ip) => Accuses(findings' \cup withheld' \cup trimmed', ip)
  BY <1>1, <1>2 DEF Follows, Accuses
<1>6. \A b \in candidates' : \E d \in detected : d.source = b.ip
  BY <1>1 DEF SoundInv
<1>7. QED
  BY <1>1, <1>3, <1>4, <1>5, <1>6, StageSound DEF Stages

\* Maintenance mode hides no report of a login attack.
LEMMA MaintainSound ==
    ASSUME SensitiveInv, SoundInv, Maintain
    PROVE  SoundInv'
<1>1. /\ stage = "rated" /\ stage' = "maintained" /\ detected' = detected /\ findings' = ApplyMaintenance(findings, conf)
      /\ hidden' = findings \ findings' /\ trimmed' = trimmed /\ withheld' = withheld /\ candidates' = candidates
      /\ events' = events /\ conf' = conf
  BY DEF Maintain, Advance, KeepInput
<1>2. findings' \subseteq findings
  BY <1>1 DEF ApplyMaintenance
<1>3. \A f \in findings : f.rule = "SSH-007" => f \in findings'
  BY <1>1 DEF ApplyMaintenance, Suppressible
<1>4. Traced(findings', detected)
  BY <1>2 DEF SoundInv, Traced
<1>5. \A f \in findings' \cup hidden' \cup trimmed' \cup withheld' : WellFormed(f)
  BY <1>1, <1>2 DEF SoundInv
<1>6. \A ip : Accuses(findings \cup withheld \cup trimmed, ip) => Accuses(findings' \cup withheld' \cup trimmed', ip)
  BY <1>1, <1>3 DEF Accuses
<1>7. \A b \in candidates' : \E d \in detected : d.source = b.ip
  BY <1>1 DEF SoundInv
<1>8. QED
  BY <1>1, <1>4, <1>5, <1>6, <1>7, StageSound DEF Stages

\* The first budget and suppress_rules move findings aside.
LEMMA DropSound ==
    ASSUME SensitiveInv, SoundInv, Budget \/ Suppress
    PROVE  SoundInv'
<1>1. /\ stage # "collect" /\ stage' \in {"budgeted", "suppressed"} /\ detected' = detected
      /\ hidden' = hidden /\ candidates' = candidates /\ events' = events /\ conf' = conf
  BY DEF Budget, Suppress, Advance, KeepInput
<1>2. /\ findings' \subseteq findings
      /\ findings' \cup withheld' \cup trimmed' = findings \cup withheld \cup trimmed
  <2>1. CASE Budget
    <3>1. findings' \in WithinBudget(findings, conf) /\ trimmed' = findings \ findings' /\ withheld' = withheld /\ trimmed = {}
      BY <2>1 DEF Budget, Advance, SensitiveInv, Early
    <3>2. findings' \subseteq findings
      BY <3>1, BudgetSubset
    <3>3. QED
      BY <3>1, <3>2
  <2>2. CASE Suppress
    <3>1. /\ withheld' = {f \in findings : SuppressMatch(f, conf)} /\ findings' = findings \ withheld' /\ trimmed' = trimmed
          /\ withheld = {}
      BY <2>2 DEF Suppress, Advance, SensitiveInv
    <3>2. QED
      BY <3>1
  <2>3. QED
    BY <2>1, <2>2
<1>3. Traced(findings', detected)
  BY <1>2 DEF SoundInv, Traced
<1>4. \A f \in findings' \cup hidden' \cup trimmed' \cup withheld' : WellFormed(f)
  BY <1>1, <1>2 DEF SoundInv
<1>5. \A ip : Accuses(findings \cup withheld \cup trimmed, ip) => Accuses(findings' \cup withheld' \cup trimmed', ip)
  BY <1>2
<1>6. \A b \in candidates' : \E d \in detected : d.source = b.ip
  BY <1>1 DEF SoundInv
<1>7. QED
  BY <1>1, <1>3, <1>4, <1>5, <1>6, StageSound DEF Stages

\* Verdicts on fingerprints only add evidence.
LEMMA FingerprintSound ==
    ASSUME SensitiveInv, SoundInv, Fingerprint
    PROVE  SoundInv'
<1>1. /\ stage = "suppressed" /\ stage' = "marked" /\ detected' = detected
      /\ hidden' = hidden /\ trimmed' = trimmed /\ withheld' = withheld /\ candidates' = candidates
      /\ events' = events /\ conf' = conf
  BY DEF Fingerprint, Advance, KeepInput
<1>2. Follows(findings, findings')
  BY FingerprintFollows DEF SoundInv
<1>3. Traced(findings', detected)
  BY <1>2, FollowsTraced DEF SoundInv
<1>4. \A f \in findings' \cup hidden' \cup trimmed' \cup withheld' : WellFormed(f)
  BY <1>1, <1>2 DEF Follows, SoundInv
<1>5. \A ip : Accuses(findings \cup withheld \cup trimmed, ip) => Accuses(findings' \cup withheld' \cup trimmed', ip)
  BY <1>1, <1>2 DEF Follows, Accuses
<1>6. \A b \in candidates' : \E d \in detected : d.source = b.ip
  BY <1>1 DEF SoundInv
<1>7. QED
  BY <1>1, <1>3, <1>4, <1>5, <1>6, StageSound DEF Stages

\* Active response blocks sources of findings; what its budget leaves of a
\* report of a login attack names the same source.
LEMMA RespondSound ==
    ASSUME SensitiveInv, SoundInv, Respond
    PROVE  SoundInv'
<1>1. /\ stage = "marked" /\ stage' = "responded" /\ detected' = detected /\ hidden' = hidden /\ withheld' = withheld
      /\ events' = events /\ conf' = conf
      /\ trimmed' = trimmed \cup (findings \ {f \in findings : \E g \in findings' : g.rule = f.rule /\ g.subject = f.subject})
  BY Zenon DEF Respond, Advance, KeepInput
<1>2. PICK planned, blocked : findings' \in WithinBudget(Annotated(findings, planned, blocked, conf), conf)
  BY ZenonT(30) DEF Respond
<1>3. \A b \in candidates' : \E d \in detected : d.source = b.ip
  <2> DEFINE ips == {f.source : f \in findings} \ {""}
             targets == {ip \in ips : CandidatesFor(ip, findings, conf) # {}}
  <2>1. PICK pick :
           /\ \A ip \in targets : pick[ip] \in CandidatesFor(ip, findings, conf)
           /\ candidates' = {pick[ip] : ip \in targets}
    BY ZenonT(30) DEF Respond
  <2>2. \A ip \in targets : pick[ip].ip = ip /\ \E f \in findings : f.source = ip /\ ~Sourceless(f)
    BY <2>1, CandidateSource, ZenonT(60) DEF Sourceless
  <2>3. \A b \in candidates' : \E f \in findings : f.source = b.ip /\ ~Sourceless(f)
    BY <2>1, <2>2, ZenonT(60)
  <2>4. QED
    BY <2>3 DEF SoundInv, Traced
<1>4. PICK gs : gs = Annotated(findings, planned, blocked, conf)
  OBVIOUS
<1>5. Follows(findings, gs)
  BY <1>4, AnnotatedFollows DEF SoundInv
<1>6. findings' \subseteq gs
  BY <1>2, <1>4, BudgetSubset
<1>7. Traced(findings', detected)
  BY <1>5, <1>6, FollowsTraced DEF SoundInv, Traced
<1>8. \A f \in findings' \cup hidden' \cup trimmed' \cup withheld' : WellFormed(f)
  BY <1>1, <1>5, <1>6 DEF Follows, SoundInv
<1>9. ASSUME NEW ip, Accuses(findings \cup withheld \cup trimmed, ip)
      PROVE  Accuses(findings' \cup withheld' \cup trimmed', ip)
  <2>1. PICK f \in findings \cup withheld \cup trimmed : f.rule = "SSH-007" /\ f.source = ip
    BY <1>9 DEF Accuses
  <2>2. ASSUME f \in findings, f \notin trimmed' PROVE \E g \in findings' : g.rule = "SSH-007" /\ g.source = ip
    <3>1. PICK g \in findings' : g.rule = f.rule /\ g.subject = f.subject
      BY <1>1, <2>2
    <3>2. g.subject = <<g.source>> /\ f.subject = <<f.source>>
      BY <1>8, <2>1, <2>2, <3>1 DEF SoundInv, WellFormed
    <3>3. \A x, y : <<x>> = <<y>> => x = y
      OBVIOUS
    <3>4. QED
      BY <2>1, <3>1, <3>2, <3>3
  <2>3. QED
    BY <1>1, <2>1, <2>2 DEF Accuses
<1>10. QED
  BY <1>1, <1>3, <1>7, <1>8, <1>9, StageSound DEF Stages

\* The timeline adds findings of its own.
LEMMA CorrelateSound ==
    ASSUME SensitiveInv, SoundInv, Correlate
    PROVE  SoundInv'
<1>1. /\ stage = "responded" /\ stage' = "done" /\ detected' = detected
      /\ hidden' = hidden /\ trimmed' = trimmed /\ withheld' = withheld /\ candidates' = candidates
      /\ events' = events /\ conf' = conf
  BY DEF Correlate, Advance, KeepInput
<1>2. PICK new : new = TimelineFindings(findings, conf)
  OBVIOUS
<1>3. findings' = findings \cup new
  BY <1>2 DEF Correlate
<1>4. \A g \in new : WellFormed(g) /\ Sourceless(g)
  BY <1>2, InputFacts, TimelineWellFormed DEF SensitiveInv
<1>5. Traced(findings', detected)
  BY <1>3, <1>4 DEF SoundInv, Traced
<1>6. \A f \in findings' \cup hidden' \cup trimmed' \cup withheld' : WellFormed(f)
  BY <1>1, <1>3, <1>4 DEF SoundInv
<1>7. \A ip : Accuses(findings \cup withheld \cup trimmed, ip) => Accuses(findings' \cup withheld' \cup trimmed', ip)
  BY <1>1, <1>3 DEF Accuses
<1>8. \A b \in candidates' : \E d \in detected : d.source = b.ip
  BY <1>1 DEF SoundInv
<1>9. QED
  BY <1>1, <1>5, <1>6, <1>7, <1>8, StageSound DEF Stages

\* Every step keeps it.
LEMMA SoundStep ==
    ASSUME SensitiveInv, SoundInv, [Next]_vars
    PROVE  SoundInv'
<1>1. ASSUME NEW e \in pool, Collect(e) PROVE SoundInv'
  <2>1. /\ stage = "collect" /\ stage' = stage /\ detected' = detected /\ findings' = findings
        /\ hidden' = hidden /\ trimmed' = trimmed /\ withheld' = withheld /\ candidates' = candidates
    BY <1>1 DEF Collect
  <2>2. QED
    BY <2>1 DEF SoundInv, CoalesceKeepsSeverity, Traced
<1>2. CASE NextScan
  <2>1. /\ stage' = "collect" /\ detected' = {} /\ findings' = {} /\ hidden' = {} /\ trimmed' = {} /\ withheld' = {}
        /\ candidates' = {}
    BY <1>2 DEF NextScan, Advance
  <2>2. QED
    BY <2>1 DEF SoundInv, CoalesceKeepsSeverity, Traced, Stages
<1>3. CASE UNCHANGED vars
  <2>1. /\ stage' = stage /\ detected' = detected /\ findings' = findings /\ events' = events /\ conf' = conf
        /\ hidden' = hidden /\ trimmed' = trimmed /\ withheld' = withheld /\ candidates' = candidates
    BY <1>3 DEF vars
  <2>2. CoalesceKeepsSeverity'
    BY <2>1 DEF CoalesceKeepsSeverity, SoundInv
  <2>3. QED
    BY <2>1, <2>2 DEF SoundInv, Traced
<1>4. QED
  BY <1>1, <1>2, <1>3, DetectSound, MergeSound, RateSound, MaintainSound, DropSound, FingerprintSound, RespondSound,
     CorrelateSound DEF Next

--------------------------------------------------------------------------------
(* Package activity only annotates                                            *)

\* Every finding of A has one in B about the same subject under the same rule.
Matched(A, B) == \A f \in A : \E g \in B : g.rule = f.rule /\ g.subject = f.subject

\* Then the rules and subjects of A are among those of B.
LEMMA MatchedKeys ==
    ASSUME NEW A, NEW B, Matched(A, B)
    PROVE  Keys(A) \subseteq Keys(B)
<1>1. SUFFICES ASSUME NEW f \in A PROVE <<f.rule, f.subject>> \in Keys(B)
  BY DEF Keys
<1>2. PICK g \in B : g.rule = f.rule /\ g.subject = f.subject
  BY DEF Matched
<1>3. QED
  BY <1>2 DEF Keys

\* Package activity changes the rating and the evidence of four findings.
LEMMA PackageEvidenceOnly ==
    ASSUME NEW e, NEW a, NEW b, NEW f, NEW g,
           \/ f = CriticalFileChanged(e, a) /\ g = CriticalFileChanged(e, b)
           \/ f = PersistenceChanged(e, a) /\ g = PersistenceChanged(e, b)
           \/ f = LdPreloadChanged(e, a) /\ g = LdPreloadChanged(e, b)
           \/ f = NewUser(e, a) /\ g = NewUser(e, b)
    PROVE  g.rule = f.rule /\ g.subject = f.subject
<1>1. ASSUME NEW rule, NEW cat, NEW x, NEW y, f = PathFinding(rule, cat, High, e.path, x), g = PathFinding(rule, cat, High, e.path, y)
      PROVE  g.rule = f.rule /\ g.subject = f.subject
  <2>1. Built(f, rule, High, <<e.path>>, e.path, "", x) /\ Built(g, rule, High, <<e.path>>, e.path, "", y)
    BY <1>1, NewPathFinding, Zenon
  <2>2. QED
    BY <2>1, Zenon DEF Built
<1>2. CASE f = NewUser(e, a) /\ g = NewUser(e, b)
  <2>1. PICK s, t, x, y : f = F("USER-001", "User", s, <<e.user>>, x) /\ g = F("USER-001", "User", t, <<e.user>>, y)
    BY <1>2, Zenon DEF NewUser
  <2>2. Built(f, "USER-001", s, <<e.user>>, "", "", x) /\ Built(g, "USER-001", t, <<e.user>>, "", "", y)
    BY <2>1, NewFinding, Zenon
  <2>3. QED
    BY <2>2, Zenon DEF Built
<1>3. QED
  BY <1>1, <1>2, Zenon DEF CriticalFileChanged, PersistenceChanged, LdPreloadChanged

\* So the detectors of single facts report the same.
LEMMA PackageEventMatched ==
    ASSUME NEW e, NEW a, NEW b, NEW c
    PROVE  Matched(EventFindings(e, a, c), EventFindings(e, b, c))
<1>1. \/ EventFindings(e, a, c) = EventFindings(e, b, c)
      \/ EventFindings(e, a, c) = FileFindings(e, a, c) /\ EventFindings(e, b, c) = FileFindings(e, b, c)
      \/ EventFindings(e, a, c) = PersistenceFindings(e, a, c) /\ EventFindings(e, b, c) = PersistenceFindings(e, b, c)
      \/ EventFindings(e, a, c) = UserFindings(e, a, c) /\ EventFindings(e, b, c) = UserFindings(e, b, c)
  BY DEF EventFindings, FileDiffKinds
<1>2. \/ FileFindings(e, a, c) = FileFindings(e, b, c)
      \/ FileFindings(e, a, c) = {CriticalFileChanged(e, a)} /\ FileFindings(e, b, c) = {CriticalFileChanged(e, b)}
  <2>1. \/ FileDiffFindings(e, a) = FileDiffFindings(e, b)
        \/ FileDiffFindings(e, a) = {CriticalFileChanged(e, a)} /\ FileDiffFindings(e, b) = {CriticalFileChanged(e, b)}
    BY DEF FileDiffFindings, AuthorizedKeysPaths, CriticalPaths, AccountFiles
  <2>2. \/ FileFindings(e, a, c) = FileFindings(e, b, c)
        \/ FileFindings(e, a, c) = FileDiffFindings(e, a) /\ FileFindings(e, b, c) = FileDiffFindings(e, b)
    BY DEF FileFindings, FileDiffKinds
  <2>3. QED
    BY <2>1, <2>2
<1>3. \/ PersistenceFindings(e, a, c) = PersistenceFindings(e, b, c)
      \/ PersistenceFindings(e, a, c) = {LdPreloadChanged(e, a)} /\ PersistenceFindings(e, b, c) = {LdPreloadChanged(e, b)}
      \/ PersistenceFindings(e, a, c) = {PersistenceChanged(e, a)} /\ PersistenceFindings(e, b, c) = {PersistenceChanged(e, b)}
  BY DEF PersistenceFindings
<1>4. \/ UserFindings(e, a, c) = UserFindings(e, b, c)
      \/ UserFindings(e, a, c) = {NewUser(e, a)} /\ UserFindings(e, b, c) = {NewUser(e, b)}
  BY DEF UserFindings
<1>5. \A X : Matched(X, X)
  BY DEF Matched
<1>6. \A f, g : g.rule = f.rule /\ g.subject = f.subject => Matched({f}, {g})
  BY DEF Matched
<1>7. Matched(FileFindings(e, a, c), FileFindings(e, b, c))
  <2>1. PICK f, g : f = CriticalFileChanged(e, a) /\ g = CriticalFileChanged(e, b)
    OBVIOUS
  <2>2. Matched({f}, {g})
    BY <1>6, <2>1, PackageEvidenceOnly
  <2>3. QED
    BY <1>2, <1>5, <2>1, <2>2
<1>8. Matched(PersistenceFindings(e, a, c), PersistenceFindings(e, b, c))
  <2>1. Matched({LdPreloadChanged(e, a)}, {LdPreloadChanged(e, b)})
    <3>1. PICK f, g : f = LdPreloadChanged(e, a) /\ g = LdPreloadChanged(e, b)
      OBVIOUS
    <3>2. QED
      BY <1>6, <3>1, PackageEvidenceOnly
  <2>2. Matched({PersistenceChanged(e, a)}, {PersistenceChanged(e, b)})
    <3>1. PICK f, g : f = PersistenceChanged(e, a) /\ g = PersistenceChanged(e, b)
      OBVIOUS
    <3>2. g.rule = f.rule /\ g.subject = f.subject
      BY <3>1, PackageEvidenceOnly
    <3>3. QED
      BY <1>6, <3>1, <3>2
  <2>3. QED
    BY <1>3, <1>5, <2>1, <2>2
<1>9. Matched(UserFindings(e, a, c), UserFindings(e, b, c))
  <2>1. PICK f, g : f = NewUser(e, a) /\ g = NewUser(e, b)
    OBVIOUS
  <2>2. Matched({f}, {g})
    BY <1>6, <2>1, PackageEvidenceOnly
  <2>3. QED
    BY <1>4, <1>5, <2>1, <2>2
<1>10. QED
  BY <1>1, <1>5, <1>7, <1>8, <1>9

\* Two processes that differ at most in the mark of package activity.
Alike(a, b) ==
    /\ a.exe = b.exe /\ a.cwd = b.cwd /\ a.cmd = b.cmd /\ a.name = b.name
    /\ a.pid = b.pid /\ a.sockets = b.sockets /\ a.outbound = b.outbound
    /\ a.tags \ {"package_activity"} = b.tags \ {"package_activity"}

\* No rule about processes asks for that mark.
LEMMA AlikeTags ==
    ASSUME NEW a, NEW b, Alike(a, b)
    PROVE  /\ \A t : t # "package_activity" => (t \in a.tags <=> t \in b.tags)
           /\ \A t : t # "package_activity" => Has(a, t) = Has(b, t)
<1>1. \A t : t # "package_activity" => (t \in a.tags <=> t \in b.tags)
  BY DEF Alike
<1>2. QED
  BY <1>1 DEF Has

\* So the single facts of a process are the same with and without it ...
LEMMA AlikeFacts ==
    ASSUME NEW a, NEW b, Alike(a, b)
    PROVE  /\ Deleted(a) = Deleted(b) /\ Anonymous(a) = Anonymous(b) /\ Bridge(a) = Bridge(b)
           /\ KnownTool(a) = KnownTool(b) /\ SourceBuild(a) = SourceBuild(b) /\ HighCpu(a) = HighCpu(b)
           /\ ShellParent(a) = ShellParent(b) /\ InWebRoots(a) = InWebRoots(b)
           /\ KernelThreadMasquerade(a) = KernelThreadMasquerade(b) /\ MiningPool(a) = MiningPool(b)
           /\ HighGpuUtilization(a) = HighGpuUtilization(b) /\ HighGpuPower(a) = HighGpuPower(b)
           /\ MlWorkspace(a) = MlWorkspace(b) /\ PathSignal(a) = PathSignal(b)
           /\ ProcessSubject(a) = ProcessSubject(b) /\ QueriesPackage(a) = QueriesPackage(b)
<1>1. Bridge(a) = Bridge(b) /\ PathSignal(a) = PathSignal(b)
  BY DEF Bridge, PathSignal, Alike
<1>2. Deleted(a) = Deleted(b) /\ Anonymous(a) = Anonymous(b) /\ ShellParent(a) = ShellParent(b)
  BY AlikeTags DEF Deleted, Anonymous, ShellParent
<1>3. MiningPool(a) = MiningPool(b) /\ HighGpuUtilization(a) = HighGpuUtilization(b) /\ HighGpuPower(a) = HighGpuPower(b)
  BY AlikeTags DEF MiningPool, HighGpuUtilization, HighGpuPower
<1>4. HighCpu(a) = HighCpu(b) /\ MlWorkspace(a) = MlWorkspace(b)
  BY AlikeTags DEF HighCpu, MlWorkspace
<1>5. SourceBuild(a) = SourceBuild(b)
  BY AlikeTags DEF SourceBuild
<1>6. InWebRoots(a) = InWebRoots(b) /\ KernelThreadMasquerade(a) = KernelThreadMasquerade(b)
  BY AlikeTags DEF InWebRoots, KernelThreadMasquerade, Alike
<1>7. KnownTool(a) = KnownTool(b)
  <2>1. Has(a, "known_tool") = Has(b, "known_tool") /\ Has(a, "tool_in_cmdline") = Has(b, "tool_in_cmdline") /\ Has(a, "argv") = Has(b, "argv")
    BY AlikeTags
  <2>2. QED
    BY <2>1, Zenon DEF KnownTool, Alike
<1>8. ProcessSubject(a) = ProcessSubject(b)
  BY DEF ProcessSubject, Alike
<1>9. QueriesPackage(a) = QueriesPackage(b)
  <2>1. a.tags \cap {"hidden", "kernel_thread_name", "execstart_mismatch"} = b.tags \cap {"hidden", "kernel_thread_name", "execstart_mismatch"}
    BY AlikeTags
  <2>2. QED
    BY <1>4, <2>1 DEF QueriesPackage, Alike
<1>10. QED
  BY <1>1, <1>2, <1>3, <1>4, <1>5, <1>6, <1>7, <1>8, <1>9

\* ... and so are their combinations.
LEMMA AlikeGpuClusters ==
    ASSUME NEW a, NEW b, Alike(a, b)
    PROVE  /\ LowRiskInteractive(a) = LowRiskInteractive(b)
           /\ PrivilegedGpuCluster(a) = PrivilegedGpuCluster(b)
           /\ ShellStartedGpuCluster(a) = ShellStartedGpuCluster(b)
           /\ UtilizedMiningCluster(a) = UtilizedMiningCluster(b)
           /\ UtilizedIdentityCluster(a) = UtilizedIdentityCluster(b)
<1>1. LowRiskInteractive(a) = LowRiskInteractive(b)
  <2>1. a.tags \cap {"hidden", "execstart_mismatch", "kernel_thread_name", "deleted", "memfd"}
          = b.tags \cap {"hidden", "execstart_mismatch", "kernel_thread_name", "deleted", "memfd"}
    BY AlikeTags
  <2>2. Has(a, "young") = Has(b, "young")
    BY AlikeTags
  <2>3. QED
    BY <2>1, <2>2, AlikeFacts DEF LowRiskInteractive, Alike
<1>2. Has(a, "root") = Has(b, "root") /\ Has(a, "hidden") = Has(b, "hidden")
  BY AlikeTags
<1>3. PrivilegedGpuCluster(a) = PrivilegedGpuCluster(b)
  BY <1>2, AlikeFacts DEF PrivilegedGpuCluster, Alike
<1>4. ShellStartedGpuCluster(a) = ShellStartedGpuCluster(b) /\ UtilizedMiningCluster(a) = UtilizedMiningCluster(b)
  BY AlikeFacts DEF ShellStartedGpuCluster, UtilizedMiningCluster, Alike
<1>5. UtilizedIdentityCluster(a) = UtilizedIdentityCluster(b)
  BY <1>2, AlikeFacts DEF UtilizedIdentityCluster, Alike
<1>6. QED
  BY <1>1, <1>3, <1>4, <1>5

\* So its scores do not depend on it.
LEMMA AlikeMaxScores ==
    ASSUME NEW a, NEW b, Alike(a, b)
    PROVE  DeletedScore(a) = DeletedScore(b) /\ GpuScore(a) = GpuScore(b)
<1>1. \A t : t # "package_activity" => Has(a, t) = Has(b, t)
  BY AlikeTags
<1>2. DeletedScore(a) = DeletedScore(b)
  <2> DEFINE score(b1, b2, b3, b4, b5, b6, b7) ==
                MaxScore({<<90, "anonymous_deleted_executable", b1>>, <<80, "deleted_suspicious_path", b2>>,
                          <<70, "hidden_nonstandard_executable", b3>>, <<85, "network_execution_bridge", b4>>,
                          <<85, "known_bad_tool", b5>>, <<55, "sustained_high_cpu", b6>>, <<45, "shell_process", b7>>})
             mine(p) == score(Anonymous(p), p.exe \in SuspiciousDirs, Has(p, "hidden") /\ p.exe # "standard",
                              Bridge(p), KnownTool(p), HighCpu(p), Has(p, "shell_name"))
  <2>1. DeletedScore(a) = mine(a) /\ DeletedScore(b) = mine(b)
    BY Zenon DEF DeletedScore
  <2> HIDE DEF score
  <2>2. mine(a) = mine(b)
    BY <1>1, AlikeFacts DEF Alike
  <2>3. QED
    BY <2>1, <2>2
<1>3. GpuScore(a) = GpuScore(b)
  <2> DEFINE score(b1, b2, b3, b4, b5, b6, b7, b8, b9, b10, b11, b12, b13, b14, b15, b16, b17) ==
                MaxScore({<<90, "known_gpu_miner_identity", b1>>, <<90, "gpu_deleted_executable", b2>>,
                          <<95, "gpu_anonymous_executable", b3>>, <<85, "gpu_suspicious_path", b4>>,
                          <<85, "mining_pool_remote_port", b5>>, <<90, "gpu_network_execution_bridge", b6>>,
                          <<55, "gpu_hidden_executable_name", b7>>, <<35, "gpu_public_outbound_connections", b8>>,
                          <<35, "gpu_high_utilization", b9>>, <<25, "gpu_high_power_draw", b10>>,
                          <<35, "gpu_sustained_high_cpu", b11>>, <<45, "gpu_shell_or_scheduler_parent", b12>>,
                          <<80, "privileged_gpu_network_cpu_cluster", b13>>,
                          <<80, "shell_started_gpu_public_network_cluster", b14>>,
                          <<80, "hidden_gpu_process_with_public_outbound", b15>>,
                          <<70, "gpu_high_utilization_mining_port_cluster", b16>>,
                          <<65, "gpu_high_utilization_suspicious_identity_cluster", b17>>})
             mine(p) == score(KnownTool(p), Deleted(p), Anonymous(p), p.exe \in SuspiciousDirs, MiningPool(p), Bridge(p),
                              Has(p, "hidden"), p.outbound > 0, HighGpuUtilization(p), HighGpuPower(p), HighCpu(p),
                              ShellParent(p), PrivilegedGpuCluster(p), ShellStartedGpuCluster(p),
                              Has(p, "hidden") /\ p.outbound > 0, UtilizedMiningCluster(p), UtilizedIdentityCluster(p))
  <2>1. GpuScore(a) = mine(a) /\ GpuScore(b) = mine(b)
    BY Zenon DEF GpuScore
  <2> HIDE DEF score
  <2>2. mine(a) = mine(b)
    BY <1>1, AlikeFacts, AlikeGpuClusters DEF Alike
  <2>3. QED
    BY <2>1, <2>2
<1>4. QED
  BY <1>2, <1>3

\* The score of behavior_cluster_assessment.
LEMMA AlikeCluster ==
    ASSUME NEW a, NEW b, Alike(a, b)
    PROVE  ClusterSignals(a) = ClusterSignals(b) /\ ClusterScore(a) = ClusterScore(b) /\ Clustered(a) = Clustered(b)
<1> DEFINE signals(b1, b2, b3, b4, b5, b6, b7, b8, b9, b10, b11, b12, b13) ==
              {<<55, "kernel_thread_masquerade", b1>>, <<40, "web_path_executable", b2>>,
               <<25, "hidden_executable_name", b3>>, <<10, "runtime_cwd", b4>>,
               <<30, "suspicious_cwd", b5>>, <<30, "many_socket_fds", b6>>,
               <<15, "socket_activity", b7>>, <<25, "sustained_high_cpu", b8>>,
               <<20, "public_outbound_connections", b9>>, <<35, "public_outbound_fanout", b10>>,
               <<35, "systemd_execstart_mismatch", b11>>, <<45, "unpackaged_network_process", b12>>,
               <<20, "shell_or_scheduler_parent", b13>>}
           started(p) == ShellParent(p) /\ ~LowRiskInteractive(p)
           unpackaged(p) == /\ Has(p, "unowned") /\ p.outbound > 0
                            /\ \/ started(p)
                               \/ HighCpu(p)
                               \/ p.tags \cap {"hidden", "execstart_mismatch", "kernel_thread_name"} # {}
           scheduled(p) == started(p) /\ (p.outbound > 0 \/ Has(p, "hidden"))
           mine(p) == signals(KernelThreadMasquerade(p), InWebRoots(p), Has(p, "hidden"), p.cwd = "run",
                              p.cwd \in SuspiciousDirs \ {"run"}, p.sockets = ManySockets, p.sockets = SomeSockets,
                              HighCpu(p), p.outbound > 0, p.outbound = FanoutOutbound, Has(p, "execstart_mismatch"),
                              unpackaged(p), scheduled(p))
<1>1. ClusterSignals(a) = mine(a) /\ ClusterSignals(b) = mine(b)
  BY Zenon DEF ClusterSignals
<1>2. \A t : t # "package_activity" => Has(a, t) = Has(b, t)
  BY AlikeTags
<1>3. started(a) = started(b)
  BY AlikeFacts, AlikeGpuClusters
<1>4. scheduled(a) = scheduled(b)
  BY <1>2, <1>3 DEF Alike
<1>5. unpackaged(a) = unpackaged(b)
  <2>1. a.tags \cap {"hidden", "execstart_mismatch", "kernel_thread_name"} = b.tags \cap {"hidden", "execstart_mismatch", "kernel_thread_name"}
    BY AlikeTags
  <2>2. QED
    BY <1>2, <1>3, <2>1, AlikeFacts DEF Alike
<1> HIDE DEF signals, unpackaged, scheduled
<1>6. mine(a) = mine(b)
  BY <1>2, <1>4, <1>5, AlikeFacts DEF Alike
<1>7. ClusterSignals(a) = ClusterSignals(b)
  BY <1>1, <1>6
<1>8. ClusterScore(a) = ClusterScore(b)
  BY <1>2, <1>7 DEF ClusterScore, Alike
<1>9. Clustered(a) = Clustered(b)
  BY <1>7 DEF Clustered, Alike
<1>10. QED
  BY <1>7, <1>8, <1>9

\* The score of executable_path_assessment.
LEMMA AlikePath ==
    ASSUME NEW a, NEW b, Alike(a, b)
    PROVE  ExecutablePathScore(a) = ExecutablePathScore(b)
<1> DEFINE signals(weight, name, b2, b3, b4, b5, b6, b7, b8, b9) ==
              {<<weight, name, TRUE>>, <<25, "hidden_executable_name", b2>>,
               <<30, "deleted_executable_path", b3>>, <<60, "network_execution_bridge", b4>>,
               <<80, "known_bad_tool", b5>>, <<20, "public_outbound_connections", b6>>,
               <<20, "many_socket_fds", b7>>, <<10, "socket_activity", b8>>, <<25, "sustained_high_cpu", b9>>}
           weight(p) == IF p.exe = "run" THEN 45 ELSE IF p.exe = "tmp" THEN 75 ELSE 70
           base(p) == signals(weight(p), PathSignal(p), Has(p, "hidden"), Deleted(p), Bridge(p), KnownTool(p), p.outbound > 0,
                              p.sockets = ManySockets, p.sockets = SomeSockets, HighCpu(p))
           total(S, root) == SumScore(S \cup {<<10, "privileged_runtime_process", root /\ SumScore(S) >= 45>>})
<1>1. ExecutablePathScore(a) = total(base(a), Has(a, "root")) /\ ExecutablePathScore(b) = total(base(b), Has(b, "root"))
  BY Zenon DEF ExecutablePathScore
<1>2. \A t : t # "package_activity" => Has(a, t) = Has(b, t)
  BY AlikeTags
<1>3. weight(a) = weight(b)
  BY DEF Alike
<1> HIDE DEF signals, weight
<1>4. base(a) = base(b)
  BY <1>2, <1>3, AlikeFacts DEF Alike
<1>5. Has(a, "root") = Has(b, "root")
  BY <1>2
<1> HIDE DEF base, total
<1>6. QED
  BY <1>1, <1>4, <1>5

\* Without the package activity a process has the same facts.
LEMMA EnrichedAlike ==
    ASSUME NEW R, NEW Q, NEW p, Leaves(Q, R),
           {"exe", "cwd", "cmd", "name", "pid", "sockets", "outbound", "tags"} \subseteq DOMAIN p
    PROVE  Alike(Enriched(p, Q), Enriched(p, R))
<1>1. PICK o, g : o = OutboundProfile(R, p.pid) /\ g = GpuTags(R, p.pid)
  OBVIOUS
<1>2. OutboundProfile(Q, p.pid) = o /\ GpuTags(Q, p.pid) = g
  BY <1>1, SameOutbound, SameGpu
<1>3. PICK base, out : base = p.tags \cup g \cup When(o.mining, {"mining_pool_port"}) /\ out = Max({p.outbound, o.outbound})
  OBVIOUS
<1> DEFINE tags(x) == base \cup PackageEvidence(x)
           q(x) == [p EXCEPT !.outbound = out, !.tags = tags(x)]
           result(x) == IF QueriesPackage(q(x)) THEN q(x) ELSE [q(x) EXCEPT !.tags = tags(x) \ {"unowned"}]
<1>4. Enriched(p, Q) = result(PackageActivity(Q)) /\ Enriched(p, R) = result(PackageActivity(R))
  BY <1>1, <1>2, <1>3, Zenon DEF Enriched
<1>5. \A x : tags(x) \ {"package_activity"} = base \ {"package_activity"}
  BY DEF PackageEvidence, When
<1>6. \A x : /\ q(x).exe = p.exe /\ q(x).cwd = p.cwd /\ q(x).cmd = p.cmd /\ q(x).name = p.name
             /\ q(x).pid = p.pid /\ q(x).sockets = p.sockets /\ q(x).outbound = out /\ q(x).tags = tags(x)
             /\ DOMAIN q(x) = DOMAIN p
  OBVIOUS
<1> HIDE DEF tags, q
<1>7. \A x, y : Alike(q(x), q(y))
  BY <1>5, <1>6 DEF Alike
<1>8. \A x, y : QueriesPackage(q(x)) = QueriesPackage(q(y))
  BY <1>7, AlikeFacts
<1>9. \A x, y : Alike([q(x) EXCEPT !.tags = tags(x) \ {"unowned"}], [q(y) EXCEPT !.tags = tags(y) \ {"unowned"}])
  <2>1. SUFFICES ASSUME NEW x, NEW y
                 PROVE  Alike([q(x) EXCEPT !.tags = tags(x) \ {"unowned"}], [q(y) EXCEPT !.tags = tags(y) \ {"unowned"}])
    OBVIOUS
  <2>2. (tags(x) \ {"unowned"}) \ {"package_activity"} = (tags(y) \ {"unowned"}) \ {"package_activity"}
    BY <1>5
  <2>3. PICK r, s : /\ r = [q(x) EXCEPT !.tags = tags(x) \ {"unowned"}]
                    /\ s = [q(y) EXCEPT !.tags = tags(y) \ {"unowned"}]
    OBVIOUS
  <2>4. /\ r.exe = p.exe /\ r.cwd = p.cwd /\ r.cmd = p.cmd /\ r.name = p.name
        /\ r.pid = p.pid /\ r.sockets = p.sockets /\ r.outbound = out /\ r.tags = tags(x) \ {"unowned"}
    BY <1>6, <2>3
  <2>5. /\ s.exe = p.exe /\ s.cwd = p.cwd /\ s.cmd = p.cmd /\ s.name = p.name
        /\ s.pid = p.pid /\ s.sockets = p.sockets /\ s.outbound = out /\ s.tags = tags(y) \ {"unowned"}
    BY <1>6, <2>3
  <2>6. QED
    BY <2>2, <2>3, <2>4, <2>5 DEF Alike
<1>10. QED
  BY <1>4, <1>7, <1>8, <1>9

\* A finding about a process is named by its rule and the process, and rated
\* by its rule.
LEMMA ProcessKey ==
    ASSUME NEW rule, NEW sev, NEW p, NEW score, NEW f, f = ProcessFinding(rule, sev, p, score)
    PROVE  f.rule = rule /\ f.sev = sev /\ f.subject = ProcessSubject(p)
<1>1. PICK g : g = F(rule, "Process", sev, ProcessSubject(p), ProcessEvidence(p))
  OBVIOUS
<1>2. DOMAIN g = FieldNames /\ g.rule = rule /\ g.sev = sev /\ g.subject = ProcessSubject(p)
  <2>1. Built(g, rule, sev, ProcessSubject(p), "", "", ProcessEvidence(p))
    BY <1>1, NewFinding, Zenon
  <2>2. QED
    BY <2>1, Zenon DEF Built
<1>3. PICK path : path = IF p.exe = "none" THEN "" ELSE p.exe
  BY Zenon
<1>4. f = Scored([g EXCEPT !.path = path, !.process = p.name, !.pid = p.pid], score)
  BY <1>1, <1>3, Zenon DEF ProcessFinding
<1>5. QED
  BY <1>2, <1>4 DEF Scored, FieldNames

\* So the rules about processes report the same.
LEMMA AlikeMatched ==
    ASSUME NEW a, NEW b, NEW c, Alike(a, b)
    PROVE  Matched(ProcessRuleFindings(a, c), ProcessRuleFindings(b, c))
<1>1. ProcessSubject(a) = ProcessSubject(b)
  BY AlikeFacts
<1>2. ASSUME NEW rule, NEW sev, NEW x, NEW y
      PROVE  Matched({ProcessFinding(rule, sev, a, x)}, {ProcessFinding(rule, sev, b, y)})
  <2>1. PICK f, g : f = ProcessFinding(rule, sev, a, x) /\ g = ProcessFinding(rule, sev, b, y)
    OBVIOUS
  <2>2. f.rule = rule /\ f.subject = ProcessSubject(a)
    BY <2>1, ProcessKey
  <2>3. g.rule = rule /\ g.subject = ProcessSubject(b)
    BY <2>1, ProcessKey
  <2>4. QED
    BY <1>1, <2>1, <2>2, <2>3 DEF Matched
<1>3. \A A, B, x, y : x = y /\ Matched(A, B) => Matched(When(x, A), When(y, B))
  BY DEF Matched, When
<1>4. Matched(DeletedExecutable(a, c), DeletedExecutable(b, c))
  BY <1>2, <1>3, AlikeFacts, AlikeMaxScores DEF DeletedExecutable
<1>5. Matched(TempProcess(a, c), TempProcess(b, c))
  BY <1>2, <1>3, AlikeFacts, AlikePath DEF TempProcess, Alike
<1>6. Matched(NetworkExecutionBridge(a), NetworkExecutionBridge(b))
  BY <1>2, <1>3, AlikeFacts DEF NetworkExecutionBridge
<1>7. Matched(MinerOrScanner(a), MinerOrScanner(b))
  BY <1>2, <1>3, AlikeFacts DEF MinerOrScanner
<1>8. Matched(GpuComputeProcess(a, c), GpuComputeProcess(b, c))
  <2>1. Has(a, "gpu_memory") = Has(b, "gpu_memory")
    BY AlikeTags
  <2>2. QED
    BY <1>2, <1>3, <2>1, AlikeMaxScores DEF GpuComputeProcess
<1>9. Matched(BehaviorCluster(a, c), BehaviorCluster(b, c))
  BY <1>2, <1>3, AlikeFacts, AlikeCluster DEF BehaviorCluster
<1>10. \A A, B, C, D : Matched(A, B) /\ Matched(C, D) => Matched(A \cup C, B \cup D)
  BY DEF Matched
<1>11. QED
  BY <1>4, <1>5, <1>6, <1>7, <1>8, <1>9, <1>10 DEF ProcessRuleFindings

\* The processes of a scan.
LEMMA ProcessMatched ==
    ASSUME NEW R, NEW Q, NEW c, Leaves(Q, R),
           \A p \in R : p.kind \in {"process_snapshot", "process_exec"} =>
               {"exe", "cwd", "cmd", "name", "pid", "sockets", "outbound", "tags"} \subseteq DOMAIN p
    PROVE  Matched(ProcessFindings(R, c), ProcessFindings(Q, c)) /\ Matched(ProcessFindings(Q, c), ProcessFindings(R, c))
<1> DEFINE judged(S) == {e \in S : e.kind \in {"process_snapshot", "process_exec"} /\ ~Allowlisted(e)}
<1>1. judged(Q) = judged(R)
  BY DEF Leaves
<1>2. \A p \in judged(R) : Alike(Enriched(p, Q), Enriched(p, R)) /\ Alike(Enriched(p, R), Enriched(p, Q))
  <2>1. \A x, y : Alike(x, y) => Alike(y, x)
    BY DEF Alike
  <2>2. QED
    BY <2>1, EnrichedAlike
<1>3. \A p \in judged(R) : /\ Matched(ProcessRuleFindings(Enriched(p, R), c), ProcessRuleFindings(Enriched(p, Q), c))
                           /\ Matched(ProcessRuleFindings(Enriched(p, Q), c), ProcessRuleFindings(Enriched(p, R), c))
  BY <1>2, AlikeMatched
<1> HIDE DEF judged
<1>4. /\ ProcessFindings(R, c) = UNION {ProcessRuleFindings(Enriched(p, R), c) : p \in judged(R)}
      /\ ProcessFindings(Q, c) = UNION {ProcessRuleFindings(Enriched(p, Q), c) : p \in judged(R)}
  BY <1>1 DEF ProcessFindings, judged
<1>5. QED
  BY <1>3, <1>4 DEF Matched

\* Without the package activity the detectors report the same subjects under
\* the same rules, up to the operator's own rules.
LEMMA PackageMatched ==
    ASSUME NEW R, NEW Q, NEW c, Q = {e \in R : e.kind # "package_manager_activity"},
           \A p \in R : p.kind \in {"process_snapshot", "process_exec"} =>
               {"exe", "cwd", "cmd", "name", "pid", "sockets", "outbound", "tags"} \subseteq DOMAIN p
    PROVE  /\ Matched(Detectors(Q, c), Detectors(R, c))
           /\ Matched(Detectors(R, c), Detectors(Q, c) \cup ExternalFindings(R, c))
<1>1. Leaves(Q, R)
  BY DEF Leaves
<1>2. SshFindings(Q, c) = SshFindings(R, c) /\ WebFindings(Q, c) = WebFindings(R, c) /\ NetworkFindings(Q, c) = NetworkFindings(R, c)
  BY <1>1, SameSsh, SameWeb, SameNetwork
<1>3. Matched(ProcessFindings(R, c), ProcessFindings(Q, c)) /\ Matched(ProcessFindings(Q, c), ProcessFindings(R, c))
  BY <1>1, ProcessMatched
<1> DEFINE single(S, x) == UNION {EventFindings(e, x, c) : e \in S}
<1>4. \A x, y : Matched(single(Q, x), single(Q, y))
  BY PackageEventMatched DEF Matched
<1>5. \A x : single(R, x) = single(Q, x)
  <2>1. ASSUME NEW e, NEW x, e.kind = "package_manager_activity" PROVE EventFindings(e, x, c) = {}
    BY <2>1 DEF EventFindings, FileDiffKinds
  <2>2. QED
    BY <2>1
<1>6. /\ HostFindings(Q, c) = SshFindings(Q, c) \cup single(Q, PackageActivity(Q))
      /\ HostFindings(R, c) = SshFindings(R, c) \cup single(R, PackageActivity(R))
  BY DEF HostFindings
<1>7. ExternalFindings(Q, c) \subseteq ExternalFindings(R, c)
  BY DEF ExternalFindings
<1> HIDE DEF single
<1>8. PICK pq, pr, sq, sr, eq, er, rest :
         /\ Detectors(Q, c) = rest \cup pq \cup sq \cup eq
         /\ Detectors(R, c) = rest \cup pr \cup sr \cup er
         /\ er = ExternalFindings(R, c) /\ eq \subseteq er
         /\ Matched(pq, pr) /\ Matched(pr, pq) /\ Matched(sq, sr) /\ Matched(sr, sq)
  <2>1. PICK rest : rest = SshFindings(R, c) \cup WebFindings(R, c) \cup NetworkFindings(R, c) \cup YaraFindings(c)
    OBVIOUS
  <2>2. Detectors(Q, c) = rest \cup ProcessFindings(Q, c) \cup single(Q, PackageActivity(Q)) \cup ExternalFindings(Q, c)
    BY <1>2, <1>6, <2>1 DEF Detectors, BuiltinFindings
  <2>3. Detectors(R, c) = rest \cup ProcessFindings(R, c) \cup single(R, PackageActivity(R)) \cup ExternalFindings(R, c)
    BY <1>2, <1>6, <2>1 DEF Detectors, BuiltinFindings
  <2>4. Matched(single(Q, PackageActivity(Q)), single(R, PackageActivity(R))) /\ Matched(single(R, PackageActivity(R)), single(Q, PackageActivity(Q)))
    BY <1>4, <1>5
  <2>5. QED
    BY <1>3, <1>7, <2>2, <2>3, <2>4, ZenonT(60)
<1>9. QED
  BY <1>8 DEF Matched

\* The two invariants together give what FindingsSound asks for.
LEMMA SoundEnough ==
    ASSUME SensitiveInv, SoundInv
    PROVE  FindingsSound
<1>1. TypeOK
  BY DEF TypeOK, SoundInv, WellFormed
<1>2. CoalesceKeepsSeverity
  BY DEF SoundInv
<1>3. LoginAttackReported
  BY DEF SoundInv, LoginAttackReported, LoginAttack, Accuses
<1>4. PackageNotAllowlist
  <2>1. SUFFICES ASSUME stage = "detected" PROVE PackageNotAllowlist
    BY DEF PackageNotAllowlist
  <2>2. PICK R, Q : R = RetainIncremental(events, conf) /\ Q = {e \in R : e.kind # "package_manager_activity"}
    OBVIOUS
  <2>3. detected = Detectors(R, conf)
    BY <2>1, <2>2 DEF SensitiveInv, SoundInv
  <2>4. \A e \in R : e \in events
    BY <2>2 DEF RetainIncremental
  <2>5. \A p \in R : p.kind \in {"process_snapshot", "process_exec"} =>
           {"exe", "cwd", "cmd", "name", "pid", "sockets", "outbound", "tags"} \subseteq DOMAIN p
    <3>1. PICK input \in Inputs : conf = input[1] /\ pool = input[2]
      BY DEF SensitiveInv, InputInv
    <3>2. \A e \in input[2] : e.kind \in {"process_snapshot", "process_exec"} =>
             {"exe", "cwd", "cmd", "name", "pid", "sockets", "outbound", "tags"} \subseteq DOMAIN e
      BY InputsAssumption
    <3>3. QED
      BY <2>4, <3>1, <3>2 DEF SensitiveInv, InputInv
  <2>6. /\ Matched(Detectors(Q, conf), detected)
        /\ Matched(detected, Detectors(Q, conf) \cup ExternalFindings(R, conf))
    BY <2>2, <2>3, <2>5, PackageMatched
  <2>7. /\ Keys(Detectors(Q, conf)) \subseteq Keys(detected)
        /\ Keys(detected) \subseteq Keys(Detectors(Q, conf) \cup ExternalFindings(R, conf))
    BY <2>6, MatchedKeys
  <2>8. Keys(Detectors(Q, conf) \cup ExternalFindings(R, conf)) = Keys(Detectors(Q, conf)) \cup Keys(ExternalFindings(R, conf))
    BY DEF Keys
  <2>9. QED
    BY <2>2, <2>7, <2>8 DEF PackageNotAllowlist
<1>5. QED
  BY <1>1, <1>2, <1>3, <1>4 DEF FindingsSound

\* Whatever a host shows and however the scan is configured, the stages of
\* run_scan hand on well-formed findings with drift and unified scores up to
\* 100, candidates only name sources a detector named, coalesce_related_findings keeps severities, a
\* login after too many failures is reported in maintenance mode too, and
\* package_activity_context only annotates.
THEOREM FindingsAlwaysSound == Spec => []FindingsSound
<1>1. Init => SensitiveInv /\ SoundInv
  <2>1. Init => SensitiveInv
    BY FS_EmptySet DEF Init, SensitiveInv, InputInv, Early, Judged
  <2>2. Init => SoundInv
    BY DEF Init, SoundInv, CoalesceKeepsSeverity, Traced, Stages
  <2>3. QED
    BY <2>1, <2>2
<1>2. SensitiveInv /\ SoundInv /\ [Next]_vars => SensitiveInv' /\ SoundInv'
  BY SensitiveStep, SoundStep
<1>3. SensitiveInv /\ SoundInv => FindingsSound
  BY SoundEnough
<1>4. QED
  BY <1>1, <1>2, <1>3, PTL DEF Spec

--------------------------------------------------------------------------------
(* More evidence.  A scan that sees an event more counts no less (sums over   *)
(* more events), joins no less to each process and listener (Gains,           *)
(* Aggravates), finds every signal present that was present before (Present)  *)
(* and so reports every subject no less severely (Outdone).                   *)

\* The sums the detectors take over events.
PeerSum(T) == MapThenSumSet(LAMBDA e : e.peers, T)
MemorySum(T) == MapThenSumSet(LAMBDA e : e.memory, T)
RequestSum(T) == MapThenSumSet(LAMBDA e : e.n, T)
FailureSum(T, c) == MapThenSumSet(LAMBDA e : FailureCount(e, c), T)

\* Each is the value of a fold over weights.
LEMMA EventAdds ==
    ASSUME NEW w, NEW T, Weighted(w, T), NEW c
    PROVE  /\ (\A e \in T : w[e] = e.peers) => \E it : Adds(it, w, T) /\ PeerSum(T) = it[T]
           /\ (\A e \in T : w[e] = e.memory) => \E it : Adds(it, w, T) /\ MemorySum(T) = it[T]
           /\ (\A e \in T : w[e] = e.n) => \E it : Adds(it, w, T) /\ RequestSum(T) = it[T]
           /\ (\A e \in T : w[e] = FailureCount(e, c)) => \E it : Adds(it, w, T) /\ FailureSum(T, c) = it[T]
<1> DEFINE peers(it) == it = [s \in SUBSET T |-> IF s = {} THEN 0 ELSE Chosen(s).peers + it[s \ {Chosen(s)}]]
           memory(it) == it = [s \in SUBSET T |-> IF s = {} THEN 0 ELSE Chosen(s).memory + it[s \ {Chosen(s)}]]
           requests(it) == it = [s \in SUBSET T |-> IF s = {} THEN 0 ELSE Chosen(s).n + it[s \ {Chosen(s)}]]
           failures(it) == it = [s \in SUBSET T |-> IF s = {} THEN 0 ELSE FailureCount(Chosen(s), c) + it[s \ {Chosen(s)}]]
<1>1. \A s \in SUBSET T : s # {} => Chosen(s) \in T
  BY DEF Chosen
<1>2. PeerSum(T) = (CHOOSE it : peers(it))[T]
  BY DEF PeerSum, MapThenSumSet, MapThenFoldSet, Chosen
<1>3. MemorySum(T) = (CHOOSE it : memory(it))[T]
  BY DEF MemorySum, MapThenSumSet, MapThenFoldSet, Chosen
<1>4. RequestSum(T) = (CHOOSE it : requests(it))[T]
  BY DEF RequestSum, MapThenSumSet, MapThenFoldSet, Chosen
<1>5. FailureSum(T, c) = (CHOOSE it : failures(it))[T]
  BY DEF FailureSum, MapThenSumSet, MapThenFoldSet, Chosen
<1>6. (\A e \in T : w[e] = e.peers) => \A it : peers(it) <=> Adds(it, w, T)
  BY <1>1 DEF Adds
<1>7. (\A e \in T : w[e] = e.memory) => \A it : memory(it) <=> Adds(it, w, T)
  BY <1>1 DEF Adds
<1>8. (\A e \in T : w[e] = e.n) => \A it : requests(it) <=> Adds(it, w, T)
  BY <1>1 DEF Adds
<1>9. (\A e \in T : w[e] = FailureCount(e, c)) => \A it : failures(it) <=> Adds(it, w, T)
  BY <1>1 DEF Adds
<1> HIDE DEF peers, memory, requests, failures
<1>10. \E it : Adds(it, w, T)
  BY AddsExists
<1>11. (\E it : peers(it)) => peers(CHOOSE it : peers(it))
  BY Zenon
<1>12. (\E it : memory(it)) => memory(CHOOSE it : memory(it))
  BY Zenon
<1>13. (\E it : requests(it)) => requests(CHOOSE it : requests(it))
  BY Zenon
<1>14. (\E it : failures(it)) => failures(CHOOSE it : failures(it))
  BY Zenon
<1>15. QED
  BY <1>2, <1>3, <1>4, <1>5, <1>6, <1>7, <1>8, <1>9, <1>10, <1>11, <1>12, <1>13, <1>14

\* More events never make one of them smaller.
LEMMA EventSumsGrow ==
    ASSUME NEW T, IsFiniteSet(T), NEW S \in SUBSET T, NEW c
    PROVE  /\ (\A e \in T : e.peers \in Nat) => PeerSum(S) \in Nat /\ PeerSum(T) \in Nat /\ PeerSum(S) <= PeerSum(T)
           /\ (\A e \in T : e.memory \in Nat) => MemorySum(S) \in Nat /\ MemorySum(T) \in Nat /\ MemorySum(S) <= MemorySum(T)
           /\ (\A e \in T : e.n \in Nat) => RequestSum(S) \in Nat /\ RequestSum(T) \in Nat /\ RequestSum(S) <= RequestSum(T)
           /\ (\A e \in T : FailureCount(e, c) \in Nat) =>
                 FailureSum(S, c) \in Nat /\ FailureSum(T, c) \in Nat /\ FailureSum(S, c) <= FailureSum(T, c)
<1>1. IsFiniteSet(S)
  BY FS_Subset
<1>2. ASSUME \A e \in T : e.peers \in Nat PROVE PeerSum(S) \in Nat /\ PeerSum(T) \in Nat /\ PeerSum(S) <= PeerSum(T)
  <2>1. PICK w : w = [e \in T |-> e.peers]
    OBVIOUS
  <2>2. Weighted(w, T) /\ Weighted(w, S) /\ \A e \in T : w[e] = e.peers
    BY <1>1, <1>2, <2>1 DEF Weighted
  <2>3. PICK it : Adds(it, w, T) /\ PeerSum(T) = it[T]
    BY <2>2, EventAdds
  <2>4. PICK jt : Adds(jt, w, S) /\ PeerSum(S) = jt[S]
    BY <2>2, EventAdds
  <2>5. QED
    BY <2>2, <2>3, <2>4, SumsGrow
<1>3. ASSUME \A e \in T : e.memory \in Nat PROVE MemorySum(S) \in Nat /\ MemorySum(T) \in Nat /\ MemorySum(S) <= MemorySum(T)
  <2>1. PICK w : w = [e \in T |-> e.memory]
    OBVIOUS
  <2>2. Weighted(w, T) /\ Weighted(w, S) /\ \A e \in T : w[e] = e.memory
    BY <1>1, <1>3, <2>1 DEF Weighted
  <2>3. PICK it : Adds(it, w, T) /\ MemorySum(T) = it[T]
    BY <2>2, EventAdds
  <2>4. PICK jt : Adds(jt, w, S) /\ MemorySum(S) = jt[S]
    BY <2>2, EventAdds
  <2>5. QED
    BY <2>2, <2>3, <2>4, SumsGrow
<1>4. ASSUME \A e \in T : e.n \in Nat PROVE RequestSum(S) \in Nat /\ RequestSum(T) \in Nat /\ RequestSum(S) <= RequestSum(T)
  <2>1. PICK w : w = [e \in T |-> e.n]
    OBVIOUS
  <2>2. Weighted(w, T) /\ Weighted(w, S) /\ \A e \in T : w[e] = e.n
    BY <1>1, <1>4, <2>1 DEF Weighted
  <2>3. PICK it : Adds(it, w, T) /\ RequestSum(T) = it[T]
    BY <2>2, EventAdds
  <2>4. PICK jt : Adds(jt, w, S) /\ RequestSum(S) = jt[S]
    BY <2>2, EventAdds
  <2>5. QED
    BY <2>2, <2>3, <2>4, SumsGrow
<1>5. ASSUME \A e \in T : FailureCount(e, c) \in Nat
      PROVE  FailureSum(S, c) \in Nat /\ FailureSum(T, c) \in Nat /\ FailureSum(S, c) <= FailureSum(T, c)
  <2>1. PICK w : w = [e \in T |-> FailureCount(e, c)]
    OBVIOUS
  <2>2. Weighted(w, T) /\ Weighted(w, S) /\ \A e \in T : w[e] = FailureCount(e, c)
    BY <1>1, <1>5, <2>1 DEF Weighted
  <2>3. PICK it : Adds(it, w, T) /\ FailureSum(T, c) = it[T]
    BY <2>2, EventAdds
  <2>4. PICK jt : Adds(jt, w, S) /\ FailureSum(S, c) = jt[S]
    BY <2>2, EventAdds
  <2>5. QED
    BY <2>2, <2>3, <2>4, SumsGrow
<1>6. QED
  BY <1>2, <1>3, <1>4, <1>5

\* What CountsAssumption says of the events of a scan ...
Counted(T) ==
    /\ IsFiniteSet(T)
    /\ \A e \in T :
          /\ e.kind \in {"ssh_auth", "ssh_auth_aggregate"} => e.count \in Nat
          /\ e.kind = "web_access" => e.n \in Nat
          /\ e.kind = "outbound_connection" => e.peers \in Nat
          /\ e.kind = "gpu_compute_process" => e.memory \in Nat
          /\ e.kind \in {"process_snapshot", "process_exec"} =>
                /\ e.outbound \in 0 .. FanoutOutbound
                /\ {"exe", "cwd", "cmd", "name", "pid", "sockets", "outbound", "tags"} \subseteq DOMAIN e
    /\ \A p, q \in {e \in T : e.kind = "process_snapshot"} : p.pid = q.pid => p = q

\* ... and of the thresholds of its configuration.
Thresholds(c) ==
    /\ c.failed_login_threshold \in Nat /\ c.error_burst_threshold \in Nat
    /\ c.behavior_min_score \in Nat /\ c.mining_min_score \in Nat

\* The same with some evidence left out.
Fewer(S, T) ==
    /\ S \subseteq T
    /\ \A e \in T : e.kind \in {"firewall_state", "package_manager_activity"} => e \in S

\* Every finding of A has one in B about its subject that is no less severe.
Outdone(A, B) == \A f \in A : \E g \in B : g.subject = f.subject /\ (g.sev = f.sev \/ g.sev >= f.sev)

\* Findings that are still there are outdone, and so are the parts of a union.
LEMMA OutdoneParts ==
    /\ \A A, B : A \subseteq B => Outdone(A, B)
    /\ \A A, B, C, D : Outdone(A, C) /\ Outdone(B, D) => Outdone(A \cup B, C \cup D)
  BY DEF Outdone

\* Facts that are judged one by one stay reported.
LEMMA MoreFacts ==
    ASSUME NEW S, NEW T, Fewer(S, T), NEW c
    PROVE  UNION {EventFindings(e, PackageActivity(S), c) : e \in S} \subseteq UNION {EventFindings(e, PackageActivity(T), c) : e \in T}
<1>1. PackageActivity(S) = PackageActivity(T)
  BY DEF PackageActivity, Fewer
<1>2. QED
  BY <1>1 DEF Fewer

\* More logins: a source has failed at least as often.
LEMMA MoreFailures ==
    ASSUME NEW S, NEW T, Fewer(S, T), Counted(T), NEW c, NEW ip
    PROVE  Failures(S, ip, c) \in Nat /\ Failures(T, ip, c) \in Nat /\ Failures(S, ip, c) <= Failures(T, ip, c)
<1> DEFINE failed(es) == {e \in Logins(es, c) : e.outcome = "failure" /\ e.ip = ip}
<1>1. Failures(S, ip, c) = FailureSum(failed(S), c) /\ Failures(T, ip, c) = FailureSum(failed(T), c)
  BY DEF Failures, FailureSum
<1>2. failed(S) \in SUBSET failed(T) /\ failed(T) \subseteq T
  BY DEF Logins, Fewer
<1>3. IsFiniteSet(failed(T))
  BY <1>2, FS_Subset DEF Counted
<1>4. \A e \in failed(T) : FailureCount(e, c) \in Nat
  BY DEF Logins, FailureCount, Counted
<1> HIDE DEF failed
<1>5. QED
  BY <1>1, <1>2, <1>3, <1>4, EventSumsGrow

\* What a finding about a source says, without its origin.
LEMMA NewSourceFields ==
    ASSUME NEW rule, NEW cat, NEW sev, NEW subject, NEW ip, NEW g, g = SourceFinding(rule, cat, sev, subject, ip)
    PROVE  DOMAIN g = FieldNames /\ g.subject = subject /\ g.sev = sev
<1>1. Built(g, rule, sev, subject, "", ip, {})
  BY NewSourceFinding, Zenon
<1>2. QED
  BY <1>1, Zenon DEF Built

\* So detect_ssh_events is no quieter.
LEMMA MoreLogins ==
    ASSUME NEW S, NEW T, Fewer(S, T), Counted(T), NEW c, Thresholds(c)
    PROVE  Outdone(SshFindings(S, c), SshFindings(T, c))
<1> DEFINE successes(es) == {e \in Logins(es, c) : e.outcome = "success"}
           attackers(es) == {ip \in {e.ip : e \in Logins(es, c)} : Failures(es, ip, c) >= c.failed_login_threshold}
           accepted(es) == UNION {SuccessFindings(e, c) : e \in successes(es)}
           forced(es) == {BruteForce(ip, Failures(es, ip, c)) : ip \in attackers(es)}
           entered(es) == {BruteForceSuccess(ip, Failures(es, ip, c)) : ip \in attackers(es) \cap {e.ip : e \in successes(es)}}
<1>1. \A es : SshFindings(es, c) = accepted(es) \cup forced(es) \cup entered(es)
  BY DEF SshFindings
<1>2. successes(S) \subseteq successes(T) /\ {e.ip : e \in Logins(S, c)} \subseteq {e.ip : e \in Logins(T, c)}
  BY DEF Logins, Fewer
<1>3. attackers(S) \subseteq attackers(T)
  <2>1. \A ip : Failures(S, ip, c) \in Nat /\ Failures(T, ip, c) \in Nat /\ Failures(S, ip, c) <= Failures(T, ip, c)
    BY MoreFailures
  <2>2. QED
    BY <1>2, <2>1 DEF Thresholds
<1>4. ASSUME NEW ip, NEW m, NEW n
      PROVE  /\ BruteForce(ip, n).subject = BruteForce(ip, m).subject /\ BruteForce(ip, n).sev = BruteForce(ip, m).sev
             /\ BruteForceSuccess(ip, n).subject = BruteForceSuccess(ip, m).subject
             /\ BruteForceSuccess(ip, n).sev = BruteForceSuccess(ip, m).sev
  <2>1. PICK g, h : g = SourceFinding("SSH-003", "Ssh", High, <<ip>>, ip) /\ h = SourceFinding("SSH-007", "Ssh", High, <<ip>>, ip)
    OBVIOUS
  <2>2. DOMAIN g = FieldNames /\ DOMAIN h = FieldNames
    BY <2>1, NewSourceFields
  <2>3. QED
    BY <2>1, <2>2 DEF BruteForce, BruteForceSuccess, FieldNames
<1>5. accepted(S) \subseteq accepted(T)
  BY <1>2
<1> HIDE DEF successes, attackers
<1>6. Outdone(forced(S), forced(T))
  BY <1>3, <1>4 DEF Outdone
<1>7. Outdone(entered(S), entered(T))
  <2>1. {e.ip : e \in successes(S)} \subseteq {e.ip : e \in successes(T)}
    BY <1>2
  <2>2. QED
    BY <1>3, <1>4, <2>1 DEF Outdone
<1> HIDE DEF accepted, forced, entered
<1>8. Outdone(accepted(S), accepted(T))
  BY <1>5, OutdoneParts
<1>9. Outdone(accepted(S) \cup forced(S), accepted(T) \cup forced(T))
  BY <1>6, <1>8, OutdoneParts
<1>10. QED
  BY <1>1, <1>7, <1>9, OutdoneParts

\* A probe is rated Low at least.
LEMMA ProbeRating ==
    ASSUME NEW family, NEW response
    PROVE  ProbeSeverity(family, response) \in Low .. Critical
  BY DEF ProbeSeverity, SuccessSeverity, ProtectedSeverity, BaseSeverity, Low, Medium, High, Critical

\* What is said of a source that probes or errs.
LEMMA SourceReports ==
    ASSUME NEW ip, NEW probes, NEW n
    PROVE  /\ ProbeFinding(ip, probes).subject = <<ip>>
           /\ ProbeFinding(ip, probes).sev = Max({ProbeSeverity(Family(e), ResponseProfile(e.status)) : e \in probes})
           /\ WebErrorBurst(ip, n).subject = <<ip>> /\ WebErrorBurst(ip, n).sev = Low
<1>1. PICK rating : rating = Max({ProbeSeverity(Family(e), ResponseProfile(e.status)) : e \in probes})
  OBVIOUS
<1>2. PICK g, h : g = SourceFinding("WEB-001", "Web", rating, <<ip>>, ip) /\ h = SourceFinding("WEB-002", "Web", Low, <<ip>>, ip)
  OBVIOUS
<1>3. DOMAIN g = FieldNames /\ g.subject = <<ip>> /\ g.sev = rating
  BY <1>2, NewSourceFields
<1>4. DOMAIN h = FieldNames /\ h.subject = <<ip>> /\ h.sev = Low
  BY <1>2, NewSourceFields
<1>5. PICK k, probe, ev : ProbeFinding(ip, probes) = [g EXCEPT !.count = k, !.probe = probe, !.ev = ev]
  BY <1>1, <1>2, ZenonT(30) DEF ProbeFinding
<1>6. ProbeFinding(ip, probes).subject = <<ip>> /\ ProbeFinding(ip, probes).sev = rating
  BY <1>3, <1>5 DEF FieldNames
<1>7. WebErrorBurst(ip, n).subject = <<ip>> /\ WebErrorBurst(ip, n).sev = Low
  BY <1>2, <1>4 DEF WebErrorBurst, FieldNames
<1>8. QED
  BY <1>1, <1>6, <1>7

\* More requests: detect_web_events is no quieter; a source that now probes is
\* no longer a mere source of errors.
LEMMA MoreRequests ==
    ASSUME NEW S, NEW T, Fewer(S, T), Counted(T), NEW c, Thresholds(c)
    PROVE  Outdone(WebFindings(S, c), WebFindings(T, c))
<1> DEFINE probes(es, ip) == {e \in WebEvents(es, c) : e.ip = ip /\ Family(e) # ""}
           failed(es, ip) == {e \in WebEvents(es, c) : e.ip = ip /\ e.status \in {403, 404}}
           errors(es, ip) == RequestSum(failed(es, ip))
           sources(es) == {e.ip : e \in WebEvents(es, c)}
           probing(es) == {ProbeFinding(ip, probes(es, ip)) : ip \in {s \in sources(es) : probes(es, s) # {}}}
           erring(es) == {WebErrorBurst(ip, errors(es, ip)) :
                            ip \in {s \in sources(es) : probes(es, s) = {} /\ errors(es, s) >= c.error_burst_threshold}}
           ratings(es, ip) == {ProbeSeverity(Family(e), ResponseProfile(e.status)) : e \in probes(es, ip)}
<1>1. \A es : WebFindings(es, c) = probing(es) \cup erring(es)
  BY DEF WebFindings, SourceFindings, RequestSum
<1>2. WebEvents(S, c) \subseteq WebEvents(T, c) /\ WebEvents(T, c) \subseteq T
  BY DEF WebEvents, Fewer
<1>3. \A ip : probes(S, ip) \subseteq probes(T, ip)
  BY <1>2
<1>4. sources(S) \subseteq sources(T)
  BY <1>2
<1>5. \A ip : errors(S, ip) \in Nat /\ errors(T, ip) \in Nat /\ errors(S, ip) <= errors(T, ip)
  <2>1. SUFFICES ASSUME NEW ip PROVE errors(S, ip) \in Nat /\ errors(T, ip) \in Nat /\ errors(S, ip) <= errors(T, ip)
    OBVIOUS
  <2>2. failed(S, ip) \in SUBSET failed(T, ip) /\ failed(T, ip) \subseteq T
    BY <1>2
  <2>3. IsFiniteSet(failed(T, ip))
    BY <2>2, FS_Subset DEF Counted
  <2>4. \A e \in failed(T, ip) : e.n \in Nat
    BY DEF WebEvents, Counted
  <2> HIDE DEF failed
  <2>5. QED
    BY <2>2, <2>3, <2>4, EventSumsGrow
<1> HIDE DEF probes
<1>6. \A ip : probes(T, ip) # {} =>
         /\ Max(ratings(T, ip)) \in Low .. Critical
         /\ probes(S, ip) # {} => Max(ratings(S, ip)) <= Max(ratings(T, ip))
  <2>1. SUFFICES ASSUME NEW ip, probes(T, ip) # {}
                 PROVE  /\ Max(ratings(T, ip)) \in Low .. Critical
                        /\ probes(S, ip) # {} => Max(ratings(S, ip)) <= Max(ratings(T, ip))
    OBVIOUS
  <2>2. ratings(T, ip) \subseteq Low .. Critical /\ ratings(T, ip) # {} /\ ratings(S, ip) \subseteq ratings(T, ip)
    BY <1>3, <2>1, ProbeRating
  <2>3. probes(S, ip) # {} => ratings(S, ip) # {}
    OBVIOUS
  <2>4. 5 \in Nat /\ ratings(T, ip) \subseteq 0 .. 5 /\ ratings(S, ip) \subseteq 0 .. 5
    BY <2>2 DEF Low, Critical
  <2> HIDE DEF ratings
  <2>5. Max(ratings(T, ip)) \in ratings(T, ip) /\ \A y \in ratings(T, ip) : Max(ratings(T, ip)) >= y
    BY <2>2, <2>4, MaxNat
  <2>6. ratings(S, ip) # {} => Max(ratings(S, ip)) \in ratings(S, ip)
    BY <2>4, MaxNat
  <2>7. QED
    BY <2>2, <2>3, <2>4, <2>5, <2>6 DEF Low, Critical
<1>7. \A ip : /\ ProbeFinding(ip, probes(S, ip)).subject = <<ip>> /\ ProbeFinding(ip, probes(S, ip)).sev = Max(ratings(S, ip))
              /\ ProbeFinding(ip, probes(T, ip)).subject = <<ip>> /\ ProbeFinding(ip, probes(T, ip)).sev = Max(ratings(T, ip))
  BY SourceReports
<1>8. \A ip, n : WebErrorBurst(ip, n).subject = <<ip>> /\ WebErrorBurst(ip, n).sev = Low
  BY SourceReports
<1> HIDE DEF errors, sources, ratings
<1>9. Outdone(probing(S), probing(T))
  <2>1. SUFFICES ASSUME NEW f \in probing(S)
                 PROVE  \E g \in probing(T) : g.subject = f.subject /\ (g.sev = f.sev \/ g.sev >= f.sev)
    BY DEF Outdone
  <2>2. PICK ip \in sources(S) : probes(S, ip) # {} /\ f = ProbeFinding(ip, probes(S, ip))
    BY <2>1
  <2>3. probes(T, ip) # {} /\ ip \in sources(T)
    BY <1>3, <1>4, <2>2
  <2>4. PICK g : g = ProbeFinding(ip, probes(T, ip))
    OBVIOUS
  <2>5. g \in probing(T)
    BY <2>3, <2>4
  <2>6. PICK a, b : a = Max(ratings(S, ip)) /\ b = Max(ratings(T, ip))
    OBVIOUS
  <2>7. g.subject = f.subject /\ f.sev = a /\ g.sev = b /\ a <= b
    BY <1>6, <1>7, <2>2, <2>3, <2>4, <2>6
  <2>8. QED
    BY <2>5, <2>7
<1>10. Outdone(erring(S), probing(T) \cup erring(T))
  <2>1. SUFFICES ASSUME NEW f \in erring(S)
                 PROVE  \E g \in probing(T) \cup erring(T) : g.subject = f.subject /\ (g.sev = f.sev \/ g.sev >= f.sev)
    BY DEF Outdone
  <2>2. PICK ip \in sources(S) : errors(S, ip) >= c.error_burst_threshold /\ f = WebErrorBurst(ip, errors(S, ip))
    BY <2>1
  <2>3. ip \in sources(T) /\ errors(T, ip) >= c.error_burst_threshold
    BY <1>4, <1>5, <2>2 DEF Thresholds
  <2>4. f.subject = <<ip>> /\ f.sev = Low
    BY <1>8, <2>2
  <2>5. CASE probes(T, ip) = {}
    <3>1. PICK g : g = WebErrorBurst(ip, errors(T, ip))
      OBVIOUS
    <3>2. g \in erring(T)
      BY <2>3, <2>5, <3>1
    <3>3. QED
      BY <1>8, <2>4, <3>1, <3>2
  <2>6. CASE probes(T, ip) # {}
    <3>1. PICK g : g = ProbeFinding(ip, probes(T, ip))
      OBVIOUS
    <3>2. g \in probing(T)
      BY <2>3, <2>6, <3>1
    <3>3. g.subject = <<ip>> /\ g.sev \in Low .. Critical
      BY <1>6, <1>7, <2>6, <3>1
    <3>4. g.sev >= Low
      BY <3>3 DEF Low, Critical
    <3>5. QED
      BY <2>4, <3>2, <3>3, <3>4
  <2>7. QED
    BY <2>5, <2>6
<1> HIDE DEF probing, erring
<1>11. QED
  BY <1>1, <1>9, <1>10 DEF Outdone

\* Every signal present in A is one of B.
Present(A, B) == \A t \in A : t[3] => t \in B

\* A signal stays present when its condition does.
LEMMA SignalKept ==
    ASSUME NEW weight, NEW name, NEW b \in BOOLEAN, NEW d \in BOOLEAN, b => d
    PROVE  Present({<<weight, name, b>>}, {<<weight, name, d>>})
<1>1. CASE b = TRUE
  <2>1. d = TRUE
    BY <1>1
  <2>2. QED
    BY <1>1, <2>1, Zenon DEF Present
<1>2. CASE b = FALSE
  <2>1. SUFFICES ASSUME NEW t, t = <<weight, name, b>>, t[3] PROVE FALSE
    BY DEF Present
  <2>2. PICK u : u = <<weight, name, FALSE>>
    OBVIOUS
  <2>3. ~u[3]
    BY <2>2
  <2>4. QED
    BY <1>2, <2>1, <2>2, <2>3
<1>3. QED
  BY <1>1, <1>2

\* Unions of signals.
LEMMA PresentParts == \A A, B, C, D : Present(A, C) /\ Present(B, D) => Present(A \cup B, C \cup D)
  BY DEF Present

\* With more signals present the greatest weight is no smaller, whatever their
\* number.
LEMMA MaximaGrow ==
    ASSUME NEW A, NEW B, Present(A, B), \A t \in A : t[1] \in 0 .. 100, \A t \in B : t[1] \in 0 .. 100
    PROVE  MaxScore(A) \in 0 .. 100 /\ MaxScore(B) \in 0 .. 100 /\ MaxScore(A) <= MaxScore(B)
<1>1. PICK U, V : U = {0} \cup {s[1] : s \in {t \in A : t[3]}} /\ V = {0} \cup {s[1] : s \in {t \in B : t[3]}}
  OBVIOUS
<1>2. MaxScore(A) = Max(U) /\ MaxScore(B) = Max(V)
  BY <1>1 DEF MaxScore
<1>3. U \subseteq 0 .. 100 /\ V \subseteq 0 .. 100 /\ U # {} /\ V # {} /\ U \subseteq V
  BY <1>1 DEF Present
<1>4. Max(U) \in U /\ Max(U) \in 0 .. 100
  BY <1>3, MaxNat, 100 \in Nat
<1>5. Max(V) \in 0 .. 100 /\ \A y \in V : Max(V) >= y
  BY <1>3, MaxNat, 100 \in Nat
<1>6. QED
  BY <1>2, <1>3, <1>4, <1>5

\* With more signals present neither a maximum nor a sum is smaller.
LEMMA ScoresGrow ==
    ASSUME NEW A, NEW B, Present(A, B), IsFiniteSet(A), IsFiniteSet(B),
           \A t \in A : t[1] \in 0 .. 100, \A t \in B : t[1] \in 0 .. 100
    PROVE  /\ MaxScore(A) \in 0 .. 100 /\ MaxScore(B) \in 0 .. 100 /\ MaxScore(A) <= MaxScore(B)
           /\ SumScore(A) \in Nat /\ SumScore(B) \in Nat /\ SumScore(A) <= SumScore(B)
           /\ Features(A) \subseteq Features(B)
<1>1. PICK S, T : S = {t \in A : t[3]} /\ T = {t \in B : t[3]}
  OBVIOUS
<1>2. S \in SUBSET T
  BY <1>1 DEF Present
<1>3. SumScore(A) \in Nat /\ SumScore(B) \in Nat /\ SumScore(A) <= SumScore(B)
  <2>1. IsFiniteSet(T) /\ \A t \in T : t[1] \in Nat
    BY <1>1, FS_Subset
  <2>2. SumScore(A) = SignalSum(S) /\ SumScore(B) = SignalSum(T)
    BY <1>1 DEF SumScore, SignalSum
  <2>3. QED
    BY <1>2, <2>1, <2>2, SignalsGrow
<1>4. MaxScore(A) \in 0 .. 100 /\ MaxScore(B) \in 0 .. 100 /\ MaxScore(A) <= MaxScore(B)
  BY MaximaGrow
<1>5. Features(A) \subseteq Features(B)
  BY <1>1, <1>2 DEF Features
<1>6. QED
  BY <1>3, <1>4, <1>5

\* The facts that are joined to a process.
Joined == {"gpu_memory", "gpu_high_utilization", "gpu_high_power", "mining_pool_port", "unowned"}

\* The process b is the process a with more joined to it.
Gains(a, b) ==
    /\ a.exe = b.exe /\ a.cwd = b.cwd /\ a.cmd = b.cmd /\ a.name = b.name /\ a.pid = b.pid /\ a.sockets = b.sockets
    /\ a.outbound \in 0 .. FanoutOutbound /\ b.outbound \in 0 .. FanoutOutbound /\ a.outbound <= b.outbound
    /\ a.tags \subseteq b.tags /\ b.tags \ Joined \subseteq a.tags

\* Of the facts of a process only those can be new.
LEMMA GainedTags ==
    ASSUME NEW a, NEW b, Gains(a, b)
    PROVE  /\ \A t : t \in a.tags => t \in b.tags
           /\ \A t : t \notin Joined => (t \in a.tags <=> t \in b.tags)
           /\ \A t : t \notin Joined => Has(a, t) = Has(b, t)
           /\ \A t : Has(a, t) => Has(b, t)
<1>1. \A t : t \in a.tags => t \in b.tags
  BY DEF Gains
<1>2. \A t : t \notin Joined => (t \in a.tags <=> t \in b.tags)
  BY DEF Gains
<1>3. QED
  BY <1>1, <1>2 DEF Has

\* What a process is itself stays, what is joined to it only grows.
LEMMA GainedFacts ==
    ASSUME NEW a, NEW b, Gains(a, b)
    PROVE  /\ Deleted(a) = Deleted(b) /\ Anonymous(a) = Anonymous(b) /\ Bridge(a) = Bridge(b)
           /\ KnownTool(a) = KnownTool(b) /\ SourceBuild(a) = SourceBuild(b) /\ HighCpu(a) = HighCpu(b)
           /\ ShellParent(a) = ShellParent(b) /\ InWebRoots(a) = InWebRoots(b)
           /\ KernelThreadMasquerade(a) = KernelThreadMasquerade(b) /\ MlWorkspace(a) = MlWorkspace(b)
           /\ PathSignal(a) = PathSignal(b) /\ ProcessSubject(a) = ProcessSubject(b)
           /\ MiningPool(a) => MiningPool(b)
           /\ HighGpuUtilization(a) => HighGpuUtilization(b)
           /\ HighGpuPower(a) => HighGpuPower(b)
           /\ QueriesPackage(a) => QueriesPackage(b)
<1>1. Bridge(a) = Bridge(b) /\ PathSignal(a) = PathSignal(b)
  BY DEF Bridge, PathSignal, Gains
<1>2. Deleted(a) = Deleted(b) /\ Anonymous(a) = Anonymous(b) /\ ShellParent(a) = ShellParent(b)
  BY GainedTags DEF Deleted, Anonymous, ShellParent, Joined
<1>3. /\ MiningPool(a) => MiningPool(b)
      /\ HighGpuUtilization(a) => HighGpuUtilization(b)
      /\ HighGpuPower(a) => HighGpuPower(b)
  BY GainedTags DEF MiningPool, HighGpuUtilization, HighGpuPower
<1>4. HighCpu(a) = HighCpu(b) /\ MlWorkspace(a) = MlWorkspace(b)
  BY GainedTags DEF HighCpu, MlWorkspace, Joined
<1>5. SourceBuild(a) = SourceBuild(b)
  BY GainedTags DEF SourceBuild, Joined
<1>6. InWebRoots(a) = InWebRoots(b) /\ KernelThreadMasquerade(a) = KernelThreadMasquerade(b)
  BY GainedTags DEF InWebRoots, KernelThreadMasquerade, Gains, Joined
<1>7. KnownTool(a) = KnownTool(b)
  <2>1. Has(a, "known_tool") = Has(b, "known_tool") /\ Has(a, "tool_in_cmdline") = Has(b, "tool_in_cmdline") /\ Has(a, "argv") = Has(b, "argv")
    BY GainedTags DEF Joined
  <2>2. QED
    BY <2>1, Zenon DEF KnownTool, Gains
<1>8. ProcessSubject(a) = ProcessSubject(b)
  BY DEF ProcessSubject, Gains
<1>9. QueriesPackage(a) => QueriesPackage(b)
  <2>1. a.tags \cap {"hidden", "kernel_thread_name", "execstart_mismatch"} = b.tags \cap {"hidden", "kernel_thread_name", "execstart_mismatch"}
    BY GainedTags DEF Joined
  <2>2. a.outbound > 0 => b.outbound > 0
    BY DEF Gains
  <2>3. QED
    BY <1>4, <2>1, <2>2 DEF QueriesPackage, Gains
<1>10. QED
  BY <1>1, <1>2, <1>3, <1>4, <1>5, <1>6, <1>7, <1>8, <1>9

\* Four and five parts at once.
LEMMA PresentInParts ==
    /\ \A A1, A2, A3, A4, B1, B2, B3, B4 :
          Present(A1, B1) /\ Present(A2, B2) /\ Present(A3, B3) /\ Present(A4, B4)
             => Present(A1 \cup A2 \cup A3 \cup A4, B1 \cup B2 \cup B3 \cup B4)
    /\ \A A1, A2, A3, A4, A5, B1, B2, B3, B4, B5 :
          Present(A1, B1) /\ Present(A2, B2) /\ Present(A3, B3) /\ Present(A4, B4) /\ Present(A5, B5)
             => Present(A1 \cup A2 \cup A3 \cup A4 \cup A5, B1 \cup B2 \cup B3 \cup B4 \cup B5)
  BY DEF Present

\* The combinations of facts: what is joined completes more of them.
LEMMA GainedClusters ==
    ASSUME NEW a, NEW b, Gains(a, b)
    PROVE  /\ a.outbound > 0 => b.outbound > 0
           /\ a.outbound = FanoutOutbound => b.outbound = FanoutOutbound
           /\ PrivilegedGpuCluster(a) => PrivilegedGpuCluster(b)
           /\ ShellStartedGpuCluster(a) => ShellStartedGpuCluster(b)
           /\ UtilizedMiningCluster(a) => UtilizedMiningCluster(b)
           /\ UtilizedIdentityCluster(a) => UtilizedIdentityCluster(b)
<1>1. a.outbound > 0 => b.outbound > 0
  BY DEF Gains
<1>2. a.outbound = FanoutOutbound => b.outbound = FanoutOutbound
  BY DEF Gains, FanoutOutbound
<1>3. Has(a, "root") = Has(b, "root") /\ Has(a, "hidden") = Has(b, "hidden")
  BY GainedTags DEF Joined
<1>4. PrivilegedGpuCluster(a) => PrivilegedGpuCluster(b)
  BY <1>1, <1>3, GainedFacts DEF PrivilegedGpuCluster
<1>5. ShellStartedGpuCluster(a) => ShellStartedGpuCluster(b)
  BY <1>1, GainedFacts DEF ShellStartedGpuCluster
<1>6. UtilizedMiningCluster(a) => UtilizedMiningCluster(b)
  BY GainedFacts DEF UtilizedMiningCluster
<1>7. UtilizedIdentityCluster(a) => UtilizedIdentityCluster(b)
  BY <1>3, GainedFacts DEF UtilizedIdentityCluster, Gains
<1>8. QED
  BY <1>1, <1>2, <1>4, <1>5, <1>6, <1>7

\* The score of PROC-002 does not depend on what is joined.
LEMMA GainedDeleted ==
    ASSUME NEW a, NEW b, Gains(a, b)
    PROVE  DeletedScore(a) = DeletedScore(b)
<1> DEFINE score(b1, b2, b3, b4, b5, b6, b7) ==
              MaxScore({<<90, "anonymous_deleted_executable", b1>>, <<80, "deleted_suspicious_path", b2>>,
                        <<70, "hidden_nonstandard_executable", b3>>, <<85, "network_execution_bridge", b4>>,
                        <<85, "known_bad_tool", b5>>, <<55, "sustained_high_cpu", b6>>, <<45, "shell_process", b7>>})
           mine(p) == score(Anonymous(p), p.exe \in SuspiciousDirs, Has(p, "hidden") /\ p.exe # "standard",
                            Bridge(p), KnownTool(p), HighCpu(p), Has(p, "shell_name"))
<1>1. DeletedScore(a) = mine(a) /\ DeletedScore(b) = mine(b)
  BY Zenon DEF DeletedScore
<1>2. Has(a, "hidden") = Has(b, "hidden") /\ Has(a, "shell_name") = Has(b, "shell_name")
  BY GainedTags DEF Joined
<1> HIDE DEF score
<1>3. mine(a) = mine(b)
  BY <1>2, GainedFacts DEF Gains
<1>4. QED
  BY <1>1, <1>3

\* The score of PROC-006 grows.
LEMMA GainedGpu ==
    ASSUME NEW a, NEW b, Gains(a, b)
    PROVE  GpuScore(a) \in Nat /\ GpuScore(b) \in Nat /\ GpuScore(a) <= GpuScore(b)
<1> DEFINE own(b1, b2, b3, b4, b6, b7, b11, b12) ==
              {<<90, "known_gpu_miner_identity", b1>>, <<90, "gpu_deleted_executable", b2>>,
               <<95, "gpu_anonymous_executable", b3>>, <<85, "gpu_suspicious_path", b4>>,
               <<90, "gpu_network_execution_bridge", b6>>, <<55, "gpu_hidden_executable_name", b7>>,
               <<35, "gpu_sustained_high_cpu", b11>>, <<45, "gpu_shell_or_scheduler_parent", b12>>}
           s5(x) == {<<85, "mining_pool_remote_port", x>>}
           s8(x) == {<<35, "gpu_public_outbound_connections", x>>}
           s9(x) == {<<35, "gpu_high_utilization", x>>}
           s10(x) == {<<25, "gpu_high_power_draw", x>>}
           s13(x) == {<<80, "privileged_gpu_network_cpu_cluster", x>>}
           s14(x) == {<<80, "shell_started_gpu_public_network_cluster", x>>}
           s15(x) == {<<80, "hidden_gpu_process_with_public_outbound", x>>}
           s16(x) == {<<70, "gpu_high_utilization_mining_port_cluster", x>>}
           s17(x) == {<<65, "gpu_high_utilization_suspicious_identity_cluster", x>>}
           joined(b5, b8, b9, b10) == s5(b5) \cup s8(b8) \cup s9(b9) \cup s10(b10)
           clusters(b13, b14, b15, b16, b17) == s13(b13) \cup s14(b14) \cup s15(b15) \cup s16(b16) \cup s17(b17)
           bare(p) == Has(p, "hidden") /\ p.outbound > 0
           mineOwn(p) == own(KnownTool(p), Deleted(p), Anonymous(p), p.exe \in SuspiciousDirs, Bridge(p), Has(p, "hidden"),
                             HighCpu(p), ShellParent(p))
           mineJoined(p) == joined(MiningPool(p), p.outbound > 0, HighGpuUtilization(p), HighGpuPower(p))
           mineClusters(p) == clusters(PrivilegedGpuCluster(p), ShellStartedGpuCluster(p),
                                       bare(p), UtilizedMiningCluster(p), UtilizedIdentityCluster(p))
           mine(p) == mineOwn(p) \cup mineJoined(p) \cup mineClusters(p)
<1> DEFINE list(b1, b2, b3, b4, b5, b6, b7, b8, b9, b10, b11, b12, b13, b14, b15, b16, b17) ==
                        {<<90, "known_gpu_miner_identity", b1>>, <<90, "gpu_deleted_executable", b2>>,
                          <<95, "gpu_anonymous_executable", b3>>, <<85, "gpu_suspicious_path", b4>>,
                          <<85, "mining_pool_remote_port", b5>>, <<90, "gpu_network_execution_bridge", b6>>,
                          <<55, "gpu_hidden_executable_name", b7>>, <<35, "gpu_public_outbound_connections", b8>>,
                          <<35, "gpu_high_utilization", b9>>, <<25, "gpu_high_power_draw", b10>>,
                          <<35, "gpu_sustained_high_cpu", b11>>, <<45, "gpu_shell_or_scheduler_parent", b12>>,
                          <<80, "privileged_gpu_network_cpu_cluster", b13>>,
                          <<80, "shell_started_gpu_public_network_cluster", b14>>,
                          <<80, "hidden_gpu_process_with_public_outbound", b15>>,
                          <<70, "gpu_high_utilization_mining_port_cluster", b16>>,
                          <<65, "gpu_high_utilization_suspicious_identity_cluster", b17>>}
           listed(p) == list(KnownTool(p), Deleted(p), Anonymous(p), p.exe \in SuspiciousDirs, MiningPool(p), Bridge(p),
                              Has(p, "hidden"), p.outbound > 0, HighGpuUtilization(p), HighGpuPower(p), HighCpu(p),
                              ShellParent(p), PrivilegedGpuCluster(p), ShellStartedGpuCluster(p),
                              bare(p), UtilizedMiningCluster(p), UtilizedIdentityCluster(p))
<1>1. GpuScore(a) = MaxScore(listed(a)) /\ GpuScore(b) = MaxScore(listed(b))
  BY Zenon DEF GpuScore
<1>2. \A b1, b2, b3, b4, b5, b6, b7, b8, b9, b10, b11, b12, b13, b14, b15, b16, b17 :
         list(b1, b2, b3, b4, b5, b6, b7, b8, b9, b10, b11, b12, b13, b14, b15, b16, b17)
           = own(b1, b2, b3, b4, b6, b7, b11, b12) \cup joined(b5, b8, b9, b10) \cup clusters(b13, b14, b15, b16, b17)
  OBVIOUS
<1>3. \A b1, b2, b3, b4, b5, b6, b7, b8, b9, b10, b11, b12, b13, b14, b15, b16, b17 :
         \A t \in list(b1, b2, b3, b4, b5, b6, b7, b8, b9, b10, b11, b12, b13, b14, b15, b16, b17) : t[1] \in 0 .. 100
  OBVIOUS
<1>4. \A x, y \in BOOLEAN : (x => y) =>
         Present(s5(x), s5(y)) /\ Present(s8(x), s8(y)) /\ Present(s9(x), s9(y)) /\ Present(s10(x), s10(y))
  BY SignalKept, ZenonT(60)
<1>5. /\ \A x, y \in BOOLEAN : (x => y) => Present(s13(x), s13(y)) /\ Present(s14(x), s14(y)) /\ Present(s15(x), s15(y))
      /\ \A x, y \in BOOLEAN : (x => y) => Present(s16(x), s16(y)) /\ Present(s17(x), s17(y))
  <2>1. \A x, y \in BOOLEAN : (x => y) => Present(s13(x), s13(y)) /\ Present(s14(x), s14(y)) /\ Present(s15(x), s15(y))
    BY SignalKept, ZenonT(60)
  <2>2. \A x, y \in BOOLEAN : (x => y) => Present(s16(x), s16(y)) /\ Present(s17(x), s17(y))
    BY SignalKept
  <2> HIDE DEF s13, s14, s15, s16, s17
  <2>3. QED
    BY <2>1, <2>2
<1> HIDE DEF own, joined, clusters, list, s5, s8, s9, s10, s13, s14, s15, s16, s17
<1>6. listed(a) = mine(a) /\ listed(b) = mine(b)
  BY <1>2
<1>7. \A t \in listed(a) \cup listed(b) : t[1] \in 0 .. 100
  BY <1>3, ZenonT(60)
<1> HIDE DEF listed
<1>8. Has(a, "hidden") = Has(b, "hidden")
  BY GainedTags DEF Joined
<1>9. mineOwn(a) = mineOwn(b)
  BY <1>8, GainedFacts DEF Gains
<1>10. Present(mineJoined(a), mineJoined(b))
  <2>1. /\ MiningPool(a) \in BOOLEAN /\ MiningPool(b) \in BOOLEAN
        /\ HighGpuUtilization(a) \in BOOLEAN /\ HighGpuUtilization(b) \in BOOLEAN
        /\ HighGpuPower(a) \in BOOLEAN /\ HighGpuPower(b) \in BOOLEAN
    BY DEF MiningPool, HighGpuUtilization, HighGpuPower, Has
  <2>2. (a.outbound > 0) \in BOOLEAN /\ (b.outbound > 0) \in BOOLEAN
    OBVIOUS
  <2>3. /\ Present(s5(MiningPool(a)), s5(MiningPool(b))) /\ Present(s8(a.outbound > 0), s8(b.outbound > 0))
        /\ Present(s9(HighGpuUtilization(a)), s9(HighGpuUtilization(b))) /\ Present(s10(HighGpuPower(a)), s10(HighGpuPower(b)))
    BY <1>4, <2>1, <2>2, GainedFacts, GainedClusters
  <2>4. QED
    BY <2>3, PresentInParts DEF joined
<1>11. Present(mineClusters(a), mineClusters(b))
  <2>1. /\ PrivilegedGpuCluster(a) \in BOOLEAN /\ PrivilegedGpuCluster(b) \in BOOLEAN
        /\ ShellStartedGpuCluster(a) \in BOOLEAN /\ ShellStartedGpuCluster(b) \in BOOLEAN
        /\ UtilizedMiningCluster(a) \in BOOLEAN /\ UtilizedMiningCluster(b) \in BOOLEAN
        /\ UtilizedIdentityCluster(a) \in BOOLEAN /\ UtilizedIdentityCluster(b) \in BOOLEAN
    BY DEF PrivilegedGpuCluster, ShellStartedGpuCluster, UtilizedMiningCluster, UtilizedIdentityCluster
  <2>2. bare(a) \in BOOLEAN /\ bare(b) \in BOOLEAN
    OBVIOUS
  <2>3. bare(a) => bare(b)
    BY <1>8, GainedClusters
  <2> HIDE DEF bare
  <2>4. /\ Present(s13(PrivilegedGpuCluster(a)), s13(PrivilegedGpuCluster(b)))
        /\ Present(s14(ShellStartedGpuCluster(a)), s14(ShellStartedGpuCluster(b)))
        /\ Present(s15(bare(a)), s15(bare(b)))
        /\ Present(s16(UtilizedMiningCluster(a)), s16(UtilizedMiningCluster(b)))
        /\ Present(s17(UtilizedIdentityCluster(a)), s17(UtilizedIdentityCluster(b)))
    BY <1>5, <2>1, <2>2, <2>3, GainedClusters
  <2>5. QED
    BY <2>4, PresentInParts DEF clusters
<1> HIDE DEF mineOwn, mineJoined, mineClusters
<1>12. Present(mine(a), mine(b))
  <2>1. Present(mineOwn(a), mineOwn(b))
    BY <1>9 DEF Present
  <2>2. QED
    BY <1>10, <1>11, <2>1, PresentParts
<1>13. QED
  BY <1>1, <1>6, <1>7, <1>12, MaximaGrow

\* A connection more never turns a process into a low-risk interactive one:
\* only one that had no connection yet can become that.
LEMMA GainedRisk ==
    ASSUME NEW a, NEW b, Gains(a, b), LowRiskInteractive(b)
    PROVE  ~Has(a, "hidden") /\ (a.outbound > 0 => LowRiskInteractive(a))
<1>1. a.tags \cap {"hidden", "execstart_mismatch", "kernel_thread_name", "deleted", "memfd"}
        = b.tags \cap {"hidden", "execstart_mismatch", "kernel_thread_name", "deleted", "memfd"}
  BY GainedTags DEF Joined
<1>2. Has(a, "young") = Has(b, "young")
  BY GainedTags DEF Joined
<1>3. ~Has(a, "hidden")
  BY <1>1 DEF LowRiskInteractive, Has
<1>4. a.outbound > 0 => a.outbound = FewOutbound
  BY DEF Gains, LowRiskInteractive, FewOutbound
<1>5. QED
  BY <1>1, <1>2, <1>3, <1>4, GainedFacts DEF LowRiskInteractive, Gains

\* The signals of behavior_cluster_assessment stay present.
LEMMA GainedSignals ==
    ASSUME NEW a, NEW b, Gains(a, b)
    PROVE  /\ SumScore(ClusterSignals(a)) \in Nat /\ SumScore(ClusterSignals(b)) \in Nat
           /\ SumScore(ClusterSignals(a)) <= SumScore(ClusterSignals(b))
           /\ Features(ClusterSignals(a)) \subseteq Features(ClusterSignals(b))
<1> DEFINE signals(b1, b2, b3, b4, b5, b6, b7, b8, b9, b10, b11, b12, b13) ==
              {<<55, "kernel_thread_masquerade", b1>>, <<40, "web_path_executable", b2>>,
               <<25, "hidden_executable_name", b3>>, <<10, "runtime_cwd", b4>>,
               <<30, "suspicious_cwd", b5>>, <<30, "many_socket_fds", b6>>,
               <<15, "socket_activity", b7>>, <<25, "sustained_high_cpu", b8>>,
               <<20, "public_outbound_connections", b9>>, <<35, "public_outbound_fanout", b10>>,
               <<35, "systemd_execstart_mismatch", b11>>, <<45, "unpackaged_network_process", b12>>,
               <<20, "shell_or_scheduler_parent", b13>>}
           own(b1, b2, b3, b4, b5, b6, b7, b8, b11) ==
              {<<55, "kernel_thread_masquerade", b1>>, <<40, "web_path_executable", b2>>,
               <<25, "hidden_executable_name", b3>>, <<10, "runtime_cwd", b4>>,
               <<30, "suspicious_cwd", b5>>, <<30, "many_socket_fds", b6>>,
               <<15, "socket_activity", b7>>, <<25, "sustained_high_cpu", b8>>, <<35, "systemd_execstart_mismatch", b11>>}
           s9(x) == {<<20, "public_outbound_connections", x>>}
           s10(x) == {<<35, "public_outbound_fanout", x>>}
           s12(x) == {<<45, "unpackaged_network_process", x>>}
           s13(x) == {<<20, "shell_or_scheduler_parent", x>>}
           joined(b9, b10, b12, b13) == s9(b9) \cup s10(b10) \cup s12(b12) \cup s13(b13)
           started(p) == ShellParent(p) /\ ~LowRiskInteractive(p)
           unpackaged(p) == /\ Has(p, "unowned") /\ p.outbound > 0
                            /\ \/ started(p)
                               \/ HighCpu(p)
                               \/ p.tags \cap {"hidden", "execstart_mismatch", "kernel_thread_name"} # {}
           scheduled(p) == started(p) /\ (p.outbound > 0 \/ Has(p, "hidden"))
           mine(p) == signals(KernelThreadMasquerade(p), InWebRoots(p), Has(p, "hidden"), p.cwd = "run",
                              p.cwd \in SuspiciousDirs \ {"run"}, p.sockets = ManySockets, p.sockets = SomeSockets,
                              HighCpu(p), p.outbound > 0, p.outbound = FanoutOutbound, Has(p, "execstart_mismatch"),
                              unpackaged(p), scheduled(p))
           mineOwn(p) == own(KernelThreadMasquerade(p), InWebRoots(p), Has(p, "hidden"), p.cwd = "run",
                             p.cwd \in SuspiciousDirs \ {"run"}, p.sockets = ManySockets, p.sockets = SomeSockets,
                             HighCpu(p), Has(p, "execstart_mismatch"))
           mineJoined(p) == joined(p.outbound > 0, p.outbound = FanoutOutbound, unpackaged(p), scheduled(p))
<1>1. ClusterSignals(a) = mine(a) /\ ClusterSignals(b) = mine(b)
  BY Zenon DEF ClusterSignals
<1>2. ASSUME NEW b1, NEW b2, NEW b3, NEW b4, NEW b5, NEW b6, NEW b7, NEW b8, NEW b9, NEW b10, NEW b11, NEW b12, NEW b13
      PROVE  /\ IsFiniteSet(signals(b1, b2, b3, b4, b5, b6, b7, b8, b9, b10, b11, b12, b13))
             /\ \A t \in signals(b1, b2, b3, b4, b5, b6, b7, b8, b9, b10, b11, b12, b13) : t[1] \in 0 .. 100
             /\ signals(b1, b2, b3, b4, b5, b6, b7, b8, b9, b10, b11, b12, b13)
                  = own(b1, b2, b3, b4, b5, b6, b7, b8, b11) \cup joined(b9, b10, b12, b13)
  <2>1. IsFiniteSet(signals(b1, b2, b3, b4, b5, b6, b7, b8, b9, b10, b11, b12, b13))
    BY ThirteenFinite, ZenonT(60)
  <2>2. \A t \in signals(b1, b2, b3, b4, b5, b6, b7, b8, b9, b10, b11, b12, b13) : t[1] \in 0 .. 100
    OBVIOUS
  <2>3. signals(b1, b2, b3, b4, b5, b6, b7, b8, b9, b10, b11, b12, b13)
          = own(b1, b2, b3, b4, b5, b6, b7, b8, b11) \cup joined(b9, b10, b12, b13)
    OBVIOUS
  <2> HIDE DEF signals, own, joined
  <2>4. QED
    BY <2>1, <2>2, <2>3
<1>3. \A x, y \in BOOLEAN : (x => y) =>
         Present(s9(x), s9(y)) /\ Present(s10(x), s10(y)) /\ Present(s12(x), s12(y)) /\ Present(s13(x), s13(y))
  BY SignalKept
<1> HIDE DEF signals, own, joined, s9, s10, s12, s13
<1>4. \A t : t \notin Joined => Has(a, t) = Has(b, t)
  BY GainedTags
<1>5. scheduled(a) => scheduled(b)
  <2>1. Has(a, "hidden") = Has(b, "hidden")
    BY <1>4 DEF Joined
  <2>2. QED
    BY <2>1, GainedRisk, GainedFacts, GainedClusters
<1>6. unpackaged(a) => unpackaged(b)
  <2>1. Has(a, "unowned") => Has(b, "unowned")
    BY GainedTags
  <2>2. a.tags \cap {"hidden", "execstart_mismatch", "kernel_thread_name"} = b.tags \cap {"hidden", "execstart_mismatch", "kernel_thread_name"}
    BY GainedTags DEF Joined
  <2>3. a.outbound > 0 => b.outbound > 0
    BY GainedClusters
  <2>4. a.outbound > 0 /\ started(a) => started(b)
    BY GainedRisk, GainedFacts
  <2> HIDE DEF started
  <2>5. QED
    BY <2>1, <2>2, <2>3, <2>4, GainedFacts
<1>7. /\ scheduled(a) \in BOOLEAN /\ scheduled(b) \in BOOLEAN /\ unpackaged(a) \in BOOLEAN /\ unpackaged(b) \in BOOLEAN
      /\ (a.outbound > 0) \in BOOLEAN /\ (b.outbound > 0) \in BOOLEAN
      /\ (a.outbound = FanoutOutbound) \in BOOLEAN /\ (b.outbound = FanoutOutbound) \in BOOLEAN
  OBVIOUS
<1> HIDE DEF scheduled, unpackaged
<1>8. Present(mineJoined(a), mineJoined(b))
  <2>1. (a.outbound > 0 => b.outbound > 0) /\ (a.outbound = FanoutOutbound => b.outbound = FanoutOutbound)
    BY GainedClusters
  <2>2. /\ Present(s9(a.outbound > 0), s9(b.outbound > 0))
        /\ Present(s10(a.outbound = FanoutOutbound), s10(b.outbound = FanoutOutbound))
        /\ Present(s12(unpackaged(a)), s12(unpackaged(b))) /\ Present(s13(scheduled(a)), s13(scheduled(b)))
    BY <1>3, <1>5, <1>6, <1>7, <2>1
  <2>3. QED
    BY <2>2, PresentInParts DEF joined
<1>9. mineOwn(a) = mineOwn(b)
  <2>1. Has(a, "hidden") = Has(b, "hidden") /\ Has(a, "execstart_mismatch") = Has(b, "execstart_mismatch")
    BY <1>4 DEF Joined
  <2>2. QED
    BY <2>1, GainedFacts DEF Gains
<1>10. /\ mine(a) = mineOwn(a) \cup mineJoined(a) /\ mine(b) = mineOwn(b) \cup mineJoined(b)
       /\ IsFiniteSet(mine(a)) /\ IsFiniteSet(mine(b))
       /\ \A t \in mine(a) : t[1] \in 0 .. 100
       /\ \A t \in mine(b) : t[1] \in 0 .. 100
  BY <1>2
<1> HIDE DEF mine, mineOwn, mineJoined
<1>11. Present(mine(a), mine(b))
  BY <1>8, <1>9, <1>10 DEF Present
<1>12. QED
  BY <1>1, <1>10, <1>11, ScoresGrow

\* So do the cluster and its score.
LEMMA GainedCluster ==
    ASSUME NEW a, NEW b, Gains(a, b)
    PROVE  /\ ClusterScore(a) \in Nat /\ ClusterScore(b) \in Nat /\ ClusterScore(a) <= ClusterScore(b)
           /\ Clustered(a) => Clustered(b)
<1>1. ClusterScore(a) \in Nat /\ ClusterScore(b) \in Nat
  BY ClusterScores
<1>2. Clustered(a) => Clustered(b)
  BY GainedSignals DEF Clustered, Gains
<1>3. /\ Has(a, "start_changed") = Has(b, "start_changed") /\ Has(a, "new_remote_ports") = Has(b, "new_remote_ports")
      /\ Has(a, "public_fanout_drift") = Has(b, "public_fanout_drift") /\ Has(a, "first_seen") = Has(b, "first_seen")
      /\ Has(a, "root") = Has(b, "root")
  BY GainedTags DEF Joined
<1> DEFINE networked(p) == p.outbound > 0 \/ p.sockets > 0
           f1(p, s) == s + (IF Has(p, "start_changed") /\ s >= 40 THEN 10 ELSE 0)
           f2(p, s) == s + (IF Has(p, "new_remote_ports") /\ networked(p) THEN 15 ELSE 0)
                         + (IF Has(p, "public_fanout_drift") /\ p.outbound > 0 THEN 25 ELSE 0)
           f3(p, s) == s + (IF Has(p, "first_seen") /\ s >= 55 /\ networked(p) THEN 5 ELSE 0)
           f4(p, s) == s + (IF Has(p, "root") /\ s >= 55 THEN 15 ELSE 0)
           total(p, s) == f4(p, f3(p, f2(p, f1(p, s))))
<1>4. /\ ClusterScore(a) = total(a, SumScore(ClusterSignals(a)))
      /\ ClusterScore(b) = total(b, SumScore(ClusterSignals(b)))
  BY DEF ClusterScore
<1>5. networked(a) => networked(b)
  BY GainedClusters DEF Gains
<1>6. a.outbound > 0 => b.outbound > 0
  BY GainedClusters
<1> HIDE DEF networked
<1>7. \A x, y \in Nat : x <= y =>
         /\ f1(a, x) \in Nat /\ f1(b, y) \in Nat /\ f1(a, x) <= f1(b, y)
         /\ f2(a, x) \in Nat /\ f2(b, y) \in Nat /\ f2(a, x) <= f2(b, y)
         /\ f3(a, x) \in Nat /\ f3(b, y) \in Nat /\ f3(a, x) <= f3(b, y)
         /\ f4(a, x) \in Nat /\ f4(b, y) \in Nat /\ f4(a, x) <= f4(b, y)
  BY <1>3, <1>5, <1>6
<1> HIDE DEF f1, f2, f3, f4
<1>8. PICK x, y \in Nat : x = SumScore(ClusterSignals(a)) /\ y = SumScore(ClusterSignals(b)) /\ x <= y
  BY GainedSignals
<1>9. f1(a, x) \in Nat /\ f1(b, y) \in Nat /\ f1(a, x) <= f1(b, y)
  BY <1>7, <1>8
<1>10. PICK x2, y2 \in Nat : x2 = f2(a, f1(a, x)) /\ y2 = f2(b, f1(b, y)) /\ x2 <= y2
  BY <1>7, <1>9
<1>11. f3(a, x2) \in Nat /\ f3(b, y2) \in Nat /\ f3(a, x2) <= f3(b, y2)
  BY <1>7, <1>10
<1>12. f4(a, f3(a, x2)) <= f4(b, f3(b, y2))
  BY <1>7, <1>11
<1>13. QED
  BY <1>1, <1>2, <1>4, <1>8, <1>10, <1>12

\* The score of executable_path_assessment grows.
LEMMA GainedPath ==
    ASSUME NEW a, NEW b, Gains(a, b)
    PROVE  ExecutablePathScore(a) \in Nat /\ ExecutablePathScore(b) \in Nat /\ ExecutablePathScore(a) <= ExecutablePathScore(b)
<1> DEFINE own(weight, name, b2, b3, b4, b5, b7, b8, b9) ==
              {<<weight, name, TRUE>>, <<25, "hidden_executable_name", b2>>,
               <<30, "deleted_executable_path", b3>>, <<60, "network_execution_bridge", b4>>,
               <<80, "known_bad_tool", b5>>,
               <<20, "many_socket_fds", b7>>, <<10, "socket_activity", b8>>, <<25, "sustained_high_cpu", b9>>}
           signals(weight, name, b2, b3, b4, b5, b6, b7, b8, b9) ==
              {<<weight, name, TRUE>>, <<25, "hidden_executable_name", b2>>,
               <<30, "deleted_executable_path", b3>>, <<60, "network_execution_bridge", b4>>,
               <<80, "known_bad_tool", b5>>, <<20, "public_outbound_connections", b6>>,
               <<20, "many_socket_fds", b7>>, <<10, "socket_activity", b8>>, <<25, "sustained_high_cpu", b9>>}
           s6(x) == {<<20, "public_outbound_connections", x>>}
           top(x) == {<<10, "privileged_runtime_process", x>>}
           weight(p) == IF p.exe = "run" THEN 45 ELSE IF p.exe = "tmp" THEN 75 ELSE 70
           base(p) == signals(weight(p), PathSignal(p), Has(p, "hidden"), Deleted(p), Bridge(p), KnownTool(p), p.outbound > 0,
                              p.sockets = ManySockets, p.sockets = SomeSockets, HighCpu(p))
           mineOwn(p) == own(weight(p), PathSignal(p), Has(p, "hidden"), Deleted(p), Bridge(p), KnownTool(p),
                             p.sockets = ManySockets, p.sockets = SomeSockets, HighCpu(p))
           privileged(p) == Has(p, "root") /\ SumScore(base(p)) >= 45
<1>1. /\ ExecutablePathScore(a) = SumScore(base(a) \cup top(privileged(a)))
      /\ ExecutablePathScore(b) = SumScore(base(b) \cup top(privileged(b)))
  BY Zenon DEF ExecutablePathScore
<1>2. ASSUME NEW w \in 0 .. 100, NEW n, NEW b2, NEW b3, NEW b4, NEW b5, NEW b6, NEW b7, NEW b8, NEW b9
      PROVE  /\ IsFiniteSet(signals(w, n, b2, b3, b4, b5, b6, b7, b8, b9))
             /\ \A t \in signals(w, n, b2, b3, b4, b5, b6, b7, b8, b9) : t[1] \in 0 .. 100
             /\ signals(w, n, b2, b3, b4, b5, b6, b7, b8, b9) = own(w, n, b2, b3, b4, b5, b7, b8, b9) \cup s6(b6)
  <2>1. IsFiniteSet(signals(w, n, b2, b3, b4, b5, b6, b7, b8, b9))
    BY NineFinite, ZenonT(30)
  <2>2. PICK first : first = <<w, n, TRUE>>
    OBVIOUS
  <2>3. first[1] \in 0 .. 100
    BY <1>2, <2>2
  <2> DEFINE rest == {<<25, "hidden_executable_name", b2>>,
                      <<30, "deleted_executable_path", b3>>, <<60, "network_execution_bridge", b4>>,
                      <<80, "known_bad_tool", b5>>, <<20, "public_outbound_connections", b6>>,
                      <<20, "many_socket_fds", b7>>, <<10, "socket_activity", b8>>, <<25, "sustained_high_cpu", b9>>}
  <2>4. \A t \in rest : t[1] \in 0 .. 100
    OBVIOUS
  <2>5. \A t \in signals(w, n, b2, b3, b4, b5, b6, b7, b8, b9) : t = first \/ t \in rest
    BY <2>2, Zenon
  <2>6. signals(w, n, b2, b3, b4, b5, b6, b7, b8, b9) = own(w, n, b2, b3, b4, b5, b7, b8, b9) \cup s6(b6)
    OBVIOUS
  <2> HIDE DEF signals, rest, own, s6
  <2>7. QED
    BY <2>1, <2>3, <2>4, <2>5, <2>6
<1>3. \A x, y \in BOOLEAN : (x => y) => Present(s6(x), s6(y)) /\ Present(top(x), top(y))
  BY SignalKept
<1>4. \A x : IsFiniteSet(top(x)) /\ \A t \in top(x) : t[1] \in 0 .. 100
  <2>1. \A x : IsFiniteSet(top(x))
    BY FS_Singleton, Zenon
  <2>2. \A x : \A t \in top(x) : t[1] \in 0 .. 100
    OBVIOUS
  <2>3. QED
    BY <2>1, <2>2, Zenon
<1>5. weight(a) = weight(b) /\ weight(a) \in 0 .. 100
  BY DEF Gains
<1> HIDE DEF signals, own, s6, top, weight
<1>6. mineOwn(a) = mineOwn(b)
  <2>1. Has(a, "hidden") = Has(b, "hidden")
    BY GainedTags DEF Joined
  <2>2. QED
    BY <1>5, <2>1, GainedFacts, SMTT(30) DEF Gains
<1>7. /\ base(a) = mineOwn(a) \cup s6(a.outbound > 0) /\ base(b) = mineOwn(b) \cup s6(b.outbound > 0)
      /\ IsFiniteSet(base(a)) /\ IsFiniteSet(base(b))
      /\ \A t \in base(a) : t[1] \in 0 .. 100
      /\ \A t \in base(b) : t[1] \in 0 .. 100
  BY <1>2, <1>5, SMTT(30)
<1>8. Present(s6(a.outbound > 0), s6(b.outbound > 0))
  <2>1. (a.outbound > 0 => b.outbound > 0) /\ (a.outbound > 0) \in BOOLEAN /\ (b.outbound > 0) \in BOOLEAN
    BY GainedClusters
  <2>2. QED
    BY <1>3, <2>1
<1> HIDE DEF base, mineOwn
<1>9. Present(base(a), base(b))
  BY <1>6, <1>7, <1>8 DEF Present
<1>10. SumScore(base(a)) \in Nat /\ SumScore(base(b)) \in Nat /\ SumScore(base(a)) <= SumScore(base(b))
  BY <1>7, <1>9, ScoresGrow
<1>11. privileged(a) \in BOOLEAN /\ privileged(b) \in BOOLEAN /\ (privileged(a) => privileged(b))
  <2>1. Has(a, "root") = Has(b, "root")
    BY GainedTags DEF Joined
  <2>2. QED
    BY <1>10, <2>1
<1> HIDE DEF privileged
<1>12. Present(base(a) \cup top(privileged(a)), base(b) \cup top(privileged(b)))
  BY <1>3, <1>9, <1>11, PresentParts
<1>13. /\ IsFiniteSet(base(a) \cup top(privileged(a))) /\ IsFiniteSet(base(b) \cup top(privileged(b)))
       /\ \A t \in base(a) \cup top(privileged(a)) : t[1] \in 0 .. 100
       /\ \A t \in base(b) \cup top(privileged(b)) : t[1] \in 0 .. 100
  BY <1>4, <1>7, FS_Union
<1>14. QED
  BY <1>1, <1>12, <1>13, ScoresGrow

\* The smaller and the greater of two counts.
LEMMA PairBounds ==
    ASSUME NEW x \in Nat, NEW y \in Nat
    PROVE  Min({x, y}) = (IF x <= y THEN x ELSE y) /\ Max({x, y}) = (IF x >= y THEN x ELSE y)
<1>1. \E m \in {x, y} : \A z \in {x, y} : m <= z
  OBVIOUS
<1>2. \E m \in {x, y} : \A z \in {x, y} : m >= z
  OBVIOUS
<1>3. Min({x, y}) \in {x, y} /\ \A z \in {x, y} : Min({x, y}) <= z
  BY <1>1 DEF Min
<1>4. Max({x, y}) \in {x, y} /\ \A z \in {x, y} : Max({x, y}) >= z
  BY <1>2 DEF Max
<1>5. QED
  BY <1>3, <1>4

\* More connections: outbound_profiles_by_pid counts no fewer peers.
LEMMA MoreConnections ==
    ASSUME NEW S, NEW T, Fewer(S, T), Counted(T), NEW pid
    PROVE  /\ OutboundProfile(S, pid).outbound \in 0 .. FanoutOutbound /\ OutboundProfile(T, pid).outbound \in 0 .. FanoutOutbound
           /\ OutboundProfile(S, pid).outbound <= OutboundProfile(T, pid).outbound
           /\ OutboundProfile(S, pid).mining => OutboundProfile(T, pid).mining
<1> DEFINE mine(es) == {e \in es : e.kind = "outbound_connection" /\ e.pid = pid}
           public(es) == {e \in mine(es) : "remote_public" \in e.tags}
           peers(es) == PeerSum(public(es))
<1>1. \A es : /\ OutboundProfile(es, pid).outbound = Min({FanoutOutbound, peers(es)})
              /\ OutboundProfile(es, pid).mining = \E e \in mine(es) : "mining_pool_port" \in e.tags
  BY DEF OutboundProfile, PeerSum
<1>2. mine(S) \subseteq mine(T) /\ public(S) \in SUBSET public(T) /\ public(T) \subseteq T
  BY DEF Fewer
<1>3. IsFiniteSet(public(T)) /\ \A e \in public(T) : e.peers \in Nat
  BY <1>2, FS_Subset DEF Counted
<1>4. (\E e \in mine(S) : "mining_pool_port" \in e.tags) => \E e \in mine(T) : "mining_pool_port" \in e.tags
  BY <1>2
<1> HIDE DEF mine, public
<1>5. peers(S) \in Nat /\ peers(T) \in Nat /\ peers(S) <= peers(T)
  BY <1>2, <1>3, EventSumsGrow
<1> HIDE DEF peers
<1>6. FanoutOutbound \in Nat
  BY DEF FanoutOutbound
<1>7. PICK x, y \in Nat : x = peers(S) /\ y = peers(T) /\ x <= y
  BY <1>5
<1>8. /\ Min({FanoutOutbound, x}) = IF FanoutOutbound <= x THEN FanoutOutbound ELSE x
      /\ Min({FanoutOutbound, y}) = IF FanoutOutbound <= y THEN FanoutOutbound ELSE y
  BY <1>6, PairBounds
<1>9. /\ Min({FanoutOutbound, x}) \in 0 .. FanoutOutbound /\ Min({FanoutOutbound, y}) \in 0 .. FanoutOutbound
      /\ Min({FanoutOutbound, x}) <= Min({FanoutOutbound, y})
  BY <1>6, <1>7, <1>8
<1>10. /\ OutboundProfile(S, pid).outbound = Min({FanoutOutbound, x}) /\ OutboundProfile(T, pid).outbound = Min({FanoutOutbound, y})
       /\ OutboundProfile(S, pid).mining => OutboundProfile(T, pid).mining
  BY <1>1, <1>4, <1>7
<1>11. QED
  BY <1>9, <1>10

\* More GPU use: gpu_context_by_pid keeps its facts.
LEMMA MoreGpu ==
    ASSUME NEW S, NEW T, Fewer(S, T), Counted(T), NEW pid
    PROVE  GpuTags(S, pid) \subseteq GpuTags(T, pid) /\ GpuTags(T, pid) \subseteq Joined
<1> DEFINE mine(es) == {e \in es : e.kind = "gpu_compute_process" /\ e.pid = pid}
<1>1. \A es : GpuTags(es, pid) = When(MemorySum(mine(es)) >= 2, {"gpu_memory"})
                 \cup UNION {e.tags \cap {"gpu_high_utilization", "gpu_high_power"} : e \in mine(es)}
  BY DEF GpuTags, MemorySum
<1>2. mine(S) \in SUBSET mine(T) /\ mine(T) \subseteq T
  BY DEF Fewer
<1>3. IsFiniteSet(mine(T)) /\ \A e \in mine(T) : e.memory \in Nat
  BY <1>2, FS_Subset DEF Counted
<1> HIDE DEF mine
<1>4. MemorySum(mine(S)) \in Nat /\ MemorySum(mine(T)) \in Nat /\ MemorySum(mine(S)) <= MemorySum(mine(T))
  BY <1>2, <1>3, EventSumsGrow
<1>5. When(MemorySum(mine(S)) >= 2, {"gpu_memory"}) \subseteq When(MemorySum(mine(T)) >= 2, {"gpu_memory"})
  BY <1>4 DEF When
<1>6. UNION {e.tags \cap {"gpu_high_utilization", "gpu_high_power"} : e \in mine(S)}
        \subseteq UNION {e.tags \cap {"gpu_high_utilization", "gpu_high_power"} : e \in mine(T)}
  BY <1>2
<1>7. GpuTags(S, pid) \subseteq GpuTags(T, pid)
  BY <1>1, <1>5, <1>6
<1>8. GpuTags(T, pid) \subseteq Joined
  BY <1>1 DEF When, Joined
<1>9. QED
  BY <1>7, <1>8

\* So a process has more joined to it in the fuller scan.
LEMMA EnrichedGains ==
    ASSUME NEW S, NEW T, Fewer(S, T), Counted(T), NEW p \in T, p.kind \in {"process_snapshot", "process_exec"}
    PROVE  Gains(Enriched(p, S), Enriched(p, T))
<1>1. {"exe", "cwd", "cmd", "name", "pid", "sockets", "outbound", "tags"} \subseteq DOMAIN p /\ p.outbound \in 0 .. FanoutOutbound
  BY DEF Counted
<1>2. PICK pkg : pkg = PackageEvidence(PackageActivity(S)) /\ pkg = PackageEvidence(PackageActivity(T))
  <2>1. PackageActivity(S) = PackageActivity(T)
    BY DEF PackageActivity, Fewer
  <2>2. QED
    BY <2>1
<1> DEFINE tags(es) == p.tags \cup GpuTags(es, p.pid) \cup When(OutboundProfile(es, p.pid).mining, {"mining_pool_port"}) \cup pkg
           out(es) == Max({p.outbound, OutboundProfile(es, p.pid).outbound})
           q(es) == [p EXCEPT !.outbound = out(es), !.tags = tags(es)]
           bare(es) == [q(es) EXCEPT !.tags = tags(es) \ {"unowned"}]
           result(es) == IF QueriesPackage(q(es)) THEN q(es) ELSE bare(es)
<1>3. Enriched(p, S) = result(S) /\ Enriched(p, T) = result(T)
  BY <1>2, Zenon DEF Enriched
<1>4. tags(S) \subseteq tags(T) /\ tags(T) \ Joined \subseteq tags(S)
  <2>1. When(OutboundProfile(S, p.pid).mining, {"mining_pool_port"}) \subseteq When(OutboundProfile(T, p.pid).mining, {"mining_pool_port"})
    BY MoreConnections DEF When
  <2>2. When(OutboundProfile(T, p.pid).mining, {"mining_pool_port"}) \subseteq Joined
    BY DEF When, Joined
  <2>3. GpuTags(S, p.pid) \subseteq GpuTags(T, p.pid) /\ GpuTags(T, p.pid) \subseteq Joined
    BY MoreGpu
  <2>4. QED
    BY <2>1, <2>2, <2>3
<1>5. out(S) \in 0 .. FanoutOutbound /\ out(T) \in 0 .. FanoutOutbound /\ out(S) <= out(T)
  <2>1. FanoutOutbound \in Nat
    BY DEF FanoutOutbound
  <2>2. PICK n, x, y \in 0 .. FanoutOutbound :
           n = p.outbound /\ x = OutboundProfile(S, p.pid).outbound /\ y = OutboundProfile(T, p.pid).outbound /\ x <= y
    BY <1>1, MoreConnections
  <2>3. n \in Nat /\ x \in Nat /\ y \in Nat
    BY <2>1, <2>2
  <2>4. Max({n, x}) = (IF n >= x THEN n ELSE x) /\ Max({n, y}) = (IF n >= y THEN n ELSE y)
    BY <2>3, PairBounds
  <2>5. Max({n, x}) \in 0 .. FanoutOutbound /\ Max({n, y}) \in 0 .. FanoutOutbound /\ Max({n, x}) <= Max({n, y})
    BY <2>1, <2>2, <2>4
  <2>6. out(S) = Max({n, x}) /\ out(T) = Max({n, y})
    BY <2>2
  <2>7. QED
    BY <2>5, <2>6
<1> HIDE DEF tags, out
<1>6. \A es : /\ q(es).exe = p.exe /\ q(es).cwd = p.cwd /\ q(es).cmd = p.cmd /\ q(es).name = p.name
              /\ q(es).pid = p.pid /\ q(es).sockets = p.sockets /\ q(es).outbound = out(es) /\ q(es).tags = tags(es)
              /\ DOMAIN q(es) = DOMAIN p
  BY <1>1
<1> HIDE DEF q
<1>7. \A es : /\ bare(es).exe = p.exe /\ bare(es).cwd = p.cwd /\ bare(es).cmd = p.cmd /\ bare(es).name = p.name
              /\ bare(es).pid = p.pid /\ bare(es).sockets = p.sockets /\ bare(es).outbound = out(es)
              /\ bare(es).tags = tags(es) \ {"unowned"}
  BY <1>1, <1>6
<1> HIDE DEF bare
<1>8. Gains(q(S), q(T))
  BY <1>4, <1>5, <1>6 DEF Gains
<1>9. QueriesPackage(q(S)) => QueriesPackage(q(T))
  BY <1>8, GainedFacts
<1>10. "unowned" \in Joined
  BY DEF Joined
<1>11. Gains(bare(S), bare(T))
  BY <1>4, <1>5, <1>7, <1>10 DEF Gains
<1>12. Gains(bare(S), q(T))
  BY <1>4, <1>5, <1>6, <1>7, <1>10 DEF Gains
<1>13. QED
  BY <1>3, <1>8, <1>9, <1>11, <1>12

\* Every rule about a process still applies when more is joined to it.
LEMMA GainedOutdone ==
    ASSUME NEW a, NEW b, NEW c, Gains(a, b), Thresholds(c)
    PROVE  Outdone(ProcessRuleFindings(a, c), ProcessRuleFindings(b, c))
<1>1. ProcessSubject(a) = ProcessSubject(b)
  BY GainedFacts
<1>2. ASSUME NEW rule, NEW sev, NEW x, NEW y
      PROVE  Outdone({ProcessFinding(rule, sev, a, x)}, {ProcessFinding(rule, sev, b, y)})
  <2>1. PICK f, g : f = ProcessFinding(rule, sev, a, x) /\ g = ProcessFinding(rule, sev, b, y)
    OBVIOUS
  <2>2. f.sev = sev /\ f.subject = ProcessSubject(a)
    BY <2>1, ProcessKey
  <2>3. g.sev = sev /\ g.subject = ProcessSubject(b)
    BY <2>1, ProcessKey
  <2>4. QED
    BY <1>1, <2>1, <2>2, <2>3 DEF Outdone
<1>3. \A A, B, x, y : (x => y) /\ Outdone(A, B) => Outdone(When(x, A), When(y, B))
  BY DEF Outdone, When
<1>4. Outdone(DeletedExecutable(a, c), DeletedExecutable(b, c))
  BY <1>2, <1>3, GainedFacts, GainedDeleted DEF DeletedExecutable
<1>5. Outdone(TempProcess(a, c), TempProcess(b, c))
  <2>1. (a.exe \in SuspiciousDirs /\ ~SourceBuild(a) /\ ExecutablePathScore(a) >= c.behavior_min_score)
           => (b.exe \in SuspiciousDirs /\ ~SourceBuild(b) /\ ExecutablePathScore(b) >= c.behavior_min_score)
    BY GainedFacts, GainedPath DEF Gains, Thresholds
  <2>2. QED
    BY <1>2, <1>3, <2>1 DEF TempProcess
<1>6. Outdone(NetworkExecutionBridge(a), NetworkExecutionBridge(b))
  BY <1>2, <1>3, GainedFacts DEF NetworkExecutionBridge
<1>7. Outdone(MinerOrScanner(a), MinerOrScanner(b))
  BY <1>2, <1>3, GainedFacts DEF MinerOrScanner
<1>8. Outdone(GpuComputeProcess(a, c), GpuComputeProcess(b, c))
  <2>1. (Has(a, "gpu_memory") /\ GpuScore(a) >= c.mining_min_score) => (Has(b, "gpu_memory") /\ GpuScore(b) >= c.mining_min_score)
    BY GainedTags, GainedGpu DEF Thresholds
  <2>2. QED
    BY <1>2, <1>3, <2>1 DEF GpuComputeProcess
<1>9. Outdone(BehaviorCluster(a, c), BehaviorCluster(b, c))
  <2>1. (Clustered(a) /\ ~SourceBuild(a) /\ ClusterScore(a) >= c.behavior_min_score)
           => (Clustered(b) /\ ~SourceBuild(b) /\ ClusterScore(b) >= c.behavior_min_score)
    BY GainedFacts, GainedCluster DEF Thresholds
  <2>2. QED
    BY <1>2, <1>3, <2>1 DEF BehaviorCluster
<1>10. QED
  BY <1>4, <1>5, <1>6, <1>7, <1>8, <1>9, OutdoneParts DEF ProcessRuleFindings

\* So detect_process_events is no quieter.
LEMMA MoreProcesses ==
    ASSUME NEW S, NEW T, Fewer(S, T), Counted(T), NEW c, Thresholds(c)
    PROVE  Outdone(ProcessFindings(S, c), ProcessFindings(T, c))
<1> DEFINE judged(es) == {e \in es : e.kind \in {"process_snapshot", "process_exec"} /\ ~Allowlisted(e)}
<1>1. judged(S) \subseteq judged(T)
  BY DEF Fewer
<1>2. \A p \in judged(T) : Outdone(ProcessRuleFindings(Enriched(p, S), c), ProcessRuleFindings(Enriched(p, T), c))
  <2>1. \A p \in judged(T) : Gains(Enriched(p, S), Enriched(p, T))
    BY EnrichedGains
  <2>2. QED
    BY <2>1, GainedOutdone
<1>3. /\ ProcessFindings(S, c) = UNION {ProcessRuleFindings(Enriched(p, S), c) : p \in judged(S)}
      /\ ProcessFindings(T, c) = UNION {ProcessRuleFindings(Enriched(p, T), c) : p \in judged(T)}
  BY DEF ProcessFindings
<1> HIDE DEF judged
<1>4. QED
  BY <1>1, <1>2, <1>3 DEF Outdone

\* The context y of a listener tells at least as much against it as x.
Aggravates(x, y) ==
    /\ x.outbound \in 0 .. FanoutOutbound /\ y.outbound \in 0 .. FanoutOutbound /\ x.outbound <= y.outbound
    /\ x.tags \subseteq y.tags
    /\ Has(x, "root") /\ ~Has(x, "container") => ~Has(y, "container")

\* More events: the process of a listener is found, or stays the one it was,
\* since no other snapshot has its pid.
LEMMA MoreContext ==
    ASSUME NEW S, NEW T, Fewer(S, T), Counted(T), NEW e
    PROVE  Aggravates(ListenerContext(e, S), ListenerContext(e, T))
<1> DEFINE owners(es) == {p \in es : p.kind = "process_snapshot" /\ p.pid = e.pid}
           owner(es) == CHOOSE p \in owners(es) : TRUE
<1>1. \A es : ListenerContext(e, es) = IF owners(es) = {} THEN NoContext ELSE ProcessContext(owner(es), es)
  BY DEF ListenerContext
<1>2. owners(S) # {} => owners(S) = owners(T)
  BY DEF Fewer, Counted
<1>3. owners(S) \subseteq owners(T)
  BY DEF Fewer
<1> HIDE DEF owners
<1> DEFINE out(p, es) == OutboundProfile(es, p.pid).outbound
           queried(p, es) == /\ p.exe # "none"
                             /\ \/ p.exe \in SuspiciousDirs
                                \/ p.tags \cap {"hidden", "shell_or_scheduler_parent", "execstart_match",
                                                "execstart_mismatch"} # {}
                                \/ out(p, es) > 0
                                \/ p.sockets = ManySockets
<1>4. \A p, es : /\ ProcessContext(p, es).outbound = out(p, es)
                 /\ ProcessContext(p, es).tags = IF queried(p, es) THEN p.tags ELSE p.tags \ {"unowned"}
  BY DEF ProcessContext
<1>5. \A p : out(p, S) \in 0 .. FanoutOutbound /\ out(p, T) \in 0 .. FanoutOutbound /\ out(p, S) <= out(p, T)
  BY MoreConnections
<1> HIDE DEF out
<1>6. \A p : queried(p, S) => queried(p, T)
  BY <1>5 DEF FanoutOutbound
<1> HIDE DEF queried
<1>7. CASE owners(S) = {}
  <2>1. ListenerContext(e, S) = NoContext
    BY <1>1, <1>7
  <2>2. NoContext.outbound = 0 /\ NoContext.tags = {}
    BY DEF NoContext
  <2>3. ListenerContext(e, T).outbound \in 0 .. FanoutOutbound
    BY <1>1, <1>4, <1>5, <2>2 DEF FanoutOutbound
  <2>4. QED
    BY <2>1, <2>2, <2>3 DEF Aggravates, Has, FanoutOutbound
<1>8. CASE owners(S) # {}
  <2>1. PICK p : p = owner(S) /\ p = owner(T)
    BY <1>2, <1>8
  <2>2. ListenerContext(e, S) = ProcessContext(p, S) /\ ListenerContext(e, T) = ProcessContext(p, T)
    BY <1>1, <1>2, <1>8, <2>1
  <2>3. /\ ProcessContext(p, S).tags \subseteq ProcessContext(p, T).tags
        /\ "container" \in ProcessContext(p, T).tags => "container" \in ProcessContext(p, S).tags
    BY <1>4, <1>6
  <2>4. QED
    BY <1>4, <1>5, <2>2, <2>3 DEF Aggravates, Has
<1>9. QED
  BY <1>7, <1>8

\* So a listener scores no less.
LEMMA ListenerGrows ==
    ASSUME NEW e, NEW x, NEW y, Aggravates(x, y)
    PROVE  ListenerScore(e, x) \in Nat /\ ListenerScore(e, y) \in Nat /\ ListenerScore(e, x) <= ListenerScore(e, y)
<1> DEFINE own(b1, b2, b3, b4, b5) ==
              {<<50, "suspicious_executable_path", b1>>, <<40, "deleted_listener_executable", b2>>,
               <<70, "network_execution_bridge", b3>>, <<70, "known_bad_tool", b4>>, <<35, "interactive_shell_listener", b5>>}
           joined(b6) == {<<30, "systemd_execstart_mismatch", b6>>}
           traits(b1, b2, b3, b4, b5, b6) ==
              {<<50, "suspicious_executable_path", b1>>, <<40, "deleted_listener_executable", b2>>,
               <<70, "network_execution_bridge", b3>>, <<70, "known_bad_tool", b4>>, <<35, "interactive_shell_listener", b5>>,
               <<30, "systemd_execstart_mismatch", b6>>}
           mine(b6) == traits(e.exe \in SuspiciousDirs, Deleted(e), Bridge(e), KnownTool(e), Has(e, "shell_name"), b6)
           mineOwn == own(e.exe \in SuspiciousDirs, Deleted(e), Bridge(e), KnownTool(e), Has(e, "shell_name"))
           base(ctx) == SumScore(mine(ExecStartMismatch(ctx)))
           f1(ctx, s) == s + (IF ctx.outbound = FanoutOutbound THEN 30 ELSE IF ctx.outbound > 0 /\ s > 0 THEN 15 ELSE 0)
           f2(ctx, s0, s) == s + (IF Has(ctx, "unowned") /\ (s0 > 0 \/ Has(e, "hidden") \/ ShellParent(ctx)) THEN 35 ELSE 0)
           f3(ctx, s) == s + (IF ShellParent(ctx) /\ (s > 0 \/ ctx.outbound > 0) THEN 20 ELSE 0)
           f4(ctx, s) == s + (IF Has(ctx, "root") /\ ~Has(ctx, "container") /\ s >= 45 THEN 15 ELSE 0)
           f5(s) == IF Allowlisted(e) THEN 0 ELSE s + (IF e.kind = "listening_socket_owner_changed" /\ s > 0 THEN 20 ELSE 0)
           total(ctx) == f5(f4(ctx, f3(ctx, f2(ctx, base(ctx), f1(ctx, base(ctx))))))
<1>1. ListenerScore(e, x) = total(x) /\ ListenerScore(e, y) = total(y)
  BY Zenon DEF ListenerScore
<1>2. ASSUME NEW b1, NEW b2, NEW b3, NEW b4, NEW b5, NEW b6
      PROVE  /\ IsFiniteSet(traits(b1, b2, b3, b4, b5, b6))
             /\ \A t \in traits(b1, b2, b3, b4, b5, b6) : t[1] \in 0 .. 100
             /\ traits(b1, b2, b3, b4, b5, b6) = own(b1, b2, b3, b4, b5) \cup joined(b6)
  <2>1. IsFiniteSet(traits(b1, b2, b3, b4, b5, b6))
    BY SixFinite, ZenonT(30)
  <2>2. \A t \in traits(b1, b2, b3, b4, b5, b6) : t[1] \in 0 .. 100
    OBVIOUS
  <2>3. traits(b1, b2, b3, b4, b5, b6) = own(b1, b2, b3, b4, b5) \cup joined(b6)
    OBVIOUS
  <2> HIDE DEF traits, own, joined
  <2>4. QED
    BY <2>1, <2>2, <2>3
<1>3. \A b, d \in BOOLEAN : (b => d) => Present(joined(b), joined(d))
  BY SignalKept
<1> HIDE DEF traits, own, joined
<1>4. \A b : mine(b) = mineOwn \cup joined(b) /\ IsFiniteSet(mine(b)) /\ \A t \in mine(b) : t[1] \in 0 .. 100
  BY <1>2
<1> HIDE DEF mine, mineOwn
<1>5. \A tag : Has(x, tag) => Has(y, tag)
  BY DEF Aggravates, Has
<1>6. base(x) \in Nat /\ base(y) \in Nat /\ base(x) <= base(y)
  <2>1. PICK b, d \in BOOLEAN : b = ExecStartMismatch(x) /\ d = ExecStartMismatch(y) /\ (b => d)
    <3>1. ExecStartMismatch(x) \in BOOLEAN /\ ExecStartMismatch(y) \in BOOLEAN /\ (ExecStartMismatch(x) => ExecStartMismatch(y))
      BY <1>5 DEF ExecStartMismatch, Has
    <3>2. QED
      BY <3>1, Zenon
  <2>2. Present(joined(b), joined(d))
    BY <1>3, <2>1
  <2>3. Present(mine(b), mine(d))
    BY <1>4, <2>2 DEF Present
  <2>4. SumScore(mine(b)) \in Nat /\ SumScore(mine(d)) \in Nat /\ SumScore(mine(b)) <= SumScore(mine(d))
    BY <1>4, <2>3, ScoresGrow
  <2>5. base(x) = SumScore(mine(b)) /\ base(y) = SumScore(mine(d))
    BY <2>1, Zenon
  <2>6. QED
    BY <2>4, <2>5
<1> HIDE DEF base
<1>7. /\ Has(x, "unowned") => Has(y, "unowned")
      /\ ShellParent(x) => ShellParent(y)
      /\ Has(x, "root") /\ ~Has(x, "container") => Has(y, "root") /\ ~Has(y, "container")
  BY <1>5 DEF ShellParent, Aggravates
<1>8. /\ x.outbound > 0 => y.outbound > 0
      /\ x.outbound = FanoutOutbound => y.outbound = FanoutOutbound
  BY DEF Aggravates, FanoutOutbound
<1>9. \A s, t \in Nat : s <= t =>
         /\ f1(x, s) \in Nat /\ f1(y, t) \in Nat /\ f1(x, s) <= f1(y, t)
         /\ f3(x, s) \in Nat /\ f3(y, t) \in Nat /\ f3(x, s) <= f3(y, t)
         /\ f4(x, s) \in Nat /\ f4(y, t) \in Nat /\ f4(x, s) <= f4(y, t)
         /\ f5(s) \in Nat /\ f5(t) \in Nat /\ f5(s) <= f5(t)
  BY <1>7, <1>8
<1>10. \A s0, t0, s, t \in Nat : s0 <= t0 /\ s <= t => f2(x, s0, s) \in Nat /\ f2(y, t0, t) \in Nat /\ f2(x, s0, s) <= f2(y, t0, t)
  BY <1>7
<1> HIDE DEF f1, f2, f3, f4, f5
<1>11. PICK s1, t1 \in Nat : s1 = f1(x, base(x)) /\ t1 = f1(y, base(y)) /\ s1 <= t1
  BY <1>6, <1>9
<1>12. PICK s2, t2 \in Nat : s2 = f2(x, base(x), s1) /\ t2 = f2(y, base(y), t1) /\ s2 <= t2
  <2>1. f2(x, base(x), s1) \in Nat /\ f2(y, base(y), t1) \in Nat /\ f2(x, base(x), s1) <= f2(y, base(y), t1)
    BY <1>6, <1>10, <1>11
  <2>2. QED
    BY <2>1
<1>13. PICK s3, t3 \in Nat : s3 = f3(x, s2) /\ t3 = f3(y, t2) /\ s3 <= t3
  BY <1>9, <1>12
<1>14. PICK s4, t4 \in Nat : s4 = f4(x, s3) /\ t4 = f4(y, t3) /\ s4 <= t4
  BY <1>9, <1>13
<1>15. f5(s4) \in Nat /\ f5(t4) \in Nat /\ f5(s4) <= f5(t4)
  BY <1>9, <1>14
<1>16. QED
  BY <1>1, <1>11, <1>12, <1>13, <1>14, <1>15

\* What a finding about a listener says.
LEMMA ListenerRating ==
    ASSUME NEW e, NEW es, NEW score
    PROVE  /\ SuspiciousListener(e, es, score).subject = <<"*", ToString(e.port)>> /\ SuspiciousListener(e, es, score).sev = High
           /\ RiskyPort(e, es).subject = <<"*", ToString(e.port)>> /\ RiskyPort(e, es).sev = High
           /\ OwnerChanged(e, es).subject = <<"*", ToString(e.port)>> /\ OwnerChanged(e, es).sev = Medium
           /\ PublicListen(e, es).subject = <<"*", ToString(e.port)>> /\ PublicListen(e, es).sev = Medium
<1>1. PICK subject : subject = <<"*", ToString(e.port)>>
  OBVIOUS
<1>2. ASSUME NEW rule, NEW cat, NEW sev, NEW g, g = ListenerFinding(rule, cat, sev, e, es)
      PROVE  DOMAIN g = FieldNames /\ g.subject = subject /\ g.sev = sev
  <2>1. PICK h : h = F(rule, cat, sev, subject, SocketEvidence(e, es))
    OBVIOUS
  <2>2. DOMAIN h = FieldNames /\ h.subject = subject /\ h.sev = sev
    <3>1. Built(h, rule, sev, subject, "", "", SocketEvidence(e, es))
      BY <2>1, NewFinding, Zenon
    <3>2. QED
      BY <3>1, Zenon DEF Built
  <2>3. g = [h EXCEPT !.process = e.name]
    BY <1>1, <1>2, <2>1, Zenon DEF ListenerFinding
  <2>4. QED
    BY <2>2, <2>3 DEF FieldNames
<1>3. RiskyPort(e, es).subject = subject /\ RiskyPort(e, es).sev = High
  BY <1>2 DEF RiskyPort
<1>4. OwnerChanged(e, es).subject = subject /\ OwnerChanged(e, es).sev = Medium
  BY <1>2 DEF OwnerChanged
<1>5. SuspiciousListener(e, es, score).subject = subject /\ SuspiciousListener(e, es, score).sev = High
  <2>1. PICK g : g = ListenerFinding("NET-003", "Network", High, e, es)
    OBVIOUS
  <2>2. DOMAIN g = FieldNames /\ g.subject = subject /\ g.sev = High
    BY <1>2, <2>1
  <2>3. QED
    BY <2>1, <2>2 DEF SuspiciousListener, Scored, FieldNames
<1>6. PublicListen(e, es).subject = subject /\ PublicListen(e, es).sev = Medium
  <2>1. PICK g : g = ListenerFinding("NET-001", "Network", Medium, e, es)
    OBVIOUS
  <2>2. DOMAIN g = FieldNames /\ g.subject = subject /\ g.sev = Medium
    BY <1>2, <2>1
  <2>3. QED
    BY <2>1, <2>2 DEF PublicListen, FieldNames
<1>7. QED
  BY <1>1, <1>3, <1>4, <1>5, <1>6

\* So a listener is reported no less severely; that of a suspicious process
\* replaces the milder ones.
LEMMA MoreListener ==
    ASSUME NEW S, NEW T, Fewer(S, T), Counted(T), NEW c, NEW e
    PROVE  Outdone(ListenerFindings(e, S, c), ListenerFindings(e, T, c))
<1> DEFINE score(es) == ListenerScore(e, ListenerContext(e, es))
           exposed(es) == ~ExpectedPublic(e.port, c) /\ ~ProtectedByFirewall(e, es)
           silent == e.port = 0 \/ ~Has(e, "public") \/ e.port \in c.allowlisted_ports
           fresh == Has(e, "from_baseline") /\ c.alert_on_new_listening_port /\ Has(e, "tcp")
           listed(es) ==
              IF silent THEN {}
              ELSE IF score(es) >= 50 THEN {SuspiciousListener(e, es, score(es))}
              ELSE IF e.port \in c.high_risk_public_ports THEN When(exposed(es), {RiskyPort(e, es)})
              ELSE IF e.kind = "listening_socket_owner_changed" THEN {OwnerChanged(e, es)}
              ELSE When(exposed(es) /\ fresh, {PublicListen(e, es)})
<1>1. ListenerFindings(e, S, c) = listed(S) /\ ListenerFindings(e, T, c) = listed(T)
  BY DEF ListenerFindings, When
<1>2. score(S) \in Nat /\ score(T) \in Nat /\ score(S) <= score(T)
  BY MoreContext, ListenerGrows
<1>3. exposed(S) = exposed(T)
  BY DEF ProtectedByFirewall, FirewallEvents, Fewer
<1> DEFINE subject == <<"*", ToString(e.port)>>
<1>4. \A es : /\ SuspiciousListener(e, es, score(es)).subject = subject /\ SuspiciousListener(e, es, score(es)).sev = High
              /\ RiskyPort(e, es).subject = subject /\ RiskyPort(e, es).sev = High
              /\ OwnerChanged(e, es).subject = subject /\ OwnerChanged(e, es).sev = Medium
              /\ PublicListen(e, es).subject = subject /\ PublicListen(e, es).sev = Medium
  BY ListenerRating
<1> HIDE DEF score, exposed, silent, fresh, subject
<1>5. SUFFICES ASSUME NEW f \in listed(S)
               PROVE  \E g \in listed(T) : g.subject = f.subject /\ (g.sev = f.sev \/ g.sev >= f.sev)
  BY <1>1 DEF Outdone
<1>6. f.subject = subject /\ f.sev \in {Medium, High} /\ ~silent
  BY <1>4, <1>5 DEF When
<1>7. CASE score(T) >= 50
  <2>1. PICK g : g = SuspiciousListener(e, T, score(T))
    OBVIOUS
  <2>2. g \in listed(T)
    BY <1>6, <1>7, <2>1
  <2>3. g.subject = subject /\ g.sev = High
    BY <1>4, <2>1
  <2>4. QED
    BY <1>6, <2>2, <2>3 DEF Medium, High
<1>8. CASE ~(score(T) >= 50)
  <2>1. ~(score(S) >= 50)
    BY <1>2, <1>8
  <2>2. CASE e.port \in c.high_risk_public_ports
    <3>1. exposed(T) /\ f = RiskyPort(e, S)
      BY <1>3, <1>5, <1>6, <2>1, <2>2 DEF When
    <3>2. PICK g : g = RiskyPort(e, T)
      OBVIOUS
    <3>3. g \in listed(T)
      BY <1>6, <1>8, <2>2, <3>1, <3>2 DEF When
    <3>4. QED
      BY <1>4, <3>1, <3>2, <3>3
  <2>3. CASE e.port \notin c.high_risk_public_ports /\ e.kind = "listening_socket_owner_changed"
    <3>1. f = OwnerChanged(e, S)
      BY <1>5, <1>6, <2>1, <2>3
    <3>2. PICK g : g = OwnerChanged(e, T)
      OBVIOUS
    <3>3. g \in listed(T)
      BY <1>6, <1>8, <2>3, <3>2
    <3>4. QED
      BY <1>4, <3>1, <3>2, <3>3
  <2>4. CASE e.port \notin c.high_risk_public_ports /\ e.kind # "listening_socket_owner_changed"
    <3>1. exposed(T) /\ fresh /\ f = PublicListen(e, S)
      BY <1>3, <1>5, <1>6, <2>1, <2>4 DEF When
    <3>2. PICK g : g = PublicListen(e, T)
      OBVIOUS
    <3>3. g \in listed(T)
      BY <1>6, <1>8, <2>4, <3>1, <3>2 DEF When
    <3>4. QED
      BY <1>4, <3>1, <3>2, <3>3
  <2>5. QED
    BY <2>2, <2>3, <2>4
<1>9. QED
  BY <1>7, <1>8

\* detect_network_events is no quieter.
LEMMA MoreListeners ==
    ASSUME NEW S, NEW T, Fewer(S, T), Counted(T), NEW c
    PROVE  Outdone(NetworkFindings(S, c), NetworkFindings(T, c))
<1>1. \A e : Outdone(ListenerFindings(e, S, c), ListenerFindings(e, T, c))
  BY MoreListener
<1>2. QED
  BY <1>1 DEF Outdone, NetworkFindings, Fewer

\* All built-in detectors.
LEMMA MoreEvidence ==
    ASSUME NEW S, NEW T, Fewer(S, T), Counted(T), NEW c, Thresholds(c)
    PROVE  Outdone(BuiltinFindings(S, c), BuiltinFindings(T, c))
<1> DEFINE single(es) == UNION {EventFindings(e, PackageActivity(es), c) : e \in es}
<1>1. Outdone(single(S), single(T))
  BY MoreFacts, OutdoneParts
<1>2. HostFindings(S, c) = SshFindings(S, c) \cup single(S) /\ HostFindings(T, c) = SshFindings(T, c) \cup single(T)
  BY DEF HostFindings
<1> HIDE DEF single
<1>3. Outdone(HostFindings(S, c), HostFindings(T, c))
  BY <1>1, <1>2, MoreLogins, OutdoneParts
<1>4. Outdone(HostFindings(S, c) \cup ProcessFindings(S, c), HostFindings(T, c) \cup ProcessFindings(T, c))
  BY <1>3, MoreProcesses, OutdoneParts
<1>5. Outdone(HostFindings(S, c) \cup ProcessFindings(S, c) \cup NetworkFindings(S, c),
              HostFindings(T, c) \cup ProcessFindings(T, c) \cup NetworkFindings(T, c))
  BY <1>4, MoreListeners, OutdoneParts
<1>6. QED
  BY <1>5, MoreRequests, OutdoneParts DEF BuiltinFindings

\* What the assumptions on the inputs say of the events and the thresholds.
LEMMA CountFacts ==
    ASSUME InputInv
    PROVE  Counted(events) /\ Thresholds(conf)
<1>1. PICK input \in Inputs : conf = input[1] /\ pool = input[2]
  BY DEF InputInv
<1>2. Thresholds(conf)
  BY <1>1, CountsAssumption DEF Thresholds
<1>3. \A e \in pool :
         /\ e.kind \in {"ssh_auth", "ssh_auth_aggregate"} => e.count \in Nat
         /\ e.kind = "web_access" => e.n \in Nat
         /\ e.kind = "outbound_connection" => e.peers \in Nat
         /\ e.kind = "gpu_compute_process" => e.memory \in Nat
         /\ e.kind \in {"process_snapshot", "process_exec"} => e.outbound \in 0 .. FanoutOutbound
  BY <1>1, CountsAssumption
<1>4. \A e \in pool : e.kind \in {"process_snapshot", "process_exec"} =>
         {"exe", "cwd", "cmd", "name", "pid", "sockets", "outbound", "tags"} \subseteq DOMAIN e
  BY <1>1, InputsAssumption
<1>5. \A p, q \in {e \in pool : e.kind = "process_snapshot"} : p.pid = q.pid => p = q
  BY <1>1, CountsAssumption
<1>6. events \subseteq pool /\ IsFiniteSet(events)
  BY DEF InputInv
<1>7. Counted(events)
  BY <1>3, <1>4, <1>5, <1>6 DEF Counted
<1>8. QED
  BY <1>2, <1>7

\* Whatever a host shows and however the scan is configured, leaving out any one
\* event but the firewall's state and package activity leaves detectors that say
\* nothing more severe of any subject: detect_ssh_events, detect_process_events,
\* detect_network_events and detect_web_events only ever learn from an event more.
THEOREM MoreEvidenceIsNeverQuieter == Spec => []MoreEvidenceNeverQuieter
<1>1. Init => InputInv
  BY FS_EmptySet DEF Init, InputInv
<1>2. InputInv /\ [Next]_vars => InputInv'
  BY InputStep
<1>3. InputInv => MoreEvidenceNeverQuieter
  <2>1. SUFFICES ASSUME InputInv, NEW e \in events, e.kind \notin {"firewall_state", "package_manager_activity"},
                        NEW f \in BuiltinFindings(events \ {e}, conf)
                 PROVE  \E g \in BuiltinFindings(events, conf) : g.subject = f.subject /\ g.sev >= f.sev
    BY DEF MoreEvidenceNeverQuieter
  <2>2. Fewer(events \ {e}, events)
    BY <2>1 DEF Fewer
  <2>3. Outdone(BuiltinFindings(events \ {e}, conf), BuiltinFindings(events, conf))
    BY <2>1, <2>2, CountFacts, MoreEvidence
  <2>4. PICK g \in BuiltinFindings(events, conf) : g.subject = f.subject /\ (g.sev = f.sev \/ g.sev >= f.sev)
    BY <2>1, <2>3 DEF Outdone
  <2>5. f.sev \in Info .. Critical
    <3>1. f \in Detectors(events \ {e}, conf)
      BY <2>1 DEF Detectors
    <3>2. Shape(f, events \ {e})
      BY <2>1, <3>1, InputFacts, DetectedShape
    <3>3. QED
      BY <3>2 DEF Shape
  <2>6. g.sev >= f.sev
    BY <2>4, <2>5 DEF Info, Critical
  <2>7. QED
    BY <2>4, <2>6
<1>4. QED
  BY <1>1, <1>2, <1>3, PTL DEF Spec

================================================================================
