--------------------------- MODULE FingerprintStore ---------------------------
(***************************************************************************)
(* Attack fingerprints (sentinel-agent attack_fingerprint.rs, the           *)
(* fingerprint tables of storage/sqlite.rs, `vs fingerprints`).  Every scan *)
(* that persists reads the fingerprint that fits a finding, merges the      *)
(* finding into it, asks active response to block when the fingerprint      *)
(* earns it, writes fingerprint and observation back and deletes the oldest *)
(* observations: statements of their own, which a second scan, an           *)
(* operator's verdict, retention or the size limit may come between.        *)
(*                                                                         *)
(* A finding is a record of its category, rule, source, severity score,     *)
(* confidence, request or failure count and evidence, a function from       *)
(* evidence keys to sets of values.  A fingerprint is identified by its     *)
(* method, the pair of kind and features that fingerprint_id hashes: BLAKE3 *)
(* is taken to be injective.                                                *)
(***************************************************************************)
EXTENDS Integers, FiniteSets, FiniteSetsExt, Sequences, SequencesExt

CONSTANTS
    Enricher,           \* processes that scan: the daemon and `vs scan`
    AttackFindings,     \* findings the detectors may report
    Normal,             \* Normal[v]: value v with digit and hex runs collapsed
    SimilarityEnabled, SimilarityDistance,
    MaxMatchCandidates, MaxFingerprintObservations,
    MinScore, MinObservations, MinDistinctIps,   \* active_response_min_*
    FingerprintRetention,                        \* retention_days in ticks
    KeepFingerprints, KeepObservations,          \* KEEP_LATEST_ATTACK_* of the size limit
    MaxSeen,            \* bound: findings enriched
    MaxInterventions    \* bound: commands of the operator and aborted scans

ASSUME FingerprintAssumption ==
    /\ IsFiniteSet(Enricher)
    /\ MaxSeen \in Nat /\ MaxInterventions \in Nat
    /\ KeepFingerprints \in Nat /\ KeepObservations \in Nat
    /\ MaxMatchCandidates \in Nat \ {0} /\ MaxFingerprintObservations \in Nat \ {0}
    /\ FingerprintRetention \in Nat \ {0} /\ MinScore \in 0 .. 100
    /\ MinObservations \in Nat \ {0} /\ MinDistinctIps \in Nat \ {0}
    /\ \A f \in AttackFindings : f.score \in Nat

VARIABLES
    prints,       \* attack_fingerprints: a function from the methods it holds to rows
    observations, \* attack_observations: ages of the rows of each method, latest first
    enrich,       \* the locals of each process's enrich_and_persist_findings
    ruling,       \* history: the verdict the operator last set on a row that still
                  \* exists; "" when none was, or a scan had read the row before
    evidence,     \* history: per method, how often and from where it was observed,
                  \* and whether the operator ever called it malicious
    untrimmed,    \* history: per method, scans ended between INSERT and DELETE of
                  \* an observation since the last DELETE
    interventions

printVars == <<prints, observations, enrich, ruling, evidence, untrimmed, interventions>>
Intervene == interventions < MaxInterventions /\ interventions' = interventions + 1
Verdict == {"unknown", "benign", "malicious"}

-----------------------------------------------------------------------------
(* From a finding to the method it shows                                    *)

KindOf(f) ==
    CASE f.category = "web" /\ f.rule \in {"WEB-001", "WEB-002"} -> "web_probe"
      [] f.category = "ssh" /\ f.rule \in {"SSH-003", "SSH-007"} -> "ssh_bruteforce"
      [] f.category \in {"process", "rootkit"} -> "host_process"
      [] f.category \in {"persistence", "file", "user", "privilege"} -> "host_persistence"
      [] OTHER -> ""

WebKeys == {"probe_families", "probe_family", "response_profiles", "response_profile",
            "methods", "statuses", "sample_paths"}
SshKeys == {"users", "failed_users", "success_users"}
HostKeys == {"process_name", "exe_hash", "package_owner", "parent_name", "systemd_unit",
             "outbound_remote_ports", "gpu_process", "file_type", "entry_type",
             "exe_path", "path", "cmdline"}
FeatureKeys(kind) ==
    CASE kind = "web_probe" -> WebKeys [] kind = "ssh_bruteforce" -> SshKeys [] OTHER -> HostKeys

VolumeBucket(n) ==
    IF n <= 1 THEN "single" ELSE IF n <= 5 THEN "low" ELSE IF n <= 20 THEN "medium"
    ELSE IF n <= 100 THEN "high" ELSE "extreme"

\* The source is no feature: a method keeps its fingerprint when sources rotate.
AttackFeatures(f) ==
    LET keys == FeatureKeys(KindOf(f)) \cap DOMAIN f.evidence
    IN {<<"rule", {f.rule}>>, <<"category", {f.category}>>}
       \cup {<<k, {Normal[v] : v \in f.evidence[k]}>> : k \in keys}
       \cup (IF KindOf(f) \in {"web_probe", "ssh_bruteforce"} /\ f.count > 0
             THEN {<<"volume", {VolumeBucket(f.count)}>>} ELSE {})

Method(f) == [kind |-> KindOf(f), features |-> AttackFeatures(f)]
HasCandidate(f) == KindOf(f) # ""

\* The Hamming distance of two SimHashes, by what it estimates: how many
\* features differ.
Distance(m, n) ==
    Cardinality((m.features \ n.features) \cup (n.features \ m.features))

HighConfidenceFamilies ==
    {"command_injection", "cgi_shell_traversal", "php_config_injection", "lfi_file_read",
     "php_stream_wrapper", "java_jndi_injection", "ssrf_metadata", "phpunit_eval_stdin"}
Shows(f, key, values) == key \in DOMAIN f.evidence /\ f.evidence[key] \cap values # {}
SourceListLength(f, key) == IF key \in DOMAIN f.evidence THEN Cardinality(f.evidence[key]) ELSE 0
FeatureBonus(f) ==
    CASE KindOf(f) = "web_probe" ->
            (IF Shows(f, "response_profile", {"successful_response"}) THEN 20 ELSE 0)
            + (IF Shows(f, "probe_family", HighConfidenceFamilies) THEN 15 ELSE 0)
      [] KindOf(f) = "ssh_bruteforce" ->
            IF Max({SourceListLength(f, "users"), SourceListLength(f, "failed_users")}) >= 8
            THEN 10 ELSE 0
      [] OTHER -> 0
CandidateScore(f) == Min({100, f.score + FeatureBonus(f)})

-----------------------------------------------------------------------------
(* Matching and merging                                                     *)

\* The columns of attack_fingerprints that matter here.
Row(seen, ips, score, confidence, verdict, age) ==
    [seen |-> seen, ips |-> ips, score |-> score, confidence |-> confidence, verdict |-> verdict, age |-> age]

\* new_fingerprint counts its first finding, here the merge does.
NewFingerprint(f) == Row(0, {}, CandidateScore(f), f.confidence, "unknown", 0)

\* What list_attack_fingerprints_by_kind may return.
Listed(kind) ==
    LET rows == {m \in DOMAIN prints : m.kind = kind}
        n == Min({MaxMatchCandidates, Cardinality(rows)})
    IN {S \in kSubset(n, rows) : \A m \in S, o \in rows \ S : prints[m].age <= prints[o].age}

Closest(f, S) ==
    LET near == {m \in S : Distance(Method(f), m) <= SimilarityDistance}
        Nearer(m, o) ==
            \/ Distance(Method(f), m) < Distance(Method(f), o)
            \/ Distance(Method(f), m) = Distance(Method(f), o) /\ prints[m].age <= prints[o].age
    IN {m \in near : \A o \in near : Nearer(m, o)}

\* Mutant: the nearest row that was seen last, the exact one or not.
MatchesLatest(f) ==
    LET rows == {m \in DOMAIN prints : Distance(Method(f), m) <= SimilarityDistance}
        latest == {m \in rows : \A o \in rows : prints[m].age <= prints[o].age}
    IN IF rows = {} THEN {Method(f)} ELSE latest

\* match_fingerprint: the methods whose row the finding may be merged into,
\* the exact one first; its own method when there is none.
Matches(f) ==
    LET similar == UNION {Closest(f, S) : S \in Listed(KindOf(f))}
    IN IF Method(f) \in DOMAIN prints \/ ~SimilarityEnabled \/ similar = {}
       THEN {Method(f)} ELSE similar

Sources(f) == {f.source} \ {""}
CompositeScore(score, seen, ips, verdict) ==
    Min({100, score + (IF seen >= 2 THEN 5 ELSE 0) + (IF Cardinality(ips) >= 2 THEN 10 ELSE 0)
                    + (IF verdict = "malicious" THEN 15 ELSE 0)})

\* Mutant: a new fingerprint counts its first finding twice.
MergeCountsTwice(f, fp) ==
    [fp EXCEPT !.seen = IF @ = 0 THEN 2 ELSE @ + 1, !.age = 0, !.ips = @ \cup Sources(f),
               !.score = 100]
\* Mutant: a match starts again from what the finding says.
MergeAfresh(f, fp) ==
    [NewFingerprint(f) EXCEPT !.seen = fp.seen + 1, !.ips = fp.ips \cup Sources(f)]

\* merge_fingerprint.  A host has one host_id, so the bonus for a second host
\* is never given, and 64 sources are more than an instance has.
MergeFingerprint(f, fp) ==
    LET seen == fp.seen + 1
        ips == fp.ips \cup Sources(f)
        score == Max({fp.score, CandidateScore(f)})
    IN Row(seen, ips, CompositeScore(score, seen, ips, fp.verdict), Max({fp.confidence, f.confidence}),
           fp.verdict, 0)

ShouldHint(f, fp) ==
    /\ f.source # "" /\ ~f.proxy_source_unresolved
    /\ fp.verdict # "benign"
    /\ \/ fp.verdict = "malicious"
       \/ /\ fp.score >= MinScore
          /\ fp.seen >= MinObservations
          /\ Cardinality(fp.ips) >= MinDistinctIps

-----------------------------------------------------------------------------
(* The scan                                                                 *)

Resting == [pc |-> "idle", method |-> [kind |-> "", features |-> {}], hint |-> FALSE]
EnrichLocals(pc, method, exact, row, hint) ==
    [pc |-> pc, method |-> method, exact |-> exact, row |-> row, hint |-> hint]
Observed(seen, ips, malicious) == [seen |-> seen, ips |-> ips, malicious |-> malicious]
NoEvidence == Observed(0, {}, FALSE)
Held == {Method(f) : f \in {g \in AttackFindings : HasCandidate(g)}}

FingerprintInit ==
    /\ prints = << >>
    /\ observations = [m \in Held |-> << >>]
    /\ enrich = [p \in Enricher |-> Resting]
    /\ ruling = [m \in Held |-> ""]
    /\ evidence = [m \in Held |-> NoEvidence]
    /\ untrimmed = [m \in Held |-> 0]
    /\ interventions = 0

\* match_fingerprint, merge_fingerprint, should_hint_active_response and
\* enrich_finding: one read, then memory only.
EnrichFindings(p, f) ==
    /\ enrich[p].pc = "idle" /\ HasCandidate(f)
    /\ MapThenSumSet(LAMBDA m : evidence[m].seen, Held) < MaxSeen
    /\ \E m \in Matches(f) :
          /\ LET fp == MergeFingerprint(f, IF m \in DOMAIN prints THEN prints[m] ELSE NewFingerprint(f))
             IN enrich' = [enrich EXCEPT ![p] = EnrichLocals("save", m, Method(f), fp, ShouldHint(f, fp))]
          /\ evidence' = [evidence EXCEPT ![m] = Observed(@.seen + 1, @.ips \cup Sources(f), @.malicious)]
    /\ UNCHANGED <<prints, observations, ruling, untrimmed, interventions>>

Put(m, row) == [n \in DOMAIN prints \cup {m} |-> IF n = m THEN row ELSE prints[n]]

\* save_attack_fingerprint: INSERT OR REPLACE of every column, the verdict
\* read earlier included.
SaveFingerprint(p) ==
    /\ enrich[p].pc = "save"
    /\ prints' = Put(enrich[p].method, enrich[p].row)
    /\ enrich' = [enrich EXCEPT ![p] = EnrichLocals("observe", @.method, @.exact, @.row, @.hint)]
    /\ UNCHANGED <<observations, ruling, evidence, untrimmed, interventions>>

Latest(rows) == SubSeq(rows, 1, Min({Len(rows), MaxFingerprintObservations}))

\* save_attack_observation: the INSERT, and then the DELETE of what exceeds the
\* limit of its fingerprint.
InsertObservation(p) ==
    /\ enrich[p].pc = "observe"
    /\ observations' = [observations EXCEPT ![enrich[p].method] = <<0>> \o @]
    /\ enrich' = [enrich EXCEPT ![p] = EnrichLocals("trim", @.method, @.exact, @.row, @.hint)]
    /\ UNCHANGED <<prints, ruling, evidence, untrimmed, interventions>>

TrimObservations(p) ==
    /\ enrich[p].pc = "trim"
    /\ observations' = [observations EXCEPT ![enrich[p].method] = Latest(@)]
    /\ untrimmed' = [untrimmed EXCEPT ![enrich[p].method] = 0]
    /\ enrich' = [enrich EXCEPT ![p] = Resting]
    /\ UNCHANGED <<prints, ruling, evidence, interventions>>

\* A storage error or a kill ends the scan wherever it is.
AbortEnrich(p) ==
    /\ enrich[p].pc # "idle" /\ Intervene
    /\ enrich' = [enrich EXCEPT ![p] = Resting]
    /\ untrimmed' = IF enrich[p].pc = "trim"
                    THEN [untrimmed EXCEPT ![enrich[p].method] = @ + 1] ELSE untrimmed
    /\ UNCHANGED <<prints, observations, ruling, evidence>>

-----------------------------------------------------------------------------
(* The operator and retention                                               *)

BeingMerged(m) == \E p \in Enricher : enrich[p].pc = "save" /\ enrich[p].method = m

Ruled(fp, v) == Row(fp.seen, fp.ips, fp.score, fp.confidence, v, fp.age)

\* set_attack_fingerprint_verdict: an UPDATE that finds the row, or nothing.
SetVerdict(m, v) ==
    /\ m \in DOMAIN prints /\ Intervene
    /\ prints' = Put(m, Ruled(prints[m], v))
    /\ ruling' = [ruling EXCEPT ![m] = IF BeingMerged(m) THEN "" ELSE v]
    /\ evidence' = [evidence EXCEPT ![m] = Observed(@.seen, @.ips, @.malicious \/ v = "malicious")]
    /\ UNCHANGED <<observations, enrich, untrimmed>>

Expired(m) == prints[m].age > FingerprintRetention /\ prints[m].verdict # "malicious"
Keep(S) == [m \in DOMAIN prints \cap S |-> prints[m]]
Rulings(S) == [m \in Held |-> IF m \in S THEN ruling[m] ELSE ""]

Recent(ages) == {i \in DOMAIN ages : ages[i] <= FingerprintRetention}

\* prune_attack_fingerprints, after prune_older_than.  The observations are sorted
\* by age: those that are recent enough come first.
PruneObservations ==
    /\ observations' = [m \in Held |->
                           SubSeq(observations[m], 1, Cardinality(Recent(observations[m])))]
    /\ UNCHANGED <<prints, enrich, ruling, evidence, untrimmed, interventions>>

PruneFingerprints ==
    /\ prints' = Keep({m \in DOMAIN prints : ~Expired(m)})
    /\ ruling' = Rulings({m \in Held : m \in DOMAIN prints =>
                             ~(prints[m].age > FingerprintRetention /\ ruling[m] # "malicious")})
    /\ UNCHANGED <<observations, enrich, evidence, untrimmed, interventions>>

\* delete_oldest_rows_keep_latest under the size limit, row by row: beyond the
\* latest ones the row that was seen longest ago goes, whatever its verdict.
ShrinkFingerprints ==
    /\ Cardinality(DOMAIN prints) > KeepFingerprints
    /\ \E m \in DOMAIN prints :
          /\ \A o \in DOMAIN prints : prints[o].age <= prints[m].age
          /\ prints' = Keep(DOMAIN prints \ {m})
          /\ ruling' = Rulings(Held \ {m})
    /\ UNCHANGED <<observations, enrich, evidence, untrimmed, interventions>>

ShrinkObservations ==
    /\ MapThenSumSet(LAMBDA m : Len(observations[m]), Held) > KeepObservations
    /\ \E m \in Held :
          /\ observations[m] # << >>
          /\ \A o \in Held : observations[o] # << >> => Last(observations[o]) <= Last(observations[m])
          /\ observations' = [observations EXCEPT ![m] = SubSeq(@, 1, Len(@) - 1)]
    /\ UNCHANGED <<prints, enrich, ruling, evidence, untrimmed, interventions>>

\* `vs storage clear`: all-history takes both tables, one after the other.
ClearObservations ==
    /\ Intervene
    /\ observations' = [m \in Held |-> << >>]
    /\ UNCHANGED <<prints, enrich, ruling, evidence, untrimmed>>

ClearFingerprints ==
    /\ Intervene
    /\ prints' = << >>
    /\ ruling' = [m \in Held |-> ""]
    /\ UNCHANGED <<observations, enrich, evidence, untrimmed>>

Aged(age) == Min({age + 1, FingerprintRetention + 1})
AgedRow(fp) == Row(fp.seen, fp.ips, fp.score, fp.confidence, fp.verdict, Aged(fp.age))
AgeFingerprints ==
    /\ \A p \in Enricher : enrich[p].pc = "idle"
    /\ prints' = [m \in DOMAIN prints |-> AgedRow(prints[m])]
    /\ observations' = [m \in Held |-> [i \in DOMAIN observations[m] |-> Aged(observations[m][i])]]
    /\ UNCHANGED <<enrich, ruling, evidence, untrimmed, interventions>>

FingerprintNext ==
    \/ \E p \in Enricher :
          \/ \E f \in AttackFindings : EnrichFindings(p, f)
          \/ SaveFingerprint(p) \/ InsertObservation(p) \/ TrimObservations(p) \/ AbortEnrich(p)
    \/ \E m \in Held, v \in Verdict : SetVerdict(m, v)
    \/ PruneObservations \/ PruneFingerprints \/ ShrinkObservations \/ ShrinkFingerprints
    \/ ClearObservations \/ ClearFingerprints \/ AgeFingerprints

FingerprintSpec == FingerprintInit /\ [][FingerprintNext]_printVars

-----------------------------------------------------------------------------
FingerprintTypeOK ==
    /\ DOMAIN prints \subseteq Held
    /\ \A m \in DOMAIN prints :
          /\ prints[m].score \in 0 .. 100 /\ prints[m].verdict \in Verdict
          /\ prints[m].seen >= Cardinality(prints[m].ips)
    /\ ruling \in [Held -> Verdict \cup {""}]

\* set_attack_fingerprint_verdict and prune_attack_fingerprints: what the
\* operator ruled stays in the row through merges, similar matches, aborted
\* scans and retention, which never takes a row ruled malicious, unless a scan
\* had read the row before the ruling and writes it after.  A clear and the size
\* limit take rows whatever their verdict, and the ruling with them.
VerdictKept ==
    \A m \in Held :
        /\ ruling[m] # "" /\ m \in DOMAIN prints => prints[m].verdict = ruling[m]
        /\ ruling[m] = "malicious" => m \in DOMAIN prints

Trimming(m) == {p \in Enricher : enrich[p].pc = "trim" /\ enrich[p].method = m}

\* save_attack_observation: a fingerprint has more observations than its limit
\* only by those of scans that have inserted theirs and not deleted the surplus
\* yet, or were ended in between; the next DELETE of any scan takes the surplus.
ObservationsTrimmed ==
    \A m \in Held :
        Len(observations[m]) <= MaxFingerprintObservations + Cardinality(Trimming(m)) + untrimmed[m]

\* save_attack_fingerprint, save_attack_observation and what comes between their
\* statements keep the rows within their bounds and under the operator's verdicts.
PrintsSound == FingerprintTypeOK /\ VerdictKept /\ ObservationsTrimmed

\* should_hint_active_response: active response is asked to block only for a
\* method that was observed often enough from enough sources, or that the
\* operator called malicious; lost and repeated writes never add to either.
HintEarned ==
    \A p \in Enricher : enrich[p].hint =>
        LET seen == evidence[enrich[p].method]
        IN \/ seen.malicious
           \/ seen.seen >= MinObservations /\ Cardinality(seen.ips) >= MinDistinctIps

\* match_fingerprint looks for the exact method first: no scan asks to block for
\* a method the operator ruled benign, however many similar ones are malicious.
BenignNeverHinted ==
    [][\A p \in Enricher : enrich'[p].hint /\ ~enrich[p].hint
          => ruling[enrich'[p].exact] # "benign"]_printVars
=============================================================================
