------------------------------ MODULE Findings ------------------------------
(* What the detectors hand on: a finding is a record of the facts that later *)
(* stages of a scan decide on.  `ev` is the set of evidence facts without a  *)
(* value of their own ("package_activity" for package_activity_recent=true); *)
(* evidence that is compared or counted has a field.  Wording,               *)
(* recommendations and evidence that nothing reads are left out.             *)
EXTENDS Naturals, Sequences, FiniteSets, FiniteSetsExt, TLC

Info == 1
Low == 2
Medium == 3
High == 4
Critical == 5

\* confidence_for_severity: 1 is low, 2 medium, 3 high
ConfidenceFor(sev) == IF sev >= High THEN 3 ELSE IF sev = Medium THEN 2 ELSE 1

NoProbe == [family |-> "", response |-> "", families |-> {}]

\* Finding::new.  The subject is a tuple of names; path, source address,
\* process name and pid are the evidence findings are grouped by.
F(rule, cat, sev, subject, ev) ==
    [rule |-> rule, cat |-> cat, sev |-> sev, conf |-> ConfidenceFor(sev), subject |-> subject, ev |-> ev,
     path |-> "", source |-> "", process |-> "", pid |-> "", score |-> 0, drift |-> 0, unified |-> 0,
     count |-> 0, probe |-> NoProbe]

PathFinding(rule, cat, sev, path, ev) == [F(rule, cat, sev, <<path>>, ev) EXCEPT !.path = path]

SourceFinding(rule, cat, sev, subject, ip) == [F(rule, cat, sev, subject, {}) EXCEPT !.source = ip]

\* The risk_score, risk_reasons and risk_features evidence.
Scored(f, score) == [f EXCEPT !.score = score, !.ev = @ \cup {"risk"}]

When(cond, S) == IF cond THEN S ELSE {}

\* A signal is <<weight, feature, present>>.
Features(signals) == {s[2] : s \in {t \in signals : t[3]}}

\* RiskAssessment keeps the largest weight (add_signal, merge_max).
MaxScore(signals) == Max({0} \cup {s[1] : s \in {t \in signals : t[3]}})

\* BehaviorAssessment adds the weights up.
SumScore(signals) == MapThenSumSet(LAMBDA s : s[1], {t \in signals : t[3]})

=============================================================================
