-------------------------- MODULE MCActiveResponse --------------------------
(* Small instances of ActiveResponse for TLC.                               *)
EXTENDS ActiveResponse

\* An ordinary offender: blocked for one or two ticks, permanently after two
\* triggers; one a policy blocks permanently; one a policy only observes.
Offender == [action |-> "block", ttl |-> 1, after |-> 2]
Condemned == [action |-> "permanent_block", ttl |-> 1, after |-> 2]
Watched == [action |-> "observe", ttl |-> 1, after |-> 2]

AllCandidates == {Offender, Condemned, Watched}
PlainCandidates == {Offender}
=============================================================================
