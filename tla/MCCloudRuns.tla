---------------------------- MODULE MCCloudRuns ----------------------------
(* TLC instances of the cloud runner's lifecycle. *)
EXTENDS CloudRuns, TLC

Symmetry == Permutations(Nonce) \cup Permutations(Handler)

Clean == [exit |-> 0, stderr |-> {}]
Answered(second) == [caller |-> "ours", probes |-> {"implicitDeny"}, steps |-> <<Clean, second>>]
Whole == Answered(Clean)

\* For the interleavings of requests two outcomes are enough.
TwoAnswers == {Whole, Answered([exit |-> 254, stderr |-> {"access-denied"}])}

\* One answer for every way a run can fail to be evidence.
EveryAnswer ==
  {Whole, [Whole EXCEPT !.caller = "another"], [Whole EXCEPT !.caller = "unanswered"],
   [Whole EXCEPT !.probes = {"implicitDeny", "allowed"}], [Whole EXCEPT !.probes = {"implicitDeny", "unknown"}],
   Answered([exit |-> 0, stderr |-> {"throttled", "other"}]), Answered([exit |-> 1, stderr |-> {}]),
   Answered([exit |-> -1, stderr |-> {}])}
=============================================================================
