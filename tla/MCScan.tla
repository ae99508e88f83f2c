-------------------------------- MODULE MCScan --------------------------------
(* Three courses of events, one per behaviour.  "beside": the key pair       *)
(* exists, the repository declares its artifact, and three operations run,   *)
(* two at a time, over one commit or stop.  "pair": two operations race for  *)
(* the key pair.  "apart": three operations, one after another, of a         *)
(* repository whose artifact is missing, over three commits and stops.       *)
EXTENDS Scan, TLC

VARIABLE course

MCRecipes == <<"r">>
MCProcess == Scanner \cup Recorder

MCInit ==
  /\ Init /\ course \in {"beside", "pair", "apart"}
  /\ private \in IF course = "pair" THEN {NoKey} ELSE Recorder
  /\ clock = IF course = "pair" THEN 1 ELSE 0
  /\ \A s \in Slot : tree.file[s] \in
       CASE course = "beside" -> Body [] course = "pair" -> {Silent} [] course = "apart" -> {Missing}
  /\ \A r \in Recipe : tree.finding[r] # Skipped

\* A commit changes either what the recipe finds or what is declared.
OneChange == tree' # tree => (tree'.finding = tree.finding) # (tree'.file = tree.file)
Bounded ==
  IF course = "apart" THEN Cardinality(Active') <= 1 /\ UNCHANGED tree.finding
  ELSE events' <= 1 /\ (course = "beside" => \A s \in Slot : tree'.file[s] \in Body)

MCSpec == MCInit /\ [][Next /\ OneChange /\ Bounded /\ UNCHANGED course]_<<vars, course>>
Symmetry == Permutations(Body)
=============================================================================
