------------------------------- MODULE MCIntake -------------------------------
(* A small instance of Intake for TLC. *)
EXTENDS Intake, TLC

MCCrosswalk == [i \in {"I1", "I2", "I3"} |-> IF i = "I1" THEN <<"k1">> ELSE IF i = "I2" THEN <<"k1", "k2">> ELSE <<>>]
MCMapped == [k \in {"k1", "k2", "k3"} |-> IF k = "k1" THEN {"c", "e"} ELSE IF k = "k2" THEN {"c"} ELSE {}]

Row(in, holds) == [object |-> TRUE, in |-> in, holds |-> holds]
Each == [op |-> "each", value |-> 0]
Few == [op |-> "count_lte", value |-> 1]
Entry(script, ksi, exit, assertions, results) ==
  [script |-> script, ksi |-> ksi, exit |-> exit, assertions |-> assertions, results |-> results,
   directories |-> 1, at |-> 1]
Tree(name, entries) ==
  [shape |-> "tree", name |-> name, entries |-> entries, class |-> "process-generated", signer |-> "s"]
Good == <<Row(TRUE, TRUE), Row(FALSE, FALSE)>>
Bad == <<Row(TRUE, TRUE), Row(TRUE, FALSE)>>
Odd == <<[object |-> FALSE, in |-> TRUE, holds |-> TRUE]>>
Trees ==
  {Tree("t1", <<Entry("x", "k1", 0, {Each, Few}, Good), Entry("x", "k2", 0, {Each, [op |-> "count_eq", value |-> 2]}, Bad),
               Entry("y", "k1", 2, {Each}, None), Entry("y", "k2", 0, {}, Odd)>>),
   Tree("t3", <<Entry("x", "k1", 0, {Each}, Good), Entry("x", "k1", 0, {Each}, Bad)>>),
   Tree("t4", <<Entry("x", "k1", 0, {Each}, Good), Entry("x", "k9", 0, {}, Good)>>),
   Tree("t5", <<Entry("x", "k1", 0, {Each}, Odd)>>)}

Ev(name, artifact) == [name |-> name, artifact |-> artifact, at |-> IF artifact = "b" THEN None ELSE 1]
Validation(indicator, signer, evidences) == [indicator |-> indicator, signer |-> signer, evidences |-> evidences]
Package(name, crosswalk, validations) ==
  [shape |-> "package", name |-> name, cadence |-> TRUE, date |-> 2, crosswalk |-> crosswalk, validations |-> validations]
Packages ==
  {Package("p1", TRUE, <<Validation("I1", "s", <<Ev("q", "a"), Ev("q", "c")>>),
                         Validation("I2", "s", <<Ev("q", "a")>>),
                         Validation("I3", "s", <<Ev("o", "a")>>)>>),
   Package("p2", TRUE, <<Validation("I1", "s", <<Ev("o", "a")>>), Validation("I2", "s", <<Ev("o", "b")>>)>>),
   Package("p4", TRUE, <<Validation("I1", "s", <<Ev("o", "a")>>), Validation("I1", "s", <<Ev("o", "b")>>)>>),
   Package("p5", FALSE, <<Validation("k1", "s", <<Ev("o", "a")>>), Validation("k8", "s", <<Ev("o", "a")>>)>>),
   Package("p6", TRUE, <<Validation("I1", None, <<Ev("o", "a")>>)>>),
   [Package("p7", TRUE, <<Validation("I1", "s", <<Ev("o", "b")>>)>>) EXCEPT !.date = None]}

Found(check, ksi, status, muted) ==
  [check |-> check, ksi |-> ksi, status |-> status, muted |-> muted, manual |-> 0, legible |-> TRUE, at |-> 1]
ByHand(ksi) == [check |-> "manual", ksi |-> ksi, status |-> "MANUAL", muted |-> FALSE, manual |-> 3, legible |-> TRUE, at |-> 1]
Scan(name, exit, rows) ==
  [shape |-> "prowler", name |-> name, exit |-> exit, rows |-> rows, declared |-> TRUE, pinned |-> TRUE, signer |-> "s"]
Rows == <<Found("c", "k1", "PASS", FALSE), Found("c", "k1", "FAIL", TRUE), Found("c", "k2", "PASS", FALSE), ByHand("k3")>>
Scans ==
  {Scan("w1", 0, Rows), Scan("w2", 3, Rows),
   Scan("w3", 0, Rows \o <<ByHand("k2")>>), Scan("w4", 0, <<Found("e", "k2", "PASS", FALSE)>>),
   Scan("w5", 0, <<[Found("c", "k1", "PASS", FALSE) EXCEPT !.manual = 1]>>)}

MCDocument ==
  Trees \cup Packages \cup Scans \cup
  {[shape |-> "native", submission |-> Submission(<<"x", 1, None>>, "k1", {FALSE}, 2, TRUE, "point-in-time", 2, <<"n">>, "s")]}

MCAnchors == [r \in {b.recipe : b \in UNION {OwedBy[d] : d \in MCDocument}} |-> <<>>]
Symmetry == Permutations(Ingest)
=============================================================================
