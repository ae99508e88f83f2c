------------------------------- MODULE Reach -------------------------------
(* The gates over the code graph as a repository lives through them: a       *)
(* developer edits a working tree, commits it, merges it into the branch a   *)
(* pull request is compared with; `rampscan scan` signs what the gates say   *)
(* at HEAD; `rampscan check` says, of the working tree, what a scan would    *)
(* conclude and whether this tree is to blame (packages/cli/src/check.ts and *)
(* check-comment.ts).                                                        *)
(*                                                                           *)
(* Source.  A scan lists the files of the commit (`git ls-tree`) but reads   *)
(* their bytes, the manifests' and the configuration's from disk; a check    *)
(* lists the files of the working tree.                                      *)
EXTENDS CodeGraph

CONSTANTS Facts,      \* what an edit may add to or take from the tree
          FirstTree,  \* the tree at the start
          MaxMoves    \* bound on edits, commits and merges

ASSUME FactsAssumption ==
  /\ MaxMoves \in Nat
  /\ \A f \in Facts \cup FirstTree : WellFormed(f)

VARIABLES tree,    \* the working tree
          head,    \* the commit it sits on
          base,    \* the commit of the branch it is compared with
          signed,  \* what the scan that just ran signed: the commit it names,
                   \* what it read, whether it had an SBOM
          board,   \* what the evidence signed so far says of each recipe
          said,    \* what the check that just ran says of a recipe, and its grounds
          moves

reachVars == <<tree, head, base, signed, board, said, moves>>

None == [none |-> TRUE]

ReachInit ==
  /\ tree = FirstTree /\ head = FirstTree /\ base = FirstTree
  /\ signed = None /\ board = [c \in Recipes |-> "absent"] /\ said = None /\ moves = 0

\* a dirty checkout is read as it lies, minus the files no commit holds
ReadAtHead == {f \in tree : f.in \in Present(head) \cup Deps}
\* a committed file gone from disk stops the extraction: there is no graph
Unreadable == ~ (Present(head) \subseteq Present(tree))

Move == moves < MaxMoves /\ moves' = moves + 1
Quiet == signed' = None /\ said' = None

Edit ==
  /\ Move
  /\ \E f \in Facts : tree' = IF f \in tree THEN tree \ {f} ELSE tree \cup {f}
  /\ Quiet /\ UNCHANGED <<head, base, board>>

Commit ==
  /\ Move /\ tree # head
  /\ head' = tree
  /\ Quiet /\ UNCHANGED <<tree, base, board>>

Merge ==
  /\ Move /\ base # head
  /\ base' = head
  /\ Quiet /\ UNCHANGED <<tree, head, board>>

\* the SBOM is there or not: its producer may have been skipped
Scan ==
  /\ \E sbom \in BOOLEAN :
       signed' = [at |-> head, read |-> IF Unreadable THEN {} ELSE ReadAtHead, sbom |-> sbom]
  /\ board' = [c \in Recipes |->
                  IF Unreadable \/ Verdict(c, ReadAtHead) = "unevidenced" THEN board[c]
                  ELSE Verdict(c, ReadAtHead)]
  /\ said' = None /\ UNCHANGED <<tree, head, base, moves>>

\* the window passes and a cell's evidence goes stale
Lapse ==
  /\ \E c \in Recipes : board[c] \in {"evidenced", "violated"}
                        /\ board' = [board EXCEPT ![c] = "unevidenced"]
  /\ Quiet /\ UNCHANGED <<tree, head, base, moves>>

-----------------------------------------------------------------------------
(* The check: the worktree's verdict, against the base tree or the board     *)

\* the baseline's answer, "absent" when there is none
FromBoard(c) == [by |-> "board", was |-> board[c]]
FromTree(c) == [by |-> "base-tree", was |-> Verdict(c, base)]
BoardFirst(named, c) == IF named /\ board[c] = "absent" THEN FromTree(c) ELSE FromBoard(c)
Baseline(named, c) == IF named THEN FromTree(c) ELSE FromBoard(c)

\* what the comment says of a violated row; without one there is no comment
Movement(now, was) ==
  IF now # "violated" THEN "silent"
  ELSE IF was = "absent" THEN "no-baseline"
  ELSE IF was = now THEN "inherited"
  ELSE "introduced"

Check ==
  /\ \E named \in BOOLEAN, c \in Recipes :
       LET b == Baseline(named, c)
       IN said' = [recipe |-> c, word |-> Movement(Verdict(c, tree), b.was),
                   by |-> b.by, named |-> named]
  /\ signed' = None /\ UNCHANGED <<tree, head, base, board, moves>>

ReachNext == Edit \/ Commit \/ Merge \/ Scan \/ Lapse \/ Check
ReachSpec == ReachInit /\ [][ReachNext]_reachVars

-----------------------------------------------------------------------------
(* Properties                                                                *)

\* a signed negative is true: no file or package the gates called unreachable
\* is loaded by the program the scan read, from any place it starts, by the
\* statements the extractor reads, by a load of an expression, or through the
\* packages' own dependencies when the SBOM was there
\* (collectors/src/reachability.ts, sast-gate.ts, scope.ts).  Left out: loads
\* the extractor does not see or takes for a package,
\* and dependencies when no SBOM was read
NegativesAreTrue ==
  signed # None =>
    NotAffected(signed.read, signed.sbom)
      \cap Loaded(signed.read, {"plain", "opaque"}, signed.sbom) = {}

\* the SBOM only ever adds to what is reached: reading one turns no verdict
\* into a negative (graph/src/query.ts:261-267, GHSA-7jff-6v53-r56x)
SbomOnlyAdds ==
  signed # None => NotAffected(signed.read, TRUE) \subseteq NotAffected(signed.read, FALSE)

\* a route said to reach authentication by hops all resolved to a declaration
\* runs a function of the project so named, where no two functions of a file share a name
\* (their symbols would be one node: graph/src/extract.ts, routeAuthCoverage)
CoveredRouteRunsAuth ==
  signed # None /\ (\A g, h \in Functions : Symbol(g) = Symbol(h) => g = h) =>
    \A r \in Of(signed.read, {"route"}) :
      AuthExact(signed.read, r) =>
        \E g \in Runs(signed.read, r) : NameOf[g] \in AuthNames /\ FileOf[g] \in Present(signed.read)

\* evidence names a commit whose tree it read, unless the checkout differed
\* from it: a file only on disk adds nothing to what a scan signs
\* (extract.ts:130-134)
OnlyCommittedFiles ==
  signed # None => Present(signed.read) \subseteq Present(signed.at)

\* what a scan signs is sound: true of the program, never talked into by the SBOM,
\* and about the commit it names
SignedIsSound == NegativesAreTrue /\ SbomOnlyAdds /\ OnlyCommittedFiles

\* a pull request is blamed for a violation only when its base did not have
\* it, and excused only when its base did: whenever the base tree was read.
\* Against the board both can be wrong: the board is of another commit, and a
\* violation whose evidence lapsed reads as introduced (check-comment.ts:92)
BlameIsDeserved ==
  said # None /\ said.named =>
    /\ said.word = "introduced" => Verdict(said.recipe, base) # "violated"
    /\ said.word = "inherited" => Verdict(said.recipe, base) = "violated"

=============================================================================
