------------------------------ MODULE Artifacts ------------------------------
(***************************************************************************)
(* The artifact plane beside the method register: the bodies the program   *)
(* computes itself (packages/cli/src/artifact-generators.ts, minted by     *)
(* artifacts.ts), which cite the signed records of the scans, and the      *)
(* queue, the meters and the check of `rampscan artifacts`                 *)
(* (artifacts-view.ts).  The projection carries the newest RunCap records. *)
(***************************************************************************)
EXTENDS Registers, TLC

CONSTANT RunCap

ASSUME RunCapAssumption == RunCap \in Nat \ {0}

Computed == {2, 4, 5}

-----------------------------------------------------------------------------
(* The records of the scans, and the bodies computed from the fold. *)

Projected(S) == {i \in Runs(S) : Cardinality({j \in Runs(S) : Before(i, j)}) < RunCap}

\* The record of the scan behind the evidence that stands for a method's recipe.
RecordOf(records, S, m) ==
  {i \in records : m.source # "attestation"
     /\ \E b \in {Register(S, m.ref).bundle} : b # 0 /\ log[i].run = log[b].run}

Cited(records, S, methods) == UNION {RecordOf(records, S, m) : m \in Automated(methods)}

GeneratesOfCadence(S, n, methods) ==
  CASE n = 4 -> Cited(Projected(S), S, methods) # {}
    [] n = 2 -> \E m \in Held(methods) : m.source = "pipeline"
    [] n = 5 -> Held(methods) # {}

\* Whether a body comes of it, or a refusal with its reason.
Generates(S, n, methods) ==
  CASE n = 4 -> Cited(Projected(S), S, methods) # {}
    [] n \in {2, 5} -> Held(methods) # {}

\* What the body tells.
Content(S, n, methods, now) ==
  CASE n = 2 -> {<<m.ref, AsOf(m.bundle), FreshMet(m, now)>> : m \in Held(methods)}
    [] n = 4 -> {<<m.ref, m.bundle # 0, RecordOf(Projected(S), S, m)>> : m \in Automated(methods)}
    [] n = 5 -> {<<m.ref, m.state, AsOf(m.bundle), FreshMet(m, now)>> : m \in methods}

\* Minted again, the same bytes restart the clock.
Mint(k, n, at) ==
  \E methods \in {MethodsOf(DOMAIN log, k)} :
    /\ Generates(DOMAIN log, n, methods)
    /\ Says([kind |-> "artifact", ksi |-> k, slot |-> n, at |-> at, since |-> at,
             body |-> ToString(Content(DOMAIN log, n, methods, at))])

NextArtifact ==
  \/ Next
  \/ \E at \in {d \in Days : d >= Today}, k \in KSIs, n \in Computed : Mint(k, n, at)

ArtifactsSpec == Init /\ [][NextArtifact]_log

-----------------------------------------------------------------------------
(* `rampscan artifacts`. *)

NextMove(S, k, n, methods) ==
  IF Present(S, k, n) THEN "none"
  ELSE IF n \in {1, 3} THEN "scaffold"
  ELSE IF Derivable(S, k, n, methods) THEN "generate" ELSE "none"

\* What the view says of an empty slot.
Word(S, k, n, methods) ==
  IF Absent(S, k, n) THEN "gone"
  ELSE IF Derivable(S, k, n, methods) THEN "derivable"
  ELSE IF n \in {1, 3} THEN "yours" ELSE "nothing yet"

Fresh(S, k, n, now) ==
  \/ Windows["non-machine"] = NoWindow
  \/ log[BodyOf(S, k, n)].since >= WindowThreshold(now, Windows["non-machine"])

\* What `artifacts check` fails on: a declaration that stopped resolving, a body past
\* its clock, a judgment of bytes that were revised since.
Problems(S, k, n, now) ==
  {p \in {"lost", "stale", "unjudged"} :
     CASE p = "lost" -> Absent(S, k, n)
       [] p = "stale" -> Present(S, k, n) /\ ~Fresh(S, k, n, now)
       [] p = "unjudged" -> /\ n \in Judged /\ Present(S, k, n)
                            /\ About(S, "judgment", k, n) # {} /\ ~Reaches(S, k, n)}

-----------------------------------------------------------------------------
(* Properties *)

\* The queue's command works: a body that is offered for generation is generated
\* and not refused, and where nothing is said to be there to compute from the
\* generator refuses.  Body 4, never offered, is excepted, and a cycle that rests
\* on attestations alone, which the generator explains unasked.
NextMoveWorks ==
  \A k \in KSIs, n \in {2, 5} : \A methods \in {MethodsOf(All, k)} :
    /\ NextMove(All, k, n, methods) = "generate" => Generates(All, n, methods)
    /\ (~Present(All, k, n) /\ Word(All, k, n, methods) = "nothing yet") =>
         ~Generates(All, n, methods) \/ (n = 2 /\ \A m \in Held(methods) : m.source = "attestation")

\* Body 4 is refused for want of a signed record only where the ledger holds none
\* behind any automated method, or none among its newest.
NoRecordMeansNone ==
  \A k \in KSIs : \A methods \in {MethodsOf(All, k)} :
    ~Generates(All, 4, methods) =>
      \A i \in Cited(Runs(All), All, methods) :
        Cardinality({j \in Runs(All) : Before(i, j)}) >= RunCap

\* A body that is recorded stands at once, whatever a scan could not resolve up to
\* that very instant, and passes the check unless it is as old as its file or
\* other bytes were judged.
RecordedStandsAtOnce ==
  LET last == log[Len(log)] IN
  last.kind = "artifact" =>
    /\ BodyOf(All, last.ksi, last.slot) = Len(log)
    /\ "lost" \notin Problems(All, last.ksi, last.slot, Today)
    /\ last.since = Today => "stale" \notin Problems(All, last.ksi, last.slot, Today)

\* A body counts as its bytes were judged, and the queue over the bodies, the
\* generators and the check never send a person the wrong way.
BodiesHold ==
  JudgmentFollowsBytes /\ NextMoveWorks /\ NoRecordMeansNone /\ RecordedStandsAtOnce
=============================================================================
