------------------------------ MODULE Dataset ------------------------------
(* The pinned dataset, as @rampscan/dataset loads it: a snapshot directory   *)
(* of files that somebody else publishes and a person copies into the tree,  *)
(* and three kinds of pin that the loaders compare it with.                  *)
(*                                                                           *)
(* Source: packages/dataset/src/client.ts, catalog.ts, pins.ts, types.ts.    *)
(* What is in a file is what the project reasons against: which controls an  *)
(* indicator reaches, the uncovered controls with what upstream thinks of    *)
(* them, which upstream recipe proves which control in which class, and the  *)
(* facts the catalog owes, read twice: from the slices and from the rules.   *)
EXTENDS Naturals, FiniteSets, Sequences

CONSTANTS Controls, Ksis, Planes,
          Release,   \* what upstream has published, oldest first: one record per release
          Unstated

SnapshotFiles == {"crosswalk", "frontier", "plan", "slices", "rules"}
\* the pinned versions: the register, the adjudication overlay, the pipeline plane
Pins == {"register", "overlay", "plane"}
Versions == {Release[r][p] : r \in DOMAIN Release, p \in Pins}
Classes == {"a", "b", "c", "d"}

(* A version names its content: two releases with one register version have  *)
(* one crosswalk and one set of facts; with one overlay version beside it,   *)
(* one frontier; with one plane version, the same pipeline recipes.          *)
ASSUME VersionsNameContent ==
  \A i, j \in DOMAIN Release :
    LET a == Release[i] b == Release[j] IN
    a.register = b.register =>
      /\ a.reach = b.reach /\ a.slices = b.slices /\ a.rules = b.rules
      /\ a.overlay = b.overlay => a.frontier = b.frontier
      /\ a.plane = b.plane => {x \in a.plan : x.plane = "pipeline"} = {x \in b.plan : x.plane = "pipeline"}

(* Upstream's frontier is the controls some indicator reaches and nobody     *)
(* answers, and its rollup counts the reached ones.                          *)
ASSUME FrontierIsReached ==
  \A i \in DOMAIN Release :
    \A c \in Controls : Release[i].frontier[c] # Unstated => \E k \in Ksis : c \in Release[i].reach[k]

(* A release is whole, or its files do not parse: its reach is of controls,  *)
(* its facts state what both texts owe, and the indicators its rules call    *)
(* optional are among those they list.  No plane bears the name the join     *)
(* gives to a claim without a source.                                        *)
IsFacts(f) == f = [ksis |-> f.ksis, floors |-> f.floors, windows |-> f.windows, optionalAt |-> f.optionalAt]
ASSUME ReleasesAreWhole ==
  /\ IsFiniteSet(Controls) /\ "unattributed" \notin Planes
  /\ \A i \in DOMAIN Release :
       LET a == Release[i] IN
       /\ a.reach \in [Ksis -> SUBSET Controls]
       /\ IsFacts(a.slices) /\ IsFacts(a.rules)
       /\ \A cls \in Classes : a.rules.optionalAt[cls] \subseteq a.rules.ksis

VARIABLES file,   \* [SnapshotFiles -> the release each file of the snapshot was copied from]
          pin     \* [Pins -> the version this tree is pinned to]

From(f) == Release[file[f]]

-----------------------------------------------------------------------------
\* loadSlice: the envelope's dataset_version of every file
AtPin(f) == From(f).register = pin.register
\* a slice in the overlay pins carries the pinned overlay
OverlayAtPin == From("frontier").overlay = pin.overlay
\* planePins: only the plane whose subject is ours is pinned
PlaneAtPin == From("plan").plane = pin.plane

LooseLoads == OverlayAtPin /\ PlaneAtPin /\ \A f \in {"crosswalk", "plan"} : AtPin(f)
DatasetLoads == OverlayAtPin /\ PlaneAtPin /\ \A f \in {"crosswalk", "frontier", "plan"} : AtPin(f)

ControlsFor(k) == From("crosswalk").reach[k]
KsisFor(c) == {k \in Ksis : c \in ControlsFor(k)}
FrontierRow(c) == From("frontier").frontier[c]
OnFrontier == {c \in Controls : FrontierRow(c) # Unstated}
KsiReachedControls == Cardinality(UNION {From("frontier").reach[k] : k \in Ksis})

\* one recipe is listed under several classes, with its controls in some of
\* them only: the union is what upstream claims
UpstreamRecipesFor(c) == {<<i.plane, i.recipe>> : i \in {x \in From("plan").plan : c \in x.proves}}

-----------------------------------------------------------------------------
(* The catalog: the same facts from two independent texts.                   *)

\* path A: the derived slices carry no class variants of an indicator
FromSlices == [From("slices").slices EXCEPT !.optionalAt = Unstated]
\* path B: the rules themselves
FromRules == From("rules").rules

AgreedFields == {"ksis", "floors", "windows"}
Equivalent(a, b) == \A x \in AgreedFields : a[x] = b[x]

CatalogLoads == AtPin("slices") /\ AtPin("rules") /\ Equivalent(FromSlices, FromRules)

\* loadKsiCatalog: the slices' facts, with the applicability of whichever leg states one
KsiCatalog == [FromSlices EXCEPT !.optionalAt = FromRules.optionalAt]

-----------------------------------------------------------------------------
DatasetInit(r) == file = [f \in SnapshotFiles |-> r] /\ pin = [p \in Pins |-> Release[r][p]]

(* A person copies files of a release into the tree: all of them, or one, or *)
(* all but one when the copy was cut short.                                  *)
Refresh ==
  \E r \in DOMAIN Release, f \in SnapshotFiles :
    \E F \in {SnapshotFiles, {f}, SnapshotFiles \ {f}} :
      /\ file' = [g \in SnapshotFiles |-> IF g \in F THEN r ELSE file[g]]
      /\ file' # file
  /\ UNCHANGED pin

\* and types the versions they have read, all or one of them
Repin ==
  /\ \E r \in DOMAIN Release, p \in Pins :
       \E P \in {Pins, {p}} :
         /\ pin' = [q \in Pins |-> IF q \in P THEN Release[r][q] ELSE pin[q]]
         /\ pin' # pin
  /\ UNCHANGED file

-----------------------------------------------------------------------------
(* The pinned releases: those whose three versions are the pins.             *)
Pinned == {r \in DOMAIN Release : \A p \in Pins : Release[r][p] = pin[p]}

(* What loads is one release.  However the files were copied and whichever   *)
(* pins were moved, when the loaders accept and the pins are those of a      *)
(* release, everything they hand out is what that release says: its reach,   *)
(* its frontier, its recipes on our subject, and its facts, which both texts *)
(* of it state (client.ts loadLocalDataset, catalog.ts loadKsiCatalog).  The *)
(* aws plane of the plan is pinned by nobody and is not promised.            *)
LoadsOneRelease ==
  \A r \in Pinned :
    /\ DatasetLoads =>
         /\ \A k \in Ksis : ControlsFor(k) = Release[r].reach[k]
         /\ \A c \in Controls :
              /\ FrontierRow(c) = Release[r].frontier[c]
              /\ \A u \in UpstreamRecipesFor(c) :
                   u[1] = "pipeline" => \E i \in Release[r].plan : u = <<i.plane, i.recipe>> /\ c \in i.proves
    /\ CatalogLoads =>
         /\ \A x \in AgreedFields : KsiCatalog[x] = Release[r].rules[x] /\ KsiCatalog[x] = Release[r].slices[x]
         /\ \A cls \in Classes : KsiCatalog.optionalAt[cls] \subseteq KsiCatalog.ksis
=============================================================================
