--------------------------------- MODULE Store ---------------------------------
(***************************************************************************)
(* The two stores of the projection: what the fold's rows (module Chains)  *)
(* become in SQLite and in a deployment's PocketBase (module Tables), and  *)
(* what is read back.  Of a value only its kind matters to the stores: a   *)
(* text, the empty text, json, null, a count or zero, true or false, and   *)
(* absent for a column the row does not state.                             *)
(***************************************************************************)
EXTENDS Chains, Tables

Kinds == {"text", "empty", "json", "null", "count", "zero", "true", "false", "absent"}

Truthy(v) == v \in {"text", "json", "count", "true"}

All(kind, columns) == [c \in columns |-> kind]

-----------------------------------------------------------------------------
(* The rows of the fold, by the columns they state. *)

Ingested(r) == Anchors[r] = <<>>

\* An ingested result anchors to no commit and says so with an empty one.
Commit(i) == IF log[i].commit = 0 THEN "empty" ELSE "text"

\* Where a column may be absent, the fold leaves it so for an empty commit.
CommitIfAny(i) == IF log[i].commit = 0 THEN "absent" ELSE "text"

CoverageRow(S, i) ==
  LET s == Status(S, i) IN
  All("text", {"repo", "recipe_id", "verdict", "bundle_digest", "state", "fresh_as_of"})
  @@ All("json", {"ksi_ids", "control_ids"})
  @@ (IF s.state = "live" THEN <<>> ELSE [cause |-> "text", killing_commit |-> Commit(s.by)])

\* What a live bundle adds to its cell.  Only a scan counts what it looked at,
\* which may be nothing, and not every failure can be pointed at.
LiveColumns(S, r, i) ==
  All("text", {"bundle_digest", "fresh_as_of", "run_id"})
  @@ [commit_sha |-> CommitIfAny(i),
      population |-> IF Ingested(r) THEN "absent" ELSE IF log[i].at = 1 THEN "zero" ELSE "count"]
  @@ (IF log[i].verdict # "violated" THEN <<>>
      ELSE [introduced_at |-> "text", introducing_commit |-> CommitIfAny(FirstOf(Streak(S, r))),
            pointers |-> IF Ingested(r) THEN "absent" ELSE "json"])

\* What the catalog says of the recipe; an ingested one is not in it.
CatalogColumns(r, bundle) ==
  IF ~Ingested(r) THEN [cadence |-> "text", collector |-> "text", plain |-> "json"]
  ELSE IF bundle # 0 THEN [cadence |-> "text"] ELSE <<>>

RegisterRow(S, r) ==
  LET bundle == Register(S, r).bundle IN
  All("text", {"repo", "recipe_id", "state"}) @@ All("json", {"ksi_ids", "control_ids"})
  @@ CatalogColumns(r, bundle)
  @@ (IF bundle = 0 THEN <<>> ELSE LiveColumns(S, r, bundle))
  @@ (IF Scopings(S, r) = {} THEN <<>> ELSE [scoping |-> "json"])

\* What any movement states: a birth adds its verdict, a death its cause, its
\* commit and the verdicts it went from and, replaced, to.
Movement == All("text", {"at", "repo", "recipe_id", "kind", "bundle_digest"})

Died(S, i) ==
  Movement
  @@ [cause |-> "text", killing_commit |-> Commit(Status(S, i).by), from_verdict |-> "text",
      to_verdict |-> IF Later(S, i) = {} THEN "absent" ELSE "text"]

DriftRows(S) ==
  {Movement, Movement @@ [to_verdict |-> "text"]}
  \cup {Died(S, i) : i \in {j \in Evidence(S) : Status(S, j).state = "dead"}}

\* An episode, told from the statement that opened it.
VulnerabilityRow(S, i) ==
  All("text", {"repo", "recipe_id", "detected_at", "bundle_digest", "status"})
  @@ [ksi_ids |-> "json", commit_sha |-> Commit(i)]
  @@ (IF Resolves(S, i) = {} THEN <<>>
      ELSE [resolved_at |-> "text", resolving_digest |-> "text",
            resolving_commit |-> Commit(FirstOf(Resolves(S, i)))])

ProjectionRows(S) ==
  [coverage |-> {CoverageRow(S, i) : i \in Evidence(S)},
   registers |-> {RegisterRow(S, r) : r \in Recipe},
   drift |-> DriftRows(S),
   vulnerabilities |-> {VulnerabilityRow(S, i) : i \in {j \in Evidence(S) : Opens(S, j)}}]

\* What the columns of the other tables may hold, whatever the ledger: none of
\* a floor the class does not owe, no clock where nothing is evidenced.
OtherColumns ==
  LET rollup == [c \in {"repo", "id", "state"} |-> {"text"}]
                @@ [c \in {"recipe_ids", "counts"} |-> {"json"}]
  IN [controls |-> rollup, ksis |-> rollup,
      gaps |-> [c \in {"repo", "recipe_id", "bundle_digest", "gap_start", "gap_end"} |-> {"text"}]
               @@ [duration_ms |-> {"count"}, ongoing |-> {"true", "false"}],
      method_registers |->
        [c \in {"repo", "ksi"} |-> {"text"}] @@ [c \in {"methods", "artifacts"} |-> {"json"}]
        @@ [c \in {"automated_methods", "stale_methods", "artifacts_present",
                   "point_in_time_methods"} |-> {"zero", "count"}]
        @@ [c \in {"method_floor", "history_floor_months"} |-> {"null", "zero", "count"}]
        @@ [c \in {"floor_met", "history_met"} |-> {"null", "true", "false"}]
        @@ [c \in {"fresh_as_of", "history_since", "history_lapse_at", "gap"} |->
              {"absent", "text"}],
      scan_runs |->
        [c \in {"digest", "run_id", "repo", "commit_sha", "trigger_kind", "started_at",
                "run_timestamp", "dataset_version"} |-> {"text"}]
        @@ [duration_ms |-> {"zero", "count"}, collectors |-> {"json"}],
      meta |-> [dataset_version |-> {"empty", "text"}, projected_at |-> {"text"}]]

-----------------------------------------------------------------------------
(* SQLite: every table dropped, created and filled in one transaction. *)

\* The columns that are NOT NULL, and the others.
NotNull ==
  [coverage |-> {"repo", "recipe_id", "ksi_ids", "control_ids", "verdict", "state"},
   registers |-> {"repo", "recipe_id", "ksi_ids", "control_ids", "state"},
   drift |-> {"at", "repo", "recipe_id", "kind", "bundle_digest"},
   controls |-> {"repo", "id", "state", "recipe_ids", "counts"},
   ksis |-> {"repo", "id", "state", "recipe_ids", "counts"},
   method_registers |-> {"repo", "ksi", "methods", "automated_methods", "stale_methods",
                         "artifacts", "artifacts_present", "point_in_time_methods"},
   gaps |-> {"repo", "recipe_id", "bundle_digest", "gap_start", "gap_end", "duration_ms",
             "ongoing"},
   vulnerabilities |-> {"repo", "recipe_id", "ksi_ids", "detected_at", "commit_sha",
                        "bundle_digest", "status"},
   scan_runs |-> {"digest", "run_id", "repo", "commit_sha", "trigger_kind", "started_at",
                  "run_timestamp", "duration_ms", "dataset_version", "collectors"},
   meta |-> {"dataset_version", "projected_at"}]

Nullable ==
  [coverage |-> {"bundle_digest", "cause", "killing_commit", "fresh_as_of"},
   registers |-> {"cadence", "collector", "plain", "run_id", "bundle_digest", "fresh_as_of",
                  "commit_sha", "pointers", "population", "introduced_at", "introducing_commit",
                  "scoping"},
   drift |-> {"cause", "killing_commit", "from_verdict", "to_verdict"},
   controls |-> {}, ksis |-> {},
   method_registers |-> {"method_floor", "floor_met", "fresh_as_of", "history_since",
                         "history_floor_months", "history_met", "history_lapse_at", "gap"},
   gaps |-> {}, vulnerabilities |-> {"resolved_at", "resolving_digest", "resolving_commit"},
   scan_runs |-> {}, meta |-> {}]

Columns(table) == NotNull[table] \cup Nullable[table]

\* What a row does not state is NULL; a boolean is 0 or 1.
WriteSqlite(v) ==
  CASE v = "absent" -> "null" [] v = "true" -> "count" [] v = "false" -> "zero" [] OTHER -> v

SqliteTakes(table, c, v) == c \in NotNull[table] => WriteSqlite(v) # "null"

\* The columns a reader copies as they are; of the others it states what is
\* truthy, and a population whenever there is one.
Copied(table) ==
  NotNull[table] \cup {"method_floor", "floor_met", "history_floor_months", "history_met"}

Read(table, c, stored) ==
  IF c \in Copied(table) \/ Truthy(stored) \/ (c = "population" /\ stored \notin {"null", "absent"})
  THEN stored ELSE "absent"

Booleans == {"floor_met", "history_met", "ongoing"}

ReadSqlite(table, c, stored) ==
  IF c \notin Booleans THEN Read(table, c, stored)
  ELSE CASE stored = "count" -> "true" [] stored = "zero" -> "false" [] OTHER -> stored

-----------------------------------------------------------------------------
(* PocketBase: every collection truncated and filled, record by record. *)

\* Names of PocketBase's own, and of SQL's, are avoided.
FieldOf(table, c) ==
  IF table \in {"controls", "ksis"} /\ c = "id" THEN "rollup_id"
  ELSE IF table = "vulnerabilities" /\ c = "status" THEN "vuln_status" ELSE c

\* For a column the row does not state the writer sends an empty text, or a
\* null for json.
Sent(c, v) ==
  IF v # "absent" THEN v
  ELSE IF c \in {"plain", "pointers", "population", "scoping"} THEN "null" ELSE "empty"

\* A field that is not in the schema is dropped without a word; a null text
\* becomes the empty one, a null number zero.
Kept(fields, f, v) ==
  CASE f \notin DOMAIN fields -> "absent"
    [] v = "null" /\ fields[f].type = "text" -> "empty"
    [] v = "null" /\ fields[f].type = "number" -> "zero"
    [] v = "null" /\ fields[f].type = "bool" -> "false"
    [] OTHER -> v

PocketBaseTakes(fields, f, v) ==
  f \in DOMAIN fields /\ fields[f].required => Truthy(Kept(fields, f, v))

ReadPocketBase(table, c, kept) == Read(table, c, kept)

-----------------------------------------------------------------------------
(* What a store keeps. *)

\* What a deployment's collections become when the console starts.
Deployed == {EnsureCollections(have) : have \in Histories}

\* A commit the fold itself leaves empty is stated by neither store.
Expected(c, v) ==
  IF c \in {"killing_commit", "resolving_commit"} /\ v = "empty" THEN "absent" ELSE v

StoresKeep(table, c, v) ==
  /\ SqliteTakes(table, c, v)
  /\ ReadSqlite(table, c, WriteSqlite(v)) = Expected(c, v)
  /\ \A db \in Deployed :
       LET f == FieldOf(table, c) IN
       /\ PocketBaseTakes(db[table], f, Sent(c, v))
       /\ ReadPocketBase(table, c, Kept(db[table], f, Sent(c, v))) = Expected(c, v)

\* What each column may hold and be read back the same.
Faithful ==
  [table \in DOMAIN NotNull |->
     [c \in Columns(table) |-> {v \in Kinds : StoresKeep(table, c, v)}]]

\* No collection of a deployment lacks a field this build writes, or wants one
\* this build may leave empty.
CollectionsFit ==
  \A db \in Deployed, name \in DOMAIN Collections :
    \A f \in DOMAIN Collections[name] \cup DOMAIN db[name] :
      /\ f \in DOMAIN Collections[name] => f \in DOMAIN db[name]
      /\ db[name][f].required => f \in DOMAIN Collections[name] /\ Collections[name][f].required

\* What holds whatever the ledger.
KeptAlways ==
  /\ CollectionsFit
  /\ \A table \in DOMAIN OtherColumns :
       \A c \in Columns(table) : OtherColumns[table][c] \subseteq Faithful[table][c]
=============================================================================
