-------------------------------- MODULE Tables --------------------------------
(***************************************************************************)
(* The tables the projection is kept in: SQLite's, created anew on every   *)
(* write, and PocketBase's collections, which a deployment has from the    *)
(* migrations it ran and the console brings up to its own specification.   *)
(* A schema maps a field to its type and whether it is required; a         *)
(* database maps a collection to its schema.  Every collection's own id is *)
(* left out.                                                               *)
(***************************************************************************)
EXTENDS Integers, Sequences, FiniteSets, TLC

Typed(type, names) == [f \in names |-> [type |-> type, required |-> FALSE]]
Required(type, names) == [f \in names |-> [type |-> type, required |-> TRUE]]

Stamps == Typed("autodate", {"created", "updated"})

-----------------------------------------------------------------------------
(* packages/projector/src/pocketbase.ts: what this build wants. *)

RegisterFields ==
  Required("text", {"repo", "recipe_id", "state"})
  @@ Typed("text", {"cadence", "collector", "run_id", "bundle_digest", "fresh_as_of",
                    "commit_sha", "introduced_at", "introducing_commit"})
  @@ Typed("json", {"ksi_ids", "control_ids", "plain", "pointers", "population", "scoping"})

CoverageFields ==
  Required("text", {"repo", "recipe_id", "verdict", "state"})
  @@ Typed("text", {"bundle_digest", "cause", "killing_commit", "fresh_as_of"})
  @@ Typed("json", {"ksi_ids", "control_ids"})

DriftFields ==
  Required("text", {"at", "repo", "recipe_id", "kind", "bundle_digest"})
  @@ Typed("text", {"cause", "killing_commit", "from_verdict", "to_verdict"})

RollupFields ==
  Required("text", {"repo", "rollup_id", "state"}) @@ Typed("json", {"recipe_ids", "counts"})

\* A floor is json: a number field would read none as zero.
MethodFields ==
  Required("text", {"repo", "ksi"})
  @@ Typed("text", {"fresh_as_of", "history_since", "history_lapse_at", "gap"})
  @@ Typed("json", {"methods", "artifacts", "method_floor", "floor_met",
                    "history_floor_months", "history_met"})
  @@ Typed("number", {"automated_methods", "stale_methods", "artifacts_present",
                      "point_in_time_methods"})

GapFields ==
  Required("text", {"repo", "recipe_id", "bundle_digest", "gap_start", "gap_end"})
  @@ Typed("number", {"duration_ms"}) @@ Typed("bool", {"ongoing"})

\* An episode of an ingested result has no commit.
VulnerabilityFields ==
  Required("text", {"repo", "recipe_id", "detected_at", "bundle_digest", "vuln_status"})
  @@ Typed("text", {"commit_sha", "resolved_at", "resolving_digest", "resolving_commit"})
  @@ Typed("json", {"ksi_ids"})

ScanRunFields ==
  Required("text", {"digest", "run_id", "repo", "commit_sha", "trigger_kind", "started_at",
                    "run_timestamp"})
  @@ Typed("number", {"duration_ms"}) @@ Typed("text", {"dataset_version"})
  @@ Typed("json", {"collectors"})

BundleFields ==
  Required("text", {"digest"}) @@ Typed("json", {"statement", "envelope"})
  @@ Typed("text", {"appended_at"})

MetaFields ==
  Required("text", {"projected_at"}) @@ Typed("text", {"dataset_version"})
  @@ Typed("json", {"settings"})

PROJECTION_COLLECTIONS ==
  [registers |-> RegisterFields, coverage |-> CoverageFields, drift |-> DriftFields,
   controls |-> RollupFields, ksis |-> RollupFields, method_registers |-> MethodFields,
   gaps |-> GapFields, vulnerabilities |-> VulnerabilityFields, scan_runs |-> ScanRunFields,
   bundles |-> BundleFields, meta |-> MetaFields]

KSI_CATALOG_COLLECTION ==
  Required("text", {"ksi", "theme_key", "theme_name", "name"})
  @@ Typed("json", {"statement", "controls", "artifacts", "optional_at"})

\* What any of the three queues keeps of a proposal.
Queue(type) ==
  Required("text", {"repo", "proposed_by"}) @@ Required("select", {"status"})
  @@ Typed("text", {"decided_by"}) @@ Stamps @@ type

PROPOSALS_COLLECTION ==
  Queue(Required("text", {"recipe_id", "justification"}) @@ Typed("text", {"scoping_digest"}))

JUDGMENT_PROPOSALS_COLLECTION ==
  Queue(Required("text", {"ksi_id", "justification"}) @@ Required("number", {"artifact"})
        @@ Required("select", {"action"}) @@ Typed("text", {"ledger_digest"}))

ATTESTATION_PROPOSALS_COLLECTION ==
  Queue(Required("text", {"statement_id", "ksi_id", "attestor_role", "statement"})
        @@ Required("select", {"action"}) @@ Typed("text", {"ledger_digest"}))

\* The daemon's mirrored events, and its mirrored heartbeat.
DAEMON_EVENTS_COLLECTION ==
  Required("text", {"at", "kind"}) @@ Typed("text", {"repo"}) @@ Typed("json", {"payload"})

DAEMON_STATUS_COLLECTION == DAEMON_EVENTS_COLLECTION

Collections ==
  PROJECTION_COLLECTIONS
  @@ [ksi_catalog |-> KSI_CATALOG_COLLECTION, proposals |-> PROPOSALS_COLLECTION,
      judgment_proposals |-> JUDGMENT_PROPOSALS_COLLECTION,
      attestation_proposals |-> ATTESTATION_PROPOSALS_COLLECTION,
      daemon_events |-> DAEMON_EVENTS_COLLECTION, daemon_status |-> DAEMON_STATUS_COLLECTION]

-----------------------------------------------------------------------------
(* console/pocketbase/pb_migrations: what a deployment has, by how far it  *)
(* got.                                                                    *)

M1786601717_created_proposals ==
  "proposals" :> (Required("text", {"repo", "recipe_id", "justification", "proposed_by"})
                  @@ Required("select", {"status"})
                  @@ Typed("text", {"decided_by", "scoping_digest"}) @@ Stamps)

M1786601717_updated_users == "users" :> Typed("select", {"role"})

M1786601718_created_bundles ==
  "bundles" :> (Required("text", {"digest"}) @@ Typed("json", {"statement", "envelope"})
                @@ Typed("text", {"appended_at"}))

M1786601718_created_coverage ==
  "coverage" :> (Required("text", {"repo", "recipe_id", "verdict", "state"})
                 @@ Typed("json", {"ksi_ids", "control_ids"})
                 @@ Typed("text", {"bundle_digest", "cause", "killing_commit", "fresh_as_of"}))

M1786601718_created_drift ==
  "drift" :> (Required("text", {"at", "repo", "recipe_id", "kind", "bundle_digest"})
              @@ Typed("text", {"cause", "killing_commit", "from_verdict", "to_verdict"}))

M1786601718_created_meta ==
  "meta" :> (Required("text", {"projected_at"}) @@ Typed("text", {"dataset_version"})
             @@ Typed("json", {"settings"}))

M1786601718_created_registers ==
  "registers" :> (Required("text", {"repo", "recipe_id", "state"})
                  @@ Typed("json", {"ksi_ids", "control_ids", "scoping"})
                  @@ Typed("text", {"cadence", "bundle_digest", "fresh_as_of", "commit_sha"}))

RolledUp == Required("text", {"repo", "rollup_id", "state"}) @@ Typed("json", {"recipe_ids", "counts"})

M1786653377_created_controls == "controls" :> RolledUp

M1786653377_created_gaps ==
  "gaps" :> (Required("text", {"repo", "recipe_id", "bundle_digest", "gap_start", "gap_end"})
             @@ Typed("number", {"duration_ms"}) @@ Typed("bool", {"ongoing"}))

M1786653377_created_ksis == "ksis" :> RolledUp

Mirrored == Required("text", {"at", "kind"}) @@ Typed("text", {"repo"}) @@ Typed("json", {"payload"})

M1786653380_created_daemon_events == "daemon_events" :> Mirrored

M1786685119_created_daemon_status == "daemon_status" :> Mirrored

M1786688530_updated_registers ==
  "registers" :> (Typed("json", {"pointers"}) @@ Typed("text", {"introduced_at", "introducing_commit"}))

M1786783636_created_scan_runs ==
  "scan_runs" :> (Required("text", {"digest", "run_id", "repo", "commit_sha", "trigger_kind",
                                    "started_at", "run_timestamp"})
                  @@ Typed("number", {"duration_ms"}) @@ Typed("text", {"dataset_version"})
                  @@ Typed("json", {"collectors"}))

M1786979975_updated_registers ==
  "registers" :> (Typed("text", {"collector", "run_id"}) @@ Typed("json", {"plain", "population"}))

M1789233079_created_attestation_proposals ==
  "attestation_proposals" :>
    (Required("text", {"repo", "statement_id", "ksi_id", "attestor_role", "statement", "proposed_by"})
     @@ Required("select", {"action", "status"})
     @@ Typed("text", {"decided_by", "ledger_digest"}) @@ Stamps)

M1789233079_created_judgment_proposals ==
  "judgment_proposals" :>
    (Required("text", {"repo", "ksi_id", "justification", "proposed_by"})
     @@ Required("number", {"artifact"}) @@ Required("select", {"action", "status"})
     @@ Typed("text", {"decided_by", "ledger_digest"}) @@ Stamps)

M1789233081_created_method_registers ==
  "method_registers" :>
    (Required("text", {"repo", "ksi"})
     @@ Typed("json", {"methods", "method_floor", "floor_met", "history_floor_months",
                       "history_met", "artifacts"})
     @@ Typed("number", {"automated_methods", "stale_methods", "artifacts_present",
                         "point_in_time_methods"})
     @@ Typed("text", {"fresh_as_of", "history_since", "gap"}))

M1789233081_created_vulnerabilities ==
  "vulnerabilities" :>
    (Required("text", {"repo", "recipe_id", "detected_at", "bundle_digest", "vuln_status"})
     @@ Typed("text", {"commit_sha", "resolved_at", "resolving_digest", "resolving_commit"})
     @@ Typed("json", {"ksi_ids"}))

M1789233091_created_ksi_catalog ==
  "ksi_catalog" :> (Required("text", {"ksi", "theme_key", "theme_name", "name"})
                    @@ Typed("json", {"statement", "controls", "artifacts"}))

M1789538161_updated_method_registers == "method_registers" :> Typed("text", {"history_lapse_at"})

M1789538165_updated_ksi_catalog == "ksi_catalog" :> Typed("json", {"optional_at"})

\* In the order their names sort.
Migrations ==
  <<M1786601717_created_proposals, M1786601717_updated_users, M1786601718_created_bundles,
    M1786601718_created_coverage, M1786601718_created_drift, M1786601718_created_meta,
    M1786601718_created_registers, M1786653377_created_controls, M1786653377_created_gaps,
    M1786653377_created_ksis, M1786653380_created_daemon_events,
    M1786685119_created_daemon_status, M1786688530_updated_registers,
    M1786783636_created_scan_runs, M1786979975_updated_registers,
    M1789233079_created_attestation_proposals, M1789233079_created_judgment_proposals,
    M1789233081_created_method_registers, M1789233081_created_vulnerabilities,
    M1789233091_created_ksi_catalog, M1789538161_updated_method_registers,
    M1789538165_updated_ksi_catalog>>

\* A migration creates its collection or adds fields to it.
Migrate(db, migration) ==
  [c \in DOMAIN db \cup DOMAIN migration |->
     IF c \notin DOMAIN migration THEN db[c]
     ELSE IF c \notin DOMAIN db THEN migration[c] ELSE db[c] @@ migration[c]]

SchemaAfter[k \in 0..Len(Migrations)] ==
  IF k = 0 THEN <<>> ELSE Migrate(SchemaAfter[k - 1], Migrations[k])

\* A release before the last ones wanted the commit of every episode.
Strict(db) == [db EXCEPT !["vulnerabilities"]["commit_sha"].required = TRUE]

Histories ==
  {SchemaAfter[k] : k \in DOMAIN SchemaAfter} \cup {Strict(SchemaAfter[Len(Migrations)])}

-----------------------------------------------------------------------------
(* ensureCollection. *)

EnsureIfAbsent(have, name) ==
  IF name \in DOMAIN have THEN have[name] ELSE Collections[name]

\* A collection that is missing is created; one that is there gains the fields
\* it lacks and no longer requires what became optional.  Nothing is removed,
\* retyped or made required.
EnsureCollection(have, name) ==
  LET want == Collections[name] IN
  IF name \notin DOMAIN have THEN want
  ELSE [f \in DOMAIN have[name] |->
          [have[name][f] EXCEPT !.required = @ /\ (f \in DOMAIN want => want[f].required)]]
       @@ want

EnsureCollections(have) == [name \in DOMAIN Collections |-> EnsureCollection(have, name)]
=============================================================================
