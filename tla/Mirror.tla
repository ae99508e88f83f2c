-------------------------------- MODULE Mirror --------------------------------
(* How serve shows what the daemon says (packages/cli/src/events.ts): a tail *)
(* of daemon-events.jsonl, which the daemon appends to, and the snapshot in  *)
(* daemon-status.json, which it overwrites; both mirrored into PocketBase,   *)
(* each by a watcher and a chain of promises of its own.                     *)
(*                                                                           *)
(* A line is one unit long, and what follows the last newline is less.  A    *)
(* line is known by its number; it does not parse when it was written onto   *)
(* the remains of another.                                                   *)
EXTENDS Integers, Sequences, SequencesExt

CONSTANTS TailLimit,     \* how many of the newest lines a backfill mirrors
          MaxWrites,     \* bound on events and heartbeats
          MaxRemovals,   \* bound on what an operator rotates or removes
          MaxRefusals,   \* bound on what PocketBase refuses
          Nothing, Torn

ASSUME MirrorAssumption == TailLimit \in Nat

VARIABLES
  file,          \* the complete lines of the events file,
  remains,       \*   and whether text follows them
  beat,          \* the status file: a heartbeat, Torn, or Nothing
  writing,       \* what the daemon is in the middle of
  server,        \* "down", "events" and "status" as it starts, "up"
  offset,        \* how much of the file the tail has read
  rows,          \* the mirrored events
  job, lines,    \* what the tail's chain is doing, and the lines it has left
  heard,         \* the watcher has scheduled the tail
  beatRow, beatJob, beatRead, beatHeard,  \* the same for the snapshot
  replaced,      \* history: the file was rotated under the offset
  lost,          \* history: why rows may be missing, or of another file
  written, removals, refusals

fileVars == <<file, remains, beat, writing, written>>
tailVars == <<offset, rows, job, lines>>
beatVars == <<beatRow, beatJob, beatRead>>
bounds == <<removals, refusals>>
mirrorVars == <<fileVars, server, tailVars, heard, beatVars, beatHeard, replaced, lost, bounds>>

MirrorInit ==
  /\ file = <<>> /\ remains = FALSE /\ beat = Nothing /\ writing = "no" /\ written = 0
  /\ server = "down"
  /\ offset = 0 /\ rows = <<>> /\ job = "idle" /\ lines = <<>> /\ heard = FALSE
  /\ beatRow = Nothing /\ beatJob = "idle" /\ beatRead = Nothing /\ beatHeard = FALSE
  /\ replaced = FALSE /\ lost = {} /\ removals = 0 /\ refusals = 0

-----------------------------------------------------------------------------
(* The files.  A change is heard once its watcher is up; one after the file  *)
(* was read for the start and before the watcher is heard by nobody.         *)

EventsChange ==
  /\ heard' = (heard \/ server \in {"status", "up"})
  /\ lost' = IF server = "events" /\ job = "fill" THEN lost \cup {"gap"} ELSE lost
  /\ UNCHANGED <<server, tailVars, beatVars, beatHeard, refusals>>

BeatChanges ==
  /\ beatHeard' = (beatHeard \/ server = "up")
  /\ lost' = IF server = "status" /\ beatJob = "replace" THEN lost \cup {"beat"} ELSE lost
  /\ UNCHANGED <<server, tailVars, heard, beatVars, refusals>>

\* the daemon writes one thing after another
BeginEvent ==
  /\ writing = "no" /\ written < MaxWrites /\ written' = written + 1
  /\ writing' = (IF remains THEN "onto" ELSE "event") /\ remains' = TRUE
  /\ EventsChange /\ UNCHANGED <<file, beat, replaced, removals>>

EndEvent ==
  /\ writing \in {"event", "onto"} /\ writing' = "no" /\ remains' = FALSE
  /\ file' = Append(file, [id |-> written, parses |-> writing = "event"])
  /\ EventsChange /\ UNCHANGED <<beat, written, replaced, removals>>

BeginBeat ==
  /\ writing = "no" /\ written < MaxWrites /\ written' = written + 1
  /\ writing' = "beat" /\ beat' = Torn
  /\ BeatChanges /\ UNCHANGED <<file, remains, replaced, removals>>

EndBeat ==
  /\ writing = "beat" /\ writing' = "no" /\ beat' = written
  /\ BeatChanges /\ UNCHANGED <<file, remains, written, replaced, removals>>

DaemonDies ==
  /\ writing # "no" /\ writing' = "no"
  /\ UNCHANGED <<file, remains, beat, written, server, tailVars, heard, beatVars, beatHeard, replaced, lost, bounds>>

Rotate ==
  /\ removals < MaxRemovals /\ removals' = removals + 1
  /\ writing = "no" /\ file # <<>> /\ file' = <<>> /\ remains' = FALSE
  /\ replaced' = (offset > 0)
  /\ EventsChange /\ UNCHANGED <<beat, writing, written>>

RemoveStatus ==
  /\ removals < MaxRemovals /\ removals' = removals + 1
  /\ writing = "no" /\ beat # Nothing /\ beat' = Nothing
  /\ BeatChanges /\ UNCHANGED <<file, remains, writing, written, replaced>>

-----------------------------------------------------------------------------
(* The tail: backfill(), ingestNew() and the chain                           *)

StartServer ==
  /\ server = "down" /\ server' = "events" /\ job' = "wipe" /\ offset' = 0 /\ lost' = {}
  /\ UNCHANGED <<fileVars, rows, lines, heard, beatVars, beatHeard, replaced, bounds>>

Stopped == server' = "down" /\ job' = "idle" /\ lines' = <<>> /\ heard' = FALSE /\ beatJob' = "idle" /\ beatHeard' = FALSE

StopServer ==
  /\ server # "down" /\ Stopped
  /\ UNCHANGED <<fileVars, offset, rows, beatRow, beatRead, replaced, lost, bounds>>

WithRemains == Len(file) + (IF remains THEN 1 ELSE 0)
\* only ever advanced past complete lines
Complete == Len(file)

Newest(s) == IF Len(s) <= TailLimit THEN s ELSE SubSeq(s, Len(s) - TailLimit + 1, Len(s))

\* several changes may have scheduled it several times
IngestNew ==
  /\ server \in {"status", "up"} /\ job = "idle" /\ heard /\ heard' \in BOOLEAN
  /\ IF Len(file) < offset
     THEN job' = "wipe" /\ UNCHANGED <<offset, lines, lost>>
     ELSE /\ lines' = SubSeq(file, offset + 1, Len(file))
          /\ offset' = Complete /\ job' = "fill"
          /\ lost' = (lost \ {"gap"}) \cup (IF replaced THEN {"regrown"} ELSE {})
  /\ UNCHANGED <<fileVars, server, rows, beatVars, beatHeard, replaced, bounds>>

Wipe ==
  /\ job = "wipe" /\ job' = "read" /\ rows' = <<>> /\ offset' = 0
  /\ UNCHANGED <<fileVars, server, lines, heard, beatVars, beatHeard, replaced, lost, bounds>>

Backfill ==
  /\ job = "read" /\ job' = "fill" /\ offset' = Complete /\ lines' = Newest(file)
  /\ replaced' = FALSE /\ lost' = lost \cap {"beat"}
  /\ UNCHANGED <<fileVars, server, rows, heard, beatVars, beatHeard, bounds>>

\* a line that does not parse is skipped
Insert ==
  /\ job = "fill"
  /\ IF lines # <<>>
     THEN /\ rows' = IF Head(lines).parses THEN Append(rows, Head(lines).id) ELSE rows
          /\ lines' = Tail(lines) /\ UNCHANGED <<server, job, beatJob>>
     ELSE /\ job' = "idle" /\ UNCHANGED <<rows, lines>>
          /\ IF server = "events" THEN server' = "status" /\ beatJob' = "read" ELSE UNCHANGED <<server, beatJob>>
  /\ UNCHANGED <<fileVars, offset, heard, beatRow, beatRead, beatHeard, replaced, lost, bounds>>

\* a start that fails is the server's end; later the chain logs it and goes on
\* without the lines it had left
Refused(why, starting) ==
  /\ refusals < MaxRefusals /\ refusals' = refusals + 1
  /\ IF server = starting THEN Stopped /\ UNCHANGED lost
     ELSE /\ lost' = lost \cup {why} /\ UNCHANGED <<server, heard, beatHeard>>
          /\ IF why = "refused" THEN job' = "idle" /\ lines' = <<>> /\ UNCHANGED beatJob
             ELSE beatJob' = "idle" /\ UNCHANGED <<job, lines>>
  /\ UNCHANGED <<fileVars, offset, rows, beatRead, replaced, removals>>

RefuseEvents ==
  /\ job = "wipe" \/ (job = "fill" /\ lines # <<>> /\ Head(lines).parses)
  /\ Refused("refused", "events") /\ UNCHANGED beatRow

-----------------------------------------------------------------------------
(* The snapshot: refresh() and its chain                                     *)

Started == server' = IF server = "status" THEN "up" ELSE server

\* a half-written file keeps the row
Refresh ==
  /\ \/ beatJob = "read" /\ UNCHANGED beatHeard
     \/ server = "up" /\ beatJob = "idle" /\ beatHeard /\ beatHeard' \in BOOLEAN
  /\ beatRead' = beat /\ lost' = lost \ {"beat"}
  /\ IF beat = Torn THEN beatJob' = "idle" /\ Started ELSE beatJob' = "replace" /\ UNCHANGED server
  /\ UNCHANGED <<fileVars, tailVars, heard, beatRow, replaced, bounds>>

Replace ==
  /\ beatJob = "replace" /\ beatJob' = "idle" /\ beatRow' = beatRead /\ Started
  /\ UNCHANGED <<fileVars, tailVars, heard, beatRead, beatHeard, replaced, lost, bounds>>

\* the row may be gone already
RefuseBeat ==
  /\ beatJob = "replace" /\ beatRow' \in {beatRow, Nothing}
  /\ Refused("beat", "status")

MirrorNext ==
  \/ BeginEvent \/ EndEvent \/ BeginBeat \/ EndBeat \/ DaemonDies \/ Rotate \/ RemoveStatus
  \/ StartServer \/ StopServer \/ IngestNew \/ Wipe \/ Backfill \/ Insert \/ RefuseEvents
  \/ Refresh \/ Replace \/ RefuseBeat

MirrorSpec == MirrorInit /\ [][MirrorNext]_mirrorVars

-----------------------------------------------------------------------------
\* what the file says from its line `from` on; the numbers of its lines ascend
Told(from) == {file[i].id : i \in {l \in from .. Len(file) : file[l].parses}}

(* When nothing is scheduled or under way, the mirror is the file: the       *)
(* events are its newest readable lines, TailLimit of them or every one      *)
(* since the backfill, each once and in order, none of them of a file that   *)
(* was rotated away, and the heartbeat is the one on disk (events.ts).  Left *)
(* out: a change between the start's read and its watcher, until the next;   *)
(* rows PocketBase refused; and a rotated file that has regrown past the     *)
(* offset before the tail looks.                                             *)
MirrorIsTheFile ==
  /\ server = "up" /\ job = "idle" /\ ~heard /\ lost \subseteq {"beat"} =>
       /\ \A i, j \in DOMAIN rows : i < j => rows[i] < rows[j]
       /\ \E from \in 1 .. Len(file) + 1 :
            (from = 1 \/ from <= Len(file) - TailLimit + 1) /\ ToSet(rows) = Told(from)
  /\ server = "up" /\ beatJob = "idle" /\ ~beatHeard /\ "beat" \notin lost =>
       beat = Torn \/ beatRow = beat
=============================================================================
