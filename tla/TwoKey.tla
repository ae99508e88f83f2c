------------------------------- MODULE TwoKey -------------------------------
(***************************************************************************)
(* The two-key write (console/web/app/api/{scoping,judgments,attestations} *)
(* /decide/route.ts over packages/cli/src/{scoping,artifact-judgment,      *)
(* attestation}.ts).  A proposal is drafted in the console's database; an  *)
(* approver's key turn appends a signed event to the ledger and then       *)
(* patches the proposal.  Two stores are written with no transaction, by   *)
(* route handlers that interleave and may fail between any two steps.      *)
(*                                                                         *)
(* The three routes are one algorithm; a judgment also reads, from the     *)
(* ledger, the artifact body it names, which scans of the repository       *)
(* append meanwhile (packages/cli/src/scan.ts).  The judgments here are    *)
(* all about one slot (repo, KSI, artifact).                               *)
(***************************************************************************)
EXTENDS Integers, Sequences, FiniteSets, SequencesExt, FiniteSetsExt

CONSTANTS
  Proposal,     \* proposals that may be drafted
  Judgment,     \* those that judge the artifact slot
  Approver,     \* users whose role is approver
  Call,         \* decide requests the console may be serving at once
  Scan,         \* scans of the repository, each made once
  Body,         \* what the slot's file may say
  NoBody,       \* the slot holds nothing
  MaxTime,      \* bound: the last tick of the clock
  MaxCalls      \* bound: how often an approver turns the key

ASSUME TwoKeyAssumption ==
  /\ Judgment \subseteq Proposal
  /\ NoBody \notin Body
  /\ {MaxTime, MaxCalls} \subseteq Nat

VARIABLES
  ledger,       \* events and bodies, in append order
  clock,
  row,          \* per proposal: its record in the console's database
  call,         \* per request: the step it is at and what it has read
  scan,         \* per scan: the step it is at and what it has read
  raced,        \* history: proposals found pending by two requests at once
  cut,          \* history: proposals whose request ended between event and patch
  overtaken,    \* history: judgments read before, recorded after, a new body
  turns

vars == <<ledger, clock, row, call, scan, raced, cut, overtaken, turns>>

-----------------------------------------------------------------------------
(* The ledger is content-addressed: the digest of an event is the event. *)

Record(e) == ledger' = IF Contains(ledger, e) THEN ledger ELSE Append(ledger, e)

Events == {e \in ToSet(ledger) : e.kind = "event"}
EventsOf(p) == {e \in Events : e.proposal = p}
BodiesIn(log) == {i \in DOMAIN log : log[i].kind = "body"}

\* A decision and a scan both take the slot's last body in append order.
FirstBody(log) == IF BodiesIn(log) = {} THEN NoBody ELSE log[Min(BodiesIn(log))].body
LastBody(log) == IF BodiesIn(log) = {} THEN NoBody ELSE log[Max(BodiesIn(log))].body

\* The fold takes the last in the order of timestamps, and of appending
\* among equal ones.
NewestBodies(log) == {i \in BodiesIn(log) : \A j \in BodiesIn(log) : log[j].at <= log[i].at}
LiveBody(log) == IF BodiesIn(log) = {} THEN NoBody ELSE log[Max(NewestBodies(log))].body

\* Bodies carry the time their scan started; overlapping scans may append
\* them in another order.
InTimeOrder(log) == \A i, j \in BodiesIn(log) : i < j => log[i].at <= log[j].at

-----------------------------------------------------------------------------
NoDigest == [kind |-> "none"]
Nobody == ""   \* no approver has decided yet
Undrafted == [status |-> "none"]
Idle == [step |-> "idle"]
Off == [step |-> "off"]

Init ==
  /\ ledger = <<>> /\ clock = 0
  /\ row = [p \in Proposal |-> Undrafted]
  /\ call = [c \in Call |-> Idle]
  /\ scan = [s \in Scan |-> Off]
  /\ raced = {} /\ cut = {} /\ overtaken = {} /\ turns = 0

\* Any signed-in user drafts; the collection's rules accept only "pending".
Draft(p) ==
  /\ row[p] = Undrafted
  /\ row' = [row EXCEPT ![p] = [status |-> "pending", by |-> Nobody, digest |-> NoDigest]]
  /\ UNCHANGED <<ledger, clock, call, scan, raced, cut, overtaken, turns>>

\* The requests deciding proposal p.
Deciding(p) == {c \in Call : call[c].step # "idle" /\ call[c].proposal = p}

ApproveAgain(c, p, by, action) ==
  /\ call[c] = Idle /\ turns < MaxCalls
  /\ row[p].status \in (IF action = "approve" THEN {"pending", "approved"} ELSE {"pending"})
  /\ call' = [call EXCEPT ![c] =
       [step |-> "read", proposal |-> p, by |-> by, action |-> action, body |-> NoBody]]
  /\ raced' = IF Deciding(p) # {} THEN raced \cup {p} ELSE raced
  /\ turns' = turns + 1
  /\ UNCHANGED <<ledger, clock, row, scan, cut, overtaken>>

\* POST: the role and the proposal's status are checked, once.
Decide(c, p, by, action) ==
  /\ call[c] = Idle /\ turns < MaxCalls
  /\ row[p].status = "pending"
  /\ call' = [call EXCEPT ![c] =
       [step |-> "read", proposal |-> p, by |-> by, action |-> action, body |-> NoBody]]
  /\ raced' = IF Deciding(p) # {} THEN raced \cup {p} ELSE raced
  /\ turns' = turns + 1
  /\ UNCHANGED <<ledger, clock, row, scan, cut, overtaken>>

\* The PATCH of a rejection; a digest that is there stays.
Reject(c) ==
  /\ call[c].step = "read" /\ call[c].action = "reject"
  /\ row' = [row EXCEPT ![call[c].proposal].status = "rejected", ![call[c].proposal].by = call[c].by]
  /\ call' = [call EXCEPT ![c] = Idle]
  /\ UNCHANGED <<ledger, clock, scan, raced, cut, overtaken, turns>>

\* recordArtifactJudgment lists the ledger; an empty slot throws (see Fail).
ReadBody(c) ==
  /\ call[c].step = "read" /\ call[c].action = "approve" /\ call[c].proposal \in Judgment
  /\ LastBody(ledger) # NoBody
  /\ call' = [call EXCEPT ![c].step = "body", ![c].body = LastBody(ledger)]
  /\ UNCHANGED <<ledger, clock, row, scan, raced, cut, overtaken, turns>>

\* Ready to sign: a scope-out or an attestation once it was found pending, its
\* checks throw before anything is written (see Fail); a judgment once it has
\* read the body it names.
Recording(c) ==
  \/ call[c].step = "body"
  \/ call[c].step = "read" /\ call[c].action = "approve" /\ call[c].proposal \notin Judgment

Event(c) ==
  [kind |-> "event", proposal |-> call[c].proposal, by |-> call[c].by,
   body |-> call[c].body, at |-> clock]

\* recordScoping, recordAttestation, recordArtifactJudgment: sign and append.
RecordEvent(c) ==
  /\ Recording(c)
  /\ Record(Event(c))
  /\ call' = [call EXCEPT ![c] = [step |-> "recorded", proposal |-> call[c].proposal,
                                  by |-> call[c].by, digest |-> Event(c)]]
  /\ UNCHANGED <<clock, row, scan, raced, cut, overtaken, turns>>

StampStatusOnly(p, by, digest) == row' = [row EXCEPT ![p].status = "approved", ![p].digest = digest]

\* The PATCH of an approval: status, identity and digest, whatever the row
\* says by now.
Stamp(p, by, digest) == row' = [row EXCEPT ![p] = [status |-> "approved", by |-> by, digest |-> digest]]

Approve(c) ==
  /\ call[c].step = "recorded"
  /\ Stamp(call[c].proposal, call[c].by, call[c].digest)
  /\ call' = [call EXCEPT ![c] = Idle]
  /\ UNCHANGED <<ledger, clock, scan, raced, cut, overtaken, turns>>

\* A step throws (caught, reply 500) or the console stops: nothing is undone.
Fail(c) ==
  /\ call[c] # Idle
  /\ call' = [call EXCEPT ![c] = Idle]
  /\ cut' = IF call[c].step = "recorded" THEN cut \cup {call[c].proposal} ELSE cut
  /\ UNCHANGED <<ledger, clock, row, scan, raced, overtaken, turns>>

-----------------------------------------------------------------------------
(* Scans of the repository that declares the slot's file. *)

\* A scan reads the clock and the checkout when it starts.
StartScan(s, b) ==
  /\ scan[s] = Off
  /\ scan' = [scan EXCEPT ![s] = [step |-> "started", at |-> clock, body |-> b]]
  /\ UNCHANGED <<ledger, clock, row, call, raced, cut, overtaken, turns>>

\* It lists the ledger once for the bodies that stand.
ListBodies(s) ==
  /\ scan[s].step = "started"
  /\ scan' = [scan EXCEPT ![s] = [step |-> "listed", at |-> scan[s].at,
                                  body |-> scan[s].body, prior |-> LastBody(ledger)]]
  /\ UNCHANGED <<ledger, clock, row, call, raced, cut, overtaken, turns>>

\* An unchanged body is not appended again.
RecordBody(s) ==
  /\ scan[s].step = "listed"
  /\ IF scan[s].body = scan[s].prior
     THEN UNCHANGED <<ledger, overtaken>>
     ELSE /\ Record([kind |-> "body", body |-> scan[s].body, at |-> scan[s].at])
          /\ overtaken' = overtaken \cup
               {call[c].proposal : c \in {d \in Call : call[d].step = "body"}}
  /\ scan' = [scan EXCEPT ![s] = [step |-> "done"]]
  /\ UNCHANGED <<clock, row, call, raced, cut, turns>>

Tick ==
  /\ clock < MaxTime
  /\ clock' = clock + 1
  /\ UNCHANGED <<ledger, row, call, scan, raced, cut, overtaken, turns>>

Next ==
  \/ \E p \in Proposal : Draft(p)
  \/ \E c \in Call, p \in Proposal, by \in Approver, action \in {"approve", "reject"} : Decide(c, p, by, action)
  \/ \E c \in Call : Reject(c) \/ ReadBody(c) \/ RecordEvent(c) \/ Approve(c) \/ Fail(c)
  \/ \E s \in Scan, b \in Body : StartScan(s, b)
  \/ \E s \in Scan : ListBodies(s) \/ RecordBody(s)
  \/ Tick

Spec == Init /\ [][Next]_vars

-----------------------------------------------------------------------------
(* The scoping register (packages/cli/src/scoping-register.ts). *)

ScopeOut == Proposal \ Judgment

MatchedByContent(e) == {p \in Proposal : row[p] # Undrafted /\ e.proposal = p}

\* The proposal an event's row is matched with, by digest.
Matched(e) == {p \in Proposal : row[p] # Undrafted /\ row[p].digest = e}

\* An approved proposal whose event is in the ledger is on the register by
\* that event.
OnRecord(p) == row[p].status = "approved" /\ row[p].digest \in Events

\* The rows that carry no problem: events that match a proposal, and
\* proposals without an event that do not claim one.
CleanEvents(p) == {e \in EventsOf(p) : Matched(e) # {}}
CleanProposal(p) == row[p].status \in {"pending", "rejected"}
CleanRows(p) ==
  {<<"approved", e>> : e \in CleanEvents(p)} \cup
  (IF ~OnRecord(p) /\ CleanProposal(p) THEN {<<"workflow", p>>} ELSE {})

-----------------------------------------------------------------------------
(* Properties *)

Status == {"pending", "approved", "rejected"}

\* A key turned once signs once: a proposal has one event, unless two
\* requests found it pending together or one ended before its patch and the
\* key was turned again.
OneEventPerProposal ==
  \A p \in Proposal : p \notin raced \cup cut => Cardinality(EventsOf(p)) <= 1

\* PocketBase holds no fact the ledger does not, nor the ledger one that
\* PocketBase denies.  An approved proposal names an event that is in the
\* ledger, that is about it, and that the identity the row gives signed,
\* requests that overwrite each other's row included.  And an event's
\* proposal is approved, so no rejected or pending proposal has a decision
\* standing in the ledger: unless a request is between its event and its
\* patch, or ended there, or two requests found the proposal pending.
LedgerMeansApproved ==
  /\ \A p \in Proposal : row[p].status = "approved" =>
       row[p].digest \in EventsOf(p) /\ row[p].digest.by = row[p].by
  /\ \A e \in Events :
       \/ row[e.proposal].status = "approved"
       \/ \E c \in Deciding(e.proposal) : call[c].step = "recorded"
       \/ e.proposal \in raced \cup cut

\* The scoping register says one thing of a proposal: exactly one of its
\* rows is without a problem, whatever failed or is under way; only requests
\* that raced can leave it an approval and a rejection side by side.
RegisterSaysOneThing ==
  \A p \in ScopeOut : row[p] # Undrafted /\ p \notin raced => Cardinality(CleanRows(p)) = 1

\* A judgment names the body the fold counted as live when it was recorded,
\* so it applies to what stands; unless a scan appended a body after the
\* judgment had read the slot, or overlapping scans appended theirs out of
\* the order of their timestamps.
JudgedBodyIsLive ==
  \A i \in DOMAIN ledger :
    LET e == ledger[i] before == SubSeq(ledger, 1, i - 1) IN
    e.kind = "event" /\ e.proposal \in Judgment =>
      \/ e.body = LiveBody(before)
      \/ e.proposal \in overtaken
      \/ ~InTimeOrder(before)
=============================================================================
