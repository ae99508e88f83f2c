------------------------------ MODULE CloudRuns ------------------------------
(***************************************************************************)
(* The cloud runner's requests, from the click to the evidence             *)
(* (packages/cli/src/runs.ts, runs-intake.ts, runner-registry.ts, and the  *)
(* runner's two hosts in packages/runner/src/modes.ts).                    *)
(*                                                                         *)
(* The console mints a request, hands it to a runner that asks (poll) or   *)
(* that holds a one-shot token (once), and takes the signed transcript     *)
(* back.  All state is the ledger: a request's lifecycle is folded from    *)
(* the run events that name its nonce.  A route handler reads the ledger,  *)
(* decides, and appends; handlers of different HTTP requests interleave    *)
(* between those steps, and the server may stop between any two.  What an  *)
(* account answers is data: who it says the caller is, what it decides     *)
(* about the mutating probes, how each command exits and what its stderr   *)
(* mentions.                                                               *)
(***************************************************************************)
EXTENDS Integers, Sequences, SequencesExt

CONSTANTS
  Nonce,        \* requests that may be minted, one nonce each
  Sidecar,      \* runners with a registered key
  Once,         \* stands for every one-shot runner (once-<nonce>)
  Handler,      \* HTTP requests the server may be serving at once
  TTL,          \* a request's lifetime, in clock ticks
  MaxTime,      \* bound: the last tick of the clock
  MaxPosts,     \* bound: how often transcripts are delivered to intake
  MaxStops,     \* bound: how often the server process stops
  Skew,         \* how far a runner's clock may be from the console's
  Answers,      \* what an account may answer to one run
  Deliveries,   \* what may arrive of the outputs beside a transcript
  Skips,        \* whether a runner is told to skip its self-check
  Emulator      \* an emulator cannot be asked what the role may do

Runner == Sidecar \cup {Once}

\* What a command may say on stderr, in the order classifyStderr looks for it.
StderrClasses == <<"access-denied", "throttled", "incomplete", "not-enabled", "other">>
Mentions == ToSet(StderrClasses)

ASSUME RunsAssumption ==
  /\ Once \notin Sidecar
  /\ {TTL, MaxTime, MaxPosts, MaxStops, Skew} \subseteq Nat
  /\ \A a \in Answers :
       /\ a.caller \in {"ours", "another", "unanswered"}
       /\ a.probes \subseteq {"allowed", "explicitDeny", "implicitDeny", "unknown"}
       /\ \A i \in DOMAIN a.steps : a.steps[i].exit \in -1..255 /\ a.steps[i].stderr \subseteq Mentions
  /\ Deliveries \subseteq {"whole", "missing", "changed"}
  /\ Skips \subseteq BOOLEAN /\ Emulator \in BOOLEAN

VARIABLES
  ledger,       \* the statements appended, in index order
  rows,         \* per nonce: its RunRow, what runsLifecycle folds from the ledger
  clock,        \* the console's clock
  standing,     \* sidecars whose latest registration is not a revocation
  handler,      \* per handler: the route it serves and what it has read
  assigned,     \* <<runner, nonce>> pairs a runner is working on
  transcripts,  \* transcripts signed by runners; the network may repeat them
  raced,        \* history: <<route, nonce>> read by two handlers of that route
                \* before either recorded; <<"late", nonce>> claimed after spent
  interrupted,  \* history: nonces whose intake a stop cut off after `submitted`
  posts, stops

history == <<raced, interrupted>>
vars == <<ledger, rows, clock, standing, handler, assigned, transcripts, history, posts, stops>>

Free == [route |-> "free"]

-----------------------------------------------------------------------------
(* The lifecycle, folded from the ledger. *)

\* The ledger is content-addressed: a statement that is there already, its
\* timestamp included, is not listed twice.
Record(e) == ledger' = IF Contains(ledger, e) THEN ledger ELSE Append(ledger, e)

\* The row of a nonce nobody requested.
NoRow == [state |-> "none"]

Minted(n) == rows[n] # NoRow
IssuedAt(n) == rows[n].issued
ExpiresAt(n) == IssuedAt(n) + TTL

Order == <<"requested", "claimed", "submitted", "accepted", "refused", "failed">>
Rank(state) == CHOOSE i \in DOMAIN Order : Order[i] = state
Terminal == {"accepted", "refused", "failed"}
SpentOnlyTerminal == Terminal
Spent == Terminal \cup {"submitted"}

\* A later state wins, and so does any state with a later timestamp.
ApplyRunEvent(row, e) ==
  IF Rank(e.state) >= Rank(row.state) \/ e.at > row.updated
  THEN [state |-> e.state, issued |-> row.issued, updated |-> e.at] ELSE row

\* A run event carries the appliance's time of the append.  The rows are kept
\* with the ledger: it only grows, so folding it again whenever a route asks
\* gives these.
RecordEvent(n, state, r, reason) ==
  LET e == [nonce |-> n, state |-> state, by |-> r, reason |-> reason, at |-> clock] IN
  /\ Record(e)
  /\ rows' = IF Contains(ledger, e) THEN rows ELSE [rows EXCEPT ![n] = ApplyRunEvent(@, e)]

LifecycleOpenExpires(n) ==
  IF rows[n].state = "requested" /\ ExpiresAt(n) < clock
  THEN "expired" ELSE rows[n].state

\* Expired is read from the clock, never recorded.
Lifecycle(n) ==
  IF rows[n].state \in {"requested", "claimed"} /\ ExpiresAt(n) < clock
  THEN "expired" ELSE rows[n].state

Open == {n \in Nonce : Minted(n) /\ Lifecycle(n) = "requested"}

Statements(n, state) == {e \in ToSet(ledger) : e.nonce = n /\ e.state = state}

-----------------------------------------------------------------------------

Init ==
  /\ ledger = <<>>
  /\ rows = [n \in Nonce |-> NoRow]
  /\ clock = 0
  /\ standing = {}
  /\ handler = [h \in Handler |-> Free]
  /\ assigned = {}
  /\ transcripts = {}
  /\ raced = {} /\ interrupted = {}
  /\ posts = 0 /\ stops = 0

\* The nonce a handler has read the ledger about and not recorded on yet.
Pending(h) ==
  CASE handler[h].route = "next" -> {handler[h].nonce}
    [] handler[h].route = "intake" -> {handler[h].transcript.nonce}
    [] OTHER -> {}

NoteRace(route, n) ==
  raced' = IF \E g \in Handler : handler[g].route = route /\ n \in Pending(g)
           THEN raced \cup {<<route, n>>} ELSE raced

\* The click: a request is minted and signed into the ledger.
MintRunRequest(n) ==
  /\ ~ Minted(n)
  /\ clock + TTL < MaxTime
  /\ Record([nonce |-> n, state |-> "requested", by |-> Once, reason |-> "none", at |-> clock])
  /\ rows' = [rows EXCEPT ![n] = [state |-> "requested", issued |-> clock, updated |-> clock]]
  /\ UNCHANGED <<clock, standing, handler, assigned, transcripts, history, posts, stops>>

\* POST /api/runs/next under a registered key: the oldest open request is
\* picked from what the ledger says now.
NextRun(h, r) ==
  /\ handler[h] = Free
  /\ r \in standing
  /\ \E n \in Open :
       /\ \A m \in Open : IssuedAt(n) <= IssuedAt(m)
       /\ handler' = [handler EXCEPT ![h] = [route |-> "next", nonce |-> n, runner |-> r]]
       /\ NoteRace("next", n)
  /\ UNCHANGED <<ledger, rows, clock, standing, assigned, transcripts, interrupted, posts, stops>>

\* POST /api/runs/next with a one-shot token: the request it names, if the
\* token has not expired and the request is open.
NextRunByToken(h, n) ==
  /\ handler[h] = Free
  /\ n \in Open
  /\ clock <= ExpiresAt(n)
  /\ handler' = [handler EXCEPT ![h] = [route |-> "next", nonce |-> n, runner |-> Once]]
  /\ NoteRace("next", n)
  /\ UNCHANGED <<ledger, rows, clock, standing, assigned, transcripts, interrupted, posts, stops>>

NoteLate(n) ==
  raced' = IF Lifecycle(n) \in Spent THEN raced \cup {<<"late", n>>} ELSE raced

\* The claim is recorded, then the assignment is handed out.
HandOut(h) ==
  /\ handler[h].route = "next"
  /\ RecordEvent(handler[h].nonce, "claimed", handler[h].runner, "none")
  /\ assigned' = assigned \cup {<<handler[h].runner, handler[h].nonce>>}
  /\ NoteLate(handler[h].nonce)
  /\ handler' = [handler EXCEPT ![h] = Free]
  /\ UNCHANGED <<clock, standing, transcripts, interrupted, posts, stops>>

-----------------------------------------------------------------------------
(* The runner: one account's answers made into a transcript. *)

\* stderr is read for the first phrase it knows and dropped.
ClassifyStderr(stderr) ==
  IF stderr = {} THEN "none"
  ELSE StderrClasses[Min({i \in DOMAIN StderrClasses : StderrClasses[i] \in stderr})]

\* A command killed at its time limit exits -1 and may have said nothing.
ExecStep(c) ==
  [exit |-> c.exit,
   class |-> IF c.exit = -1 /\ c.stderr = {} THEN "other" ELSE ClassifyStderr(c.stderr)]

\* No answer to one probe is no denial.
SelfCheck(a) == a.probes \subseteq {"explicitDeny", "implicitDeny"}

\* The runner runs nothing unless it was told who it is and, unless it is told
\* to skip the check, every mutating probe was denied.
Runs(a, skip) == a.caller # "unanswered" /\ (skip \/ SelfCheck(a))

\* Every command is run, also after one failed.  `answer` is history: what the
\* account said, of which the transcript keeps exit codes and classes.
Transcript(a, skip) ==
  [account |-> a.caller, checked |-> ~ skip,
   steps |-> [i \in DOMAIN a.steps |-> ExecStep(a.steps[i])], answer |-> a]

\* The assignment performed and signed, timed by the runner's own clock.
Perform(r, n) ==
  /\ <<r, n>> \in assigned
  /\ assigned' = assigned \ {<<r, n>>}
  /\ \E a \in Answers, skip \in Skips,
        finished \in {t \in clock - Skew .. clock + Skew : t >= 0} :
       /\ Runs(a, skip)
       /\ transcripts' = transcripts \cup
            {[nonce |-> n, runner |-> r, finished |-> finished, run |-> Transcript(a, skip)]}
  /\ UNCHANGED <<ledger, rows, clock, standing, handler, history, posts, stops>>

\* The runner dies, gives up, or refuses to run, which ends its process too:
\* what performAssignment throws leaves the polling loop.
Abandon(r, n) ==
  /\ <<r, n>> \in assigned
  /\ assigned' = assigned \ {<<r, n>>}
  /\ UNCHANGED <<ledger, rows, clock, standing, handler, transcripts, history, posts, stops>>

\* The transcript's signature is that of a runner that stands, or of the key a
\* token that has not expired vouches for.
Verified(t) ==
  IF t.runner = Once THEN clock <= ExpiresAt(t.nonce) ELSE t.runner \in standing

\* POST /api/runs/intake: the signature is checked, and whether the nonce is
\* spent according to the ledger as it is now.
IntakeRun(h, t) ==
  /\ handler[h] = Free
  /\ posts < MaxPosts
  /\ posts' = posts + 1
  /\ Verified(t)
  /\ \E outputs \in Deliveries :
       handler' = [handler EXCEPT ![h] =
         [route |-> "intake", transcript |-> t, outputs |-> outputs, received |-> clock,
          spent |-> Lifecycle(t.nonce) \in Spent]]
  /\ NoteRace("intake", t.nonce)
  /\ UNCHANGED <<ledger, rows, clock, standing, assigned, transcripts, interrupted, stops>>

InWindow(t, received) ==
  /\ IssuedAt(t.nonce) <= t.finished
  /\ t.finished <= ExpiresAt(t.nonce)
  /\ t.finished <= received

ClassifyStepByStderr(step) == IF step.class = "none" THEN "ok" ELSE step.class

\* A command that failed and said nothing is an error, never an empty result.
ClassifyStep(step) ==
  IF step.class = "none" /\ step.exit = 0 THEN "ok"
  ELSE IF step.class = "none" THEN "error" ELSE step.class

\* The refusals that need no output: a spent nonce, another account, a role not
\* shown read-only, the window.
Refused(t, received, spent) ==
  \/ spent
  \/ t.run.account # "ours"
  \/ ~ t.run.checked /\ ~ Emulator
  \/ ~ InWindow(t, received)

\* intakeTranscript: the refusals, then the first step that did not complete,
\* then the bytes.
IntakeTranscript(t, outputs, received, spent) ==
  CASE Refused(t, received, spent) -> "refused"
    [] OTHER -> CASE \E i \in DOMAIN t.run.steps : ClassifyStep(t.run.steps[i]) # "ok" -> "failed"
                  [] outputs # "whole" -> "refused"
                  [] OTHER -> "evidence"

\* `submitted` is recorded before the transcript is judged.
RecordSubmitted(h) ==
  LET now == handler[h] IN
  /\ now.route = "intake"
  /\ RecordEvent(now.transcript.nonce, "submitted", now.transcript.runner, "none")
  /\ handler' = [handler EXCEPT ![h].route =
       IntakeTranscript(now.transcript, now.outputs, now.received, now.spent)]
  /\ UNCHANGED <<clock, standing, assigned, transcripts, history, posts, stops>>

RecordOutcome(h) ==
  LET now == handler[h] IN
  /\ now.route \in Terminal
  /\ RecordEvent(now.transcript.nonce, now.route, now.transcript.runner,
                 IF now.route = "accepted" THEN now.transcript ELSE now.spent)
  /\ handler' = [handler EXCEPT ![h] = Free]
  /\ UNCHANGED <<clock, standing, assigned, transcripts, history, posts, stops>>

\* The bundle is what the transcript says, dated by the run itself; the same
\* bundle is not appended twice.
RecordEvidence(h) ==
  LET t == handler[h].transcript IN
  /\ handler[h].route = "evidence"
  /\ Record([nonce |-> t.nonce, state |-> "evidence", by |-> t.runner, reason |-> t, at |-> t.finished])
  /\ handler' = [handler EXCEPT ![h].route = "accepted"]
  /\ UNCHANGED <<rows, clock, standing, assigned, transcripts, history, posts, stops>>

\* The server process stops: requests in flight are gone, the ledger stays.
Stop ==
  /\ stops < MaxStops
  /\ \E h \in Handler : handler[h] # Free
  /\ handler' = [h \in Handler |-> Free]
  /\ interrupted' = interrupted \cup
       {handler[h].transcript.nonce :
          h \in {g \in Handler : handler[g].route \in Terminal \cup {"evidence"}}}
  /\ stops' = stops + 1
  /\ UNCHANGED <<ledger, rows, clock, standing, assigned, transcripts, raced, posts>>

\* The fourth two-key write: a sidecar's key is registered, or revoked; the
\* latest registration per runner is the one that counts.
Register(r) ==
  /\ r \notin standing
  /\ standing' = standing \cup {r}
  /\ UNCHANGED <<ledger, rows, clock, handler, assigned, transcripts, history, posts, stops>>

Revoke(r) ==
  /\ r \in standing
  /\ standing' = standing \ {r}
  /\ UNCHANGED <<ledger, rows, clock, handler, assigned, transcripts, history, posts, stops>>

Tick ==
  /\ clock < MaxTime
  /\ clock' = clock + 1
  /\ UNCHANGED <<ledger, rows, standing, handler, assigned, transcripts, history, posts, stops>>

Serve(h) == HandOut(h) \/ RecordSubmitted(h) \/ RecordEvidence(h) \/ RecordOutcome(h)

Next ==
  \/ \E n \in Nonce : MintRunRequest(n)
  \/ \E h \in Handler :
       \/ \E r \in Sidecar : NextRun(h, r)
       \/ \E n \in Nonce : NextRunByToken(h, n)
       \/ \E t \in transcripts : IntakeRun(h, t)
       \/ Serve(h)
  \/ \E r \in Runner, n \in Nonce : Perform(r, n) \/ Abandon(r, n)
  \/ \E r \in Sidecar : Register(r) \/ Revoke(r)
  \/ Stop
  \/ Tick

Spec == Init /\ [][Next]_vars

\* Handlers run to their reply once they were called, and time passes.  Nobody
\* has to ask for a run, to claim one, or to answer it.
Fairness == WF_vars(Tick) /\ \A h \in Handler : WF_vars(Serve(h))

FairSpec == Spec /\ Fairness

-----------------------------------------------------------------------------

\* An accepted run names evidence that is in the ledger before it, of a run inside
\* the request's window in which the account was seen: the caller was the
\* configured account, every mutating probe was denied to it, and every command
\* exited cleanly and complained of nothing ("never a bundle over bytes the account
\* did not actually yield", runs-intake.ts).  The answers pass through the runner's classes,
\* the transcript and the intake's order of refusals, none of which sees them
\* all.  Except for an emulator, whose role nobody can ask about.
AcceptedNamesEvidence ==
  \A i \in DOMAIN ledger :
    LET e == ledger[i]  t == e.reason IN
    e.state = "accepted" =>
      /\ \E j \in 1 .. i - 1 : ledger[j].state = "evidence" /\ ledger[j].reason = t
      /\ t.nonce = e.nonce
      /\ IssuedAt(e.nonce) <= t.finished /\ t.finished <= ExpiresAt(e.nonce) /\ t.finished <= e.at
      /\ t.run.answer.caller = "ours"
      /\ Emulator \/ t.run.answer.probes \subseteq {"explicitDeny", "implicitDeny"}
      /\ \A k \in DOMAIN t.run.answer.steps :
           t.run.answer.steps[k].exit = 0 /\ t.run.answer.steps[k].stderr = {}

\* The nonce is single-use (SPEC.md 14.2: "single-use; a second transcript for
\* it is a replay"): a request yields at most one evidence bundle, also when two
\* runners were handed it and through repeated deliveries and restarts.  Two
\* interleavings break it and are excepted by name: two intakes that both read
\* the ledger before either recorded `submitted`, and a claim decided before and
\* recorded after the nonce was spent, which reopens it.  And it is handed to one
\* runner (runs.ts nextRun: "recorded claimed by that runner before it is handed
\* out"), unless two askers both read it as open before either claim was
\* recorded; whoever works on one is on record as its claimant.
NonceIsSingleUse ==
  /\ \A n \in Nonce :
       /\ (\E e, f \in Statements(n, "evidence") : e # f) => <<"intake", n>> \in raced \/ <<"late", n>> \in raced
       /\ (\E e, f \in Statements(n, "claimed") : e # f) => <<"next", n>> \in raced
  /\ \A p \in assigned : \E i \in DOMAIN ledger :
       ledger[i].nonce = p[2] /\ ledger[i].state = "claimed" /\ ledger[i].by = p[1]

\* Every run that was requested comes to an end somebody can read: an outcome,
\* or expiry.  The one exception is an intake cut off after `submitted`, which
\* neither expires nor can be answered again.
EveryRunSettles ==
  \A n \in Nonce :
    Minted(n) ~> (n \in interrupted \/ (Minted(n) /\ Lifecycle(n) \in Terminal \cup {"expired"}))

=============================================================================
