---------------------------- MODULE ConsoleProofs ----------------------------
(***************************************************************************)
(* What the console writes and what it shows.  The two-key write is sound  *)
(* for any number of proposals, approvers, requests, scans and retries,    *)
(* wherever a step fails.  The mirror of the daemon's files is those       *)
(* files, for any number of lines, any limit of the tail, and any order of *)
(* writes, rotations, deaths, restarts and refusals.  The board is never a *)
(* mixture of two projections and, at rest, is the whole ledger, for any   *)
(* number of overlapping calls, appends, restarts and failures.            *)
(***************************************************************************)
EXTENDS TwoKey, Mirror, Serve, FiniteSetTheorems, WellFoundedInduction, TLAPS

-----------------------------------------------------------------------------
(* Least and greatest elements, and the last body of a log. *)

\* A set of numbers has a least one,
LEMMA LeastOf ==
  ASSUME NEW S, S \subseteq Nat, S # {}
  PROVE  \E m \in S : \A k \in S : m <= k
<1>1. PICK m \in S : \A k \in S : ~ (<<k, m>> \in OpToRel(<, Nat))
  BY NatLessThanWellFounded, WFMin, Zenon
<1>2. \A k \in S : ~ (k < m)
  BY <1>1, Zenon DEF OpToRel
<1> QED BY <1>2

\* and a bounded one a greatest.
LEMMA MaxOf ==
  ASSUME NEW n \in Nat, NEW S, S \subseteq 1 .. n, S # {}
  PROVE  Max(S) \in S /\ \A y \in S : Max(S) >= y
<1> DEFINE U == {u \in Nat : \A y \in S : y <= u}
<1>1. PICK u \in U : \A v \in U : u <= v
  <2>1. n \in U
    OBVIOUS
  <2> QED BY <2>1, LeastOf
<1>2. u \in S
  <2> SUFFICES ASSUME u \notin S PROVE FALSE
    OBVIOUS
  <2>1. u \in Nat /\ u # 0
    <3>1. PICK y \in S : y <= u
      BY <1>1
    <3> QED BY <3>1, <1>1
  <2>2. u - 1 \in U
    BY <1>1, <2>1
  <2> QED BY <1>1, <2>1, <2>2
<1>3. \A y \in S : u >= y
  BY <1>1
<1> QED BY <1>2, <1>3 DEF Max

EventEntry == [kind : {"event"}, proposal : Proposal, by : Approver, body : Body \cup {NoBody}, at : Nat]
BodyEntry == [kind : {"body"}, body : Body, at : Nat]
Entry == EventEntry \cup BodyEntry

\* The last body is one the log holds, or none.
LEMMA LastBodyType ==
  ASSUME NEW log \in Seq(Entry) PROVE LastBody(log) \in Body \cup {NoBody}
<1>1. CASE BodiesIn(log) = {}
  BY <1>1 DEF LastBody
<1>2. CASE BodiesIn(log) # {}
  <2>1. Len(log) \in Nat /\ BodiesIn(log) \subseteq 1 .. Len(log)
    BY DEF BodiesIn
  <2>2. Max(BodiesIn(log)) \in BodiesIn(log)
    BY <1>2, <2>1, MaxOf
  <2>3. log[Max(BodiesIn(log))] \in BodyEntry
    BY <2>1, <2>2 DEF BodiesIn, Entry, EventEntry, BodyEntry
  <2> QED BY <1>2, <2>3 DEF LastBody, BodyEntry
<1> QED BY <1>1, <1>2

\* An event leaves the last body what it is.
LEMMA EventKeepsLastBody ==
  ASSUME NEW log \in Seq(Entry), NEW e \in EventEntry
  PROVE  LastBody(Append(log, e)) = LastBody(log)
<1>1. BodiesIn(Append(log, e)) = BodiesIn(log)
  BY DEF BodiesIn, EventEntry
<1>2. CASE BodiesIn(log) = {}
  BY <1>1, <1>2 DEF LastBody
<1>3. CASE BodiesIn(log) # {}
  <2>1. Len(log) \in Nat /\ BodiesIn(log) \subseteq 1 .. Len(log)
    BY DEF BodiesIn
  <2>2. Max(BodiesIn(log)) \in 1 .. Len(log)
    BY <1>3, <2>1, MaxOf
  <2>3. Append(log, e)[Max(BodiesIn(log))] = log[Max(BodiesIn(log))]
    BY <2>2
  <2> QED BY <1>1, <1>3, <2>3 DEF LastBody
<1> QED BY <1>2, <1>3

\* Where bodies are in the order of their timestamps the fold's body is the last.
LEMMA LastIsLive ==
  ASSUME NEW log \in Seq(Entry), InTimeOrder(log)
  PROVE  LiveBody(log) = LastBody(log)
<1>1. CASE BodiesIn(log) = {}
  BY <1>1 DEF LiveBody, LastBody
<1>2. CASE BodiesIn(log) # {}
  <2> DEFINE m == Max(BodiesIn(log))
  <2>1. Len(log) \in Nat /\ BodiesIn(log) \subseteq 1 .. Len(log)
    BY DEF BodiesIn
  <2>2. m \in BodiesIn(log) /\ \A i \in BodiesIn(log) : m >= i
    BY <1>2, <2>1, MaxOf
  <2>3. \A i \in BodiesIn(log) : log[i].at \in Nat
    BY <2>1 DEF Entry, EventEntry, BodyEntry
  <2>4. \A i \in BodiesIn(log) : log[i].at <= log[m].at
    <3> SUFFICES ASSUME NEW i \in BodiesIn(log) PROVE log[i].at <= log[m].at
      OBVIOUS
    <3>1. CASE i = m
      BY <3>1, <2>3
    <3>2. CASE i # m
      BY <3>2, <2>1, <2>2 DEF InTimeOrder
    <3> QED BY <3>1, <3>2
  <2>5. m \in NewestBodies(log) /\ NewestBodies(log) \subseteq BodiesIn(log)
    BY <2>2, <2>4 DEF NewestBodies
  <2>6. Max(NewestBodies(log)) \in NewestBodies(log) /\ Max(NewestBodies(log)) >= m
    BY <2>1, <2>5, MaxOf
  <2>7. Max(NewestBodies(log)) = m
    BY <2>1, <2>2, <2>5, <2>6
  <2> QED BY <1>2, <2>7 DEF LiveBody, LastBody
<1> QED BY <1>1, <1>2

-----------------------------------------------------------------------------
(* The inductive invariant. *)

RowOf == [status : Status, by : Approver \cup {Nobody}, digest : EventEntry \cup {NoDigest}]
Reading == [step : {"read", "body"}, proposal : Proposal, by : Approver,
            action : {"approve", "reject"}, body : Body \cup {NoBody}]
Recorded == [step : {"recorded"}, proposal : Proposal, by : Approver, digest : EventEntry]
Scanning == [step : {"started"}, at : Nat, body : Body]
            \cup [step : {"listed"}, at : Nat, body : Body, prior : Body \cup {NoBody}]
            \cup [step : {"done"}]

TypeOK ==
  /\ ledger \in Seq(Entry)
  /\ clock \in Nat
  /\ row \in [Proposal -> {Undrafted} \cup RowOf]
  /\ call \in [Call -> {Idle} \cup Reading \cup Recorded]
  /\ scan \in [Scan -> {Off} \cup Scanning]

\* Two requests on one proposal are on record as a race.
OneDecider ==
  \A p \in Proposal \ raced : \A c, d \in Deciding(p) : c = d

\* What a request found pending is drafted, and without a race pending until
\* the request is done.
StillPending ==
  \A c \in Call : call[c].step # "idle" =>
    /\ row[call[c].proposal] \in RowOf
    /\ call[c].proposal \notin raced => row[call[c].proposal].status = "pending"

\* A request between its event and its patch holds the event.
RecordedIsListed ==
  \A c \in Call : call[c].step = "recorded" =>
    /\ call[c].digest \in Events
    /\ call[c].digest.proposal = call[c].proposal /\ call[c].digest.by = call[c].by

\* A row names no event but its proposal's, none before the first approval.
DigestIsOwn ==
  \A p \in Proposal : row[p].status # "none" =>
    /\ row[p].digest = NoDigest \/ row[p].digest \in EventsOf(p)
    /\ row[p].status = "approved" => row[p].digest # NoDigest /\ row[p].digest.by = row[p].by
    /\ row[p].status # "approved" /\ p \notin raced => row[p].digest = NoDigest

\* Where nothing raced nor was cut, a proposal has one event at most, and none
\* before a request recorded it.
EventIsAnswered ==
  \A p \in Proposal \ (raced \cup cut) :
    /\ \A e, f \in EventsOf(p) : e = f
    /\ EventsOf(p) = {} \/ row[p].status = "approved" \/ \E c \in Deciding(p) : call[c].step = "recorded"

\* A judgment under way holds the body that stands, or was overtaken.
HeldIsLast ==
  \A c \in Call : call[c].step = "body" =>
    call[c].body = LastBody(ledger) \/ call[c].proposal \in overtaken

TwoKeyInv ==
  /\ TypeOK /\ OneDecider /\ StillPending /\ RecordedIsListed
  /\ DigestIsOwn /\ EventIsAnswered /\ HeldIsLast /\ JudgedBodyIsLive

\* It holds before anything is proposed.
LEMMA InitInv == Init => TwoKeyInv
<1> SUFFICES ASSUME Init PROVE TwoKeyInv
  OBVIOUS
<1>1. ledger = <<>> /\ DOMAIN ledger = {} /\ Events = {}
  BY DEF Init, Events, ToSet
<1>2. TypeOK
  BY <1>1 DEF Init, TypeOK
<1>3. OneDecider /\ StillPending /\ RecordedIsListed /\ HeldIsLast
  BY DEF Init, OneDecider, StillPending, RecordedIsListed, HeldIsLast, Deciding, Idle
<1>4. DigestIsOwn /\ EventIsAnswered /\ JudgedBodyIsLive
  BY <1>1 DEF Init, DigestIsOwn, EventIsAnswered, JudgedBodyIsLive, EventsOf, Undrafted
<1> QED BY <1>2, <1>3, <1>4 DEF TwoKeyInv

\* An appended entry leaves the past of every index what it was.
LEMMA AppendKeepsPast ==
  ASSUME NEW log \in Seq(Entry), NEW e \in Entry
  PROVE  /\ Append(log, e) \in Seq(Entry) /\ DOMAIN Append(log, e) = 1 .. Len(log) + 1
         /\ \A i \in 1 .. Len(log) :
              Append(log, e)[i] = log[i] /\ SubSeq(Append(log, e), 1, i - 1) = SubSeq(log, 1, i - 1)
         /\ Append(log, e)[Len(log) + 1] = e /\ SubSeq(Append(log, e), 1, Len(log)) = log
         /\ ToSet(Append(log, e)) = ToSet(log) \cup {e}
<1>1. Append(log, e) \in Seq(Entry) /\ DOMAIN Append(log, e) = 1 .. Len(log) + 1
  OBVIOUS
<1>2. \A i \in 1 .. Len(log) : Append(log, e)[i] = log[i]
  OBVIOUS
<1>3. \A i \in 1 .. Len(log) : SubSeq(Append(log, e), 1, i - 1) = SubSeq(log, 1, i - 1)
  OBVIOUS
<1>4. Append(log, e)[Len(log) + 1] = e
  OBVIOUS
<1>5. SubSeq(Append(log, e), 1, Len(log)) = log
  OBVIOUS
<1>6. ToSet(Append(log, e)) = ToSet(log) \cup {e}
  BY <1>1, <1>2, <1>4 DEF ToSet
<1> QED BY <1>1, <1>2, <1>3, <1>4, <1>5, <1>6

\* Recording is idempotent: the ledger is as it was or longer by the entry,
\* and has the entry either way.
LEMMA RecordAdds ==
  ASSUME NEW e \in Entry, ledger \in Seq(Entry), Record(e)
  PROVE  /\ ledger' \in Seq(Entry) /\ ToSet(ledger') = ToSet(ledger) \cup {e}
         /\ ledger' = ledger \/ ledger' = Append(ledger, e)
<1>1. CASE Contains(ledger, e)
  BY <1>1 DEF Record, Contains, ToSet
<1>2. CASE ~Contains(ledger, e)
  BY <1>2, AppendKeepsPast DEF Record
<1> QED BY <1>1, <1>2

\* A step that leaves the ledger alone leaves what follows from it alone.
LEMMA SameLedger ==
  ASSUME TwoKeyInv, UNCHANGED ledger
  PROVE  /\ Events' = Events /\ \A p : EventsOf(p)' = EventsOf(p)
         /\ LastBody(ledger)' = LastBody(ledger)
         /\ ledger' \in Seq(Entry)
<1> QED BY DEF TwoKeyInv, TypeOK, Events, EventsOf

\* What appends nothing leaves the judgments as they are.
LEMMA SameJudgments ==
  ASSUME TwoKeyInv, UNCHANGED ledger, overtaken \subseteq overtaken'
  PROVE  JudgedBodyIsLive'
<1> QED BY DEF TwoKeyInv, JudgedBodyIsLive

\* What a request under way holds.
LEMMA CallType ==
  ASSUME TypeOK, NEW c \in Call, call[c].step # "idle"
  PROVE  /\ call[c] \in Reading \cup Recorded /\ call[c].proposal \in Proposal /\ call[c].by \in Approver
         /\ call[c].step = "recorded" => call[c] \in Recorded
         /\ call[c].step # "recorded" => call[c] \in Reading
<1> QED BY DEF TypeOK, Idle, Reading, Recorded

\* The first key drafts.
LEMMA DraftStep ==
  ASSUME TwoKeyInv, NEW p \in Proposal, Draft(p) PROVE TwoKeyInv'
<1> USE DEF TwoKeyInv
<1>1. /\ UNCHANGED <<ledger, clock, call, scan, raced, cut, overtaken>>
      /\ row' = [row EXCEPT ![p] = [status |-> "pending", by |-> Nobody, digest |-> NoDigest]]
      /\ row[p] = [status |-> "none"]
  BY DEF Draft, Undrafted
<1>2. TypeOK'
  BY <1>1 DEF TypeOK, RowOf, Status
<1>3. JudgedBodyIsLive'
  BY <1>1, SameJudgments
<1>4. \A q \in Proposal \ {p} : row'[q] = row[q]
  BY <1>1 DEF TypeOK
<1>5. row'[p].status = "pending" /\ row'[p].digest = NoDigest /\ row[p].status = "none"
  BY <1>1 DEF TypeOK
<1>6. OneDecider' /\ HeldIsLast'
  BY <1>1 DEF OneDecider, HeldIsLast, Deciding
<1>7. RecordedIsListed'
  BY <1>1 DEF RecordedIsListed, Events
<1>8. StillPending'
  <2>1. Undrafted \notin RowOf /\ row[p] = Undrafted
    BY DEF Undrafted, RowOf, Status, Draft
  <2> QED BY <2>1, <1>1, <1>4, CallType DEF StillPending
<1>9. DigestIsOwn'
  <2> SUFFICES ASSUME NEW q \in Proposal, row'[q].status # "none"
               PROVE  /\ row'[q].digest = NoDigest \/ row'[q].digest \in EventsOf(q)
                      /\ row'[q].status = "approved" => row'[q].digest # NoDigest /\ row'[q].digest.by = row'[q].by
                      /\ row'[q].status # "approved" /\ q \notin raced => row'[q].digest = NoDigest
    BY <1>1 DEF DigestIsOwn, EventsOf, Events
  <2>1. CASE q = p
    BY <2>1, <1>5
  <2>2. CASE q # p
    BY <2>2, <1>4 DEF DigestIsOwn
  <2> QED BY <2>1, <2>2
<1>10. EventIsAnswered'
  <2> SUFFICES ASSUME NEW q \in Proposal \ (raced \cup cut)
               PROVE  /\ \A e, f \in EventsOf(q) : e = f
                      /\ EventsOf(q) = {} \/ row'[q].status = "approved" \/ \E c \in Deciding(q) : call[c].step = "recorded"
    <3>1. \A q : EventsOf(q)' = EventsOf(q) /\ Deciding(q)' = Deciding(q)
      BY <1>1 DEF EventsOf, Events, Deciding
    <3> QED BY <3>1, <1>1 DEF EventIsAnswered
  <2>1. CASE q = p
    BY <2>1, <1>5 DEF EventIsAnswered
  <2>2. CASE q # p
    BY <2>2, <1>4 DEF EventIsAnswered
  <2> QED BY <2>1, <2>2
<1> QED BY <1>2, <1>3, <1>6, <1>7, <1>8, <1>9, <1>10

\* The second key decides.
LEMMA DecideStep ==
  ASSUME TwoKeyInv, NEW c \in Call, NEW p \in Proposal, NEW by \in Approver,
         NEW action \in {"approve", "reject"}, Decide(c, p, by, action)
  PROVE  TwoKeyInv'
<1> USE DEF TwoKeyInv
<1> DEFINE r == [step |-> "read", proposal |-> p, by |-> by, action |-> action, body |-> NoBody]
<1>1. /\ UNCHANGED <<ledger, clock, row, scan, cut, overtaken>> /\ call[c].step = "idle"
      /\ call' = [call EXCEPT ![c] = r] /\ row[p].status = "pending"
      /\ raced' = IF Deciding(p) # {} THEN raced \cup {p} ELSE raced
  BY DEF Decide, Idle
<1>2. r \in Reading /\ r.step = "read" /\ r.proposal = p
  BY DEF Reading
<1>3. TypeOK'
  BY <1>1, <1>2 DEF TypeOK
<1>4. call'[c].step = "read" /\ call'[c].proposal = p /\ \A d \in Call \ {c} : call'[d] = call[d]
  <2> HIDE DEF r
  <2> QED BY <1>1, <1>2 DEF TypeOK
<1>5. \A q : EventsOf(q)' = EventsOf(q)
  BY <1>1 DEF EventsOf, Events
<1>6. /\ \A q \in Proposal \ {p} : Deciding(q)' = Deciding(q)
      /\ Deciding(p)' = Deciding(p) \cup {c} /\ \A q : c \notin Deciding(q)
  BY <1>1, <1>4 DEF Deciding
<1>7. OneDecider'
  <2> SUFFICES ASSUME NEW q \in Proposal \ raced', NEW d \in Deciding(q)', NEW e \in Deciding(q)' PROVE d = e
    BY DEF OneDecider
  <2>1. CASE q = p
    BY <2>1, <1>1, <1>6
  <2>2. CASE q # p
    BY <2>2, <1>1, <1>6 DEF OneDecider
  <2> QED BY <2>1, <2>2
<1>8. StillPending'
  <2>1. row[p] \in RowOf
    <3>1. Undrafted.status = "none"
      BY DEF Undrafted
    <3> QED BY <3>1, <1>1 DEF TypeOK
  <2> SUFFICES ASSUME NEW d \in Call, call'[d].step # "idle"
               PROVE  /\ row[call'[d].proposal] \in RowOf
                      /\ call'[d].proposal \notin raced' => row[call'[d].proposal].status = "pending"
    BY <1>1 DEF StillPending
  <2>2. CASE d = c
    BY <2>1, <2>2, <1>1, <1>4
  <2>3. CASE d # c
    BY <2>3, <1>1, <1>4 DEF StillPending
  <2> QED BY <2>2, <2>3
<1>9. RecordedIsListed'
  BY <1>1, <1>4 DEF RecordedIsListed, Events
<1>10. DigestIsOwn'
  <2>1. raced \subseteq raced'
    BY <1>1
  <2> QED BY <2>1, <1>1, <1>5 DEF DigestIsOwn
<1>11. EventIsAnswered'
  <2> SUFFICES ASSUME NEW q \in Proposal \ (raced' \cup cut)
               PROVE  /\ \A e, f \in EventsOf(q) : e = f
                      /\ \/ EventsOf(q) = {} \/ row[q].status = "approved"
                         \/ \E d \in Deciding(q)' : call'[d].step = "recorded"
    BY <1>1, <1>5 DEF EventIsAnswered
  <2>1. q \notin raced /\ \A d \in Deciding(q) : d \in Deciding(q)' /\ d # c /\ d \in Call
    BY <1>1, <1>6 DEF Deciding
  <2> QED BY <2>1, <1>4 DEF EventIsAnswered
<1>12. HeldIsLast'
  BY <1>1, <1>4 DEF HeldIsLast
<1>13. JudgedBodyIsLive'
  BY <1>1, SameJudgments
<1> QED BY <1>3, <1>7, <1>8, <1>9, <1>10, <1>11, <1>12, <1>13

\* A request that ends leaves every other as it was.
LEMMA EndCall ==
  ASSUME TwoKeyInv, NEW c \in Call, call[c].step # "idle", call' = [call EXCEPT ![c] = Idle]
  PROVE  /\ call'[c].step = "idle" /\ \A d \in Call \ {c} : call'[d] = call[d]
         /\ \A q : Deciding(q)' = Deciding(q) \ {c}
         /\ c \in Deciding(call[c].proposal)
         /\ \A q : c \in Deciding(q) => q = call[c].proposal
<1>1. call'[c] = Idle /\ \A d \in Call \ {c} : call'[d] = call[d]
  BY DEF TwoKeyInv, TypeOK
<1>2. call'[c].step = "idle"
  BY <1>1 DEF Idle
<1> QED BY <1>1, <1>2 DEF Deciding

\* A rejection writes nothing to the ledger.
LEMMA RejectStep ==
  ASSUME TwoKeyInv, NEW c \in Call, Reject(c) PROVE TwoKeyInv'
<1> USE DEF TwoKeyInv
<1> DEFINE p == call[c].proposal
<1>1. /\ UNCHANGED <<ledger, clock, scan, raced, cut, overtaken>> /\ call[c].step = "read"
      /\ call' = [call EXCEPT ![c] = Idle]
      /\ row' = [row EXCEPT ![p].status = "rejected", ![p].by = call[c].by]
  BY DEF Reject
<1>2. p \in Proposal /\ call[c].by \in Approver /\ row[p] \in RowOf
  BY <1>1, CallType DEF StillPending
<1>3. /\ row' \in [Proposal -> {Undrafted} \cup RowOf] /\ row'[p] \in RowOf
      /\ row'[p].status = "rejected" /\ row'[p].digest = row[p].digest
  BY <1>1, <1>2 DEF TypeOK, RowOf, Status
<1>4. \A q \in Proposal \ {p} : row'[q] = row[q]
  BY <1>1 DEF TypeOK
<1>5. TypeOK'
  BY <1>1, <1>3 DEF TypeOK
<1>6. /\ call'[c].step = "idle" /\ \A d \in Call \ {c} : call'[d] = call[d]
      /\ \A q : Deciding(q)' = Deciding(q) \ {c}
      /\ c \in Deciding(p) /\ \A q : c \in Deciding(q) => q = p
  BY <1>1, EndCall
<1>7. \A q : EventsOf(q)' = EventsOf(q)
  BY <1>1 DEF EventsOf, Events
<1>8. OneDecider'
  BY <1>1, <1>6 DEF OneDecider
<1>9. StillPending'
  <2> SUFFICES ASSUME NEW d \in Call, call'[d].step # "idle"
               PROVE  /\ row'[call'[d].proposal] \in RowOf
                      /\ call'[d].proposal \notin raced => row'[call'[d].proposal].status = "pending"
    BY <1>1 DEF StillPending
  <2>1. d # c /\ call'[d] = call[d] /\ call[d].proposal \in Proposal
    BY <1>6, CallType
  <2>2. CASE call[d].proposal = p
    <3>1. p \in raced
      BY <2>1, <2>2, <1>2, <1>6 DEF OneDecider, Deciding
    <3> QED BY <3>1, <2>1, <2>2, <1>3
  <2>3. CASE call[d].proposal # p
    BY <2>1, <2>3, <1>4 DEF StillPending
  <2> QED BY <2>2, <2>3
<1>10. RecordedIsListed'
  BY <1>1, <1>6 DEF RecordedIsListed, Events
<1>11. DigestIsOwn'
  <2> SUFFICES ASSUME NEW q \in Proposal, row'[q].status # "none"
               PROVE  /\ row'[q].digest = NoDigest \/ row'[q].digest \in EventsOf(q)
                      /\ row'[q].status = "approved" => row'[q].digest # NoDigest /\ row'[q].digest.by = row'[q].by
                      /\ row'[q].status # "approved" /\ q \notin raced => row'[q].digest = NoDigest
    BY <1>1, <1>7 DEF DigestIsOwn
  <2>1. CASE q = p
    <3>1. row[p].status # "none" /\ (p \notin raced => row[p].status = "pending")
      BY <1>1, <1>2 DEF StillPending, RowOf, Status
    <3> QED BY <3>1, <2>1, <1>2, <1>3 DEF DigestIsOwn
  <2>2. CASE q # p
    BY <2>2, <1>4 DEF DigestIsOwn
  <2> QED BY <2>1, <2>2
<1>12. EventIsAnswered'
  <2> SUFFICES ASSUME NEW q \in Proposal \ (raced \cup cut)
               PROVE  /\ \A e, f \in EventsOf(q) : e = f
                      /\ \/ EventsOf(q) = {} \/ row'[q].status = "approved"
                         \/ \E d \in Deciding(q)' : call'[d].step = "recorded"
    BY <1>1, <1>7 DEF EventIsAnswered
  <2>1. CASE q = p
    <3>1. \A d \in Deciding(p) : d = c
      BY <2>1, <1>2, <1>6 DEF OneDecider
    <3>2. row[p].status = "pending"
      BY <2>1, <1>1 DEF StillPending
    <3> QED BY <3>1, <3>2, <2>1, <1>1 DEF EventIsAnswered
  <2>2. CASE q # p
    <3>1. \A d \in Deciding(q) : d \in Deciding(q)' /\ call'[d] = call[d]
      BY <2>2, <1>6 DEF Deciding
    <3> QED BY <3>1, <2>2, <1>4 DEF EventIsAnswered
  <2> QED BY <2>1, <2>2
<1>13. HeldIsLast'
  BY <1>1, <1>6 DEF HeldIsLast
<1>14. JudgedBodyIsLive'
  BY <1>1, SameJudgments
<1> QED BY <1>5, <1>8, <1>9, <1>10, <1>11, <1>12, <1>13, <1>14

\* An approval reads the body it is about.
LEMMA ReadBodyStep ==
  ASSUME TwoKeyInv, NEW c \in Call, ReadBody(c) PROVE TwoKeyInv'
<1> USE DEF TwoKeyInv
<1>1. /\ UNCHANGED <<ledger, clock, row, scan, raced, cut, overtaken>> /\ call[c].step = "read"
      /\ call' = [call EXCEPT ![c].step = "body", ![c].body = LastBody(ledger)]
  BY DEF ReadBody
<1>2. call[c] \in Reading /\ LastBody(ledger) \in Body \cup {NoBody}
  BY <1>1, CallType, LastBodyType DEF TypeOK
<1>3. /\ call'[c] \in Reading /\ call'[c].step = "body" /\ call'[c].body = LastBody(ledger)
      /\ call'[c].proposal = call[c].proposal
      /\ \A d \in Call \ {c} : call'[d] = call[d]
  BY <1>1, <1>2 DEF TypeOK, Reading
<1>4. TypeOK'
  BY <1>1, <1>2 DEF TypeOK, Reading
<1>5. \A q : EventsOf(q)' = EventsOf(q) /\ Deciding(q)' = Deciding(q)
  BY <1>1, <1>3 DEF EventsOf, Events, Deciding
<1>6. OneDecider'
  BY <1>1, <1>5 DEF OneDecider
<1>7. StillPending'
  <2> SUFFICES ASSUME NEW d \in Call, call'[d].step # "idle"
               PROVE  /\ row[call'[d].proposal] \in RowOf
                      /\ call'[d].proposal \notin raced => row[call'[d].proposal].status = "pending"
    BY <1>1 DEF StillPending
  <2>1. call'[d].proposal = call[d].proposal /\ call[d].step # "idle"
    BY <1>1, <1>3
  <2>2. StillPending
    OBVIOUS
  <2> QED BY ONLY d \in Call, <2>1, <2>2 DEF StillPending
<1>8. RecordedIsListed'
  <2> SUFFICES ASSUME NEW d \in Call, call'[d].step = "recorded"
               PROVE  /\ call'[d].digest \in Events' /\ call'[d].digest.proposal = call'[d].proposal
                      /\ call'[d].digest.by = call'[d].by
    BY DEF RecordedIsListed
  <2>1. d # c /\ call'[d] = call[d]
    BY <1>3
  <2>2. Events' = Events /\ RecordedIsListed
    BY <1>1 DEF Events
  <2> QED BY ONLY d \in Call, call'[d].step = "recorded", <2>1, <2>2 DEF RecordedIsListed
<1>9. DigestIsOwn'
  BY <1>1, <1>5 DEF DigestIsOwn
<1>10. EventIsAnswered'
  <2> SUFFICES ASSUME NEW q \in Proposal \ (raced \cup cut)
               PROVE  /\ \A e, f \in EventsOf(q) : e = f
                      /\ \/ EventsOf(q) = {} \/ row[q].status = "approved"
                         \/ \E d \in Deciding(q) : call'[d].step = "recorded"
    BY <1>1, <1>5 DEF EventIsAnswered
  <2>1. \A d \in Deciding(q) : call[d].step = "recorded" => call'[d].step = "recorded"
    BY <1>1, <1>3 DEF Deciding
  <2> QED BY <2>1 DEF EventIsAnswered
<1>11. HeldIsLast'
  <2> SUFFICES ASSUME NEW d \in Call, call'[d].step = "body"
               PROVE  call'[d].body = LastBody(ledger) \/ call'[d].proposal \in overtaken
    BY <1>1 DEF HeldIsLast
  <2> QED BY <1>3 DEF HeldIsLast
<1>12. JudgedBodyIsLive'
  BY <1>1, SameJudgments
<1> QED BY <1>4, <1>6, <1>7, <1>8, <1>9, <1>10, <1>11, <1>12

\* The event is appended.
LEMMA RecordEventStep ==
  ASSUME TwoKeyInv, NEW c \in Call, RecordEvent(c) PROVE TwoKeyInv'
<1> USE DEF TwoKeyInv
<1> DEFINE p == call[c].proposal
           e == Event(c)
           r == [step |-> "recorded", proposal |-> p, by |-> call[c].by, digest |-> e]
<1>1. /\ UNCHANGED <<clock, row, scan, raced, cut, overtaken>> /\ Record(e)
      /\ call' = [call EXCEPT ![c] = r]
      /\ call[c].step \in {"read", "body"} /\ (p \in Judgment => call[c].step = "body")
  BY DEF RecordEvent, Recording
<1>2. call[c] \in Reading /\ p \in Proposal /\ call[c].by \in Approver
  BY <1>1, CallType
<1>3. e \in EventEntry /\ e.proposal = p /\ e.by = call[c].by /\ e.body = call[c].body /\ e.kind = "event"
  BY <1>2 DEF Event, EventEntry, Reading, TypeOK
<1>4. r \in Recorded /\ r.step = "recorded" /\ r.proposal = p /\ r.by = call[c].by /\ r.digest = e
  <2> HIDE DEF e
  <2> QED BY <1>2, <1>3 DEF Recorded
<1> HIDE DEF e, r
<1>5. /\ ledger' \in Seq(Entry) /\ ToSet(ledger') = ToSet(ledger) \cup {e}
      /\ ledger' = ledger \/ ledger' = Append(ledger, e)
  BY <1>1, <1>3, RecordAdds DEF TypeOK, Entry
<1>6. TypeOK'
  BY <1>1, <1>4, <1>5 DEF TypeOK
<1>7. call'[c] = r /\ \A d \in Call \ {c} : call'[d] = call[d]
  BY <1>1 DEF TypeOK
<1>8. \A q : Deciding(q)' = Deciding(q)
  BY <1>1, <1>4, <1>7 DEF Deciding
<1>9. Events' = Events \cup {e}
  BY <1>3, <1>5 DEF Events
<1>10. \A q : EventsOf(q)' = IF q = p THEN EventsOf(q) \cup {e} ELSE EventsOf(q)
  BY <1>3, <1>9 DEF EventsOf
<1>11. OneDecider'
  BY <1>1, <1>8 DEF OneDecider
<1>12. StillPending'
  BY <1>1, <1>4, <1>7 DEF StillPending
<1>13. RecordedIsListed'
  <2> SUFFICES ASSUME NEW d \in Call, call'[d].step = "recorded"
               PROVE  /\ call'[d].digest \in Events'
                      /\ call'[d].digest.proposal = call'[d].proposal /\ call'[d].digest.by = call'[d].by
    BY DEF RecordedIsListed
  <2>1. CASE d = c
    BY <2>1, <1>3, <1>4, <1>7, <1>9
  <2>2. CASE d # c
    BY <2>2, <1>7, <1>9 DEF RecordedIsListed
  <2> QED BY <2>1, <2>2
<1>14. DigestIsOwn'
  <2>1. \A q : EventsOf(q) \subseteq EventsOf(q)'
    BY <1>9 DEF EventsOf
  <2> QED BY <2>1, <1>1 DEF DigestIsOwn
<1>15. EventIsAnswered'
  <2> SUFFICES ASSUME NEW q \in Proposal \ (raced \cup cut)
               PROVE  /\ \A f, g \in EventsOf(q)' : f = g
                      /\ \/ EventsOf(q)' = {} \/ row[q].status = "approved"
                         \/ \E d \in Deciding(q) : call'[d].step = "recorded"
    BY <1>1, <1>8 DEF EventIsAnswered
  <2>1. CASE q = p
    <3>1. c \in Deciding(p) /\ \A d \in Deciding(p) : d = c
      BY <2>1, <1>1, <1>2 DEF OneDecider, Deciding
    <3>2. row[p].status = "pending"
      BY <2>1, <1>1 DEF StillPending
    <3>3. EventsOf(p) = {}
      BY <3>1, <3>2, <2>1, <1>1 DEF EventIsAnswered
    <3> QED BY <3>1, <3>3, <2>1, <1>4, <1>7, <1>10
  <2>2. CASE q # p
    <3>1. \A d \in Deciding(q) : call'[d] = call[d]
      BY <2>2, <1>7 DEF Deciding
    <3> QED BY <3>1, <2>2, <1>10 DEF EventIsAnswered
  <2> QED BY <2>1, <2>2
<1>16. HeldIsLast'
  <2>1. LastBody(ledger') = LastBody(ledger)
    BY <1>3, <1>5, EventKeepsLastBody DEF TypeOK
  <2> SUFFICES ASSUME NEW d \in Call, call'[d].step = "body"
               PROVE  call'[d].body = LastBody(ledger) \/ call'[d].proposal \in overtaken
    BY <2>1, <1>1 DEF HeldIsLast
  <2> QED BY <1>4, <1>7 DEF HeldIsLast
<1>17. JudgedBodyIsLive'
  <2>1. CASE ledger' = ledger
    BY <2>1, <1>1, SameJudgments
  <2>2. CASE ledger' = Append(ledger, e)
    <3> SUFFICES ASSUME NEW i \in DOMAIN ledger', ledger'[i].kind = "event", ledger'[i].proposal \in Judgment
                 PROVE  \/ ledger'[i].body = LiveBody(SubSeq(ledger', 1, i - 1))
                        \/ ledger'[i].proposal \in overtaken
                        \/ ~InTimeOrder(SubSeq(ledger', 1, i - 1))
      BY <1>1 DEF JudgedBodyIsLive
    <3>1. CASE i \in 1 .. Len(ledger)
      <4>1. ledger'[i] = ledger[i] /\ SubSeq(ledger', 1, i - 1) = SubSeq(ledger, 1, i - 1)
        BY <2>2, <3>1, <1>3, AppendKeepsPast DEF TypeOK, Entry
      <4>2. i \in DOMAIN ledger
        BY <3>1 DEF TypeOK
      <4> QED BY <4>1, <4>2 DEF JudgedBodyIsLive
    <3>2. CASE i \notin 1 .. Len(ledger)
      <4>1. i = Len(ledger) + 1
        BY <2>2, <3>2, <1>3, AppendKeepsPast DEF TypeOK, Entry
      <4>2. ledger'[i] = e /\ SubSeq(ledger', 1, i - 1) = ledger
        BY <4>1, <2>2, <1>3, AppendKeepsPast DEF TypeOK, Entry
      <4>3. e.body = LastBody(ledger) \/ p \in overtaken
        BY <4>2, <1>1, <1>3 DEF HeldIsLast
      <4>4. InTimeOrder(ledger) => LiveBody(ledger) = LastBody(ledger)
        BY LastIsLive DEF TypeOK
      <4> QED BY <4>2, <4>3, <4>4, <1>3
    <3> QED BY <3>1, <3>2
  <2> QED BY <2>1, <2>2, <1>5
<1> QED BY <1>6, <1>11, <1>12, <1>13, <1>14, <1>15, <1>16, <1>17

\* The digest of nothing is no event.
LEMMA NoDigestIsNoEvent == \A e \in EventEntry : e # NoDigest
<1>1. NoDigest.kind = "none"
  BY DEF NoDigest
<1> QED BY <1>1 DEF EventEntry

\* The row is patched with the event's digest.
LEMMA ApproveStep ==
  ASSUME TwoKeyInv, NEW c \in Call, Approve(c) PROVE TwoKeyInv'
<1> USE DEF TwoKeyInv
<1> DEFINE p == call[c].proposal
           r == [status |-> "approved", by |-> call[c].by, digest |-> call[c].digest]
<1>1. /\ UNCHANGED <<ledger, clock, scan, raced, cut, overtaken>> /\ call[c].step = "recorded"
      /\ call' = [call EXCEPT ![c] = Idle] /\ row' = [row EXCEPT ![p] = r]
  BY DEF Approve, Stamp
<1>2. p \in Proposal /\ call[c] \in Recorded /\ call[c].by \in Approver
  BY <1>1, CallType
<1>3. /\ r \in RowOf /\ r.status = "approved" /\ r.digest \in EventsOf(p)
      /\ r.digest.by = r.by /\ r.digest # NoDigest
  <2>1. call[c].digest \in EventEntry
    BY <1>2 DEF Recorded
  <2>2. call[c].digest \in EventsOf(p) /\ call[c].digest.by = call[c].by
    BY <1>1 DEF RecordedIsListed, EventsOf
  <2> QED BY <1>2, <2>1, <2>2, NoDigestIsNoEvent DEF RowOf, Status
<1> HIDE DEF r
<1>4. row'[p] = r /\ \A q \in Proposal \ {p} : row'[q] = row[q]
  BY <1>1, <1>2 DEF TypeOK
<1>5. TypeOK'
  BY <1>1, <1>3 DEF TypeOK
<1>6. /\ call'[c].step = "idle" /\ \A d \in Call \ {c} : call'[d] = call[d]
      /\ \A q : Deciding(q)' = Deciding(q) \ {c}
      /\ c \in Deciding(p) /\ \A q : c \in Deciding(q) => q = p
  BY <1>1, EndCall
<1>7. \A q : EventsOf(q)' = EventsOf(q)
  BY <1>1 DEF EventsOf, Events
<1>8. OneDecider'
  BY <1>1, <1>6 DEF OneDecider
<1>9. StillPending'
  <2> SUFFICES ASSUME NEW d \in Call, call'[d].step # "idle"
               PROVE  /\ row'[call'[d].proposal] \in RowOf
                      /\ call'[d].proposal \notin raced => row'[call'[d].proposal].status = "pending"
    BY <1>1 DEF StillPending
  <2>1. d # c /\ call'[d] = call[d] /\ call[d].proposal \in Proposal
    BY <1>6, CallType
  <2>2. CASE call[d].proposal = p
    <3>1. p \in raced
      BY <2>1, <2>2, <1>2, <1>6 DEF OneDecider, Deciding
    <3> QED BY <3>1, <2>1, <2>2, <1>3, <1>4
  <2>3. CASE call[d].proposal # p
    BY <2>1, <2>3, <1>4 DEF StillPending
  <2> QED BY <2>2, <2>3
<1>10. RecordedIsListed'
  BY <1>1, <1>6 DEF RecordedIsListed, Events
<1>11. DigestIsOwn'
  <2> SUFFICES ASSUME NEW q \in Proposal, row'[q].status # "none"
               PROVE  /\ row'[q].digest = NoDigest \/ row'[q].digest \in EventsOf(q)
                      /\ row'[q].status = "approved" => row'[q].digest # NoDigest /\ row'[q].digest.by = row'[q].by
                      /\ row'[q].status # "approved" /\ q \notin raced => row'[q].digest = NoDigest
    BY <1>1, <1>7 DEF DigestIsOwn
  <2>1. CASE q = p
    BY <2>1, <1>3, <1>4
  <2>2. CASE q # p
    BY <2>2, <1>4 DEF DigestIsOwn
  <2> QED BY <2>1, <2>2
<1>12. EventIsAnswered'
  <2> SUFFICES ASSUME NEW q \in Proposal \ (raced \cup cut)
               PROVE  /\ \A e, f \in EventsOf(q) : e = f
                      /\ \/ EventsOf(q) = {} \/ row'[q].status = "approved"
                         \/ \E d \in Deciding(q)' : call'[d].step = "recorded"
    BY <1>1, <1>7 DEF EventIsAnswered
  <2>1. CASE q = p
    BY <2>1, <1>3, <1>4 DEF EventIsAnswered
  <2>2. CASE q # p
    <3>1. \A d \in Deciding(q) : d \in Deciding(q)' /\ call'[d] = call[d]
      BY <2>2, <1>6 DEF Deciding
    <3> QED BY <3>1, <2>2, <1>4 DEF EventIsAnswered
  <2> QED BY <2>1, <2>2
<1>13. HeldIsLast'
  BY <1>1, <1>6 DEF HeldIsLast
<1>14. JudgedBodyIsLive'
  BY <1>1, SameJudgments
<1> QED BY <1>5, <1>8, <1>9, <1>10, <1>11, <1>12, <1>13, <1>14

\* A call that fails leaves what it wrote.
LEMMA FailStep ==
  ASSUME TwoKeyInv, NEW c \in Call, Fail(c) PROVE TwoKeyInv'
<1> USE DEF TwoKeyInv
<1> DEFINE p == call[c].proposal
<1>1. UNCHANGED <<ledger, clock, row, scan, raced, overtaken>> /\ call[c].step # "idle"
  <2>1. call[c] # Idle
    BY DEF Fail
  <2> QED BY <2>1 DEF Fail, TypeOK, Idle, Reading, Recorded
<1>2. /\ call' = [call EXCEPT ![c] = Idle]
      /\ cut' = IF call[c].step = "recorded" THEN cut \cup {p} ELSE cut
  BY DEF Fail
<1>3. TypeOK'
  BY <1>1, <1>2 DEF TypeOK
<1>4. /\ call'[c].step = "idle" /\ \A d \in Call \ {c} : call'[d] = call[d]
      /\ \A q : Deciding(q)' = Deciding(q) \ {c}
      /\ c \in Deciding(p) /\ \A q : c \in Deciding(q) => q = p
  BY <1>1, <1>2, EndCall
<1>5. \A q : EventsOf(q)' = EventsOf(q)
  BY <1>1 DEF EventsOf, Events
<1>6. OneDecider'
  BY <1>1, <1>4 DEF OneDecider
<1>7. StillPending'
  BY <1>1, <1>4 DEF StillPending
<1>8. RecordedIsListed'
  BY <1>1, <1>4 DEF RecordedIsListed, Events
<1>9. DigestIsOwn'
  BY <1>1, <1>5 DEF DigestIsOwn
<1>10. EventIsAnswered'
  <2> SUFFICES ASSUME NEW q \in Proposal \ (raced \cup cut')
               PROVE  /\ \A e, f \in EventsOf(q) : e = f
                      /\ \/ EventsOf(q) = {} \/ row[q].status = "approved"
                         \/ \E d \in Deciding(q)' : call'[d].step = "recorded"
    BY <1>1, <1>5 DEF EventIsAnswered
  <2>1. q \notin cut /\ (q = p => call[c].step # "recorded")
    BY <1>2
  <2>2. \A d \in Deciding(q) : call[d].step = "recorded" => d \in Deciding(q)' /\ call'[d] = call[d]
    BY <2>1, <1>4 DEF Deciding
  <2> QED BY <2>1, <2>2 DEF EventIsAnswered
<1>11. HeldIsLast'
  BY <1>1, <1>4 DEF HeldIsLast
<1>12. JudgedBodyIsLive'
  BY <1>1, SameJudgments
<1> QED BY <1>3, <1>6, <1>7, <1>8, <1>9, <1>10, <1>11, <1>12

\* What neither writes nor decides preserves all of it.
LEMMA AsideStep ==
  ASSUME TwoKeyInv, UNCHANGED <<ledger, row, call, raced, cut, overtaken>>,
         clock' \in Nat, scan' \in [Scan -> {Off} \cup Scanning]
  PROVE  TwoKeyInv'
<1> USE DEF TwoKeyInv
<1>1. \A q : EventsOf(q)' = EventsOf(q) /\ Deciding(q)' = Deciding(q)
  BY DEF EventsOf, Events, Deciding
<1>2. TypeOK' /\ OneDecider' /\ StillPending' /\ DigestIsOwn' /\ EventIsAnswered'
  BY <1>1 DEF TypeOK, OneDecider, StillPending, DigestIsOwn, EventIsAnswered
<1>3. RecordedIsListed' /\ HeldIsLast'
  BY DEF RecordedIsListed, HeldIsLast, Events
<1>4. JudgedBodyIsLive'
  BY SameJudgments
<1> QED BY <1>2, <1>3, <1>4

\* A scan records another body beside the calls.
LEMMA RecordBodyStep ==
  ASSUME TwoKeyInv, NEW s \in Scan, RecordBody(s) PROVE TwoKeyInv'
<1> USE DEF TwoKeyInv
<1> DEFINE e == [kind |-> "body", body |-> scan[s].body, at |-> scan[s].at]
<1>1. /\ UNCHANGED <<clock, row, call, raced, cut>> /\ scan[s].step = "listed"
      /\ scan' = [scan EXCEPT ![s] = [step |-> "done"]]
  BY DEF RecordBody
<1>2. scan' \in [Scan -> {Off} \cup Scanning]
  BY <1>1 DEF TypeOK, Scanning
<1>3. CASE UNCHANGED <<ledger, overtaken>>
  BY <1>1, <1>2, <1>3, AsideStep DEF TypeOK
<1>4. CASE ~UNCHANGED <<ledger, overtaken>>
  <2>1. /\ Record(e)
        /\ overtaken' = overtaken \cup {call[c].proposal : c \in {d \in Call : call[d].step = "body"}}
    BY <1>4 DEF RecordBody
  <2>2. e \in BodyEntry /\ e.kind = "body"
    BY <1>1 DEF TypeOK, Off, Scanning, BodyEntry
  <2> HIDE DEF e
  <2>3. /\ ledger' \in Seq(Entry) /\ ToSet(ledger') = ToSet(ledger) \cup {e}
        /\ ledger' = ledger \/ ledger' = Append(ledger, e)
    BY <2>1, <2>2, RecordAdds DEF TypeOK, Entry
  <2>4. Events' = Events
    BY <2>2, <2>3 DEF Events
  <2>5. \A q : EventsOf(q)' = EventsOf(q) /\ Deciding(q)' = Deciding(q)
    BY <2>4, <1>1 DEF EventsOf, Deciding
  <2>6. TypeOK' /\ OneDecider' /\ StillPending' /\ DigestIsOwn' /\ EventIsAnswered'
    BY <2>3, <2>5, <1>1, <1>2 DEF TypeOK, OneDecider, StillPending, DigestIsOwn, EventIsAnswered
  <2>7. RecordedIsListed'
    BY <2>4, <1>1 DEF RecordedIsListed
  <2>8. HeldIsLast'
    <3> SUFFICES ASSUME NEW c \in Call, call[c].step = "body" PROVE call[c].proposal \in overtaken'
      BY <1>1 DEF HeldIsLast
    <3> QED BY <2>1
  <2>9. JudgedBodyIsLive'
    <3>1. CASE ledger' = ledger
      BY <3>1, <2>1, SameJudgments
    <3>2. CASE ledger' = Append(ledger, e)
      <4> SUFFICES ASSUME NEW i \in DOMAIN ledger', ledger'[i].kind = "event", ledger'[i].proposal \in Judgment
                   PROVE  \/ ledger'[i].body = LiveBody(SubSeq(ledger', 1, i - 1))
                          \/ ledger'[i].proposal \in overtaken'
                          \/ ~InTimeOrder(SubSeq(ledger', 1, i - 1))
        BY DEF JudgedBodyIsLive
      <4>1. i \in 1 .. Len(ledger) /\ ledger'[i] = ledger[i] /\ SubSeq(ledger', 1, i - 1) = SubSeq(ledger, 1, i - 1)
        BY <3>2, <2>2, AppendKeepsPast DEF TypeOK, Entry
      <4>2. i \in DOMAIN ledger /\ overtaken \subseteq overtaken'
        BY <4>1, <2>1 DEF TypeOK
      <4> QED BY <4>1, <4>2 DEF JudgedBodyIsLive
    <3> QED BY <3>1, <3>2, <2>3
  <2> QED BY <2>6, <2>7, <2>8, <2>9
<1> QED BY <1>3, <1>4

\* Every step keeps the invariant.
LEMMA StepInv == TwoKeyInv /\ [Next]_vars => TwoKeyInv'
<1> SUFFICES ASSUME TwoKeyInv, [Next]_vars PROVE TwoKeyInv'
  OBVIOUS
<1>1. ASSUME NEW p \in Proposal, Draft(p) PROVE TwoKeyInv'
  BY <1>1, DraftStep
<1>2. ASSUME NEW c \in Call, NEW p \in Proposal, NEW by \in Approver,
             NEW action \in {"approve", "reject"}, Decide(c, p, by, action)
      PROVE  TwoKeyInv'
  BY <1>2, DecideStep
<1>3. ASSUME NEW c \in Call, Reject(c) \/ ReadBody(c) \/ RecordEvent(c) \/ Approve(c) \/ Fail(c)
      PROVE  TwoKeyInv'
  BY <1>3, RejectStep, ReadBodyStep, RecordEventStep, ApproveStep, FailStep
<1>4. ASSUME NEW s \in Scan, NEW b \in Body, StartScan(s, b) PROVE TwoKeyInv'
  <2>1. scan' \in [Scan -> {Off} \cup Scanning]
    BY <1>4 DEF StartScan, TwoKeyInv, TypeOK, Scanning
  <2> QED BY <2>1, <1>4, AsideStep DEF StartScan, TwoKeyInv, TypeOK
<1>5. ASSUME NEW s \in Scan, ListBodies(s) PROVE TwoKeyInv'
  <2>1. scan[s] \in Scanning /\ LastBody(ledger) \in Body \cup {NoBody}
    BY <1>5, LastBodyType DEF ListBodies, TwoKeyInv, TypeOK, Off
  <2>2. scan' \in [Scan -> {Off} \cup Scanning]
    BY <2>1, <1>5 DEF ListBodies, TwoKeyInv, TypeOK, Scanning
  <2> QED BY <2>2, <1>5, AsideStep DEF ListBodies, TwoKeyInv, TypeOK
<1>6. ASSUME NEW s \in Scan, RecordBody(s) PROVE TwoKeyInv'
  BY <1>6, RecordBodyStep
<1>7. CASE Tick
  BY <1>7, AsideStep DEF Tick, TwoKeyInv, TypeOK
<1>8. CASE UNCHANGED vars
  BY <1>8, AsideStep DEF vars, TwoKeyInv, TypeOK
<1> QED BY <1>1, <1>2, <1>3, <1>4, <1>5, <1>6, <1>7, <1>8 DEF Next

-----------------------------------------------------------------------------
(* The theorems. *)

\* What the requests, the scans and the failures keep, step by step: the
\* typing of the ledger, the rows and the requests; that two requests on one
\* proposal are a race; and what an event, a row and a request under way then
\* say of each other.
THEOREM TwoKeyInductive == Spec => []TwoKeyInv
<1> QED BY InitInv, StepInv, PTL DEF Spec

\* Whatever fails or races, an approved row names an event in the ledger,
\* about its proposal and by the identity it gives; and an event's proposal is
\* approved, unless its request is at the patch, ended before it or raced.
THEOREM LedgerMeansApprovedHolds == Spec => []LedgerMeansApproved
<1>1. TwoKeyInv => LedgerMeansApproved
  <2> SUFFICES ASSUME TwoKeyInv PROVE LedgerMeansApproved
    OBVIOUS
  <2>1. ASSUME NEW p \in Proposal, row[p].status = "approved"
        PROVE  row[p].digest \in EventsOf(p) /\ row[p].digest.by = row[p].by
    BY <2>1 DEF TwoKeyInv, DigestIsOwn
  <2>2. ASSUME NEW e \in Events
        PROVE  \/ row[e.proposal].status = "approved"
               \/ \E c \in Deciding(e.proposal) : call[c].step = "recorded"
               \/ e.proposal \in raced \cup cut
    <3>1. e \in Entry /\ e.kind = "event"
      BY DEF Events, ToSet, TwoKeyInv, TypeOK
    <3>2. e.proposal \in Proposal
      BY <3>1 DEF Entry, EventEntry, BodyEntry
    <3>3. e \in EventsOf(e.proposal)
      BY DEF EventsOf
    <3> QED BY <3>2, <3>3 DEF TwoKeyInv, EventIsAnswered
  <2> QED BY <2>1, <2>2 DEF LedgerMeansApproved
<1> QED BY <1>1, TwoKeyInductive, PTL

\* A key turned once signs once, however many requests retry: a proposal has
\* two events only if requests raced for it or one ended before its patch.
THEOREM OneEventPerProposalHolds == Spec => []OneEventPerProposal
<1>1. TwoKeyInv => OneEventPerProposal
  <2> SUFFICES ASSUME TwoKeyInv, NEW p \in Proposal, p \notin raced \cup cut
               PROVE  Cardinality(EventsOf(p)) <= 1
    BY DEF OneEventPerProposal
  <2>1. CASE EventsOf(p) = {}
    BY <2>1, FS_EmptySet
  <2>2. CASE EventsOf(p) # {}
    <3>1. PICK e \in EventsOf(p) : TRUE
      BY <2>2
    <3>2. EventsOf(p) = {e}
      BY <3>1 DEF TwoKeyInv, EventIsAnswered
    <3>3. Cardinality({e}) = 1
      BY FS_Singleton
    <3> QED BY <3>2, <3>3
  <2> QED BY <2>1, <2>2
<1> QED BY <1>1, TwoKeyInductive, PTL

\* The scoping register has exactly one row without a problem for a drafted
\* proposal no two requests raced for, at every step of a decision and after
\* every failure.
THEOREM RegisterSaysOneThingHolds == Spec => []RegisterSaysOneThing
<1>1. TwoKeyInv => RegisterSaysOneThing
  <2> SUFFICES ASSUME TwoKeyInv, NEW p \in ScopeOut, row[p] # Undrafted, p \notin raced
               PROVE  Cardinality(CleanRows(p)) = 1
    BY DEF RegisterSaysOneThing
  <2>1. p \in Proposal /\ row[p] \in RowOf /\ row[p].status \in Status
    BY DEF ScopeOut, TwoKeyInv, TypeOK, RowOf
  <2>2. row[p].status # "none"
    BY <2>1 DEF Status
  <2>3. CleanEvents(p) = {e \in EventsOf(p) : row[p].digest = e}
    <3>1. ASSUME NEW e \in EventsOf(p), NEW q \in Matched(e) PROVE q = p
      <4>1. q \in Proposal /\ row[q] \in RowOf /\ row[q].digest = e
        BY <3>1 DEF Matched, TwoKeyInv, TypeOK
      <4>2. e \in EventEntry
        BY DEF EventsOf, Events, ToSet, TwoKeyInv, TypeOK, Entry, EventEntry, BodyEntry
      <4>3. row[q].status # "none" /\ e # NoDigest
        BY <4>1, <4>2, NoDigestIsNoEvent DEF RowOf, Status
      <4>4. e \in EventsOf(q)
        BY <4>1, <4>3 DEF TwoKeyInv, DigestIsOwn
      <4> QED BY <4>4 DEF EventsOf
    <3>2. \A e \in EventsOf(p) : Matched(e) # {} <=> row[p].digest = e
      BY <3>1, <2>1 DEF Matched
    <3> QED BY <3>2 DEF CleanEvents
  <2>4. CASE row[p].status = "approved"
    <3>1. row[p].digest \in EventsOf(p)
      BY <2>1, <2>4 DEF TwoKeyInv, DigestIsOwn
    <3>2. CleanEvents(p) = {row[p].digest}
      BY <2>3, <3>1
    <3>3. ~CleanProposal(p)
      BY <2>4 DEF CleanProposal
    <3>4. CleanRows(p) = {<<"approved", row[p].digest>>}
      BY <3>2, <3>3 DEF CleanRows
    <3> QED BY <3>4, FS_Singleton
  <2>5. CASE row[p].status # "approved"
    <3>1. row[p].digest = NoDigest
      BY <2>1, <2>2, <2>5 DEF TwoKeyInv, DigestIsOwn
    <3>2. \A e \in EventsOf(p) : e # NoDigest
      BY NoDigestIsNoEvent DEF EventsOf, Events, ToSet, TwoKeyInv, TypeOK, Entry, EventEntry, BodyEntry
    <3>3. CleanEvents(p) = {}
      BY <2>3, <3>1, <3>2
    <3>4. ~OnRecord(p) /\ CleanProposal(p)
      BY <2>1, <2>5 DEF OnRecord, CleanProposal, Status
    <3>5. CleanRows(p) = {<<"workflow", p>>}
      BY <3>3, <3>4 DEF CleanRows
    <3> QED BY <3>5, FS_Singleton
  <2> QED BY <2>4, <2>5
<1> QED BY <1>1, TwoKeyInductive, PTL

\* A recorded judgment names the body the fold counted as live, for any number
\* of scans writing the slot, unless one appended after the judgment had read
\* it or scans appended out of the order of their timestamps.
THEOREM JudgedBodyIsLiveHolds == Spec => []JudgedBodyIsLive
<1>1. TwoKeyInv => JudgedBodyIsLive
  BY DEF TwoKeyInv
<1> QED BY <1>1, TwoKeyInductive, PTL

-----------------------------------------------------------------------------
(* The mirror. *)

Lines == [id : Nat, parses : BOOLEAN]
ToldTo(from, to) == {file[i].id : i \in {l \in from .. to : file[l].parses}}

MirrorTypeOK ==
  /\ file \in Seq(Lines) /\ lines \in Seq(Lines) /\ rows \in Seq(Nat)
  /\ writing \in {"no", "event", "onto", "beat"} /\ written \in Nat
  /\ server \in {"down", "events", "status", "up"} /\ job \in {"idle", "wipe", "read", "fill"}
  /\ offset \in Nat
  /\ beatJob \in {"idle", "read", "replace"}
  /\ lost \subseteq {"gap", "refused", "regrown", "beat"}

\* Lines are numbered as they are written.
Numbered ==
  /\ \A i, j \in 1 .. Len(file) : i < j => file[i].id < file[j].id
  /\ \A i \in 1 .. Len(file) :
       file[i].id <= written /\ (writing \in {"event", "onto"} => file[i].id < written)

\* What each part of the start is waiting for.
Starting ==
  /\ server = "down" => job = "idle" /\ beatJob = "idle"
  /\ server = "events" => job # "idle"
  /\ server = "status" => beatJob # "idle"
  /\ beatJob = "read" => server = "status"

\* The tail stands at a line of this file unless the file was replaced, and is
\* at its end unless it was told of a change or missed one.
Standing ==
  /\ server \in {"status", "up"} /\ job = "wipe" => replaced /\ offset > 0
  /\ server # "down" /\ job \in {"idle", "fill"} =>
       /\ ~replaced => offset <= Len(file)
       /\ replaced => offset > 0
       /\ heard \/ lost \cap {"gap", "refused", "regrown"} # {} \/ (offset = Len(file) /\ ~replaced)

\* The lines left are the last ones before the offset, and the rows are those
\* before them that parse, from the backfill's first on.
Mirrored(from) ==
  /\ Len(lines) <= offset
  /\ \A i \in 1 .. Len(lines) : lines[i] = file[offset - Len(lines) + i]
  /\ from = 1 \/ from <= offset - TailLimit + 1
  /\ from <= offset - Len(lines) + 1
  /\ ToSet(rows) = ToldTo(from, offset - Len(lines))
  /\ \A i, j \in 1 .. Len(rows) : i < j => rows[i] < rows[j]

Tailing ==
  /\ job = "read" => rows = <<>>
  /\ server # "down" /\ job \in {"idle", "fill"} =>
       /\ job = "idle" => lines = <<>>
       /\ replaced \/ lost \cap {"refused", "regrown"} # {} \/ \E from \in Nat \ {0} : Mirrored(from)

\* The heartbeat read is the one on disk unless a change was heard or missed.
Beating ==
  server \in {"status", "up"} /\ ~beatHeard /\ "beat" \notin lost =>
    /\ beatJob = "replace" => beatRead = beat
    /\ beatJob = "idle" => beat = Torn \/ beatRow = beat

Inv == MirrorTypeOK /\ Numbered /\ Starting /\ Standing /\ Tailing /\ Beating

-----------------------------------------------------------------------------
(* The tail. *)

\* What the tail holds of the file it still holds when the file grows.
LEMMA MirroredStays ==
  ASSUME MirrorTypeOK, file' \in Seq(Lines), NEW from \in Nat \ {0}, Mirrored(from),
         offset <= Len(file), offset <= Len(file'), \A i \in 1 .. offset : file'[i] = file[i],
         UNCHANGED <<offset, lines, rows>>
  PROVE  Mirrored(from)'
<1>1. offset \in Nat /\ Len(lines) \in Nat /\ Len(lines) <= offset
  BY DEF MirrorTypeOK, Mirrored
<1>2. ASSUME NEW i \in 1 .. Len(lines)
      PROVE  lines[i] = file'[offset - Len(lines) + i]
  <2>1. lines[i] = file[offset - Len(lines) + i]
    BY DEF Mirrored
  <2>2. offset - Len(lines) + i \in 1 .. offset
    BY <1>1
  <2> QED BY <2>1, <2>2
<1>3. ToldTo(from, offset - Len(lines)) = {file'[i].id : i \in {l \in from .. offset - Len(lines) : file'[l].parses}}
  <2>1. \A i \in from .. offset - Len(lines) : i \in 1 .. offset
    BY <1>1
  <2> QED BY <2>1 DEF ToldTo
<1>4. ToldTo(from, offset - Len(lines))' = ToldTo(from, offset - Len(lines))
  BY <1>3 DEF ToldTo
<1> QED BY <1>2, <1>4 DEF Mirrored

\* The lines of the file carry their numbers.
LEMMA LinesAreNumbered ==
  ASSUME MirrorTypeOK
  PROVE  \A i \in 1 .. Len(file) : file[i] \in Lines /\ file[i].id \in Nat
<1>1. \A i \in 1 .. Len(file) : file[i] \in Lines
  BY DEF MirrorTypeOK
<1> QED BY <1>1 DEF Lines

\* The daemon writes its file.
LEMMA FileInv ==
  ASSUME Inv, BeginEvent \/ EndEvent \/ Rotate
  PROVE  Inv'
<1>0. UNCHANGED <<server, offset, rows, job, lines, beatRow, beatJob, beatRead, beatHeard, beat>> /\ EventsChange
  BY DEF BeginEvent, EndEvent, Rotate, EventsChange, tailVars, beatVars
<1>6. file \in Seq(Lines) /\ Len(file) \in Nat /\ offset \in Nat /\ Len(lines) \in Nat /\ written \in Nat
  BY DEF Inv, MirrorTypeOK
\* What becomes of the file, and of the number the next line will have.
<1>5. /\ file' \in Seq(Lines) /\ Len(file') \in Nat /\ written' \in Nat /\ written <= written'
      /\ writing' \in {"no", "event", "onto"}
      /\ \/ file' = file /\ replaced' = replaced /\ written < written'
         \/ /\ replaced' = replaced /\ Len(file') = Len(file) + 1 /\ file'[Len(file) + 1].id = written
            /\ \A i \in 1 .. Len(file) : file'[i] = file[i]
            /\ writing \in {"event", "onto"} /\ writing' = "no"
         \/ Len(file') = 0 /\ (replaced' <=> offset > 0)
  <2>1. CASE BeginEvent
    BY <2>1, <1>6 DEF BeginEvent, Inv, MirrorTypeOK
  <2>2. CASE EndEvent
    <3> DEFINE e == [id |-> written, parses |-> writing = "event"]
    <3>1. e \in Lines /\ e.id = written
      BY <1>6, Zenon DEF Lines
    <3>2. /\ file' = Append(file, e) /\ written' = written /\ remains' = FALSE /\ replaced' = replaced
          /\ writing \in {"event", "onto"} /\ writing' = "no"
      BY <2>2 DEF EndEvent
    <3> HIDE DEF e
    <3>3. /\ file' \in Seq(Lines) /\ Len(file') = Len(file) + 1 /\ file'[Len(file) + 1] = e
          /\ \A i \in 1 .. Len(file) : file'[i] = file[i]
      BY <3>1, <3>2, <1>6
    <3> QED BY <3>1, <3>2, <3>3, <1>6 DEF Inv, MirrorTypeOK
  <2>3. CASE Rotate
    <3>1. file' = <<>> /\ written' = written /\ writing' = "no" /\ remains' = FALSE
      BY <2>3 DEF Rotate
    <3>2. replaced' <=> offset > 0
      <4>1. replaced' = (offset > 0)
        BY <2>3 DEF Rotate
      <4> QED BY <4>1, Zenon
    <3>3. file' \in Seq(Lines) /\ Len(file') = 0
      BY <3>1
    <3> QED BY <3>1, <3>2, <3>3, <1>6
  <2> QED BY <2>1, <2>2, <2>3
<1>4. /\ lost \subseteq lost' /\ ("beat" \in lost' => "beat" \in lost)
      /\ ("refused" \in lost' => "refused" \in lost) /\ ("regrown" \in lost' => "regrown" \in lost)
      /\ lost' \subseteq lost \cup {"gap"}
  BY <1>0 DEF EventsChange
<1>1. MirrorTypeOK'
  BY <1>0, <1>4, <1>5 DEF Inv, MirrorTypeOK
<1>2. Numbered'
  <2>1. /\ \A i, j \in 1 .. Len(file) : i < j => file[i].id < file[j].id
        /\ \A i \in 1 .. Len(file) : file[i].id \in Nat
        /\ \A i \in 1 .. Len(file) : file[i].id <= written /\ (writing \in {"event", "onto"} => file[i].id < written)
    BY LinesAreNumbered DEF Inv, Numbered
  <2>2. CASE file' = file /\ written < written'
    BY <2>1, <2>2, <1>5, <1>6 DEF Numbered
  <2>3. CASE /\ Len(file') = Len(file) + 1 /\ file'[Len(file) + 1].id = written
             /\ \A i \in 1 .. Len(file) : file'[i] = file[i]
             /\ writing \in {"event", "onto"} /\ writing' = "no"
    <3>1. ASSUME NEW i \in 1 .. Len(file'), NEW j \in 1 .. Len(file'), i < j PROVE file'[i].id < file'[j].id
      <4>1. i \in 1 .. Len(file) /\ file'[i] = file[i]
        BY <3>1, <2>3, <1>6
      <4>2. j \in 1 .. Len(file) \/ j = Len(file) + 1
        BY <3>1, <2>3, <1>6
      <4> QED BY <4>1, <4>2, <3>1, <2>1, <2>3
    <3>2. ASSUME NEW i \in 1 .. Len(file') PROVE file'[i].id <= written'
      <4>2. i \in 1 .. Len(file) \/ i = Len(file) + 1
        BY <2>3, <1>6
      <4> QED BY <4>2, <2>1, <2>3, <1>5, <1>6
    <3> QED BY <2>3, <3>1, <3>2 DEF Numbered
  <2>4. CASE Len(file') = 0
    BY <2>4 DEF Numbered
  <2> QED BY <2>2, <2>3, <2>4, <1>5
<1>3. Starting'
  BY <1>0 DEF Inv, Starting
<1>7. Standing'
  <2>1. server \in {"status", "up"} /\ job = "wipe" => replaced' /\ offset > 0
    BY <1>5, <1>6 DEF Inv, Standing
  <2>2. ASSUME server # "down", job \in {"idle", "fill"}
        PROVE  /\ ~replaced' => offset <= Len(file')
               /\ replaced' => offset > 0
               /\ heard' \/ lost' \cap {"gap", "refused", "regrown"} # {}
    <3>1. server \in {"status", "up"} \/ (server = "events" /\ job = "fill")
      BY <2>2 DEF Inv, MirrorTypeOK, Starting
    <3>2. heard' \/ "gap" \in lost'
      <4>1. heard' = (heard \/ server \in {"status", "up"})
        BY <1>0 DEF EventsChange
      <4>2. CASE server \in {"status", "up"}
        BY <4>1, <4>2, Zenon
      <4>3. CASE server = "events" /\ job = "fill"
        BY <4>3, <1>0 DEF EventsChange
      <4> QED BY <4>2, <4>3, <3>1
    <3>3. (~replaced => offset <= Len(file)) /\ (replaced => offset > 0)
      BY <2>2 DEF Inv, Standing
    <3> QED BY <3>2, <3>3, <1>5, <1>6
  <2> QED BY <2>1, <2>2, <1>0 DEF Standing
<1>8. Tailing'
  <2> SUFFICES ASSUME server # "down", job \in {"idle", "fill"}, ~replaced', lost' \cap {"refused", "regrown"} = {}
               PROVE  \E from \in Nat \ {0} : Mirrored(from)'
    BY <1>0 DEF Inv, Tailing
  <2>1. CASE ~replaced
    <3>1. PICK from \in Nat \ {0} : Mirrored(from)
      BY <2>1, <1>4 DEF Inv, Tailing
    <3>2. offset <= Len(file)
      BY <2>1 DEF Inv, Standing
    <3>3. offset <= Len(file') /\ \A i \in 1 .. offset : file'[i] = file[i]
      BY <3>2, <1>5, <1>6
    <3>4. Mirrored(from)'
      BY <3>1, <3>2, <3>3, <1>0, <1>5, MirroredStays DEF Inv
    <3> QED BY <3>4
  <2>2. CASE replaced
    BY <2>2, <1>5, <1>6 DEF Inv, Standing
  <2> QED BY <2>1, <2>2
<1>9. Beating'
  BY <1>0, <1>4 DEF Inv, Beating
<1> QED BY <1>1, <1>2, <1>3, <1>7, <1>8, <1>9 DEF Inv

\* What changes nothing the tail looks at.
LEMMA TailStays ==
  ASSUME Inv, UNCHANGED <<file, server, offset, rows, job, lines, heard, replaced>>,
         lost \cap {"gap", "refused", "regrown"} = lost' \cap {"gap", "refused", "regrown"}
  PROVE  Standing' /\ Tailing'
<1>1. Standing'
  BY DEF Inv, Standing
<1>2. \A from : Mirrored(from)' <=> Mirrored(from)
  BY DEF Mirrored, ToldTo
<1>3. lost \cap {"refused", "regrown"} = lost' \cap {"refused", "regrown"}
  OBVIOUS
<1>4. Tailing'
  BY <1>2, <1>3 DEF Inv, Tailing
<1> QED BY <1>1, <1>4

\* The daemon writes its status, and stops.
LEMMA BeatInv ==
  ASSUME Inv, BeginBeat \/ EndBeat \/ RemoveStatus \/ DaemonDies
  PROVE  Inv'
<1> USE DEF BeginBeat, EndBeat, RemoveStatus, DaemonDies, BeatChanges, tailVars, beatVars, bounds
<1>0. UNCHANGED <<file, server, offset, rows, job, lines, heard, replaced, beatRow, beatJob, beatRead>>
  OBVIOUS
<1>1. MirrorTypeOK'
  <2>2. lost' = lost \/ lost' = lost \cup {"beat"}
    BY Zenon
  <2>3. written' \in Nat /\ writing' \in {"no", "beat"}
    BY DEF Inv, MirrorTypeOK
  <2> QED BY <1>0, <2>2, <2>3 DEF Inv, MirrorTypeOK
<1>2. Numbered' /\ Starting'
  <2>1. /\ writing' \in {"no", "beat"} /\ written' \in Nat /\ written <= written' /\ written \in Nat
    BY DEF Inv, MirrorTypeOK
  <2>2. \A i \in 1 .. Len(file) : file[i].id \in Nat
    BY LinesAreNumbered DEF Inv
  <2> QED BY <1>0, <2>1, <2>2 DEF Inv, Numbered, Starting
<1>3. lost \cap {"gap", "refused", "regrown"} = lost' \cap {"gap", "refused", "regrown"}
  OBVIOUS
<1>4. Standing' /\ Tailing'
  BY <1>0, <1>3, TailStays
<1>5. Beating'
  BY DEF Inv, Beating, Starting, MirrorTypeOK
<1> QED BY <1>1, <1>2, <1>4, <1>5 DEF Inv

\* Whoever stops or starts has nothing of the tail to keep.
LEMMA ServerInv ==
  ASSUME Inv, StartServer \/ StopServer
  PROVE  Inv'
<1> USE DEF StartServer, StopServer, Stopped, fileVars, beatVars, bounds
<1>1. MirrorTypeOK'
  <2>1. /\ lines' \in Seq(Lines) /\ offset' \in Nat /\ lost' \subseteq {"gap", "refused", "regrown", "beat"}
        /\ server' \in {"down", "events"} /\ job' \in {"idle", "wipe"} /\ beatJob' \in {"idle", "read", "replace"}
    <3>1. CASE StartServer
      BY <3>1 DEF Inv, MirrorTypeOK
    <3>2. CASE StopServer
      <4>1. lines' = <<>> /\ offset' = offset /\ lost' = lost /\ server' = "down" /\ job' = "idle" /\ beatJob' = "idle"
        BY <3>2
      <4>2. lines' \in Seq(Lines)
        BY <4>1
      <4> QED BY <4>1, <4>2 DEF Inv, MirrorTypeOK
    <3> QED BY <3>1, <3>2
  <2> QED BY <2>1 DEF Inv, MirrorTypeOK
<1>2. server' = "down" \/ (server' = "events" /\ job' = "wipe" /\ beatJob' # "read")
  BY DEF Inv, MirrorTypeOK, Starting
<1>3. Numbered'
  BY DEF Inv, Numbered
<1>4. Starting' /\ Standing' /\ Tailing' /\ Beating'
  BY <1>2 DEF Inv, Starting, Standing, Tailing, Beating
<1> QED BY <1>1, <1>3, <1>4 DEF Inv

\* The tail alone: the files and the snapshot stay.
LEMMA OthersStay ==
  ASSUME Inv, UNCHANGED <<file, beat, writing, written, beatRow, beatRead, beatHeard>>,
         UNCHANGED <<server, beatJob>>,
         "beat" \in lost => "beat" \in lost'
  PROVE  Numbered' /\ Beating'
BY DEF Inv, Numbered, Beating

\* The tail of the file is read into the mirror.
LEMMA IngestInv ==
  ASSUME Inv, IngestNew
  PROVE  Inv'
<1>0. /\ server \in {"status", "up"} /\ job = "idle" /\ heard
      /\ UNCHANGED <<file, remains, beat, writing, written, server, rows, beatRow, beatJob, beatRead, beatHeard, replaced>>
  BY DEF IngestNew, fileVars, beatVars
<1>1. file \in Seq(Lines) /\ Len(file) \in Nat /\ offset \in Nat
  BY DEF Inv, MirrorTypeOK
<1>2. CASE Len(file) < offset
  <2>1. job' = "wipe" /\ UNCHANGED <<offset, lines, lost>>
    BY <1>2 DEF IngestNew
  <2>2. MirrorTypeOK' /\ Starting'
    BY <1>0, <2>1 DEF Inv, MirrorTypeOK, Starting
  <2>3. replaced /\ offset > 0
    BY <1>0, <1>1, <1>2 DEF Inv, Standing
  <2>4. Standing' /\ Tailing'
    BY <1>0, <2>1, <2>3 DEF Standing, Tailing
  <2> QED BY <1>0, <2>1, <2>2, <2>4, OthersStay DEF Inv
<1>3. CASE ~(Len(file) < offset)
  <2>1. /\ lines' = SubSeq(file, offset + 1, Len(file)) /\ offset' = Len(file) /\ job' = "fill"
        /\ lost' = (lost \ {"gap"}) \cup (IF replaced THEN {"regrown"} ELSE {})
    BY <1>3 DEF IngestNew, Complete
  <2>2. lines' \in Seq(Lines) /\ Len(lines') = Len(file) - offset /\ \A i \in 1 .. Len(lines') : lines'[i] = file[offset + i]
    BY <2>1, <1>1, <1>3
  <2>3. MirrorTypeOK' /\ Starting'
    BY <1>0, <2>1, <2>2 DEF Inv, MirrorTypeOK, Starting
  <2>4. Standing'
    <3>1. replaced => offset > 0
      BY <1>0 DEF Inv, Standing
    <3>2. replaced => "regrown" \in lost'
      BY <2>1
    <3>3. \/ heard' \/ lost' \cap {"gap", "refused", "regrown"} # {} \/ (offset' = Len(file) /\ ~replaced)
      BY <2>1, <3>2
    <3>4. (~replaced => offset' <= Len(file)) /\ (replaced => offset' > 0)
      BY <2>1, <3>1, <1>1, <1>3
    <3> QED BY <1>0, <2>1, <3>3, <3>4 DEF Standing
  <2>5. Tailing'
    <3> SUFFICES ASSUME ~replaced, lost' \cap {"refused", "regrown"} = {}
                 PROVE  \E from \in Nat \ {0} : Mirrored(from)'
      BY <1>0, <2>1 DEF Tailing
    <3>1. PICK from \in Nat \ {0} : Mirrored(from)
      BY <1>0, <2>1 DEF Inv, Tailing
    <3>2. lines = <<>>
      BY <1>0 DEF Inv, Tailing
    <3>3. /\ ToSet(rows) = ToldTo(from, offset) /\ from <= offset + 1
          /\ from = 1 \/ from <= offset - TailLimit + 1
          /\ \A i, j \in 1 .. Len(rows) : i < j => rows[i] < rows[j]
      BY <3>1, <3>2, <1>1 DEF Mirrored
    <3>4. offset' - Len(lines') = offset /\ offset' \in Nat /\ Len(lines') \in Nat
      BY <2>1, <2>2, <1>1
    <3>5. from = 1 \/ from <= offset' - TailLimit + 1
      BY <3>3, <2>1, <1>1, <1>3, MirrorAssumption
    <3>6. Mirrored(from)'
      <4>1. ToldTo(from, offset) = {file'[i].id : i \in {l \in from .. offset' - Len(lines') : file'[l].parses}}
        BY <1>0, <3>4 DEF ToldTo
      <4>2. Len(lines') <= offset' /\ from <= offset' - Len(lines') + 1 /\ rows' = rows
        BY <2>2, <3>3, <3>4, <1>0, <1>1, <1>3
      <4>3. \A i \in 1 .. Len(lines') : lines'[i] = file'[offset' - Len(lines') + i]
        BY <2>2, <3>4, <1>0
      <4> QED BY <3>3, <3>5, <4>1, <4>2, <4>3 DEF Mirrored, ToldTo
    <3> QED BY <3>6
  <2>6. "beat" \in lost => "beat" \in lost'
    BY <2>1
  <2> QED BY <1>0, <2>3, <2>4, <2>5, <2>6, OthersStay DEF Inv
<1> QED BY <1>2, <1>3

\* The mirror is wiped.
LEMMA WipeInv ==
  ASSUME Inv, Wipe
  PROVE  Inv'
<1>0. /\ job = "wipe" /\ job' = "read" /\ rows' = <<>> /\ offset' = 0
      /\ UNCHANGED <<file, remains, beat, writing, written, server, lines, heard, beatRow, beatJob, beatRead, beatHeard, replaced, lost>>
  BY DEF Wipe, fileVars, beatVars
<1>1. MirrorTypeOK' /\ Starting' /\ Standing' /\ Tailing'
  BY <1>0 DEF Inv, MirrorTypeOK, Starting, Standing, Tailing
<1> QED BY <1>0, <1>1, OthersStay DEF Inv

\* The files are read from their start.
LEMMA BackfillInv ==
  ASSUME Inv, Backfill
  PROVE  Inv'
<1>0. /\ job = "read" /\ job' = "fill" /\ offset' = Len(file) /\ lines' = Newest(file)
      /\ replaced' = FALSE /\ lost' = lost \cap {"beat"}
      /\ UNCHANGED <<file, remains, beat, writing, written, server, rows, heard, beatRow, beatJob, beatRead, beatHeard>>
  BY DEF Backfill, fileVars, beatVars, Complete
<1>1. file \in Seq(Lines) /\ Len(file) \in Nat /\ TailLimit \in Nat
  BY MirrorAssumption DEF Inv, MirrorTypeOK
<1>2. /\ lines' \in Seq(Lines) /\ Len(lines') \in Nat /\ Len(lines') <= Len(file)
      /\ \A i \in 1 .. Len(lines') : lines'[i] = file[Len(file) - Len(lines') + i]
      /\ Len(lines') = Len(file) \/ Len(lines') = TailLimit
  <2>1. CASE Len(file) <= TailLimit
    BY <1>0, <1>1, <2>1 DEF Newest
  <2>2. CASE ~(Len(file) <= TailLimit)
    <3>1. lines' = SubSeq(file, Len(file) - TailLimit + 1, Len(file))
      BY <1>0, <2>2 DEF Newest
    <3> QED BY <1>1, <2>2, <3>1
  <2> QED BY <2>1, <2>2
<1>3. MirrorTypeOK' /\ Starting'
  BY <1>0, <1>1, <1>2 DEF Inv, MirrorTypeOK, Starting
<1>4. Tailing'
  <2>0. PICK from \in Nat \ {0} : from = Len(file) - Len(lines') + 1
    <3>1. Len(file) - Len(lines') + 1 \in Nat \ {0}
      BY <1>1, <1>2
    <3> QED BY <3>1
  <2>1. rows' = <<>>
    BY <1>0 DEF Inv, Tailing
  <2>2. (from = 1 \/ from <= offset' - TailLimit + 1) /\ offset' - Len(lines') = from - 1
    BY <2>0, <1>0, <1>1, <1>2
  <2>3. \A i \in 1 .. Len(lines') : lines'[i] = file'[offset' - Len(lines') + i]
    BY <1>0, <1>2
  <2>4. ToSet(rows') = {} /\ {file'[i].id : i \in {l \in from .. from - 1 : file'[l].parses}} = {}
    <3>1. from .. from - 1 = {}
      OBVIOUS
    <3> QED BY <2>1, <3>1 DEF ToSet
  <2>5. from <= offset' - Len(lines') + 1 /\ Len(lines') <= offset'
    BY <2>2, <1>0, <1>1, <1>2
  <2>6. Mirrored(from)'
    BY <2>1, <2>2, <2>3, <2>4, <2>5 DEF Mirrored, ToldTo
  <2> QED BY <2>6, <1>0 DEF Tailing
<1>5. Standing'
  <2>1. ~replaced'
    BY <1>0
  <2>2. server \in {"status", "up"} => heard \/ offset' = Len(file)
    BY <1>0
  <2> QED BY <2>1, <1>0, <1>1 DEF Standing
<1>6. "beat" \in lost => "beat" \in lost'
  BY <1>0
<1> QED BY <1>0, <1>3, <1>4, <1>5, <1>6, OthersStay DEF Inv

\* The next line becomes a row if it parses: its number is above every row's.
LEMMA InsertMirrored ==
  ASSUME Inv, NEW from \in Nat \ {0}, Mirrored(from), offset <= Len(file), lines # <<>>,
         rows' = IF Head(lines).parses THEN Append(rows, Head(lines).id) ELSE rows,
         lines' = Tail(lines), UNCHANGED <<file, offset>>
  PROVE  Mirrored(from)' /\ rows' \in Seq(Nat) /\ lines' \in Seq(Lines)
<1> DEFINE next == offset - Len(lines) + 1
<1>0. /\ file \in Seq(Lines) /\ lines \in Seq(Lines) /\ rows \in Seq(Nat)
      /\ Len(file) \in Nat /\ Len(lines) \in Nat \ {0} /\ offset \in Nat /\ Len(lines) <= offset
  BY DEF Inv, MirrorTypeOK, Mirrored
<1>1. next \in 1 .. Len(file) /\ Head(lines) = file[next] /\ file[next] \in Lines /\ file[next].id \in Nat
  <2>1. next \in 1 .. Len(file)
    BY <1>0
  <2>2. Head(lines) = file[next]
    <3>1. Head(lines) = lines[1] /\ 1 \in 1 .. Len(lines)
      BY <1>0
    <3> QED BY <3>1 DEF Mirrored
  <2> QED BY <2>1, <2>2, LinesAreNumbered DEF Inv
<1>2. /\ lines' \in Seq(Lines) /\ Len(lines') = Len(lines) - 1 /\ \A i \in 1 .. Len(lines') : lines'[i] = lines[i + 1]
  BY <1>0
<1>3. offset - Len(lines') = next /\ from <= next
  BY <1>0, <1>2 DEF Mirrored
<1>4. \A i \in 1 .. Len(lines') : lines'[i] = file[offset - Len(lines') + i]
  <2> SUFFICES ASSUME NEW i \in 1 .. Len(lines') PROVE lines'[i] = file[offset - Len(lines') + i]
    OBVIOUS
  <2>1. lines'[i] = lines[i + 1] /\ i + 1 \in 1 .. Len(lines)
    BY <1>0, <1>2
  <2>2. lines[i + 1] = file[offset - Len(lines) + (i + 1)]
    BY <2>1 DEF Mirrored
  <2>3. offset - Len(lines) + (i + 1) = offset - Len(lines') + i
    <3>1. offset \in Nat /\ Len(lines) \in Nat /\ Len(lines') = Len(lines) - 1 /\ i \in 1 .. Len(lines')
      BY <1>0, <1>2
    <3> QED BY ONLY <3>1
  <2> QED BY <2>1, <2>2, <2>3
<1>5. ToSet(rows) = ToldTo(from, next - 1) /\ \A i, j \in 1 .. Len(rows) : i < j => rows[i] < rows[j]
  BY <1>0 DEF Mirrored
<1> HIDE DEF next
<1>6. \A i \in 1 .. Len(rows) : rows[i] \in Nat /\ rows[i] < file[next].id
  <2>0. \A i \in 1 .. Len(rows) : rows[i] \in Nat
    <3>1. rows \in Seq(Nat)
      BY <1>0
    <3> QED BY ONLY <3>1
  <2> SUFFICES ASSUME NEW i \in 1 .. Len(rows) PROVE rows[i] < file[next].id
    BY <2>0
  <2>1. rows[i] \in ToSet(rows)
    BY <1>0 DEF ToSet
  <2>2. PICK k \in from .. next - 1 : rows[i] = file[k].id
    BY <2>1, <1>5 DEF ToldTo
  <2>3. k \in 1 .. Len(file) /\ k < next
    <3>1. from \in Nat \ {0} /\ Len(file) \in Nat /\ next \in 1 .. Len(file) /\ k \in from .. next - 1
      BY <1>0, <1>1
    <3> QED BY ONLY <3>1
  <2> QED BY <2>2, <2>3, <1>1 DEF Inv, Numbered
<1>7. CASE file[next].parses
  <2>1. rows' = Append(rows, file[next].id)
    BY <1>1, <1>7
  <2>2. /\ rows' \in Seq(Nat) /\ Len(rows') = Len(rows) + 1 /\ rows'[Len(rows) + 1] = file[next].id
        /\ \A i \in 1 .. Len(rows) : rows'[i] = rows[i]
    BY <2>1, <1>0, <1>1
  <2>3. \A i, j \in 1 .. Len(rows') : i < j => rows'[i] < rows'[j]
    <3> SUFFICES ASSUME NEW i \in 1 .. Len(rows'), NEW j \in 1 .. Len(rows'), i < j PROVE rows'[i] < rows'[j]
      OBVIOUS
    <3>1. Len(rows') = Len(rows) + 1 /\ Len(rows) \in Nat
      BY <2>2, <1>0
    <3>2. i \in 1 .. Len(rows) /\ (j \in 1 .. Len(rows) \/ j = Len(rows) + 1)
      BY <3>1
    <3> QED BY <3>2, <2>2, <1>5, <1>6
  <2>4. ToSet(rows') = ToSet(rows) \cup {file[next].id}
    <3>1. DOMAIN rows' = (1 .. Len(rows)) \cup {Len(rows) + 1} /\ DOMAIN rows = 1 .. Len(rows)
      BY <2>2, <1>0
    <3> QED BY <3>1, <2>2 DEF ToSet
  <2>5. from .. next = (from .. next - 1) \cup {next}
    BY <1>1, <1>3
  <2>6. ToldTo(from, next) = ToldTo(from, next - 1) \cup {file[next].id}
    BY <2>5, <1>7 DEF ToldTo
  <2>7. ToSet(rows') = {file'[i].id : i \in {l \in from .. offset - Len(lines') : file'[l].parses}}
    <3>1. {file'[i].id : i \in {l \in from .. offset - Len(lines') : file'[l].parses}} = ToldTo(from, next)
      BY <1>3 DEF ToldTo
    <3> QED BY <3>1, <2>4, <2>6, <1>5
  <2>8. Len(lines') <= offset /\ from <= offset - Len(lines') + 1 /\ (from = 1 \/ from <= offset - TailLimit + 1)
    BY <1>0, <1>1, <1>2, <1>3 DEF Mirrored
  <2> QED BY <2>2, <2>3, <2>7, <2>8, <1>2, <1>4 DEF Mirrored, ToldTo
<1>8. CASE ~file[next].parses
  <2>1. rows' = rows
    BY <1>1, <1>8
  <2>5. from .. next = (from .. next - 1) \cup {next}
    BY <1>1, <1>3
  <2>6. ToldTo(from, next) = ToldTo(from, next - 1)
    BY <2>5, <1>8 DEF ToldTo
  <2>7. ToSet(rows') = {file'[i].id : i \in {l \in from .. offset - Len(lines') : file'[l].parses}}
    <3>1. {file'[i].id : i \in {l \in from .. offset - Len(lines') : file'[l].parses}} = ToldTo(from, next)
      BY <1>3 DEF ToldTo
    <3> QED BY <3>1, <2>1, <2>6, <1>5
  <2>8. Len(lines') <= offset /\ from <= offset - Len(lines') + 1 /\ (from = 1 \/ from <= offset - TailLimit + 1)
    BY <1>0, <1>1, <1>2, <1>3 DEF Mirrored
  <2> QED BY <2>1, <2>7, <2>8, <1>0, <1>2, <1>4, <1>5 DEF Mirrored, ToldTo
<1> QED BY <1>7, <1>8

\* A row read from the file is inserted.
LEMMA InsertInv ==
  ASSUME Inv, Insert
  PROVE  Inv'
<1>0. /\ job = "fill"
      /\ UNCHANGED <<file, remains, beat, writing, written, offset, heard, beatRow, beatRead, beatHeard, replaced, lost>>
  BY DEF Insert, fileVars
<1>1. Numbered'
  BY <1>0 DEF Inv, Numbered
<1>2. CASE lines # <<>>
  <2>1. /\ rows' = IF Head(lines).parses THEN Append(rows, Head(lines).id) ELSE rows
        /\ lines' = Tail(lines) /\ UNCHANGED <<server, job, beatJob>>
    BY <1>2 DEF Insert
  <2>2. rows' \in Seq(Nat) /\ lines' \in Seq(Lines)
    <3>1. lines \in Seq(Lines) /\ lines # <<>> /\ rows \in Seq(Nat)
      BY <1>2 DEF Inv, MirrorTypeOK
    <3>2. Head(lines) \in Lines /\ Tail(lines) \in Seq(Lines)
      BY <3>1
    <3>3. Head(lines).id \in Nat
      BY <3>2 DEF Lines
    <3> QED BY <2>1, <3>1, <3>2, <3>3
  <2>3. MirrorTypeOK' /\ Starting' /\ Standing'
    BY <1>0, <2>1, <2>2 DEF Inv, MirrorTypeOK, Starting, Standing
  <2>4. Tailing'
    <3> SUFFICES ASSUME server # "down", ~replaced, lost \cap {"refused", "regrown"} = {}
                 PROVE  \E from \in Nat \ {0} : Mirrored(from)'
      BY <1>0, <2>1 DEF Tailing
    <3>1. PICK from \in Nat \ {0} : Mirrored(from)
      BY <1>0 DEF Inv, Tailing
    <3>2. offset <= Len(file)
      BY <1>0 DEF Inv, Standing
    <3>3. Mirrored(from)'
      BY <3>1, <3>2, <2>1, <1>0, <1>2, InsertMirrored
    <3> QED BY <3>3
  <2>5. Beating'
    BY <1>0, <2>1 DEF Inv, Beating
  <2> QED BY <1>1, <2>3, <2>4, <2>5 DEF Inv
<1>3. CASE lines = <<>>
  <2>1. /\ job' = "idle" /\ UNCHANGED <<rows, lines>>
        /\ IF server = "events" THEN server' = "status" /\ beatJob' = "read" ELSE UNCHANGED <<server, beatJob>>
    BY <1>3 DEF Insert
  <2>2. MirrorTypeOK' /\ Starting'
    BY <1>0, <2>1 DEF Inv, MirrorTypeOK, Starting
  <2>3. Standing' /\ Tailing'
    <3>1. server' # "down" => server # "down"
      BY <2>1
    <3>2. \A from : Mirrored(from)' <=> Mirrored(from)
      BY <1>0, <2>1 DEF Mirrored, ToldTo
    <3>3. Standing'
      BY <1>0, <2>1, <3>1 DEF Inv, Standing
    <3>4. Tailing'
      BY <1>0, <1>3, <2>1, <3>1, <3>2 DEF Inv, Tailing
    <3> QED BY <3>3, <3>4
  <2>4. Beating'
    BY <1>0, <2>1 DEF Inv, Beating
  <2> QED BY <1>1, <2>2, <2>3, <2>4 DEF Inv
<1> QED BY <1>2, <1>3

\* A start that fails ends the server; a chain that fails leaves its mark.
LEMMA RefuseInv ==
  ASSUME Inv, RefuseEvents \/ RefuseBeat
  PROVE  Inv'
<1>1. CASE server' = "down"
  <2>1. /\ job' = "idle" /\ lines' = <<>> /\ beatJob' = "idle" /\ lost' = lost
        /\ UNCHANGED <<file, beat, writing, written, offset, rows, replaced>>
    <3>1. \E why, starting : Refused(why, starting) /\ server # "down"
      BY DEF RefuseEvents, RefuseBeat, Inv, Starting
    <3> QED BY <1>1, <3>1 DEF Refused, Stopped, fileVars
  <2> QED BY <1>1, <2>1 DEF Inv, MirrorTypeOK, Numbered, Starting, Standing, Tailing, Beating
<1>2. CASE server' # "down" /\ RefuseEvents
  <2>1. /\ job' = "idle" /\ lines' = <<>> /\ lost' = lost \cup {"refused"} /\ job \in {"wipe", "fill"}
        /\ UNCHANGED <<server, heard, beatHeard, beatJob, file, beat, writing, written, offset, rows, beatRow, beatRead, replaced>>
        /\ server # "events"
    <3>1. Refused("refused", "events") /\ beatRow' = beatRow /\ job \in {"wipe", "fill"}
      BY <1>2 DEF RefuseEvents
    <3>2. server # "events"
      BY <1>2, <3>1 DEF Refused, Stopped
    <3> QED BY <3>1, <3>2 DEF Refused, fileVars
  <2>2. MirrorTypeOK' /\ Numbered' /\ Starting'
    BY <2>1 DEF Inv, MirrorTypeOK, Numbered, Starting
  <2>3. Tailing' /\ Beating'
    BY <2>1 DEF Inv, Tailing, Beating
  <2>4. Standing'
    <3>1. server \in {"status", "up"} /\ "refused" \in lost'
      BY <1>2, <2>1 DEF Inv, MirrorTypeOK
    <3>2. (~replaced => offset <= Len(file)) /\ (replaced => offset > 0)
      BY <2>1, <3>1 DEF Inv, Standing
    <3>3. lost' \cap {"gap", "refused", "regrown"} # {}
      BY <3>1
    <3> QED BY <2>1, <3>2, <3>3 DEF Standing
  <2> QED BY <2>2, <2>3, <2>4 DEF Inv
<1>3. CASE server' # "down" /\ RefuseBeat
  <2>1. /\ beatJob' = "idle" /\ lost' = lost \cup {"beat"} /\ server # "status"
        /\ UNCHANGED <<server, heard, beatHeard, file, beat, writing, written, offset, rows, job, lines, replaced>>
    BY <1>3 DEF RefuseBeat, Refused, Stopped, fileVars
  <2>2. MirrorTypeOK' /\ Numbered' /\ Starting' /\ Beating'
    BY <2>1 DEF Inv, MirrorTypeOK, Numbered, Starting, Beating
  <2>3. lost \cap {"gap", "refused", "regrown"} = lost' \cap {"gap", "refused", "regrown"}
    BY <2>1
  <2> QED BY <2>1, <2>2, <2>3, TailStays DEF Inv
<1> QED BY <1>1, <1>2, <1>3

-----------------------------------------------------------------------------
(* The snapshot. *)

\* The status is projected.
LEMMA SnapshotInv ==
  ASSUME Inv, Refresh \/ Replace
  PROVE  Inv'
<1>0. UNCHANGED <<file, beat, writing, written, offset, rows, job, lines, heard, replaced>>
  BY DEF Refresh, Replace, fileVars, tailVars
<1>1. MirrorTypeOK' /\ Numbered'
  BY <1>0 DEF Refresh, Replace, Started, Inv, MirrorTypeOK, Numbered
<1>2. Starting' /\ Beating'
  <2>1. CASE Refresh
    BY <2>1, <1>0 DEF Refresh, Started, Inv, MirrorTypeOK, Starting, Beating
  <2>2. CASE Replace
    BY <2>2, <1>0 DEF Replace, Started, Inv, MirrorTypeOK, Starting, Beating
  <2> QED BY <2>1, <2>2
<1>3. Standing' /\ Tailing'
  <2>1. server' = server \/ (server = "status" /\ server' = "up")
    BY DEF Refresh, Replace, Started
  <2>2. lost \cap {"gap", "refused", "regrown"} = lost' \cap {"gap", "refused", "regrown"}
    BY DEF Refresh, Replace
  <2>3. lost \cap {"refused", "regrown"} = lost' \cap {"refused", "regrown"}
    BY <2>2
  <2>4. \A from : Mirrored(from)' <=> Mirrored(from)
    BY <1>0 DEF Mirrored, ToldTo
  <2>5. Standing'
    BY <1>0, <2>1, <2>2 DEF Inv, Standing
  <2>6. Tailing'
    BY <1>0, <2>1, <2>3, <2>4 DEF Inv, Tailing
  <2> QED BY <2>5, <2>6
<1> QED BY <1>1, <1>2, <1>3 DEF Inv

-----------------------------------------------------------------------------
(* What the mirror promises. *)

\* It holds of empty files and an empty mirror.
LEMMA MirrorInitInv == MirrorInit => Inv
<1> SUFFICES ASSUME MirrorInit PROVE Inv
  OBVIOUS
<1>1. MirrorTypeOK
  <2>1. file \in Seq(Lines) /\ lines \in Seq(Lines) /\ rows \in Seq(Nat)
    BY DEF MirrorInit
  <2> QED BY <2>1 DEF MirrorInit, MirrorTypeOK
<1>2. Numbered /\ Starting /\ Standing /\ Tailing /\ Beating
  BY DEF MirrorInit, Numbered, Starting, Standing, Tailing, Beating
<1> QED BY <1>1, <1>2 DEF Inv

\* Every step keeps the invariant.
LEMMA MirrorStepInv == Inv /\ [MirrorNext]_mirrorVars => Inv'
<1> SUFFICES ASSUME Inv, [MirrorNext]_mirrorVars PROVE Inv'
  OBVIOUS
<1>1. CASE UNCHANGED mirrorVars
  <2> USE <1>1 DEF mirrorVars, fileVars, tailVars, beatVars, bounds
  <2>1. MirrorTypeOK' /\ Numbered' /\ Starting' /\ Beating'
    BY DEF Inv, MirrorTypeOK, Numbered, Starting, Beating
  <2>2. Standing' /\ Tailing'
    BY TailStays
  <2> QED BY <2>1, <2>2 DEF Inv
<1>2. CASE MirrorNext
  BY <1>2, FileInv, BeatInv, ServerInv, IngestInv, WipeInv, BackfillInv, InsertInv, RefuseInv, SnapshotInv DEF MirrorNext
<1> QED BY <1>1, <1>2

\* The inductive invariant: the lines still to insert are the last before the
\* offset, the rows those before them that parse, back to the first line the
\* backfill took; the tail is at the end of this very file unless it was told
\* of a change or the history says what it missed; and the heartbeat read is
\* the one on disk unless a change was heard or missed.
THEOREM MirrorInductive == MirrorSpec => []Inv
BY MirrorInitInv, MirrorStepInv, PTL DEF MirrorSpec

\* When nothing is scheduled or under way the mirror is the file (events.ts):
\* the rows are its newest readable lines, each once and in order, none of a
\* file that was rotated away, and the heartbeat is the one on disk; for any
\* number of lines and any limit, whichever way writes, deaths, rotations,
\* starts and refusals interleave with the tail.
THEOREM MirrorIsTheFileHolds == MirrorSpec => []MirrorIsTheFile
<1>1. Inv => MirrorIsTheFile
  <2> SUFFICES ASSUME Inv PROVE MirrorIsTheFile
    OBVIOUS
  <2>1. ASSUME server = "up", job = "idle", ~heard, lost \subseteq {"beat"}
        PROVE  /\ \A i, j \in DOMAIN rows : i < j => rows[i] < rows[j]
               /\ \E from \in 1 .. Len(file) + 1 :
                    (from = 1 \/ from <= Len(file) - TailLimit + 1) /\ ToSet(rows) = Told(from)
    <3>1. offset = Len(file) /\ ~replaced /\ Len(file) \in Nat
      BY <2>1 DEF Inv, MirrorTypeOK, Standing
    <3>2. PICK from \in Nat \ {0} : Mirrored(from)
      BY <2>1, <3>1 DEF Inv, Tailing
    <3>3. lines = <<>> /\ rows \in Seq(Nat)
      BY <2>1 DEF Inv, MirrorTypeOK, Tailing
    <3>4. /\ from = 1 \/ from <= Len(file) - TailLimit + 1
          /\ from <= Len(file) + 1 /\ ToSet(rows) = ToldTo(from, Len(file))
          /\ \A i, j \in 1 .. Len(rows) : i < j => rows[i] < rows[j]
      BY <3>1, <3>2, <3>3 DEF Mirrored
    <3>5. Told(from) = ToldTo(from, Len(file)) /\ from \in 1 .. Len(file) + 1
      BY <3>1, <3>4 DEF Told, ToldTo
    <3>6. DOMAIN rows = 1 .. Len(rows)
      BY <3>3
    <3>7. \A i, j \in DOMAIN rows : i < j => rows[i] < rows[j]
      BY <3>4, <3>6
    <3>8. (from = 1 \/ from <= Len(file) - TailLimit + 1) /\ ToSet(rows) = Told(from)
      BY <3>4, <3>5
    <3> QED BY <3>5, <3>7, <3>8
  <2>2. ASSUME server = "up", beatJob = "idle", ~beatHeard, "beat" \notin lost
        PROVE  beat = Torn \/ beatRow = beat
    BY <2>2 DEF Inv, Beating
  <2> QED BY <2>1, <2>2 DEF MirrorIsTheFile
<1> QED BY <1>1, MirrorInductive, PTL

-----------------------------------------------------------------------------
(* The projection loop of serve. *)

\* The collections are three, and distinct.
LEMMA CollectionsAre ==
  /\ DOMAIN Collections = 1..3 /\ Len(Collections) = 3
  /\ \A i \in 1..3 : Collections[i] \in Collection
  /\ \A c \in Collection : \E i \in 1..3 : c = Collections[i]
  /\ \A i, j \in 1..3 : Collections[i] = Collections[j] => i = j
BY DEF Collections, Collection

\* What one pass over the collections does to the place of its loop.
LEMMA AdvanceSplit ==
  ASSUME ServeTypeOK, NEW r \in Run, NEW next \in Steps, Advance(r, next)
  PROVE  /\ pos' \in [Run -> DOMAIN Collections]
         /\ step' \in [Run -> Steps]
         /\ \/ /\ pos[r] < 3 /\ pos'[r] = pos[r] + 1 /\ step' = step
            \/ /\ pos[r] = 3 /\ pos'[r] = 1 /\ step' = [step EXCEPT ![r] = next]
<1>1. pos[r] \in 1..3 /\ Len(Collections) = 3 /\ DOMAIN Collections = 1..3
  BY CollectionsAre DEF ServeTypeOK
<1>2. CASE pos[r] < 3
  <2>1. pos' = [pos EXCEPT ![r] = pos[r] + 1] /\ step' = step
    BY <1>1, <1>2 DEF Advance
  <2>2. pos[r] + 1 \in 1..3
    BY <1>1, <1>2
  <2> QED BY <2>1, <2>2, <1>1, <1>2 DEF ServeTypeOK
<1>3. CASE pos[r] = 3
  <2>1. pos' = [pos EXCEPT ![r] = 1] /\ step' = [step EXCEPT ![r] = next]
    BY <1>1, <1>3 DEF Advance
  <2> QED BY <2>1, <1>1, <1>3 DEF ServeTypeOK
<1> QED BY <1>1, <1>2, <1>3

-----------------------------------------------------------------------------
\* Every step keeps the shape of the variables.
LEMMA TypeStep == ServeTypeOK /\ [ServeNext]_serveVars => ServeTypeOK'
<1> SUFFICES ASSUME ServeTypeOK, [ServeNext]_serveVars PROVE ServeTypeOK'
  OBVIOUS
<1> USE DEF ServeTypeOK
<1>a. 1 \in DOMAIN Collections
  BY CollectionsAre
<1>1. CASE AppendStatement
  BY <1>1 DEF AppendStatement, Unwatched, flags, loop, serveBounds
<1>2. CASE Watch
  BY <1>2 DEF Watch, flags, loop, serveBounds
<1>3. CASE Notice
  BY <1>3 DEF Notice, flags, loop, serveBounds
<1>0. ASSUME Exit, lapsed' \in BOOLEAN, starts' \in Nat, failures' \in Nat
      PROVE  ServeTypeOK'
  <2>1. step' \in [Run -> Steps] /\ pos' \in [Run -> DOMAIN Collections]
    BY <1>0, <1>a DEF Exit, Steps
  <2>2. entries' \in [Run -> Nat] /\ folded' \in [Run -> Nat]
    BY <1>0 DEF Exit
  <2> QED BY <1>0, <2>1, <2>2 DEF Exit
<1>4. CASE FailMirrors
  BY <1>0, <1>4 DEF FailMirrors
<1>5. CASE Shutdown
  BY <1>0, <1>5 DEF Shutdown, serveBounds
<1>6. ASSUME NEW r \in Run, Start(r) PROVE ServeTypeOK'
  <2>1. step' \in [Run -> Steps] /\ projecting' \in BOOLEAN /\ dirty' \in BOOLEAN
    BY <1>6 DEF Start, Enter, Steps
  <2>2. phase' = "startup" /\ starts' \in Nat /\ failures' \in Nat
    BY <1>6 DEF Start
  <2>3. UNCHANGED <<listed, pb, pos, entries, folded, watching, notice, timer, lapsed>>
    BY <1>6 DEF Start, events
  <2> QED BY <2>1, <2>2, <2>3
<1>7. ASSUME NEW r \in Run, List(r) PROVE ServeTypeOK'
  BY <1>7 DEF List, flags, events, serveBounds, Steps
<1>8. ASSUME NEW r \in Run, Fold(r) PROVE ServeTypeOK'
  BY <1>8, <1>a DEF Fold, flags, events, serveBounds, Steps
<1>9. ASSUME NEW r \in Run, Truncate(r) PROVE ServeTypeOK'
  <2>1. "fill" \in Steps
    BY DEF Steps
  <2>2. /\ pos' \in [Run -> DOMAIN Collections] /\ step' \in [Run -> Steps]
    BY <2>1, <1>9, AdvanceSplit DEF Truncate
  <2> QED BY <2>2, <1>9 DEF Truncate, flags, events, serveBounds
<1>10. ASSUME NEW r \in Run, Fill(r) PROVE ServeTypeOK'
  <2>1. "loop" \in Steps
    BY DEF Steps
  <2>2. /\ pos' \in [Run -> DOMAIN Collections] /\ step' \in [Run -> Steps]
    BY <2>1, <1>10, AdvanceSplit DEF Fill
  <2>3. \A c \in Collection : Rows(r, c) \in Nat
    BY DEF Rows
  <2> QED BY <2>2, <2>3, <1>10 DEF Fill, flags, events, serveBounds
<1>11. ASSUME NEW r \in Run, Loop(r) PROVE ServeTypeOK'
  BY <1>11 DEF Loop, Again, events, serveBounds, Steps
<1>12. ASSUME NEW r \in Run, Fire(r) PROVE ServeTypeOK'
  BY <1>12 DEF Fire, Enter, LeaveMark, serveBounds, Steps
<1>13. ASSUME NEW r \in Run, FailProjection(r) PROVE ServeTypeOK'
  <2>1. CASE phase = "startup"
    BY <2>1, <1>0, <1>13 DEF FailProjection
  <2>2. CASE phase # "startup"
    <3>1. step' = [step EXCEPT ![r] = "off"] /\ projecting' = FALSE
      BY <2>2, <1>13 DEF FailProjection
    <3>2. step' \in [Run -> Steps]
      BY <3>1 DEF Steps
    <3>3. lapsed' = TRUE /\ starts' \in Nat /\ failures' \in Nat
      BY <1>13 DEF FailProjection
    <3>4. UNCHANGED <<listed, pb, phase, dirty, pos, entries, folded, watching, notice, timer>>
      BY <2>2, <1>13 DEF FailProjection, events
    <3> QED BY <3>1, <3>2, <3>3, <3>4
  <2> QED BY <2>1, <2>2
<1>14. CASE UNCHANGED serveVars
  BY <1>14 DEF serveVars, flags, loop, events, serveBounds
<1> QED
  BY <1>1, <1>2, <1>3, <1>4, <1>5, <1>6, <1>7, <1>8, <1>9, <1>10, <1>11, <1>12,
     <1>13, <1>14 DEF ServeNext
-----------------------------------------------------------------------------
\* No two loops run, whatever order calls, failures and restarts come in.
LEMMA OneLoopStep == ServeTypeOK /\ OneLoop /\ [ServeNext]_serveVars => OneLoop'
<1> SUFFICES ASSUME ServeTypeOK, OneLoop, [ServeNext]_serveVars PROVE OneLoop'
  OBVIOUS
<1>0. /\ step \in [Run -> Steps]
      /\ projecting \in BOOLEAN /\ dirty \in BOOLEAN /\ lapsed \in BOOLEAN
  BY DEF ServeTypeOK
<1>1. CASE AppendStatement
  BY <1>1 DEF AppendStatement, flags, loop, OneLoop
<1>2. CASE Watch
  BY <1>2 DEF Watch, flags, loop, OneLoop
<1>3. CASE Notice
  BY <1>3 DEF Notice, flags, loop, OneLoop
<1>4. ASSUME Exit PROVE OneLoop'
  BY <1>4 DEF Exit, OneLoop
<1>5. CASE FailMirrors \/ Shutdown
  BY <1>4, <1>5 DEF FailMirrors, Shutdown
<1>6. ASSUME NEW r \in Run, Enter(r) PROVE OneLoop'
  BY <1>0, <1>6 DEF Enter, OneLoop
<1>7. ASSUME NEW r \in Run, Start(r) PROVE OneLoop'
  BY <1>6, <1>7 DEF Start
<1>8. ASSUME NEW r \in Run, step[r] # "off", UNCHANGED projecting,
             NEW next \in Steps \ {"off"},
             \/ UNCHANGED step \/ step' = [step EXCEPT ![r] = next]
      PROVE  /\ projecting' <=> \E q \in Run : step'[q] # "off"
             /\ \A p, q \in Run : step'[p] # "off" /\ step'[q] # "off" => p = q
             /\ projecting'
  BY <1>0, <1>8 DEF OneLoop
<1>9. ASSUME NEW r \in Run, List(r) \/ Fold(r) PROVE OneLoop'
  <2>1. {"fold", "empty"} \subseteq Steps \ {"off"}
    BY DEF Steps
  <2>2. CASE List(r)
    BY <2>1, <2>2, <1>8 DEF List, flags, OneLoop
  <2>3. CASE Fold(r)
    BY <2>1, <2>3, <1>8 DEF Fold, flags, OneLoop
  <2> QED BY <2>2, <2>3, <1>9
<1>10. ASSUME NEW r \in Run, Truncate(r) \/ Fill(r) PROVE OneLoop'
  <2>1. {"fill", "loop"} \subseteq Steps \ {"off"}
    BY DEF Steps
  <2>2. CASE Truncate(r)
    <3>1. UNCHANGED step \/ step' = [step EXCEPT ![r] = "fill"]
      BY <2>1, <2>2, AdvanceSplit DEF Truncate
    <3> QED BY <2>1, <2>2, <3>1, <1>8 DEF Truncate, flags, OneLoop
  <2>3. CASE Fill(r)
    <3>1. UNCHANGED step \/ step' = [step EXCEPT ![r] = "loop"]
      BY <2>1, <2>3, AdvanceSplit DEF Fill
    <3> QED BY <2>1, <2>3, <3>1, <1>8 DEF Fill, flags, OneLoop
  <2> QED BY <2>2, <2>3, <1>10
<1>11. ASSUME NEW r \in Run, Loop(r) PROVE OneLoop'
  <2>1. CASE dirty
    <3>1. "list" \in Steps \ {"off"}
      BY DEF Steps
    <3> QED BY <2>1, <3>1, <1>8, <1>11 DEF Loop, Again, OneLoop
  <2>2. CASE ~dirty
    BY <1>0, <2>2, <1>11 DEF Loop, Again, OneLoop
  <2> QED BY <2>1, <2>2
<1>12. ASSUME NEW r \in Run, Fire(r) PROVE OneLoop'
  <2>1. CASE LeaveMark
    BY <2>1, <1>12 DEF Fire, LeaveMark, OneLoop
  <2> QED BY <2>1, <1>6, <1>12 DEF Fire
<1>13. ASSUME NEW r \in Run, FailProjection(r) PROVE OneLoop'
  <2>1. CASE phase = "startup"
    BY <2>1, <1>4, <1>13 DEF FailProjection
  <2>2. CASE phase # "startup"
    BY <1>0, <2>2, <1>13 DEF FailProjection, OneLoop
  <2> QED BY <2>1, <2>2
<1>14. CASE UNCHANGED serveVars
  BY <1>14 DEF serveVars, flags, loop, OneLoop
<1> QED
  BY <1>1, <1>2, <1>3, <1>5, <1>7, <1>9, <1>10, <1>11, <1>12, <1>13, <1>14 DEF ServeNext

-----------------------------------------------------------------------------
\* The one loop empties every collection before it fills any, and fills each
\* from what it read: the database follows its place.
LEMMA ProgressStep ==
  ServeTypeOK /\ OneLoop /\ Progress /\ NeverMixed /\ [ServeNext]_serveVars
    => Progress' /\ NeverMixed'
<1> SUFFICES ASSUME ServeTypeOK, OneLoop, Progress, NeverMixed, [ServeNext]_serveVars
             PROVE  Progress' /\ NeverMixed'
  OBVIOUS
<1>0. /\ step \in [Run -> Steps] /\ pos \in [Run -> 1..3]
      /\ pb \in [Collection -> SUBSET Nat]
      /\ entries \in [Run -> Nat] /\ folded \in [Run -> Nat]
  BY CollectionsAre DEF ServeTypeOK
\* Steps that only stop loops, or take one to where it claims nothing.
<1>1. ASSUME UNCHANGED pb,
             \A q \in Run : \/ step'[q] \in {"off", "list", "fold"}
                             \/ /\ step'[q] = step[q] /\ pos'[q] = pos[q]
                                /\ entries'[q] = entries[q] /\ folded'[q] = folded[q]
      PROVE  Progress' /\ NeverMixed'
  BY <1>1 DEF Progress, NeverMixed, Rows
<1>2. CASE AppendStatement \/ Watch \/ Notice
  BY <1>1, <1>2 DEF AppendStatement, Watch, Notice, loop
<1>3. ASSUME Exit PROVE Progress' /\ NeverMixed'
  BY <1>1, <1>3 DEF Exit
<1>4. CASE FailMirrors \/ Shutdown
  BY <1>3, <1>4 DEF FailMirrors, Shutdown
<1>5. ASSUME NEW r \in Run, Start(r) PROVE Progress' /\ NeverMixed'
  BY <1>0, <1>1, <1>5 DEF Start, Enter
<1>6. ASSUME NEW r \in Run, List(r) PROVE Progress' /\ NeverMixed'
  BY <1>0, <1>1, <1>6 DEF List
<1>7. ASSUME NEW r \in Run, Fire(r) PROVE Progress' /\ NeverMixed'
  BY <1>0, <1>1, <1>7 DEF Fire, Enter, LeaveMark
<1>8. ASSUME NEW r \in Run, FailProjection(r) PROVE Progress' /\ NeverMixed'
  <2>1. CASE phase = "startup"
    BY <2>1, <1>3, <1>8 DEF FailProjection
  <2>2. CASE phase # "startup"
    BY <2>2, <1>0, <1>1, <1>8 DEF FailProjection
  <2> QED BY <2>1, <2>2
<1>9. ASSUME NEW r \in Run, Loop(r) PROVE Progress' /\ NeverMixed'
  BY <1>0, <1>1, <1>9 DEF Loop, Again
<1>10. ASSUME NEW r \in Run, Fold(r) PROVE Progress' /\ NeverMixed'
  <2>1. \A q \in Run : q # r => step'[q] = "off"
    BY <1>0, <1>10 DEF Fold, OneLoop
  <2>2. step'[r] = "empty" /\ pos'[r] = 1 /\ UNCHANGED pb
    BY <1>0, <1>10 DEF Fold
  <2> QED BY <2>1, <2>2, CollectionsAre DEF Progress, NeverMixed
<1>11. ASSUME NEW r \in Run, Truncate(r) PROVE Progress' /\ NeverMixed'
  <2>1. step[r] = "empty" /\ pb' = [pb EXCEPT ![Collections[pos[r]]] = {}]
    BY <1>11 DEF Truncate
  <2>2. \A i \in 1..3 : pb'[Collections[i]] = IF i = pos[r] THEN {} ELSE pb[Collections[i]]
    BY <1>0, <2>1, CollectionsAre
  <2>3. NeverMixed'
    <3>1. \A c \in Collection : pb'[c] = {} \/ pb'[c] = pb[c]
      BY <1>0, <2>1
    <3> QED BY <3>1, FS_EmptySet DEF NeverMixed
  <2>4. "fill" \in Steps
    BY DEF Steps
  <2>5. \/ /\ pos[r] < 3 /\ pos'[r] = pos[r] + 1 /\ step' = step
        \/ /\ pos[r] = 3 /\ pos'[r] = 1 /\ step' = [step EXCEPT ![r] = "fill"]
    BY <2>4, <1>11, AdvanceSplit DEF Truncate
  <2>6. \A q \in Run : q # r => step'[q] = "off"
    BY <1>0, <2>1, <2>5 DEF OneLoop
  <2>7. Progress'
    <3>1. \A i \in 1..3 : i < pos[r] => pb[Collections[i]] = {}
      BY <2>1, CollectionsAre DEF Progress
    <3>2. CASE step' = step /\ pos'[r] = pos[r] + 1
      <4>1. \A i \in 1..3 : i < pos'[r] => pb'[Collections[i]] = {}
        BY <1>0, <3>1, <3>2, <2>2
      <4> QED BY <2>1, <3>2, <2>6, <4>1, CollectionsAre DEF Progress
    <3>3. CASE pos[r] = 3 /\ pos'[r] = 1 /\ step' = [step EXCEPT ![r] = "fill"]
      <4>1. \A i \in 1..3 : pb'[Collections[i]] = {}
        BY <3>1, <3>3, <2>2
      <4>2. step'[r] = "fill"
        BY <1>0, <3>3
      <4> QED BY <3>3, <4>2, <2>6, <4>1, CollectionsAre DEF Progress
    <3> QED BY <2>5, <3>2, <3>3
  <2> QED BY <2>3, <2>7
<1>12. ASSUME NEW r \in Run, Fill(r) PROVE Progress' /\ NeverMixed'
  <2> DEFINE c == Collections[pos[r]]
  <2>1. /\ step[r] = "fill" /\ pb' = [pb EXCEPT ![c] = pb[c] \cup {Rows(r, c)}]
        /\ UNCHANGED <<entries, folded>>
    BY <1>12 DEF Fill
  <2>2. c \in Collection /\ pos[r] \in 1..3 /\ pb[c] = {}
    BY <1>0, <2>1, CollectionsAre DEF Progress
  <2>3. \A i \in 1..3 : pb'[Collections[i]] = IF i = pos[r] THEN {Rows(r, c)} ELSE pb[Collections[i]]
    BY <1>0, <2>1, <2>2, CollectionsAre
  <2>4. NeverMixed'
    <3>1. \A d \in Collection : pb'[d] = {Rows(r, c)} \/ pb'[d] = pb[d]
      BY <1>0, <2>1, <2>2
    <3>2. Cardinality({Rows(r, c)}) = 1
      BY FS_Singleton
    <3> QED BY <3>1, <3>2 DEF NeverMixed
  <2>5. "loop" \in Steps
    BY DEF Steps
  <2>6. \/ /\ pos[r] < 3 /\ pos'[r] = pos[r] + 1 /\ step' = step
        \/ /\ pos[r] = 3 /\ pos'[r] = 1 /\ step' = [step EXCEPT ![r] = "loop"]
    BY <2>5, <1>12, AdvanceSplit DEF Fill
  <2>7. \A q \in Run : q # r => step'[q] = "off"
    BY <1>0, <2>1, <2>6 DEF OneLoop
  <2>8. \A i \in 1..3 : Rows(r, Collections[i])' = Rows(r, Collections[i])
    BY <2>1 DEF Rows
  <2>9. Progress'
    <3>1. \A i \in 1..3 : /\ i < pos[r] => pb[Collections[i]] = {Rows(r, Collections[i])}
                          /\ i >= pos[r] => pb[Collections[i]] = {}
      BY <2>1, CollectionsAre DEF Progress
    <3>2. CASE step' = step /\ pos'[r] = pos[r] + 1
      <4>1. \A i \in 1..3 :
              /\ i < pos'[r] => pb'[Collections[i]] = {Rows(r, Collections[i])}
              /\ i >= pos'[r] => pb'[Collections[i]] = {}
        BY <2>2, <3>1, <3>2, <2>3
      <4> QED BY <2>1, <3>2, <2>7, <2>8, <4>1, CollectionsAre DEF Progress
    <3>3. CASE pos[r] = 3 /\ step' = [step EXCEPT ![r] = "loop"]
      <4>1. \A i \in 1..3 : pb'[Collections[i]] = {Rows(r, Collections[i])}
        BY <3>1, <3>3, <2>3
      <4>2. step'[r] = "loop"
        BY <1>0, <3>3
      <4> QED BY <4>2, <2>7, <2>8, <4>1, CollectionsAre DEF Progress
    <3> QED BY <2>6, <3>2, <3>3
  <2> QED BY <2>4, <2>9
<1>13. CASE UNCHANGED serveVars
  BY <1>1, <1>13 DEF serveVars, loop
<1> QED
  BY <1>2, <1>4, <1>5, <1>6, <1>7, <1>8, <1>9, <1>10, <1>11, <1>12, <1>13 DEF ServeNext
-----------------------------------------------------------------------------
\* An append the running or last loop has not read leaves something owed.
LEMMA CurrentStep ==
  ServeInv /\ [ServeNext]_serveVars => ReadIsCurrent' /\ (phase = "serving" => watching)'
<1> SUFFICES ASSUME ServeInv, [ServeNext]_serveVars
             PROVE  ReadIsCurrent' /\ (phase = "serving" => watching)'
  OBVIOUS
<1> USE DEF ReadIsCurrent, Owed, Shows
<1>0. /\ ServeTypeOK /\ OneLoop /\ Progress /\ ReadIsCurrent
      /\ phase = "serving" => watching
      /\ step \in [Run -> Steps]
      /\ entries \in [Run -> Nat] /\ folded \in [Run -> Nat]
      /\ projecting \in BOOLEAN /\ dirty \in BOOLEAN /\ lapsed \in BOOLEAN
  BY DEF ServeInv, ServeTypeOK
<1>1. CASE AppendStatement
  <2>1. CASE phase = "serving"
    BY <1>0, <1>1, <2>1 DEF AppendStatement
  <2>2. CASE phase \in {"startup", "mirrors"} /\ \E r \in Run : step[r] = "list"
    <3>1. PICK r \in Run : step[r] = "list"
      BY <2>2
    <3>2. \A q \in Run : q # r => step[q] = "off"
      BY <1>0, <3>1 DEF OneLoop
    <3> QED BY <1>0, <1>1, <2>2, <3>1, <3>2 DEF AppendStatement, loop
  <2>3. CASE Unwatched
    BY <1>0, <1>1, <2>3 DEF AppendStatement, Unwatched
  <2>4. CASE phase = "down"
    BY <1>1, <2>4 DEF AppendStatement
  <2> QED BY <1>0, <2>1, <2>2, <2>3, <2>4 DEF ServeTypeOK, Unwatched
<1>2. CASE Watch
  BY <1>0, <1>2 DEF Watch, flags, loop
<1>3. CASE Notice
  BY <1>0, <1>3 DEF Notice, flags, loop
<1>4. ASSUME Exit PROVE ReadIsCurrent' /\ (phase = "serving" => watching)'
  BY <1>4 DEF Exit
<1>5. CASE FailMirrors \/ Shutdown
  BY <1>4, <1>5 DEF FailMirrors, Shutdown
\* A loop that begins has read nothing, and is the only one.
<1>6. ASSUME NEW r \in Run, Enter(r), UNCHANGED <<listed, pb>>
      PROVE  ReadIsCurrent'
  <2>1. /\ step'[r] = "list" /\ \A q \in Run : q # r => step'[q] = "off"
    BY <1>0, <1>6 DEF Enter, OneLoop
  <2> QED BY <2>1
<1>7. ASSUME NEW r \in Run, Start(r)
      PROVE  ReadIsCurrent' /\ (phase = "serving" => watching)'
  BY <1>6, <1>7 DEF Start
<1>8. ASSUME NEW r \in Run, List(r)
      PROVE  ReadIsCurrent' /\ (phase = "serving" => watching)'
  <2>1. /\ step'[r] = "fold" /\ \A q \in Run : q # r => step'[q] = "off"
    BY <1>0, <1>8 DEF List, OneLoop
  <2>2. entries'[r] = listed /\ listed' = listed
    BY <1>0, <1>8 DEF List
  <2> QED BY <1>0, <1>8, <2>1, <2>2 DEF List, events
<1>9. ASSUME NEW r \in Run, Fold(r)
      PROVE  ReadIsCurrent' /\ (phase = "serving" => watching)'
  <2>1. /\ step'[r] = "empty" /\ \A q \in Run : q # r => step'[q] = "off"
    BY <1>0, <1>9 DEF Fold, OneLoop
  <2>2. folded'[r] = listed /\ entries'[r] = entries[r] /\ listed' = listed
    BY <1>0, <1>9 DEF Fold
  <2>3. phase # "down" /\ ~Owed => entries[r] = listed
    BY <1>0, <1>9 DEF Fold
  <2> QED BY <1>0, <1>9, <2>1, <2>2, <2>3 DEF Fold, flags, events
\* Emptying and filling read nothing, and do not end the loop.
<1>10. ASSUME NEW r \in Run, step[r] \in {"empty", "fill"},
              NEW next \in {"fill", "loop"},
              \/ UNCHANGED step \/ step' = [step EXCEPT ![r] = next],
              UNCHANGED <<listed, phase, flags, entries, folded, events, lapsed>>
       PROVE  ReadIsCurrent' /\ (phase = "serving" => watching)'
  <2>1. /\ step'[r] \in {"empty", "fill", "loop"}
        /\ \A q \in Run : q # r => step'[q] = "off"
    BY <1>0, <1>10 DEF OneLoop
  <2>2. phase # "down" /\ ~Owed => entries[r] = listed /\ folded[r] = listed
    BY <1>0, <1>10
  <2> QED BY <1>0, <1>10, <2>1, <2>2 DEF flags, events
<1>11. ASSUME NEW r \in Run, Truncate(r)
       PROVE  ReadIsCurrent' /\ (phase = "serving" => watching)'
  <2>1. "fill" \in Steps
    BY DEF Steps
  <2>2. UNCHANGED step \/ step' = [step EXCEPT ![r] = "fill"]
    BY <1>0, <1>11, <2>1, AdvanceSplit DEF Truncate
  <2> QED BY <1>10, <1>11, <2>2 DEF Truncate
<1>12. ASSUME NEW r \in Run, Fill(r)
       PROVE  ReadIsCurrent' /\ (phase = "serving" => watching)'
  <2>1. "loop" \in Steps
    BY DEF Steps
  <2>2. UNCHANGED step \/ step' = [step EXCEPT ![r] = "loop"]
    BY <1>0, <1>12, <2>1, AdvanceSplit DEF Fill
  <2> QED BY <1>10, <1>12, <2>2 DEF Fill
\* The loop that ends has filled every collection from what it read.
<1>13. ASSUME NEW r \in Run, Loop(r)
       PROVE  ReadIsCurrent' /\ (phase = "serving" => watching)'
  <2>1. step[r] = "loop" /\ \A q \in Run : q # r => step[q] = "off"
    BY <1>0, <1>13 DEF Loop, OneLoop
  <2>2. /\ UNCHANGED <<listed, pb, entries, folded, lapsed>>
        /\ UNCHANGED <<watching, notice, timer>>
        /\ phase' \in {phase, "mirrors"} /\ (phase' = "mirrors" => phase # "down")
    BY <1>13 DEF Loop, events
  <2>3. CASE dirty
    <3>1. /\ step'[r] = "list" /\ \A q \in Run : q # r => step'[q] = "off"
      BY <1>0, <1>13, <2>1, <2>3 DEF Loop, Again
    <3> QED BY <1>0, <2>2, <3>1
  <2>4. CASE ~dirty
    <3>1. /\ \A q \in Run : step'[q] = "off"
          /\ UNCHANGED dirty
      BY <1>0, <1>13, <2>1, <2>4 DEF Loop, Again
    <3>2. phase # "down" /\ ~Owed => entries[r] = listed /\ folded[r] = listed
      BY <1>0, <2>1
    <3>3. \A c \in Collection : pb[c] = {Rows(r, c)}
      BY <1>0, <2>1, CollectionsAre DEF Progress
    <3>4. phase # "down" /\ ~Owed => \A c \in Collection : pb[c] = {listed}
      BY <3>2, <3>3 DEF Rows
    <3> QED BY <1>0, <2>2, <3>1, <3>4
  <2> QED BY <1>0, <2>3, <2>4
<1>14. ASSUME NEW r \in Run, Fire(r)
       PROVE  ReadIsCurrent' /\ (phase = "serving" => watching)'
  <2>1. CASE LeaveMark
    BY <1>0, <1>14, <2>1 DEF Fire, LeaveMark
  <2>2. CASE Enter(r)
    BY <1>0, <1>6, <1>14, <2>2 DEF Fire
  <2> QED BY <1>14, <2>1, <2>2 DEF Fire
<1>15. ASSUME NEW r \in Run, FailProjection(r)
       PROVE  ReadIsCurrent' /\ (phase = "serving" => watching)'
  BY <1>0, <1>4, <1>15 DEF FailProjection, events
<1>16. CASE UNCHANGED serveVars
  BY <1>0, <1>16 DEF serveVars, flags, loop, events
<1> QED
  BY <1>1, <1>2, <1>3, <1>5, <1>7, <1>8, <1>9, <1>11, <1>12, <1>13, <1>14, <1>15,
     <1>16 DEF ServeNext

-----------------------------------------------------------------------------
\* Before the first start nothing runs and the database is empty.
LEMMA ServeStarts == ServeInit => ServeInv
<1> SUFFICES ASSUME ServeInit PROVE ServeInv
  OBVIOUS
<1>1. ServeTypeOK
  <2>1. 1 \in DOMAIN Collections
    BY CollectionsAre
  <2> QED BY <2>1 DEF ServeInit, ServeTypeOK, Steps
<1>2. OneLoop /\ Progress /\ ReadIsCurrent
  BY DEF ServeInit, OneLoop, Progress, ReadIsCurrent
<1>3. NeverMixed
  BY FS_EmptySet DEF ServeInit, NeverMixed
<1> QED BY <1>1, <1>2, <1>3 DEF ServeInit, ServeInv

\* No step of the server, the ledger or a failure breaks the invariant.
LEMMA ServeStep == ServeInv /\ [ServeNext]_serveVars => ServeInv'
BY TypeStep, OneLoopStep, ProgressStep, CurrentStep DEF ServeInv

\* At rest no loop runs and nothing is owed but by a lapse.
LEMMA CurrentAtRest == ServeInv => RestIsCurrent
BY DEF ServeInv, OneLoop, ReadIsCurrent, Owed, AtRest, RestIsCurrent

\* The reasons the board can be trusted hold in every reachable state.
THEOREM ServeInvariant == ServeSpec => []ServeInv
BY ServeStarts, ServeStep, PTL DEF ServeSpec

\* No collection ever holds rows of two projections: project()'s flags, its
\* finally and the process's death leave never more than one loop, and that
\* loop empties before it fills.
THEOREM ServeNeverMixes == ServeSpec => []NeverMixed
<1>1. ServeInv => NeverMixed
  BY DEF ServeInv
<1> QED BY <1>1, ServeInvariant, PTL

\* When the server rests, every collection was made from the whole ledger,
\* unless an append fell before the watcher or the last projection failed.
THEOREM ServeRestsCurrent == ServeSpec => []RestIsCurrent
BY CurrentAtRest, ServeInvariant, PTL
=============================================================================
