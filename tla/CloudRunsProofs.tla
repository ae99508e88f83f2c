-------------------------- MODULE CloudRunsProofs --------------------------
(***************************************************************************)
(* A request of the cloud runner is used once and what it yields was seen, *)
(* for any number of requests, runners, concurrent handlers, deliveries,   *)
(* restarts and answers of the account.                                    *)
(***************************************************************************)
EXTENDS CloudRuns, TLAPS

-----------------------------------------------------------------------------
(* What the helpers compute. *)

\* The states of a request in the order it goes through them.
LEMMA RankOf ==
  /\ Rank("requested") = 1 /\ Rank("claimed") = 2 /\ Rank("submitted") = 3
  /\ Rank("accepted") = 4 /\ Rank("refused") = 5 /\ Rank("failed") = 6
<1>1. DOMAIN Order = 1 .. 6 /\ Order[1] = "requested" /\ Order[2] = "claimed" /\ Order[3] = "submitted"
      /\ Order[4] = "accepted" /\ Order[5] = "refused" /\ Order[6] = "failed"
  BY DEF Order
<1>2. \A i \in 1 .. 6 : i = 1 \/ i = 2 \/ i = 3 \/ i = 4 \/ i = 5 \/ i = 6
  OBVIOUS
<1>3. \A state : (CHOOSE i \in DOMAIN Order : Order[i] = state) = Rank(state)
  BY DEF Rank
<1>4. ASSUME NEW k \in 1 .. 6 PROVE Rank(Order[k]) = k
  <2>1. Rank(Order[k]) \in 1 .. 6 /\ Order[Rank(Order[k])] = Order[k]
    BY <1>1 DEF Rank
  <2>2. \A i, j \in 1 .. 6 : Order[i] = Order[j] => i = j
    BY <1>1, <1>2
  <2> QED BY <2>1, <2>2
<1> QED BY <1>1, <1>4

Happening == {"claimed"} \cup Spent
RowOf == [state : {"requested"} \cup Happening, issued : Nat, updated : Nat]

\* A run event takes a row past "requested", one of a spent nonce to a spent row.
LEMMA ApplyMoves ==
  ASSUME NEW row \in RowOf, NEW e, e.state \in Happening, e.at \in Nat
  PROVE  /\ ApplyRunEvent(row, e) \in RowOf /\ ApplyRunEvent(row, e).issued = row.issued
         /\ ApplyRunEvent(row, e).state \in Happening
         /\ e.state \in Spent => ApplyRunEvent(row, e).state \in Spent
<1>1. CASE Rank(e.state) >= Rank(row.state) \/ e.at > row.updated
  BY <1>1 DEF ApplyRunEvent, RowOf
<1>2. CASE ~(Rank(e.state) >= Rank(row.state) \/ e.at > row.updated)
  <2>1. ApplyRunEvent(row, e) = row
    BY <1>2 DEF ApplyRunEvent
  <2>2. row.state # "requested" /\ (e.state \in Spent => row.state # "claimed")
    BY <1>2, RankOf DEF RowOf, Happening, Spent, Terminal
  <2> QED BY <2>1, <2>2 DEF RowOf, Happening
<1> QED BY <1>1, <1>2

\* stderr that says anything has a class, and none of the classes is "ok".
LEMMA StderrHasClass ==
  ASSUME NEW S, S \subseteq Mentions, S # {}
  PROVE  ClassifyStderr(S) \in Mentions
<1> DEFINE I == {i \in DOMAIN StderrClasses : StderrClasses[i] \in S}
<1>1. DOMAIN StderrClasses = 1 .. 5 /\ Mentions = {StderrClasses[i] : i \in DOMAIN StderrClasses}
  BY DEF StderrClasses, Mentions, ToSet
<1>2. I # {} /\ I \subseteq 1 .. 5
  BY <1>1
<1>3. \E m \in I : \A i \in I : m <= i
  <2> HIDE DEF I
  <2>1. CASE 1 \in I
    BY <2>1, <1>2
  <2>2. CASE 1 \notin I /\ 2 \in I
    BY <2>2, <1>2
  <2>3. CASE 1 \notin I /\ 2 \notin I /\ 3 \in I
    BY <2>3, <1>2
  <2>4. CASE 1 \notin I /\ 2 \notin I /\ 3 \notin I /\ 4 \in I
    BY <2>4, <1>2
  <2>5. CASE 1 \notin I /\ 2 \notin I /\ 3 \notin I /\ 4 \notin I
    <3>1. \A i \in I : i = 5
      BY <2>5, <1>2
    <3>2. PICK m \in I : TRUE
      BY <1>2
    <3> QED BY <3>1, <3>2
  <2> QED BY <2>1, <2>2, <2>3, <2>4, <2>5
<1>4. Min(I) \in I
  <2> HIDE DEF I
  <2> QED BY <1>3 DEF Min
<1>5. ClassifyStderr(S) = StderrClasses[Min(I)]
  BY DEF ClassifyStderr
<1> QED BY <1>1, <1>4, <1>5

\* A command classed "ok" exited cleanly and said nothing.
LEMMA OkIsClean ==
  ASSUME NEW c, c.stderr \subseteq Mentions, ClassifyStep(ExecStep(c)) = "ok"
  PROVE  c.exit = 0 /\ c.stderr = {}
<1>1. \A m \in Mentions : m # "none" /\ m # "ok"
  BY DEF Mentions, StderrClasses, ToSet
<1>2. ExecStep(c).exit = c.exit
      /\ ExecStep(c).class = IF c.exit = -1 /\ c.stderr = {} THEN "other" ELSE ClassifyStderr(c.stderr)
  BY DEF ExecStep
<1>3. ExecStep(c).class = "none" /\ c.exit = 0
  <2>1. CASE c.stderr # {}
    BY <2>1, <1>1, <1>2, StderrHasClass DEF ClassifyStep
  <2>2. CASE c.stderr = {}
    BY <2>2, <1>2 DEF ClassifyStep, ClassifyStderr
  <2> QED BY <2>1, <2>2
<1> QED BY <1>1, <1>2, <1>3, StderrHasClass

-----------------------------------------------------------------------------
(* The inductive invariant. *)

RunsMade == {Transcript(a, skip) : a \in Answers, skip \in BOOLEAN}
TranscriptOf == [nonce : Nonce, runner : Runner, finished : Nat, run : RunsMade]
Reason == TranscriptOf \cup BOOLEAN \cup {"none"}
Statement == [nonce : Nonce, state : {"requested", "evidence"} \cup Happening, by : Runner,
              reason : Reason, at : Nat]
IntakeRoutes == {"intake", "evidence"} \cup Terminal
Asking == [route : {"next"}, nonce : Nonce, runner : Runner]
Intaking == [route : IntakeRoutes, transcript : TranscriptOf, outputs : Deliveries, received : Nat, spent : BOOLEAN]

TypeOK ==
  /\ ledger \in Seq(Statement) /\ rows \in [Nonce -> {NoRow} \cup RowOf] /\ clock \in Nat
  /\ standing \subseteq Sidecar
  /\ handler \in [Handler -> {Free} \cup Asking \cup Intaking]
  /\ assigned \subseteq Runner \X Nonce /\ transcripts \subseteq TranscriptOf

\* Whatever is under way or on record is of a request that was minted; a
\* transcript is of a run the runner was allowed to make; what a runner works
\* on it has claimed.
Known ==
  /\ \A h \in Handler : handler[h].route = "next" => Minted(handler[h].nonce)
  /\ \A h \in Handler : handler[h].route \in IntakeRoutes => handler[h].transcript \in transcripts
  /\ \A p \in assigned : Minted(p[2]) /\ \E e \in ToSet(ledger) : e.nonce = p[2] /\ e.state = "claimed" /\ e.by = p[1]
  /\ \A t \in transcripts : Minted(t.nonce) /\ \E a \in Answers, skip \in BOOLEAN : Runs(a, skip) /\ t.run = Transcript(a, skip)
  /\ \A e \in ToSet(ledger) : Minted(e.nonce)

Happened(n, S) == \E e \in ToSet(ledger) : e.nonce = n /\ e.state \in S

\* The row tells that a nonce was claimed, and without a late claim that it is spent.
RowTells ==
  /\ \A n \in Nonce : Happened(n, Happening) => rows[n].state \in Happening
  /\ \A n \in Nonce : <<"late", n>> \notin raced /\ Happened(n, Spent \cup {"evidence"}) => rows[n].state \in Spent
  /\ \A h \in Handler : handler[h].route \in Terminal \cup {"evidence"} => Happened(handler[h].transcript.nonce, Spent)

Askers(n) == {h \in Handler : handler[h].route = "next" /\ handler[h].nonce = n}

\* Without a race one handler is about to claim a request, none once it is claimed.
OneClaim ==
  \A n \in Nonce : <<"next", n>> \notin raced =>
    /\ \A g, h \in Askers(n) : g = h
    /\ Statements(n, "claimed") # {} => Askers(n) = {}
    /\ \A e, f \in Statements(n, "claimed") : e = f

\* The intakes that found the nonce unspent and have not appended its bundle.
Holders(n) ==
  {h \in Handler : /\ handler[h].route \in {"intake", "evidence"}
                   /\ handler[h].transcript.nonce = n /\ ~handler[h].spent}

\* Likewise, one intake holds the nonce, none once its evidence is there.
OneBundle ==
  \A n \in Nonce : <<"intake", n>> \notin raced /\ <<"late", n>> \notin raced =>
    /\ \A g, h \in Holders(n) : g = h
    /\ Statements(n, "evidence") # {} => Holders(n) = {}
    /\ \A e, f \in Statements(n, "evidence") : e = f

\* What is on its way to be accepted passed every check, and has its evidence
\* in the ledger when it is.
Passed(h) ==
  /\ ~Refused(handler[h].transcript, handler[h].received, handler[h].spent)
  /\ \A i \in DOMAIN handler[h].transcript.run.steps : ClassifyStep(handler[h].transcript.run.steps[i]) = "ok"

Judged ==
  \A h \in Handler :
    /\ handler[h].route \in IntakeRoutes => handler[h].received <= clock
    /\ handler[h].route \in {"evidence", "accepted"} => Passed(h)
    /\ handler[h].route = "accepted" =>
         \E e \in ToSet(ledger) : e.state = "evidence" /\ e.reason = handler[h].transcript

RunsInv == TypeOK /\ Known /\ RowTells /\ OneClaim /\ OneBundle /\ Judged /\ AcceptedNamesEvidence

\* It holds of an empty site.
LEMMA InitInv == Init => RunsInv
<1> SUFFICES ASSUME Init PROVE RunsInv
  OBVIOUS
<1>1. ledger = <<>> /\ DOMAIN ledger = {} /\ ToSet(ledger) = {} /\ \A h \in Handler : handler[h].route = "free"
  BY DEF Init, ToSet, Free
<1>2. TypeOK
  BY <1>1 DEF Init, TypeOK
<1>3. Known /\ RowTells
  BY <1>1 DEF Init, Known, RowTells, IntakeRoutes, Terminal, Happened
<1>4. OneClaim /\ OneBundle
  BY <1>1 DEF Init, OneClaim, OneBundle, Askers, Holders, Statements
<1>5. Judged /\ AcceptedNamesEvidence
  BY <1>1 DEF Judged, AcceptedNamesEvidence, IntakeRoutes, Terminal
<1> QED BY <1>2, <1>3, <1>4, <1>5 DEF RunsInv

\* A transcript a handler holds is typed, minted and of a run that was made.
LEMMA HandlerType ==
  ASSUME TypeOK, Known, NEW h \in Handler
  PROVE  /\ handler[h].route = "next" => handler[h] \in Asking /\ Minted(handler[h].nonce)
         /\ handler[h].route \in IntakeRoutes =>
              /\ handler[h] \in Intaking /\ handler[h].transcript \in transcripts
              /\ handler[h].transcript \in TranscriptOf /\ handler[h].transcript.nonce \in Nonce
              /\ Minted(handler[h].transcript.nonce)
         /\ handler[h] = Free \/ handler[h].route = "next" \/ handler[h].route \in IntakeRoutes
<1>1. "next" \notin IntakeRoutes /\ "free" \notin IntakeRoutes /\ Free.route = "free"
  BY DEF IntakeRoutes, Terminal, Free
<1>2. handler[h] \in {Free} \cup Asking \cup Intaking
  BY DEF TypeOK
<1>3. (handler[h] \in Asking => handler[h].route = "next") /\ (handler[h] \in Intaking => handler[h].route \in IntakeRoutes)
  BY DEF Asking, Intaking
<1>4. handler[h] \in Intaking => handler[h].transcript \in TranscriptOf
  BY DEF Intaking
<1>5. \A t \in TranscriptOf : t.nonce \in Nonce
  BY DEF TranscriptOf
<1> QED BY <1>1, <1>2, <1>3, <1>4, <1>5 DEF Known

-----------------------------------------------------------------------------
(* The steps that append nothing. *)

\* What takes up no request keeps the invariant: handlers that end, runners
\* that finish or give up, registrations and the clock.
LEMMA AsideStep ==
  ASSUME RunsInv, UNCHANGED <<ledger, rows, raced>>,
         \A h \in Handler : handler'[h] = handler[h] \/ handler'[h] = Free,
         handler' \in [Handler -> {Free} \cup Asking \cup Intaking],
         clock' \in Nat, clock' >= clock, standing' \subseteq Sidecar, assigned' \subseteq assigned,
         transcripts \subseteq transcripts', transcripts' \subseteq TranscriptOf,
         \A t \in transcripts' \ transcripts :
           Minted(t.nonce) /\ \E a \in Answers, skip \in BOOLEAN : Runs(a, skip) /\ t.run = Transcript(a, skip)
  PROVE  RunsInv'
<1> USE DEF RunsInv
<1>1. \A h \in Handler : handler'[h].route # "free" => handler'[h] = handler[h]
  BY DEF Free
<1>2. "free" \notin IntakeRoutes /\ Terminal \cup {"intake", "evidence"} = IntakeRoutes
  BY DEF IntakeRoutes, Terminal
<1>3. TypeOK'
  BY DEF TypeOK
<1>4. Known'
  <2>1. \A h \in Handler : /\ handler'[h].route = "next" => Minted(handler'[h].nonce)
                           /\ handler'[h].route \in IntakeRoutes => handler'[h].transcript \in transcripts'
    BY <1>1, <1>2 DEF Known
  <2>2. \A p \in assigned' : Minted(p[2]) /\ \E e \in ToSet(ledger) : e.nonce = p[2] /\ e.state = "claimed" /\ e.by = p[1]
    BY DEF Known
  <2>3. \A t \in transcripts' : Minted(t.nonce) /\ \E a \in Answers, skip \in BOOLEAN : Runs(a, skip) /\ t.run = Transcript(a, skip)
    BY DEF Known
  <2> QED BY <2>1, <2>2, <2>3 DEF Known, Minted
<1>5. RowTells'
  BY <1>1, <1>2 DEF RowTells, Happened
<1>6. OneClaim'
  <2>1. \A n : Askers(n)' \subseteq Askers(n) /\ \A s : Statements(n, s)' = Statements(n, s)
    BY <1>1 DEF Askers, Statements
  <2> QED BY <2>1 DEF OneClaim
<1>7. OneBundle'
  <2>1. \A n : Holders(n)' \subseteq Holders(n) /\ \A s : Statements(n, s)' = Statements(n, s)
    BY <1>1 DEF Holders, Statements
  <2> QED BY <2>1 DEF OneBundle
<1>8. Judged'
  <2> SUFFICES ASSUME NEW h \in Handler
               PROVE  /\ handler'[h].route \in IntakeRoutes => handler'[h].received <= clock'
                      /\ handler'[h].route \in {"evidence", "accepted"} => Passed(h)'
                      /\ handler'[h].route = "accepted" =>
                           \E e \in ToSet(ledger) : e.state = "evidence" /\ e.reason = handler'[h].transcript
    BY DEF Judged
  <2>1. CASE handler'[h] = Free
    BY <2>1, <1>2 DEF Free
  <2>2. CASE handler'[h] = handler[h] /\ handler'[h] # Free
    <3>1. Passed(h) => Passed(h)'
      BY <2>2 DEF Passed, Refused, InWindow, IssuedAt, ExpiresAt
    <3>2. handler[h].route \in IntakeRoutes => handler[h].received \in Nat
      BY HandlerType DEF Intaking
    <3> QED BY <2>2, <3>1, <3>2 DEF Judged, TypeOK
  <2> QED BY <2>1, <2>2
<1>9. AcceptedNamesEvidence'
  BY DEF AcceptedNamesEvidence, IssuedAt, ExpiresAt
<1> QED BY <1>3, <1>4, <1>5, <1>6, <1>7, <1>8, <1>9

\* The requests a request of the wire is about, by its route.
LEMMA PendingIs ==
  ASSUME NEW h \in Handler
  PROVE  /\ handler[h].route = "next" => Pending(h) = {handler[h].nonce}
         /\ handler[h].route = "intake" => Pending(h) = {handler[h].transcript.nonce}
<1> QED BY DEF Pending

\* A handler that picked an open request: nobody has claimed it, and another
\* asker holding it too is a race.
LEMMA AskStep ==
  ASSUME RunsInv, NEW h \in Handler, NEW r \in Runner, NEW n \in Open, handler[h] = Free,
         handler' = [handler EXCEPT ![h] = [route |-> "next", nonce |-> n, runner |-> r]],
         NoteRace("next", n), UNCHANGED <<ledger, rows, clock, standing, assigned, transcripts>>
  PROVE  RunsInv'
<1> USE DEF RunsInv
<1> DEFINE new == [route |-> "next", nonce |-> n, runner |-> r]
<1>1. n \in Nonce /\ Minted(n) /\ rows[n].state = "requested" /\ handler[h].route = "free"
  BY DEF Open, Lifecycle, Free
<1>2. new \in Asking /\ new.route = "next" /\ new.nonce = n
  BY <1>1 DEF Asking
<1> HIDE DEF new
<1>3. handler'[h] = new /\ \A g \in Handler \ {h} : handler'[g] = handler[g]
  BY DEF TypeOK, new
<1>4. TypeOK'
  BY <1>2 DEF TypeOK, new
<1>5. raced \subseteq raced' /\ raced' \subseteq raced \cup {<<"next", n>>}
      /\ ((\E g \in Handler : handler[g].route = "next" /\ handler[g].nonce = n) => <<"next", n>> \in raced')
  BY PendingIs DEF NoteRace
<1>6. "next" \notin IntakeRoutes /\ Terminal \cup {"intake", "evidence"} = IntakeRoutes /\ "next" # "free"
  BY DEF IntakeRoutes, Terminal
<1>7. Known'
  <2>1. \A g \in Handler : /\ handler'[g].route = "next" => Minted(handler'[g].nonce)
                           /\ handler'[g].route \in IntakeRoutes => handler'[g].transcript \in transcripts'
    BY <1>1, <1>2, <1>3, <1>6 DEF Known
  <2> QED BY <2>1 DEF Known, Minted
<1>8. RowTells'
  BY <1>2, <1>3, <1>5, <1>6 DEF RowTells, Happened
<1>9. OneClaim'
  <2> SUFFICES ASSUME NEW m \in Nonce, <<"next", m>> \notin raced'
               PROVE  /\ \A f, g \in Askers(m)' : f = g
                      /\ Statements(m, "claimed") # {} => Askers(m)' = {}
                      /\ \A e, f \in Statements(m, "claimed") : e = f
    BY DEF OneClaim, Statements
  <2>1. CASE m = n
    <3>1. Askers(m) = {}
      BY <2>1, <1>5 DEF Askers
    <3>2. Askers(m)' = {h}
      BY <2>1, <3>1, <1>2, <1>3 DEF Askers
    <3>3. Statements(m, "claimed") = {}
      BY <2>1, <1>1 DEF RowTells, Happened, Happening, Spent, Terminal, Statements
    <3> QED BY <3>2, <3>3
  <2>2. CASE m # n
    <3>1. Askers(m)' = Askers(m)
      BY <2>2, <1>1, <1>2, <1>3, <1>6 DEF Askers
    <3> QED BY <3>1, <1>5 DEF OneClaim
  <2> QED BY <2>1, <2>2
<1>10. OneBundle'
  <2>1. \A m : Holders(m)' = Holders(m) /\ \A s : Statements(m, s)' = Statements(m, s)
    BY <1>1, <1>2, <1>3 DEF Holders, Statements
  <2> QED BY <2>1, <1>5 DEF OneBundle
<1>11. Judged'
  <2> SUFFICES ASSUME NEW g \in Handler
               PROVE  /\ handler'[g].route \in IntakeRoutes => handler'[g].received <= clock
                      /\ handler'[g].route \in {"evidence", "accepted"} => Passed(g)'
                      /\ handler'[g].route = "accepted" =>
                           \E e \in ToSet(ledger) : e.state = "evidence" /\ e.reason = handler'[g].transcript
    BY DEF Judged
  <2>1. CASE g = h
    BY <2>1, <1>2, <1>3, <1>6
  <2>2. CASE g # h
    <3>1. Passed(g) => Passed(g)'
      BY <2>2, <1>3 DEF Passed, Refused, InWindow, IssuedAt, ExpiresAt
    <3> QED BY <2>2, <3>1, <1>3 DEF Judged
  <2> QED BY <2>1, <2>2
<1>12. AcceptedNamesEvidence'
  BY DEF AcceptedNamesEvidence, IssuedAt, ExpiresAt
<1> QED BY <1>4, <1>7, <1>8, <1>9, <1>10, <1>11, <1>12

\* A handler that took up a transcript: if it found the nonce unspent no other
\* has been past `submitted` with it, and one still before it is a race.
LEMMA IntakeStep ==
  ASSUME RunsInv, NEW h \in Handler, NEW t \in transcripts, IntakeRun(h, t)
  PROVE  RunsInv'
<1> USE DEF RunsInv
<1>1. PICK outputs \in Deliveries :
        handler' = [handler EXCEPT ![h] =
          [route |-> "intake", transcript |-> t, outputs |-> outputs, received |-> clock,
           spent |-> Lifecycle(t.nonce) \in Spent]]
  BY DEF IntakeRun
<1> DEFINE n == t.nonce
           spent == Lifecycle(n) \in Spent
           new == [route |-> "intake", transcript |-> t, outputs |-> outputs, received |-> clock, spent |-> spent]
<1>2. t \in TranscriptOf /\ n \in Nonce /\ Minted(n)
  BY DEF TypeOK, TranscriptOf, Known
<1>3. spent \in BOOLEAN /\ (rows[n].state \in Spent => spent)
  BY DEF Lifecycle, Spent, Terminal
<1> HIDE DEF spent
<1>4. new \in Intaking /\ new.route = "intake" /\ new.transcript = t /\ new.received = clock /\ new.spent = spent
  BY <1>2, <1>3 DEF Intaking, IntakeRoutes, TypeOK
<1>5. UNCHANGED <<ledger, rows, clock, standing, assigned, transcripts>> /\ handler[h].route = "free"
  BY DEF IntakeRun, Free
<1>6. handler' = [handler EXCEPT ![h] = new]
  BY <1>1 DEF spent
<1> HIDE DEF new
<1>7. handler'[h] = new /\ \A g \in Handler \ {h} : handler'[g] = handler[g]
  BY <1>6 DEF TypeOK
<1>8. TypeOK'
  BY <1>4, <1>5, <1>6 DEF TypeOK
<1>9. raced \subseteq raced' /\ raced' \subseteq raced \cup {<<"intake", n>>}
      /\ ((\E g \in Handler : handler[g].route = "intake" /\ handler[g].transcript.nonce = n) => <<"intake", n>> \in raced')
  BY PendingIs DEF NoteRace, IntakeRun
<1>10. "next" # "intake" /\ Terminal \cup {"intake", "evidence"} = IntakeRoutes /\ "intake" # "free"
       /\ "intake" \notin Terminal \cup {"evidence", "accepted"}
  BY DEF IntakeRoutes, Terminal
<1>11. Known'
  <2>1. \A g \in Handler : /\ handler'[g].route = "next" => Minted(handler'[g].nonce)
                           /\ handler'[g].route \in IntakeRoutes => handler'[g].transcript \in transcripts'
    BY <1>4, <1>5, <1>7, <1>10 DEF Known
  <2> QED BY <2>1, <1>5 DEF Known, Minted
<1>12. RowTells'
  BY <1>4, <1>5, <1>7, <1>9, <1>10 DEF RowTells, Happened
<1>13. OneClaim'
  <2>1. \A m : Askers(m)' = Askers(m) /\ \A s : Statements(m, s)' = Statements(m, s)
    BY <1>4, <1>5, <1>7, <1>10 DEF Askers, Statements
  <2> QED BY <2>1, <1>9 DEF OneClaim
<1>14. OneBundle'
  <2> SUFFICES ASSUME NEW m \in Nonce, <<"intake", m>> \notin raced', <<"late", m>> \notin raced'
               PROVE  /\ \A f, g \in Holders(m)' : f = g
                      /\ Statements(m, "evidence") # {} => Holders(m)' = {}
                      /\ \A e, f \in Statements(m, "evidence") : e = f
    BY <1>5 DEF OneBundle, Statements
  <2>1. \A g \in Handler : g \in Holders(m)' <=> g \in Holders(m) \/ (g = h /\ m = n /\ ~spent)
    BY <1>4, <1>5, <1>7 DEF Holders
  <2>2. CASE m = n /\ ~spent
    <3>1. rows[n].state \notin Spent
      BY <2>2, <1>3
    <3>2. \A g \in Handler : handler[g].route # "evidence" \/ handler[g].transcript.nonce # n
      <4> SUFFICES ASSUME NEW g \in Handler, handler[g].route = "evidence", handler[g].transcript.nonce = n PROVE FALSE
        OBVIOUS
      <4>1. Happened(n, Spent)
        BY DEF RowTells
      <4> QED BY <4>1, <3>1, <2>2, <1>2, <1>9 DEF RowTells, Happened
    <3>3. Holders(m) = {}
      BY <2>2, <3>2, <1>9 DEF Holders
    <3>4. Statements(m, "evidence") = {}
      BY <2>2, <3>1, <1>2, <1>9 DEF RowTells, Happened, Statements
    <3> QED BY <2>1, <3>3, <3>4 DEF Holders
  <2>3. CASE ~(m = n /\ ~spent)
    <3>1. Holders(m)' = Holders(m)
      BY <2>1, <2>3 DEF Holders
    <3> QED BY <3>1, <1>9 DEF OneBundle
  <2> QED BY <2>2, <2>3
<1>15. Judged'
  <2> SUFFICES ASSUME NEW g \in Handler
               PROVE  /\ handler'[g].route \in IntakeRoutes => handler'[g].received <= clock
                      /\ handler'[g].route \in {"evidence", "accepted"} => Passed(g)'
                      /\ handler'[g].route = "accepted" =>
                           \E e \in ToSet(ledger) : e.state = "evidence" /\ e.reason = handler'[g].transcript
    BY <1>5 DEF Judged
  <2>1. CASE g = h
    BY <2>1, <1>4, <1>7, <1>10 DEF TypeOK
  <2>2. CASE g # h
    <3>1. Passed(g) => Passed(g)'
      BY <2>2, <1>5, <1>7 DEF Passed, Refused, InWindow, IssuedAt, ExpiresAt
    <3> QED BY <2>2, <3>1, <1>7 DEF Judged
  <2> QED BY <2>1, <2>2
<1>16. AcceptedNamesEvidence'
  BY <1>5 DEF AcceptedNamesEvidence, IssuedAt, ExpiresAt
<1> QED BY <1>8, <1>11, <1>12, <1>13, <1>14, <1>15, <1>16

-----------------------------------------------------------------------------
(* The steps that append. *)

\* An append keeps what is there, and adds its statement unless it is there.
LEMMA RecordAdds ==
  ASSUME TypeOK, NEW e \in Statement, Record(e)
  PROVE  /\ ledger' \in Seq(Statement) /\ ToSet(ledger') = ToSet(ledger) \cup {e}
         /\ \A i \in DOMAIN ledger : i \in DOMAIN ledger' /\ ledger'[i] = ledger[i]
         /\ \A i \in DOMAIN ledger' : i \in DOMAIN ledger \/ (i = Len(ledger) + 1 /\ ledger'[i] = e)
<1>1. ledger \in Seq(Statement)
  BY DEF TypeOK
<1>2. CASE Contains(ledger, e)
  BY <1>1, <1>2 DEF Record, Contains, ToSet
<1>3. CASE ~Contains(ledger, e)
  <2>1. ledger' = Append(ledger, e)
    BY <1>3 DEF Record
  <2>2. DOMAIN ledger' = 1 .. Len(ledger) + 1 /\ DOMAIN ledger = 1 .. Len(ledger) /\ Len(ledger) \in Nat
    BY <1>1, <2>1
  <2>3. (\A i \in 1 .. Len(ledger) : ledger'[i] = ledger[i]) /\ ledger'[Len(ledger) + 1] = e
    BY <1>1, <2>1
  <2>4. ToSet(ledger') = ToSet(ledger) \cup {e}
    BY <2>2, <2>3 DEF ToSet
  <2>5. ledger' \in Seq(Statement)
    BY <1>1, <2>1
  <2> QED BY <2>2, <2>3, <2>4, <2>5
<1> QED BY <1>2, <1>3

\* A run event of a minted request: its row moves as ApplyMoves says, the
\* others stay, and no request is issued anew.
Moves(e) ==
  /\ Record(e)
  /\ rows' \in [Nonce -> {NoRow} \cup RowOf]
  /\ \A m \in Nonce : Minted(m)' = Minted(m) /\ (Minted(m) => rows'[m].issued = rows[m].issued)
  /\ \A m \in Nonce \ {e.nonce} : rows'[m] = rows[m]
  /\ rows'[e.nonce].state \in Happening
  /\ e.state \in Spent /\ <<"late", e.nonce>> \notin raced => rows'[e.nonce].state \in Spent

\* An event of a run moves the request it names and no other.
LEMMA RunEventMoves ==
  ASSUME RunsInv, NEW n \in Nonce, Minted(n), NEW state \in Happening, NEW r \in Runner, NEW reason \in Reason,
         RecordEvent(n, state, r, reason)
  PROVE  \E e \in Statement :
           e.nonce = n /\ e.state = state /\ e.by = r /\ e.reason = reason /\ e.at = clock /\ Moves(e)
<1> DEFINE e == [nonce |-> n, state |-> state, by |-> r, reason |-> reason, at |-> clock]
<1> USE DEF RunsInv
<1>1. Record(e) /\ rows' = IF Contains(ledger, e) THEN rows ELSE [rows EXCEPT ![n] = ApplyRunEvent(@, e)]
  BY DEF RecordEvent
<1>2. e \in Statement /\ e.nonce = n /\ e.state = state /\ e.by = r /\ e.reason = reason /\ e.at = clock
  BY DEF Statement, TypeOK
<1> HIDE DEF e
<1>3. rows[n] \in RowOf /\ NoRow \notin RowOf
  <2>1. NoRow.state = "none" /\ \A x \in RowOf : x.state # "none"
    BY DEF NoRow, RowOf, Happening, Spent, Terminal
  <2> QED BY <2>1 DEF TypeOK, Minted
<1>4. CASE Contains(ledger, e)
  <2>1. e \in ToSet(ledger)
    BY <1>4 DEF Contains, ToSet, TypeOK
  <2>2. rows[n].state \in Happening /\ (state \in Spent /\ <<"late", n>> \notin raced => rows[n].state \in Spent)
    BY <2>1, <1>2 DEF RowTells, Happened
  <2>3. rows' = rows
    BY <1>1, <1>4
  <2> QED BY <1>1, <1>2, <2>2, <2>3 DEF TypeOK, Minted, Moves
<1>5. CASE ~Contains(ledger, e)
  <2> DEFINE a == ApplyRunEvent(rows[n], e)
  <2>1. a \in RowOf /\ a.issued = rows[n].issued /\ a.state \in Happening /\ (state \in Spent => a.state \in Spent)
    BY <1>2, <1>3, ApplyMoves DEF TypeOK
  <2>2. rows' = [rows EXCEPT ![n] = a]
    BY <1>1, <1>5
  <2> HIDE DEF a
  <2>3. rows'[n] = a /\ \A m \in Nonce \ {n} : rows'[m] = rows[m]
    BY <2>2 DEF TypeOK
  <2>4. rows' \in [Nonce -> {NoRow} \cup RowOf]
    BY <2>1, <2>2 DEF TypeOK
  <2>5. \A m \in Nonce : Minted(m)' = Minted(m) /\ (Minted(m) => rows'[m].issued = rows[m].issued)
    <3> SUFFICES ASSUME NEW m \in Nonce PROVE (rows'[m] # NoRow <=> rows[m] # NoRow) /\ rows'[m].issued = rows[m].issued
      BY DEF Minted
    <3>1. CASE m = n
      BY <3>1, <1>3, <2>1, <2>3
    <3>2. CASE m # n
      BY <3>2, <2>3
    <3> QED BY <3>1, <3>2
  <2> QED BY <1>1, <1>2, <2>1, <2>3, <2>4, <2>5 DEF Moves
<1> QED BY <1>4, <1>5

\* What an accepted statement has to have behind it, its evidence aside.
Seen(e) ==
  /\ e.reason.nonce = e.nonce
  /\ IssuedAt(e.nonce) <= e.reason.finished /\ e.reason.finished <= ExpiresAt(e.nonce) /\ e.reason.finished <= e.at
  /\ e.reason.run.answer.caller = "ours"
  /\ Emulator \/ e.reason.run.answer.probes \subseteq {"explicitDeny", "implicitDeny"}
  /\ \A k \in DOMAIN e.reason.run.answer.steps :
       e.reason.run.answer.steps[k].exit = 0 /\ e.reason.run.answer.steps[k].stderr = {}

\* Evidence once accepted stays in the ledger.
LEMMA AcceptedKept ==
  ASSUME RunsInv, NEW e \in Statement, Record(e),
         \A m \in Nonce : Minted(m) => rows'[m].issued = rows[m].issued,
         e.state = "accepted" => /\ Minted(e.nonce) /\ Seen(e)
                                 /\ \E d \in ToSet(ledger) : d.state = "evidence" /\ d.reason = e.reason
  PROVE  AcceptedNamesEvidence'
<1> USE DEF RunsInv
<1>1. ledger \in Seq(Statement) /\ DOMAIN ledger = 1 .. Len(ledger) /\ Len(ledger) \in Nat
  BY DEF TypeOK
<1> SUFFICES ASSUME NEW i \in DOMAIN ledger', ledger'[i].state = "accepted"
             PROVE  /\ \E j \in 1 .. i - 1 : ledger'[j].state = "evidence" /\ ledger'[j].reason = ledger'[i].reason
                    /\ Seen(ledger'[i])
                    /\ rows'[ledger'[i].nonce].issued = rows[ledger'[i].nonce].issued
  BY DEF AcceptedNamesEvidence, Seen, IssuedAt, ExpiresAt
<1>2. CASE i \in DOMAIN ledger
  <2>1. ledger'[i] = ledger[i] /\ \A j \in 1 .. i - 1 : ledger'[j] = ledger[j]
    BY <1>1, <1>2, RecordAdds
  <2>2. Seen(ledger[i]) /\ \E j \in 1 .. i - 1 : ledger[j].state = "evidence" /\ ledger[j].reason = ledger[i].reason
    BY <1>2, <2>1 DEF AcceptedNamesEvidence, Seen
  <2>3. ledger[i] \in ToSet(ledger) /\ ledger[i].nonce \in Nonce
    <3>1. ledger[i] \in Statement
      BY <1>1, <1>2
    <3> QED BY <1>2, <3>1 DEF ToSet, Statement
  <2>4. Minted(ledger[i].nonce)
    BY <2>3 DEF Known
  <2> QED BY <2>1, <2>2, <2>3, <2>4
<1>3. CASE i \notin DOMAIN ledger
  <2>1. i = Len(ledger) + 1 /\ ledger'[i] = e
    BY <1>3, RecordAdds
  <2>2. PICK j \in DOMAIN ledger : ledger[j].state = "evidence" /\ ledger[j].reason = e.reason
    BY <2>1 DEF ToSet
  <2>3. j \in 1 .. i - 1 /\ ledger'[j] = ledger[j]
    BY <1>1, <2>1, <2>2, RecordAdds
  <2>4. e.nonce \in Nonce
    BY DEF Statement
  <2> QED BY <2>1, <2>2, <2>3, <2>4
<1> QED BY <1>2, <1>3

\* A check that was passed stays passed: no request is issued anew.
LEMMA PassedKept ==
  ASSUME RunsInv, NEW h \in Handler, handler'[h] = handler[h], handler[h].route \in IntakeRoutes,
         \A m \in Nonce : Minted(m) => rows'[m].issued = rows[m].issued, Passed(h)
  PROVE  Passed(h)'
<1> DEFINE t == handler[h].transcript
<1>1. rows'[t.nonce].issued = rows[t.nonce].issued
  BY HandlerType DEF RunsInv
<1> QED BY <1>1 DEF Passed, Refused, InWindow, IssuedAt, ExpiresAt

\* What an append keeps of the rest, where a handler ends or moves on.
LEMMA OthersKept ==
  ASSUME RunsInv, NEW e \in Statement, Record(e), rows'[e.nonce] # NoRow,
         \A m \in Nonce : Minted(m) => rows'[m] # NoRow /\ rows'[m].issued = rows[m].issued,
         UNCHANGED <<clock, transcripts>>,
         \A g \in Handler :
           \/ handler'[g] = handler[g] \/ handler'[g] = Free
           \/ /\ handler'[g].route \in IntakeRoutes /\ handler[g].route \in IntakeRoutes
              /\ handler'[g].transcript = handler[g].transcript
  PROVE  /\ \A g \in Handler : handler'[g].route = "next" => rows'[handler'[g].nonce] # NoRow
         /\ \A g \in Handler : handler'[g].route \in IntakeRoutes => handler'[g].transcript \in transcripts'
         /\ \A t \in transcripts' : rows'[t.nonce] # NoRow /\ \E a \in Answers, skip \in BOOLEAN : Runs(a, skip) /\ t.run = Transcript(a, skip)
         /\ \A d \in ToSet(ledger') : rows'[d.nonce] # NoRow
         /\ \A p \in assigned : rows'[p[2]] # NoRow /\ \E d \in ToSet(ledger') : d.nonce = p[2] /\ d.state = "claimed" /\ d.by = p[1]
         /\ \A g \in Handler : handler'[g] = handler[g] =>
              /\ handler'[g].route \in IntakeRoutes => handler'[g].received <= clock'
              /\ handler'[g].route \in {"evidence", "accepted"} => Passed(g)'
              /\ handler'[g].route = "accepted" =>
                   \E d \in ToSet(ledger') : d.state = "evidence" /\ d.reason = handler'[g].transcript
<1> USE DEF RunsInv
<1>1. ToSet(ledger') = ToSet(ledger) \cup {e} /\ \A d \in ToSet(ledger') : d.nonce \in Nonce
  <2>1. ToSet(ledger') = ToSet(ledger) \cup {e} /\ ledger' \in Seq(Statement)
    BY RecordAdds
  <2>2. \A d \in ToSet(ledger') : d \in Statement
    BY <2>1 DEF ToSet
  <2> QED BY <2>1, <2>2 DEF Statement
<1>2. "free" \notin IntakeRoutes /\ "next" \notin IntakeRoutes /\ Free.route = "free" /\ {"evidence", "accepted"} \subseteq IntakeRoutes
  BY DEF IntakeRoutes, Terminal, Free
<1>3. \A m \in Nonce : Minted(m) => rows'[m] # NoRow
  OBVIOUS
<1>4. \A g \in Handler : handler'[g].route = "next" => rows'[handler'[g].nonce] # NoRow
  <2> SUFFICES ASSUME NEW g \in Handler, handler'[g].route = "next" PROVE rows'[handler'[g].nonce] # NoRow
    OBVIOUS
  <2>1. handler'[g] = handler[g]
    BY <1>2
  <2>2. Minted(handler[g].nonce) /\ handler[g].nonce \in Nonce
    BY <2>1, HandlerType DEF Asking
  <2> QED BY <2>1, <2>2, <1>3
<1>5. \A g \in Handler : handler'[g].route \in IntakeRoutes => handler'[g].transcript \in transcripts'
  BY <1>2 DEF Known
<1>6. \A t \in transcripts' : rows'[t.nonce] # NoRow /\ \E a \in Answers, skip \in BOOLEAN : Runs(a, skip) /\ t.run = Transcript(a, skip)
  <2> SUFFICES ASSUME NEW t \in transcripts PROVE rows'[t.nonce] # NoRow /\ \E a \in Answers, skip \in BOOLEAN : Runs(a, skip) /\ t.run = Transcript(a, skip)
    BY DEF Minted
  <2>1. t.nonce \in Nonce
    BY DEF TypeOK, TranscriptOf
  <2> QED BY <2>1, <1>3 DEF Known
<1>7. \A d \in ToSet(ledger') : rows'[d.nonce] # NoRow
  <2> SUFFICES ASSUME NEW d \in ToSet(ledger') PROVE rows'[d.nonce] # NoRow
    BY DEF Minted
  <2>1. d = e \/ Minted(d.nonce)
    BY <1>1 DEF Known
  <2> QED BY <2>1, <1>1, <1>3
<1>8. ASSUME NEW p \in assigned
      PROVE  rows'[p[2]] # NoRow /\ \E d \in ToSet(ledger') : d.nonce = p[2] /\ d.state = "claimed" /\ d.by = p[1]
  <2>1. p[2] \in Nonce
    BY DEF TypeOK
  <2> QED BY <2>1, <1>1, <1>3 DEF Known
<1>9. ASSUME NEW g \in Handler, handler'[g] = handler[g]
      PROVE  /\ handler'[g].route \in IntakeRoutes => handler'[g].received <= clock'
             /\ handler'[g].route \in {"evidence", "accepted"} => Passed(g)'
             /\ handler'[g].route = "accepted" =>
                  \E d \in ToSet(ledger') : d.state = "evidence" /\ d.reason = handler'[g].transcript
  BY <1>1, <1>2, <1>9, PassedKept DEF Judged
<1> QED BY <1>4, <1>5, <1>6, <1>7, <1>8, <1>9

\* Handing out: the claim is an event like any other.
LEMMA HandOutStep ==
  ASSUME RunsInv, NEW h \in Handler, HandOut(h) PROVE RunsInv'
<1> USE DEF RunsInv
<1>1. /\ handler[h].route = "next" /\ handler' = [handler EXCEPT ![h] = Free]
      /\ UNCHANGED <<clock, standing, transcripts>>
  BY DEF HandOut
<1>2. PICK n \in Nonce, r \in Runner :
        /\ n = handler[h].nonce /\ Minted(n) /\ RecordEvent(n, "claimed", r, "none")
        /\ assigned' = assigned \cup {<<r, n>>} /\ NoteLate(n)
  BY <1>1, HandlerType DEF Asking, HandOut
<1>3. PICK e \in Statement : e.nonce = n /\ e.state = "claimed" /\ e.by = r /\ Moves(e)
  <2>1. "claimed" \in Happening /\ "none" \in Reason
    BY DEF Happening, Reason
  <2> QED BY <1>2, <2>1, RunEventMoves
<1> USE DEF Moves
<1>4. ToSet(ledger') = ToSet(ledger) \cup {e} /\ ledger' \in Seq(Statement)
  BY <1>3, RecordAdds
<1>5. handler'[h] = Free /\ \A g \in Handler \ {h} : handler'[g] = handler[g]
  BY <1>1 DEF TypeOK
<1>6. "free" \notin IntakeRoutes /\ Terminal \cup {"intake", "evidence"} = IntakeRoutes /\ Free.route = "free"
      /\ "claimed" \notin Spent \cup {"evidence"} /\ "next" \notin IntakeRoutes
  BY DEF IntakeRoutes, Terminal, Free, Spent
<1>7. TypeOK'
  BY <1>1, <1>2, <1>3, <1>4 DEF TypeOK
<1>8. raced \subseteq raced' /\ raced' \subseteq raced \cup {<<"late", n>>}
      /\ (<<"late", n>> \notin raced' => rows[n].state \notin Spent)
  BY <1>2, <1>6 DEF NoteLate, Lifecycle, Spent, Terminal
<1>9. Known' /\ \A g \in Handler \ {h} :
        /\ handler'[g].route \in IntakeRoutes => handler'[g].received <= clock'
        /\ handler'[g].route \in {"evidence", "accepted"} => Passed(g)'
        /\ handler'[g].route = "accepted" =>
             \E d \in ToSet(ledger') : d.state = "evidence" /\ d.reason = handler'[g].transcript
  <2>1. rows'[n] # NoRow
    BY <1>2, <1>3 DEF Minted
  <2>2. \A p \in assigned' : p \in assigned \/ p = <<r, n>>
    BY <1>2
  <2>3. \E d \in ToSet(ledger') : d.nonce = n /\ d.state = "claimed" /\ d.by = r
    BY <1>3, <1>4
  <2>4. \A m \in Nonce : Minted(m) => rows'[m] # NoRow /\ rows'[m].issued = rows[m].issued
    BY <1>3 DEF Minted
  <2> QED BY <2>1, <2>2, <2>3, <2>4, <1>1, <1>2, <1>3, <1>5, OthersKept DEF Known, Minted
<1>10. RowTells'
  <2>1. ASSUME NEW m \in Nonce, Happened(m, Happening)' PROVE rows'[m].state \in Happening
    BY <2>1, <1>3, <1>4 DEF RowTells, Happened
  <2>2. ASSUME NEW m \in Nonce, <<"late", m>> \notin raced', Happened(m, Spent \cup {"evidence"})'
        PROVE  rows'[m].state \in Spent
    <3>1. Happened(m, Spent \cup {"evidence"}) /\ <<"late", m>> \notin raced
      BY <2>2, <1>3, <1>4, <1>6, <1>8 DEF Happened
    <3>2. m # n /\ rows[m].state \in Spent
      BY <3>1, <2>2, <1>8 DEF RowTells
    <3> QED BY <3>2, <1>3
  <2>3. \A g \in Handler : handler'[g].route \in Terminal \cup {"evidence"} => Happened(handler[g].transcript.nonce, Spent)'
    BY <1>4, <1>5, <1>6 DEF RowTells, Happened
  <2> QED BY <2>1, <2>2, <2>3 DEF RowTells, Happened
<1>11. OneClaim'
  <2> SUFFICES ASSUME NEW m \in Nonce, <<"next", m>> \notin raced
               PROVE  /\ \A f, g \in Askers(m)' : f = g
                      /\ Statements(m, "claimed")' # {} => Askers(m)' = {}
                      /\ \A d, f \in Statements(m, "claimed")' : d = f
    BY <1>8 DEF OneClaim
  <2>1. Askers(m)' = Askers(m) \ {h}
    BY <1>5, <1>6 DEF Askers
  <2>2. CASE m = n
    <3>1. h \in Askers(m)
      BY <2>2, <1>1, <1>2 DEF Askers
    <3>2. Askers(m)' = {} /\ Statements(m, "claimed") = {}
      BY <2>1, <3>1 DEF OneClaim
    <3>3. Statements(m, "claimed")' = {e}
      BY <2>2, <3>2, <1>3, <1>4 DEF Statements
    <3> QED BY <3>2, <3>3
  <2>3. CASE m # n
    <3>1. Statements(m, "claimed")' = Statements(m, "claimed")
      BY <2>3, <1>3, <1>4 DEF Statements
    <3> QED BY <2>1, <3>1 DEF OneClaim
  <2> QED BY <2>2, <2>3
<1>12. OneBundle'
  <2>1. \A m : Holders(m)' = Holders(m) /\ Statements(m, "evidence")' = Statements(m, "evidence")
    BY <1>1, <1>3, <1>4, <1>5, <1>6 DEF Holders, Statements
  <2> QED BY <2>1, <1>8 DEF OneBundle
<1>13. Judged'
  BY <1>5, <1>6, <1>9 DEF Judged, Terminal
<1>14. AcceptedNamesEvidence'
  BY <1>3, AcceptedKept
<1> QED BY <1>7, <1>9, <1>10, <1>11, <1>12, <1>13, <1>14

\* Minting: the nonce is new to the rows and the events.
LEMMA MintStep ==
  ASSUME RunsInv, NEW n \in Nonce, MintRunRequest(n) PROVE RunsInv'
<1> USE DEF RunsInv
<1> DEFINE e == [nonce |-> n, state |-> "requested", by |-> Once, reason |-> "none", at |-> clock]
           new == [state |-> "requested", issued |-> clock, updated |-> clock]
<1>1. /\ ~Minted(n) /\ Record(e) /\ rows' = [rows EXCEPT ![n] = new]
      /\ UNCHANGED <<clock, standing, handler, assigned, transcripts, raced>>
  BY DEF MintRunRequest, history
<1>2. e \in Statement /\ e.nonce = n /\ e.state = "requested"
  BY DEF Statement, TypeOK, Runner, Reason
<1>3. new \in RowOf /\ new # NoRow
  <2>1. new \in RowOf
    BY DEF RowOf, TypeOK
  <2>2. new.state # NoRow.state
    BY DEF NoRow
  <2> QED BY <2>1, <2>2
<1> HIDE DEF e, new
<1>4. ToSet(ledger') = ToSet(ledger) \cup {e} /\ ledger' \in Seq(Statement)
  BY <1>1, <1>2, RecordAdds
<1>5. TypeOK'
  BY <1>1, <1>3, <1>4 DEF TypeOK
<1>6. rows'[n] = new /\ \A m \in Nonce \ {n} : rows'[m] = rows[m]
  BY <1>1 DEF TypeOK
<1>7. \A m \in Nonce : Minted(m) => rows'[m] # NoRow /\ rows'[m].issued = rows[m].issued
  BY <1>1, <1>6 DEF Minted
<1>8. "requested" \notin Happening \cup {"evidence"} /\ "requested" \notin {"claimed", "accepted"} /\ Spent \subseteq Happening
  BY DEF Happening, Spent, Terminal
<1>9. Known' /\ \A g \in Handler :
        /\ handler'[g].route \in IntakeRoutes => handler'[g].received <= clock'
        /\ handler'[g].route \in {"evidence", "accepted"} => Passed(g)'
        /\ handler'[g].route = "accepted" =>
             \E d \in ToSet(ledger') : d.state = "evidence" /\ d.reason = handler'[g].transcript
  BY <1>1, <1>2, <1>3, <1>6, <1>7, OthersKept DEF Known, Minted
<1>10. RowTells'
  <2>1. \A d \in ToSet(ledger) : d.nonce # n
    BY <1>1 DEF Known
  <2>2. \A m, S : S \in {Happening, Spent, Spent \cup {"evidence"}} => (Happened(m, S)' <=> Happened(m, S))
    BY <1>2, <1>4, <1>8 DEF Happened
  <2>3. \A m \in Nonce : \A S : Happened(m, S) => rows'[m] = rows[m]
    BY <2>1, <1>6 DEF Happened
  <2>4. \A g \in Handler : handler'[g].route \in Terminal \cup {"evidence"} => Happened(handler[g].transcript.nonce, Spent)'
    BY <1>1, <2>2 DEF RowTells
  <2>5. \A m \in Nonce : Happened(m, Happening)' => rows'[m].state \in Happening
    BY <2>2, <2>3 DEF RowTells
  <2>6. \A m \in Nonce : <<"late", m>> \notin raced' /\ Happened(m, Spent \cup {"evidence"})' => rows'[m].state \in Spent
    BY <2>2, <2>3, <1>1 DEF RowTells
  <2> QED BY <2>4, <2>5, <2>6, <1>1 DEF RowTells, Happened
<1>11. OneClaim' /\ OneBundle'
  <2>1. \A m : /\ Statements(m, "claimed")' = Statements(m, "claimed")
               /\ Statements(m, "evidence")' = Statements(m, "evidence")
               /\ Askers(m)' = Askers(m) /\ Holders(m)' = Holders(m)
    BY <1>1, <1>2, <1>4, <1>8 DEF Statements, Askers, Holders
  <2> QED BY <2>1, <1>1 DEF OneClaim, OneBundle
<1>12. Judged'
  BY <1>9 DEF Judged
<1>13. AcceptedNamesEvidence'
  BY <1>1, <1>2, <1>7, <1>8, AcceptedKept
<1> QED BY <1>5, <1>9, <1>10, <1>11, <1>12, <1>13

\* The verdict is "evidence" only of what passed the checks.
LEMMA VerdictIs ==
  ASSUME NEW t, NEW outputs, NEW received, NEW spent
  PROVE  LET v == IntakeTranscript(t, outputs, received, spent) IN
         /\ v \in {"refused", "failed", "evidence"}
         /\ v = "evidence" => ~Refused(t, received, spent) /\ \A i \in DOMAIN t.run.steps : ClassifyStep(t.run.steps[i]) = "ok"
<1>1. CASE Refused(t, received, spent)
  BY <1>1 DEF IntakeTranscript
<1>2. CASE ~Refused(t, received, spent)
  <2>1. CASE \E i \in DOMAIN t.run.steps : ClassifyStep(t.run.steps[i]) # "ok"
    BY <1>2, <2>1 DEF IntakeTranscript
  <2>2. CASE ~\E i \in DOMAIN t.run.steps : ClassifyStep(t.run.steps[i]) # "ok"
    BY <1>2, <2>2 DEF IntakeTranscript
  <2> QED BY <2>1, <2>2
<1> QED BY <1>1, <1>2

\* A hand-in is recorded before it is judged.
LEMMA SubmittedStep ==
  ASSUME RunsInv, NEW h \in Handler, RecordSubmitted(h) PROVE RunsInv'
<1> USE DEF RunsInv
<1>1. handler[h].route = "intake" /\ UNCHANGED <<clock, standing, assigned, transcripts, raced>>
  BY DEF RecordSubmitted, history
<1>2. handler[h] \in Intaking /\ "intake" \in IntakeRoutes
  BY <1>1, HandlerType DEF IntakeRoutes
<1>3. PICK t, v :
        /\ t \in TranscriptOf /\ t = handler[h].transcript /\ RecordEvent(t.nonce, "submitted", t.runner, "none")
        /\ v = IntakeTranscript(t, handler[h].outputs, handler[h].received, handler[h].spent)
        /\ handler' = [handler EXCEPT ![h].route = v]
  BY <1>2 DEF RecordSubmitted, Intaking
<1>4. t.nonce \in Nonce /\ t.runner \in Runner /\ Minted(t.nonce)
  BY <1>1, <1>2, <1>3, HandlerType DEF TranscriptOf
<1>5. PICK e \in Statement : e.nonce = t.nonce /\ e.state = "submitted" /\ Moves(e)
  <2>1. "submitted" \in Happening /\ "none" \in Reason
    BY DEF Happening, Spent, Reason
  <2> QED BY <1>3, <1>4, <2>1, RunEventMoves
<1> USE DEF Moves
<1>6. ToSet(ledger') = ToSet(ledger) \cup {e} /\ ledger' \in Seq(Statement)
  BY <1>5, RecordAdds
<1>7. /\ v \in {"refused", "failed", "evidence"}
      /\ v = "evidence" => /\ ~Refused(t, handler[h].received, handler[h].spent)
                           /\ \A i \in DOMAIN t.run.steps : ClassifyStep(t.run.steps[i]) = "ok"
  BY <1>3, VerdictIs
<1>8. v \in IntakeRoutes /\ "next" \notin IntakeRoutes /\ Terminal \subseteq Spent
      /\ "submitted" \in Spent /\ "submitted" \notin {"claimed", "evidence", "accepted"}
      /\ Terminal \cup {"intake", "evidence"} = IntakeRoutes
  BY <1>7 DEF IntakeRoutes, Terminal, Spent
<1>9. /\ handler'[h].route = v /\ handler'[h].transcript = t /\ handler'[h].spent = handler[h].spent
      /\ handler'[h].received = handler[h].received
      /\ \A g \in Handler \ {h} : handler'[g] = handler[g]
  BY <1>2, <1>3 DEF TypeOK, Intaking
<1>10. TypeOK'
  BY <1>1, <1>2, <1>3, <1>5, <1>6, <1>8 DEF TypeOK, Intaking
<1>11. \A m \in Nonce : Minted(m) => rows'[m] # NoRow /\ rows'[m].issued = rows[m].issued
  BY <1>5 DEF Minted
<1>12. Known' /\ \A g \in Handler \ {h} :
        /\ handler'[g].route \in IntakeRoutes => handler'[g].received <= clock'
        /\ handler'[g].route \in {"evidence", "accepted"} => Passed(g)'
        /\ handler'[g].route = "accepted" =>
             \E d \in ToSet(ledger') : d.state = "evidence" /\ d.reason = handler'[g].transcript
  <2>1. rows'[e.nonce] # NoRow /\ Record(e)
    BY <1>4, <1>5, <1>11
  <2>2. \A g \in Handler :
           \/ handler'[g] = handler[g] \/ handler'[g] = Free
           \/ /\ handler'[g].route \in IntakeRoutes /\ handler[g].route \in IntakeRoutes
              /\ handler'[g].transcript = handler[g].transcript
    BY <1>1, <1>2, <1>3, <1>8, <1>9
  <2> QED BY <2>1, <2>2, <1>1, <1>9, <1>11, OthersKept DEF Known, Minted
<1>13. RowTells'
  <2>1. \A m \in Nonce : Happened(m, Happening)' => rows'[m].state \in Happening
    BY <1>4, <1>5, <1>6 DEF RowTells, Happened
  <2>2. \A m \in Nonce : <<"late", m>> \notin raced /\ Happened(m, Spent \cup {"evidence"})' => rows'[m].state \in Spent
    BY <1>4, <1>5, <1>6, <1>8 DEF RowTells, Happened
  <2>3. \A g \in Handler : handler'[g].route \in Terminal \cup {"evidence"} =>
          \E d \in ToSet(ledger') : d.nonce = handler'[g].transcript.nonce /\ d.state \in Spent
    BY <1>5, <1>6, <1>8, <1>9 DEF RowTells, Happened
  <2> QED BY <2>1, <2>2, <2>3, <1>1 DEF RowTells, Happened
<1>14. OneClaim'
  <2>1. \A m : Askers(m)' = Askers(m) /\ Statements(m, "claimed")' = Statements(m, "claimed")
    BY <1>1, <1>5, <1>6, <1>8, <1>9 DEF Askers, Statements, IntakeRoutes
  <2> QED BY <2>1, <1>1 DEF OneClaim
<1>15. OneBundle'
  <2>1. \A m : Holders(m)' \subseteq Holders(m) /\ Statements(m, "evidence")' = Statements(m, "evidence")
    BY <1>1, <1>3, <1>5, <1>6, <1>8, <1>9 DEF Holders, Statements
  <2> QED BY <2>1, <1>1 DEF OneBundle
<1>16. Judged'
  <2>1. handler'[h].received <= clock'
    BY <1>1, <1>9, <1>8 DEF Judged
  <2>2. v = "evidence" => Passed(h)'
    <3>1. rows'[t.nonce].issued = rows[t.nonce].issued
      BY <1>4, <1>11
    <3> QED BY <3>1, <1>7, <1>9 DEF Passed, Refused, InWindow, IssuedAt, ExpiresAt
  <2> QED BY <2>1, <2>2, <1>7, <1>9, <1>12 DEF Judged
<1>17. AcceptedNamesEvidence'
  BY <1>5, <1>8, <1>11, AcceptedKept
<1> QED BY <1>10, <1>12, <1>13, <1>14, <1>15, <1>16, <1>17

\* The bundle of an accepted hand-in is appended, unless it is there.
LEMMA EvidenceStep ==
  ASSUME RunsInv, NEW h \in Handler, RecordEvidence(h) PROVE RunsInv'
<1> USE DEF RunsInv
<1>1. handler[h].route = "evidence" /\ UNCHANGED <<rows, clock, standing, assigned, transcripts, raced>>
      /\ handler' = [handler EXCEPT ![h].route = "accepted"]
  BY DEF RecordEvidence, history
<1>2. handler[h] \in Intaking /\ "evidence" \in IntakeRoutes /\ "accepted" \in IntakeRoutes
  BY <1>1, HandlerType DEF IntakeRoutes, Terminal
<1>3. PICK t \in TranscriptOf :
        /\ t = handler[h].transcript
        /\ Record([nonce |-> t.nonce, state |-> "evidence", by |-> t.runner, reason |-> t, at |-> t.finished])
  BY <1>2 DEF RecordEvidence, Intaking
<1>4. t.nonce \in Nonce /\ t.runner \in Runner /\ t.finished \in Nat /\ Minted(t.nonce)
  BY <1>1, <1>2, <1>3, HandlerType DEF TranscriptOf
<1>5. PICK e \in Statement : e.nonce = t.nonce /\ e.state = "evidence" /\ e.reason = t /\ Record(e)
  BY <1>3, <1>4 DEF Statement, Reason
<1>6. ToSet(ledger') = ToSet(ledger) \cup {e} /\ ledger' \in Seq(Statement)
  BY <1>5, RecordAdds
<1>7. /\ handler'[h].route = "accepted" /\ handler'[h].transcript = t /\ handler'[h].spent = handler[h].spent
      /\ handler'[h].received = handler[h].received
      /\ \A g \in Handler \ {h} : handler'[g] = handler[g]
  BY <1>1, <1>2, <1>3 DEF TypeOK, Intaking
<1>8. "evidence" \notin Happening /\ "evidence" \notin {"claimed", "accepted", "next", "intake"}
      /\ "next" \notin IntakeRoutes /\ "accepted" \in Terminal
  BY DEF Happening, Spent, Terminal, IntakeRoutes
<1>9. TypeOK'
  BY <1>1, <1>2, <1>6 DEF TypeOK, Intaking
<1>10. \A m \in Nonce : Minted(m) => rows'[m] # NoRow /\ rows'[m].issued = rows[m].issued
  BY <1>1 DEF Minted
<1>11. Known' /\ \A g \in Handler \ {h} :
        /\ handler'[g].route \in IntakeRoutes => handler'[g].received <= clock'
        /\ handler'[g].route \in {"evidence", "accepted"} => Passed(g)'
        /\ handler'[g].route = "accepted" =>
             \E d \in ToSet(ledger') : d.state = "evidence" /\ d.reason = handler'[g].transcript
  <2>1. rows'[e.nonce] # NoRow /\ Record(e)
    BY <1>4, <1>5, <1>10
  <2>2. \A g \in Handler :
           \/ handler'[g] = handler[g] \/ handler'[g] = Free
           \/ /\ handler'[g].route \in IntakeRoutes /\ handler[g].route \in IntakeRoutes
              /\ handler'[g].transcript = handler[g].transcript
    BY <1>1, <1>2, <1>3, <1>7
  <2> QED BY <2>1, <2>2, <1>1, <1>7, <1>10, OthersKept DEF Known, Minted
<1>12. RowTells'
  <2>1. \A m \in Nonce : Happened(m, Happening)' => rows'[m].state \in Happening
    BY <1>1, <1>5, <1>6, <1>8 DEF RowTells, Happened
  <2>2. Happened(t.nonce, Spent \cup {"evidence"})
    BY <1>1, <1>3 DEF RowTells, Happened
  <2>3. \A m \in Nonce : <<"late", m>> \notin raced /\ Happened(m, Spent \cup {"evidence"})' => rows'[m].state \in Spent
    BY <2>2, <1>1, <1>4, <1>5, <1>6 DEF RowTells, Happened
  <2>4. \A g \in Handler : handler'[g].route \in Terminal \cup {"evidence"} =>
          \E d \in ToSet(ledger') : d.nonce = handler'[g].transcript.nonce /\ d.state \in Spent
    BY <1>1, <1>3, <1>6, <1>7 DEF RowTells, Happened
  <2> QED BY <2>1, <2>3, <2>4, <1>1 DEF RowTells, Happened
<1>13. OneClaim'
  <2>1. \A m : Askers(m)' = Askers(m) /\ Statements(m, "claimed")' = Statements(m, "claimed")
    BY <1>1, <1>2, <1>5, <1>6, <1>7, <1>8 DEF Askers, Statements
  <2> QED BY <2>1, <1>1 DEF OneClaim
<1>14. OneBundle'
  <2> SUFFICES ASSUME NEW m \in Nonce, <<"intake", m>> \notin raced, <<"late", m>> \notin raced
               PROVE  /\ \A f, g \in Holders(m)' : f = g
                      /\ Statements(m, "evidence")' # {} => Holders(m)' = {}
                      /\ \A d, f \in Statements(m, "evidence")' : d = f
    BY <1>1 DEF OneBundle
  <2>1. Holders(m)' = Holders(m) \ {h}
    BY <1>7 DEF Holders
  <2>2. CASE m = t.nonce
    <3>1. ~handler[h].spent
      BY <1>1 DEF Judged, Passed, Refused
    <3>2. h \in Holders(m)
      BY <2>2, <3>1, <1>1, <1>3 DEF Holders
    <3>3. Holders(m)' = {} /\ Statements(m, "evidence") = {}
      BY <2>1, <3>2 DEF OneBundle
    <3>4. Statements(m, "evidence")' = {e}
      BY <2>2, <3>3, <1>5, <1>6 DEF Statements
    <3> QED BY <3>3, <3>4
  <2>3. CASE m # t.nonce
    <3>1. Statements(m, "evidence")' = Statements(m, "evidence")
      BY <2>3, <1>5, <1>6 DEF Statements
    <3> QED BY <2>1, <3>1 DEF OneBundle
  <2> QED BY <2>2, <2>3
<1>15. Judged'
  <2>1. handler'[h].received <= clock' /\ Passed(h)
    BY <1>1, <1>2, <1>7 DEF Judged
  <2>2. Passed(h)'
    BY <2>1, <1>1, <1>3, <1>7 DEF Passed, Refused, InWindow, IssuedAt, ExpiresAt
  <2>3. \E d \in ToSet(ledger') : d.state = "evidence" /\ d.reason = handler'[h].transcript
    BY <1>5, <1>6, <1>7
  <2> QED BY <2>1, <2>2, <2>3, <1>11 DEF Judged
<1>16. AcceptedNamesEvidence'
  BY <1>5, <1>8, <1>10, AcceptedKept
<1> QED BY <1>9, <1>11, <1>12, <1>13, <1>14, <1>15, <1>16

\* What passed the intake was seen by the runner: neither the classes nor the
\* transcript nor the order of the refusals loses an answer that matters.
LEMMA PassedIsSeen ==
  ASSUME RunsInv, NEW h \in Handler, handler[h].route = "accepted", NEW e \in Statement,
         e.reason = handler[h].transcript, e.nonce = e.reason.nonce, e.at = clock
  PROVE  Seen(e)
<1> USE DEF RunsInv
<1>1. handler[h].route \in IntakeRoutes
  BY DEF IntakeRoutes, Terminal
<1>2. PICK t \in transcripts : t = handler[h].transcript
  BY <1>1, HandlerType
<1>3. PICK a \in Answers, skip \in BOOLEAN : Runs(a, skip) /\ t.run = Transcript(a, skip)
  BY DEF Known
<1>4. /\ t.run.account = a.caller /\ t.run.checked = ~skip /\ t.run.answer = a
      /\ DOMAIN t.run.steps = DOMAIN a.steps
      /\ \A i \in DOMAIN a.steps : t.run.steps[i] = ExecStep(a.steps[i])
  BY <1>3 DEF Transcript
<1>5. Passed(h) /\ handler[h].received <= clock /\ handler[h].received \in Nat /\ clock \in Nat
  BY <1>1, HandlerType DEF Judged, Intaking, TypeOK
<1>6. /\ t.run.account = "ours" /\ (t.run.checked \/ Emulator) /\ InWindow(t, handler[h].received)
      /\ \A i \in DOMAIN t.run.steps : ClassifyStep(t.run.steps[i]) = "ok"
  BY <1>2, <1>5 DEF Passed, Refused
<1>7. IssuedAt(t.nonce) <= t.finished /\ t.finished <= ExpiresAt(t.nonce) /\ t.finished <= clock
  <2>1. t.finished \in Nat
    BY DEF TypeOK, TranscriptOf
  <2> QED BY <2>1, <1>5, <1>6 DEF InWindow
<1>8. Emulator \/ a.probes \subseteq {"explicitDeny", "implicitDeny"}
  BY <1>3, <1>4, <1>6 DEF Runs, SelfCheck
<1>9. \A k \in DOMAIN a.steps : a.steps[k].exit = 0 /\ a.steps[k].stderr = {}
  BY <1>4, <1>6, OkIsClean, RunsAssumption
<1> QED BY <1>2, <1>4, <1>6, <1>7, <1>8, <1>9 DEF Seen

\* The outcome of the judgment is recorded.
LEMMA OutcomeStep ==
  ASSUME RunsInv, NEW h \in Handler, RecordOutcome(h) PROVE RunsInv'
<1> USE DEF RunsInv
<1>1. handler[h].route \in Terminal /\ UNCHANGED <<clock, standing, assigned, transcripts, raced>>
      /\ handler' = [handler EXCEPT ![h] = Free]
  BY DEF RecordOutcome, history
<1>2. handler[h] \in Intaking /\ handler[h].route \in IntakeRoutes
  BY <1>1, HandlerType DEF IntakeRoutes
<1>3. PICK t \in TranscriptOf, v \in Terminal, reason \in Reason :
        /\ t = handler[h].transcript /\ v = handler[h].route /\ (v = "accepted" => reason = t)
        /\ RecordEvent(t.nonce, v, t.runner, reason)
  <2>1. handler[h].transcript \in TranscriptOf /\ handler[h].spent \in BOOLEAN
    BY <1>2 DEF Intaking
  <2>2. (IF handler[h].route = "accepted" THEN handler[h].transcript ELSE handler[h].spent) \in Reason
    BY <2>1 DEF Reason
  <2> QED BY <2>1, <2>2, <1>1 DEF RecordOutcome
<1>4. t.nonce \in Nonce /\ t.runner \in Runner /\ Minted(t.nonce)
  BY <1>2, <1>3, HandlerType DEF TranscriptOf
<1>5. PICK e \in Statement : e.nonce = t.nonce /\ e.state = v /\ e.reason = reason /\ e.at = clock /\ Moves(e)
  <2>1. v \in Happening
    BY DEF Happening, Spent
  <2> QED BY <1>3, <1>4, <2>1, RunEventMoves
<1> USE DEF Moves
<1>6. ToSet(ledger') = ToSet(ledger) \cup {e} /\ ledger' \in Seq(Statement)
  BY <1>5, RecordAdds
<1>7. handler'[h] = Free /\ \A g \in Handler \ {h} : handler'[g] = handler[g]
  BY <1>1 DEF TypeOK
<1>8. /\ "free" \notin IntakeRoutes /\ Free.route = "free" /\ "next" \notin IntakeRoutes
      /\ Terminal \subseteq Spent /\ {"claimed", "evidence", "intake"} \cap Terminal = {}
      /\ Terminal \cup {"evidence"} \subseteq IntakeRoutes
  BY DEF IntakeRoutes, Free, Terminal, Spent
<1>9. TypeOK'
  BY <1>1, <1>5, <1>6 DEF TypeOK
<1>10. \A m \in Nonce : Minted(m) => rows'[m] # NoRow /\ rows'[m].issued = rows[m].issued
  BY <1>5 DEF Minted
<1>11. Known' /\ \A g \in Handler \ {h} :
        /\ handler'[g].route \in IntakeRoutes => handler'[g].received <= clock'
        /\ handler'[g].route \in {"evidence", "accepted"} => Passed(g)'
        /\ handler'[g].route = "accepted" =>
             \E d \in ToSet(ledger') : d.state = "evidence" /\ d.reason = handler'[g].transcript
  <2>1. rows'[e.nonce] # NoRow /\ Record(e)
    BY <1>4, <1>5, <1>10
  <2> QED BY <2>1, <1>1, <1>7, <1>10, OthersKept DEF Known, Minted
<1>12. RowTells'
  <2>1. \A m \in Nonce : Happened(m, Happening)' => rows'[m].state \in Happening
    BY <1>4, <1>5, <1>6 DEF RowTells, Happened
  <2>2. \A m \in Nonce : <<"late", m>> \notin raced /\ Happened(m, Spent \cup {"evidence"})' => rows'[m].state \in Spent
    BY <1>4, <1>5, <1>6, <1>8 DEF RowTells, Happened
  <2>3. \A g \in Handler : handler'[g].route \in Terminal \cup {"evidence"} =>
          \E d \in ToSet(ledger') : d.nonce = handler'[g].transcript.nonce /\ d.state \in Spent
    BY <1>6, <1>7, <1>8 DEF RowTells, Happened
  <2> QED BY <2>1, <2>2, <2>3, <1>1 DEF RowTells, Happened
<1>13. OneClaim'
  <2>1. \A m : Askers(m)' = Askers(m) /\ Statements(m, "claimed")' = Statements(m, "claimed")
    BY <1>2, <1>5, <1>6, <1>7, <1>8 DEF Askers, Statements
  <2> QED BY <2>1, <1>1 DEF OneClaim
<1>14. OneBundle'
  <2>1. \A m : Holders(m)' = Holders(m) /\ Statements(m, "evidence")' = Statements(m, "evidence")
    BY <1>1, <1>5, <1>6, <1>7, <1>8 DEF Holders, Statements
  <2> QED BY <2>1, <1>1 DEF OneBundle
<1>15. Judged'
  BY <1>7, <1>8, <1>11 DEF Judged, IntakeRoutes, Terminal
<1>16. AcceptedNamesEvidence'
  <2>1. e.state = "accepted" => Minted(e.nonce) /\ Seen(e) /\ \E d \in ToSet(ledger) : d.state = "evidence" /\ d.reason = e.reason
    BY <1>3, <1>4, <1>5, PassedIsSeen DEF Judged
  <2> QED BY <2>1, <1>5, <1>10, AcceptedKept
<1> QED BY <1>9, <1>11, <1>12, <1>13, <1>14, <1>15, <1>16

\* A runner performs what it was handed.
LEMMA PerformStep ==
  ASSUME RunsInv, NEW r \in Runner, NEW n \in Nonce, Perform(r, n) PROVE RunsInv'
<1> USE DEF RunsInv
<1>1. PICK a \in Answers, skip \in Skips, finished \in {t \in clock - Skew .. clock + Skew : t >= 0} :
        /\ Runs(a, skip)
        /\ transcripts' = transcripts \cup
             {[nonce |-> n, runner |-> r, finished |-> finished, run |-> Transcript(a, skip)]}
  BY DEF Perform
<1> DEFINE new == [nonce |-> n, runner |-> r, finished |-> finished, run |-> Transcript(a, skip)]
<1>2. <<r, n>> \in assigned /\ assigned' \subseteq assigned /\ UNCHANGED <<ledger, rows, clock, standing, handler, raced>>
  BY DEF Perform, history
<1>3. finished \in Nat /\ skip \in BOOLEAN /\ Transcript(a, skip) \in RunsMade
  BY RunsAssumption DEF TypeOK, RunsMade
<1>4. new \in TranscriptOf /\ new.nonce = n /\ new.run = Transcript(a, skip)
  BY <1>3 DEF TranscriptOf
<1>5. Minted(n)
  BY <1>2 DEF Known
<1> HIDE DEF new
<1>6. transcripts' = transcripts \cup {new}
  BY <1>1 DEF new
<1>7. transcripts \subseteq transcripts' /\ transcripts' \subseteq TranscriptOf
  BY <1>4, <1>6 DEF TypeOK
<1>8. \A t \in transcripts' \ transcripts :
        Minted(t.nonce) /\ \E b \in Answers, s \in BOOLEAN : Runs(b, s) /\ t.run = Transcript(b, s)
  BY <1>1, <1>3, <1>4, <1>5, <1>6
<1>9. clock' \in Nat /\ clock' >= clock /\ standing' \subseteq Sidecar
      /\ handler' \in [Handler -> {Free} \cup Asking \cup Intaking]
  BY <1>2 DEF TypeOK
<1> QED BY <1>2, <1>7, <1>8, <1>9, AsideStep

\* Every step keeps the invariant.
LEMMA StepInv == RunsInv /\ [Next]_vars => RunsInv'
<1> SUFFICES ASSUME RunsInv, [Next]_vars PROVE RunsInv'
  OBVIOUS
<1>1. ASSUME NEW n \in Nonce, MintRunRequest(n) PROVE RunsInv'
  BY <1>1, MintStep
<1>2. ASSUME NEW h \in Handler, NEW r \in Sidecar, NextRun(h, r) PROVE RunsInv'
  <2>1. PICK n \in Open : /\ handler' = [handler EXCEPT ![h] = [route |-> "next", nonce |-> n, runner |-> r]]
                          /\ NoteRace("next", n)
    BY <1>2 DEF NextRun
  <2> QED BY <2>1, <1>2, AskStep DEF NextRun, Runner
<1>3. ASSUME NEW h \in Handler, NEW n \in Nonce, NextRunByToken(h, n) PROVE RunsInv'
  BY <1>3, AskStep DEF NextRunByToken, Runner
<1>4. ASSUME NEW h \in Handler, NEW t \in transcripts, IntakeRun(h, t) PROVE RunsInv'
  BY <1>4, IntakeStep
<1>5. ASSUME NEW h \in Handler, Serve(h) PROVE RunsInv'
  BY <1>5, HandOutStep, SubmittedStep, EvidenceStep, OutcomeStep DEF Serve
<1>6. ASSUME NEW r \in Runner, NEW n \in Nonce, Perform(r, n) PROVE RunsInv'
  BY <1>6, PerformStep
<1>7. TypeOK /\ clock >= clock /\ \A h \in Handler : handler[h] \in {Free} \cup Asking \cup Intaking
  BY DEF RunsInv, TypeOK
<1>8. ASSUME NEW r \in Runner, NEW n \in Nonce, Abandon(r, n) PROVE RunsInv'
  BY <1>7, <1>8, AsideStep DEF Abandon, history, TypeOK
<1>9. ASSUME NEW r \in Sidecar, Register(r) \/ Revoke(r) PROVE RunsInv'
  BY <1>7, <1>9, AsideStep DEF Register, Revoke, history, TypeOK
<1>10. CASE Stop
  <2>1. UNCHANGED <<ledger, rows, clock, standing, assigned, transcripts, raced>> /\ handler' = [h \in Handler |-> Free]
    BY <1>10 DEF Stop
  <2> QED BY <2>1, <1>7, AsideStep DEF TypeOK
<1>11. CASE Tick
  <2>1. clock' = clock + 1 /\ UNCHANGED <<ledger, rows, standing, handler, assigned, transcripts, raced>>
    BY <1>11 DEF Tick, history
  <2> QED BY <2>1, <1>7, AsideStep DEF TypeOK
<1>12. CASE UNCHANGED vars
  BY <1>7, <1>12, AsideStep DEF vars, history, TypeOK
<1> QED BY <1>1, <1>2, <1>3, <1>4, <1>5, <1>6, <1>8, <1>9, <1>10, <1>11, <1>12 DEF Next

-----------------------------------------------------------------------------
(* The theorems. *)

\* What every route, runner, restart and tick keeps: whatever is under way is
\* of a minted request; a row tells that its nonce was claimed and, without a
\* late claim, that it is spent; without a race one handler is about to claim
\* or to append evidence, none once it was; and what is about to be accepted
\* passed every check.
THEOREM RunsInductive == Spec => []RunsInv
<1> QED BY InitInv, StepInv, PTL DEF Spec

\* A request yields at most one evidence bundle and is handed to one runner,
\* through any number of deliveries, handlers and restarts, the interleavings
\* it excepts by name being the only ones; whoever works on a request is on
\* record as its claimant.
THEOREM NonceIsSingleUseHolds == Spec => []NonceIsSingleUse
<1>1. RunsInv => NonceIsSingleUse
  <2> SUFFICES ASSUME RunsInv PROVE NonceIsSingleUse
    OBVIOUS
  <2>1. ASSUME NEW n \in Nonce
        PROVE  /\ (\E e, f \in Statements(n, "evidence") : e # f) => <<"intake", n>> \in raced \/ <<"late", n>> \in raced
               /\ (\E e, f \in Statements(n, "claimed") : e # f) => <<"next", n>> \in raced
    BY DEF RunsInv, OneClaim, OneBundle
  <2>2. ASSUME NEW p \in assigned
        PROVE  \E i \in DOMAIN ledger : ledger[i].nonce = p[2] /\ ledger[i].state = "claimed" /\ ledger[i].by = p[1]
    BY DEF RunsInv, Known, ToSet
  <2> QED BY <2>1, <2>2 DEF NonceIsSingleUse
<1> QED BY <1>1, RunsInductive, PTL

\* An accepted run names evidence listed before it, of a run inside its
\* request's window in which the configured account was seen under a role that
\* was denied every mutating probe and every command exited cleanly and said
\* nothing: whatever the account answers, the runner skips, the network repeats
\* and the server loses.
THEOREM AcceptedNamesEvidenceHolds == Spec => []AcceptedNamesEvidence
<1>1. RunsInv => AcceptedNamesEvidence
  BY DEF RunsInv
<1> QED BY <1>1, RunsInductive, PTL
=============================================================================
