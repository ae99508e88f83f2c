------------------------------ MODULE MCMethods ------------------------------
(* Small instances of Methods for TLC. *)
EXTENDS Artifacts

\* Two recipes of the catalog that look at one file, and a client's.
MCAnchors == [p |-> <<"f">>, q |-> <<"f">>, u |-> <<>>]
MCKsisOf == [p |-> {"k1"}, q |-> {"k1"}]
MCIdOrder == <<"u", "p", "q">>

\* Jan, Feb, Mar, Apr: the last day of each.
MCLengths == <<31, 28, 31, 30>>
MCDays == {31, 59, 90, 120}
MCWindows == [c \in {"machine", "non-machine"} |->
                IF c = "machine" THEN [unit |-> "days", num |-> 31] ELSE [unit |-> "months", num |-> 2]]

Report(k, v, a, c) == [recipe |-> "u", ksi |-> k, verdict |-> v, automated |-> a, class |-> c]
MCReports == {Report("k1", "violated", TRUE, "point-in-time"), Report("k1", "evidenced", FALSE, "none"),
              Report("k2", "evidenced", TRUE, "point-in-time"), Report("k2", "unevidenced", TRUE, "none")}

Scan(r, v, c, class) == [recipe |-> r, verdict |-> v, seen |-> [f \in {"f"} |-> c], class |-> class]
MCScans == {Scan("p", "evidenced", 0, "process-generated"), Scan("p", "violated", 0, "none"),
            Scan("q", "evidenced", 1, "none"),
            Scan("q", "violated", 1, "process-generated")}
MCAuthored == {[ksi |-> "k1", slot |-> 1]}

\* Five bodies of k1 stand from the first.  Then k1 is validated twice; or once, and
\* k2 by a client; or it failed, drifted, was scoped out and lost a body; or a
\* client reported on both; or all its recipes are out of scope and a client's
\* unautomated result is all there is.
MCBodies == [n \in 1..5 |-> [kind |-> "artifact", ksi |-> "k1", slot |-> n, body |-> "b1", since |-> 31, at |-> 31]]
Past(s, at) == s @@ [kind |-> "evidence", at |-> at, commit |-> at, run |-> IF at = 31 THEN 1 ELSE 2]
Sent(k, v, a, at) == Past(Report(k, v, a, "none") @@ [seen |-> <<>>, run |-> 0], at)
Ran(n, at) == [kind |-> "run", run |-> n, at |-> at]
ScopedOut(r, at) == [kind |-> "scoping", recipe |-> r, verdict |-> "none", at |-> at, commit |-> 0, seen |-> <<>>]
MCPasts ==
  LET p == Scan("p", "evidenced", 0, "none")
      q == Scan("q", "evidenced", 0, "none")
  IN {MCBodies \o rest \o <<Ran(2, 59)>> : rest \in
       {<<Past(p, 31), Past(q, 31), Ran(1, 31), Past(p, 59), Past(q, 59)>>,
        <<Past(p, 31), Ran(1, 31), Past(p, 59),
          [kind |-> "attestation", claim |-> "c", ksi |-> "k2", attests |-> TRUE, at |-> 59],
          Sent("k2", "violated", TRUE, 59)>>,
        <<Past(p, 31), Ran(1, 31), Past(Scan("q", "violated", 1, "none"), 59),
          ScopedOut("p", 59),
          [kind |-> "declaration", ksi |-> "k1", slot |-> 1, resolved |-> FALSE, at |-> 59]>>,
        <<Sent("k1", "violated", TRUE, 31), Ran(1, 31), Sent("k1", "evidenced", FALSE, 59),
          Sent("k2", "evidenced", TRUE, 59), Past(p, 59)>>,
        <<ScopedOut("p", 31), Sent("k1", "evidenced", FALSE, 31), Ran(1, 31), ScopedOut("q", 59),
          Sent("k1", "evidenced", FALSE, 59)>>}}
=============================================================================
