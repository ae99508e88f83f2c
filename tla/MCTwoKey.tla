------------------------------ MODULE MCTwoKey ------------------------------
(* Small instances for TLC.  A behaviour is one of the console's writes or   *)
(* one of its mirrors of the daemon.                                         *)
EXTENDS TwoKey, Mirror, TLC

VARIABLE mirrors

Symmetry == Permutations(Call) \cup Permutations(Scan) \cup Permutations(Approver) \cup Permutations(Body)

ConsoleInit == Init /\ MirrorInit /\ mirrors \in BOOLEAN
ConsoleNext == /\ UNCHANGED mirrors
               /\ \/ ~mirrors /\ Next /\ UNCHANGED mirrorVars
                  \/ mirrors /\ MirrorNext /\ UNCHANGED vars
ConsoleSpec == ConsoleInit /\ [][ConsoleNext]_<<mirrors, mirrorVars, vars>>
=============================================================================
