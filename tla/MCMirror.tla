------------------------------ MODULE MCMirror ------------------------------
(* Small instances of Mirror for TLC.                                        *)
EXTENDS Mirror, TLC

Symmetry == Permutations(Contents)

\* The two sides change one after the other: a change is made before the mirror
\* first starts or when it has settled.
Settled ==
    \/ phase = "down" /\ cursor = "none"
    \/ Idle /\ feed = <<>> /\ held = {}
InTurn == Next /\ (user' # user \/ foreign' # foreign => Settled)
InTurnSpec == Init /\ [][InTurn]_vars /\ Scheduled /\ WF_vars(Poll)

=============================================================================
