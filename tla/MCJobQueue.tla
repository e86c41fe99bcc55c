----------------------------- MODULE MCJobQueue -----------------------------
(* Small instances of JobQueue for TLC: an intent that touches k1 alone (a   *)
(* push) and one that touches k1 and k2 (a rename).                          *)
EXTENDS JobQueue, TLC

CONSTANTS h1, h2, push1, rename12, k1, k2

Touched == push1 :> {k1} @@ rename12 :> {k1, k2}

\* One queue object for every mirror.
OneQueue == [m \in Mirrors |-> h1]

\* A queue object per mirror, as Mirror's constructor opens it.
QueueEach == CHOOSE f \in [Mirrors -> Handles] :
                 \A m, n \in Mirrors : f[m] = f[n] => m = n

Symmetry == Permutations(Mirrors)
=============================================================================
