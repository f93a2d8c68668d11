------------------------------- MODULE MCRuns -------------------------------
(***************************************************************************)
(* ClientRuns with a letter for each of two domains, for TLC.               *)
(***************************************************************************)
EXTENDS ClientRuns, TLC

CONSTANTS d1, d2, m1, m2, l1, l2

Two     == {d1, d2}
OneEach == (m1 :> d1) @@ (m2 :> d2)
\* Bound of the run about clean starts: what follows another start is not looked at.
Clean   == clean
\* Bounds of the run about what is heard: a refused configuration is looked at in
\* the other run, and no queue holds a message twice.
Heard   == /\ \A r \in Runs : conf[r] \in {"unread", "read", "usage"}
           /\ \A k \in Keys : \A i, j \in DOMAIN queues[k] :
                queues[k][i] = queues[k][j] => i = j
One     == {d1}
TheOne  == (m1 :> d1)
Texts   == <<l1, l2>>
=============================================================================
