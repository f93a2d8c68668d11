------------------------------ MODULE MCClient ------------------------------
(***************************************************************************)
(* ClientWorker with two domains and a letter for each, for TLC.           *)
(***************************************************************************)
EXTENDS ClientWorker

CONSTANTS d1, d2, m1, m2

TwoDomains == {d1, d2}
TwoLetters == {m1, m2}
OneEach    == [m \in Mails |-> IF m = m1 THEN d1 ELSE d2]

EachOnce   == [m \in Mails |-> 1]
FirstTwice == [m \in Mails |-> IF m = m1 THEN 2 ELSE 1]
=============================================================================
