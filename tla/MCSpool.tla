------------------------------- MODULE MCSpool -------------------------------
(***************************************************************************)
(* Spool with letters to three mailboxes, for TLC.                          *)
(***************************************************************************)
EXTENDS Spool, TLC

\* Two letters for one mailbox, one for a domain of three labels, whose user
\* has "new" in his name.
MCLetters == {"l1", "l2", "l3"}
MCBoxOf == [l \in MCLetters |->
  IF l = "l3" THEN [user |-> <<"newton">>, domain |-> <<"mail", "example", "org">>]
  ELSE [user |-> <<"bob">>, domain |-> <<"example", "com">>]]

\* mail_dir has no dot.
NoLabels == <<>>

\* Bound of the run: one of the letters for the same mailbox, which are alike,
\* finds the disk full.
OneLoses == \A l \in Letters : lost[l] > 0 => l = "l1"

\* The workers do the same.
SameWorkers == Permutations(Servers)
=============================================================================
