------------------------------ MODULE MCServer ------------------------------
(***************************************************************************)
(* ServerLoop with the chunks its peers may send, for TLC.                  *)
(***************************************************************************)
EXTENDS ServerLoop

CONSTANTS alice, bob  \* mailboxes

Plain(kind) == [kind |-> kind, arg |-> NoMailbox]
With(kind, arg) == [kind |-> kind, arg |-> arg]

MCMailboxes == {alice, bob}

\* Every kind of chunk; one sender, one recipient and an address without '@'.
Dialogue ==
  {c \in Chunks : CASE c.kind = "MAIL" -> c.arg = alice
                    [] c.kind = "RCPT" -> c.arg \in {bob, Malformed}
                    [] OTHER -> TRUE}

\* Hardly a word.
Hello == {Plain("HELO"), Plain("QUIT")}
=============================================================================
