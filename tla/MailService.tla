----------------------------- MODULE MailService -----------------------------
(***************************************************************************)
(* What a mail server promises, whatever the connections and the loop below *)
(* it: each session builds one letter at a time, sender first, then the     *)
(* recipient, then the text line by line; a letter is stored once, whole,   *)
(* as the session built it; and a letter that is not stored leaves nothing  *)
(* behind for the next one.                                                 *)
(***************************************************************************)
EXTENDS Sequences

CONSTANTS Sessions, Senders, Recipients, TextLines, Nobody

VARIABLES
  draft,   \* the letter a session is at, and how far it got
  stored   \* the letters stored so far

Draft(stage, mail_from, rcpt_to, body) ==
  [stage |-> stage, mail_from |-> mail_from, rcpt_to |-> rcpt_to, body |-> body]

Blank == Draft("none", Nobody, Nobody, <<>>)

Init == /\ draft = [s \in Sessions |-> Blank]
        /\ stored = <<>>

Redraft(s, d) == draft' = [draft EXCEPT ![s] = d]

Begin(s) ==
  /\ draft[s].stage = "none"
  /\ \E a \in Senders : Redraft(s, Draft("sender", a, Nobody, <<>>))
  /\ UNCHANGED stored

Address(s) ==
  /\ draft[s].stage = "sender"
  /\ \E b \in Recipients :
       Redraft(s, Draft("recipient", draft[s].mail_from, b, draft[s].body))
  /\ UNCHANGED stored

StartText(s) ==
  /\ draft[s].stage = "recipient"
  /\ Redraft(s, Draft("text", draft[s].mail_from, draft[s].rcpt_to, draft[s].body))
  /\ UNCHANGED stored

Write(s) ==
  /\ draft[s].stage = "text"
  /\ \E l \in TextLines :
       Redraft(s, Draft("text", draft[s].mail_from, draft[s].rcpt_to,
                        Append(draft[s].body, l)))
  /\ UNCHANGED stored

\* The last line may come with the request to store.
Store(s) ==
  /\ draft[s].stage = "text"
  /\ \E last \in {<<>>} \cup {<<l>> : l \in TextLines} :
       stored' = Append(stored, [mail_from |-> draft[s].mail_from,
                                 rcpt_to |-> draft[s].rcpt_to,
                                 body |-> draft[s].body \o last])
  /\ Redraft(s, Blank)

\* The session is reset, refused, timed out or closed.
Drop(s) == Redraft(s, Blank) /\ UNCHANGED stored

Next == \E s \in Sessions :
          Begin(s) \/ Address(s) \/ StartText(s) \/ Write(s) \/ Store(s) \/ Drop(s)

Spec == Init /\ [][Next]_<<draft, stored>>
=============================================================================
