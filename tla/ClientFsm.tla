------------------------------ MODULE ClientFsm ------------------------------
(***************************************************************************)
(* The state machine of the client's session with one mail domain:          *)
(* client-fsm.c, which AutoFSM generated from client.def.                   *)
(***************************************************************************)

ClientStates == {"init", "send_helo", "send_mail_from", "send_rcpt_to",
                 "send_data", "send_body", "send_quit", "connect", "invalid", "done"}

ClientEvents == {"OK", "ERROR", "UNSENT_DATA", "TIMEOUT", "RTIME_EXPIRED",
                 "COMMAND_NOT_IMPLEMENTED", "MULTIPLE_RCPTS", "MULTIPLE_EMAILS"}

\* Mutated form: RCPT TO is left out.
Advance_no_rcpt ==
  [init |-> "connect", connect |-> "send_helo", send_helo |-> "send_mail_from",
   send_mail_from |-> "send_data", send_rcpt_to |-> "send_data",
   send_data |-> "send_body", send_body |-> "send_quit", send_quit |-> "init"]

\* What each state becomes when the server answers "OK".
Advance ==
  [init |-> "connect", connect |-> "send_helo", send_helo |-> "send_mail_from",
   send_mail_from |-> "send_rcpt_to", send_rcpt_to |-> "send_data",
   send_data |-> "send_body", send_body |-> "send_quit", send_quit |-> "init"]

\* client_fsm_trans_table[].  "invalid" is never returned: client_fsm_step()
\* calls exit() first.  From a terminal state it starts over, on any event.
client_fsm_step(st, ev) ==
  LET terminal == st \in {"invalid", "done"}
  IN  CASE terminal                                               -> "init"
        [] ev = "OK" /\ st \in DOMAIN Advance                     -> Advance[st]
        [] ev \in {"ERROR", "TIMEOUT"} /\ ~terminal               -> "done"
        [] st = "send_helo" /\ ev = "RTIME_EXPIRED"               -> "done"
        [] st = "send_rcpt_to" /\ ev = "MULTIPLE_RCPTS"           -> "send_rcpt_to"
        [] st = "send_body" /\ ev = "MULTIPLE_EMAILS"             -> "send_mail_from"
        [] OTHER                                                  -> "invalid"
==============================================================================
