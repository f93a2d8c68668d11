------------------------------ MODULE ServerFsm ------------------------------
(***************************************************************************)
(* The state machine of one SMTP connection of the server.  The C code of   *)
(* it is generated by AutoFSM from server/proto/smtp.tpl, so the            *)
(* definitions file is the source: one arm of server_step stands for the    *)
(* transitions that share an event and a target.                            *)
(***************************************************************************)

\* The states smtp.tpl declares, "init" which AutoFSM always adds, and the
\* two terminal states "invalid" and "done" it appends.
States ==
  {"init", "connected", "disconnected", "ready",
   "process_helo", "process_ehlo", "process_quit", "process_vrfy",
   "process_rset", "process_timeout", "expect_mail", "process_mail",
   "expect_rcpt", "process_rcpt", "expect_data", "process_data",
   "expect_data_recv", "process_data_recv", "process_data_end",
   "invalid", "done"}

Events ==
  {"CONNECT", "TIMEOUT", "OK", "ERR", "QUIT", "RSET", "VRFY", "HELO",
   "EHLO", "MAIL", "RCPT", "DATA", "DATA_RECV", "DATA_END"}

\* The states in which a session between commands may be asked to RSET, to
\* VRFY or to end by a TIMEOUT event.
Interruptible == {"ready", "expect_mail", "expect_rcpt", "expect_data"}

\* The successor of state st on event ev.  "invalid" is the answer for a pair
\* smtp.tpl gives no transition for: the generated code then prints an error
\* and calls exit(), so no caller ever sees that value.  From a terminal
\* state the generated code starts over.
server_step(st, ev) ==
  CASE st \in {"invalid", "done"}                             -> "init"
    [] st = "init" /\ ev = "CONNECT"                          -> "connected"
    [] st = "connected" /\ ev = "OK"                          -> "ready"
    [] st = "disconnected" /\ ev = "OK"                       -> "done"
    [] st \in Interruptible \cup {"connected"} /\ ev = "QUIT" -> "process_quit"
    [] st \in {"process_quit", "process_timeout"} /\ ev = "OK"
                                                              -> "disconnected"
    [] st \in Interruptible /\ ev = "TIMEOUT"                 -> "process_timeout"
    [] st \in Interruptible /\ ev = "RSET"                    -> "process_rset"
    [] st = "process_rset" /\ ev = "OK"                       -> "ready"
    [] st \in Interruptible /\ ev = "VRFY"                    -> "process_vrfy"
    [] st = "ready" /\ ev = "HELO"                            -> "process_helo"
    [] st = "ready" /\ ev = "EHLO"                            -> "process_ehlo"
    [] st \in {"process_helo", "process_ehlo"} /\ ev = "ERR"  -> "ready"
    [] st \in {"process_helo", "process_ehlo"} /\ ev = "OK"   -> "expect_mail"
    [] st = "expect_mail" /\ ev = "MAIL"                      -> "process_mail"
    [] st = "process_mail" /\ ev = "ERR"                      -> "expect_mail"
    [] st = "process_mail" /\ ev = "OK"                       -> "expect_rcpt"
    [] st = "expect_rcpt" /\ ev = "RCPT"                      -> "process_rcpt"
    [] st = "process_rcpt" /\ ev = "ERR"                      -> "expect_rcpt"
    [] st = "process_rcpt" /\ ev = "OK"                       -> "expect_data"
    [] st = "expect_data" /\ ev = "DATA"                      -> "process_data"
    [] st = "process_data" /\ ev = "ERR"                      -> "expect_data"
    [] st = "process_data" /\ ev = "OK"                       -> "expect_data_recv"
    [] st = "expect_data_recv" /\ ev = "DATA_RECV"            -> "process_data_recv"
    [] st = "expect_data_recv" /\ ev = "DATA_END"             -> "process_data_end"
    [] st = "process_data_recv" /\ ev \in {"ERR", "OK"}       -> "expect_data_recv"
    [] st = "process_data_end" /\ ev = "OK"                   -> "expect_mail"
    [] OTHER                                                  -> "invalid"
==============================================================================
