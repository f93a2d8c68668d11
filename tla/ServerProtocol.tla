--------------------------- MODULE ServerProtocol ---------------------------
(***************************************************************************)
(* protocol.c of the server: what protocol_update() does with one slot of   *)
(* connections[], one action per process_* handler.  The loop that calls    *)
(* protocol_update() and the sockets are in ServerLoop.                     *)
(*                                                                          *)
(* What the peer writes arrives as chunks, one per recv().  A chunk is      *)
(* known by the first pattern of pattern.c it matches; everything that      *)
(* matches no command is "TEXT", and "TEXT_END" when its last five bytes    *)
(* are CR LF . CR LF.  A chunk is assumed to fit the buffers of the code.   *)
(***************************************************************************)
EXTENDS ServerFsm, Integers, Sequences

CONSTANTS MaxFd,      \* accept() hands out descriptors 1..MaxFd, then EMFILE
          Mailboxes,  \* addresses of the form user@domain
          Malformed,  \* an address without the '@' pattern_email looks for
          NoMailbox   \* no address

ASSUME MaxFdAssumption == MaxFd \in Nat \ {0}
ASSUME AddressAssumption == /\ Malformed \notin Mailboxes
                            /\ NoMailbox \notin Mailboxes \cup {Malformed}

Fds       == 1 .. MaxFd
Addresses == Mailboxes \cup {Malformed}

NoChunk == [kind |-> "", arg |-> NoMailbox]
Lines   == {"TEXT", "TEXT_END"}
Chunks  ==
  [kind : {"QUIT", "RSET", "VRFY", "HELO", "EHLO", "DATA", "DOT"} \cup Lines,
   arg  : {NoMailbox}]
  \cup [kind : {"MAIL", "RCPT"}, arg : Addresses]

Replies == {"220", "221", "250", "250 saved", "354", "421", "421 timeout",
            "451", "500", "501", "502", "554"}

\* letter_t.  A conn_t fresh from malloc() has a "garbage" letter pointer.
LetterMem == {"garbage", "live", "freed"}
Names     == Addresses \cup {NoMailbox}
Letters   == [mem : LetterMem, mail_from : Names, rcpt_to : Names, body : Seq(Lines)]
NoLetter == [mem |-> "garbage", mail_from |-> NoMailbox, rcpt_to |-> NoMailbox,
             body |-> <<>>]
letter_create(from) == [NoLetter EXCEPT !.mem = "live", !.mail_from = from]

\* conn_t, its slot in connections[] ("null", "live", or "freed" when the
\* slot still points at memory conn_free() released) and its stopwatch, which
\* is "expired" once more than CONN_TIMEOUT ms went by since it was started.
SlotMem  == {"null", "live", "freed"}
Inputs   == Chunks \cup {NoChunk}
Outputs  == Replies \cup {""}
Watch    == {"fresh", "expired"}
ConnRecords ==
  [mem : SlotMem, state : States, old_state : States, recv_buf : Inputs,
   send_buf : Outputs, letter : Letters, watch : Watch]

NoConn == [mem |-> "null", state |-> "init", old_state |-> "init",
           recv_buf |-> NoChunk, send_buf |-> "", letter |-> NoLetter,
           watch |-> "fresh"]

VARIABLES
  proc,         \* the process: "running", "shutdown" by SIGINT, "exited" by
                \* the exit() of the generated code, or "crashed" by a signal
  connections,  \* connections[] and watches[]
  maildir       \* the letters written below new/, in the order of writing

protocolVars == <<proc, connections, maildir>>

Saved == [mail_from : Names, rcpt_to : Names, body : Seq(Lines)]

Live(i) == connections[i].mem = "live"
-----------------------------------------------------------------------------
(* The pieces every pass over a slot is made of. *)

Answer(c, ev, reply) ==
  [c EXCEPT !.state = server_step(c.state, ev), !.send_buf = reply]

\* A new connection is walked through CONNECT and OK and greeted.
Greet(c) ==
  IF c.state # "init" THEN c
  ELSE [Answer([c EXCEPT !.state = server_step("init", "CONNECT")], "OK", "220")
          EXCEPT !.old_state = server_step("init", "CONNECT")]

\* Mutated form: the peer is told, the state stays.
TimeOut_only_tells(c) ==
  IF c.watch # "expired" THEN c ELSE [c EXCEPT !.send_buf = "421 timeout"]

TimeOut(c) ==
  IF c.watch # "expired" THEN c
  ELSE [c EXCEPT !.old_state = c.state, !.state = "disconnected",
                 !.send_buf = "421 timeout"]

\* The pass over a slot ends with the greeting and the timeout, after a
\* command as well as without one.
Idle(c)   == TimeOut(Greet(c))
Finish(c) == Idle([c EXCEPT !.recv_buf = NoChunk, !.watch = "fresh"])

Update(i, c) == connections' = [connections EXCEPT ![i] = c]

\* event_map[] of the pattern a chunk matches.
Event(chunk) ==
  IF chunk.kind \in Lines THEN "DATA_RECV"
  ELSE IF chunk.kind = "DOT" THEN "DATA_END" ELSE chunk.kind

\* A line that is no command, outside of a message.
Unmatched(c) == Event(c.recv_buf) = "DATA_RECV" /\ c.state # "expect_data_recv"

Dispatched(c) ==
  [c EXCEPT !.old_state = c.state, !.state = server_step(c.state, Event(c.recv_buf))]

\* Slot i holds a command that process_bind[] sends to the handler of st.
Handling(i, st) ==
  /\ Live(i) /\ connections[i].recv_buf # NoChunk
  /\ ~Unmatched(connections[i])
  /\ Dispatched(connections[i]).state = st

Conn(i) == Dispatched(connections[i])
Data(i) == connections[i].recv_buf.arg
-----------------------------------------------------------------------------
(* The handlers. *)

\* Mutated form: the event OK is not given to server_step().
process_helo_no_step(i) ==
  /\ \E st \in {"process_helo", "process_ehlo"} : Handling(i, st)
  /\ Update(i, Finish([Conn(i) EXCEPT !.send_buf = "250"]))
  /\ UNCHANGED <<proc, maildir>>

process_helo(i) ==
  /\ \E st \in {"process_helo", "process_ehlo"} : Handling(i, st)
  /\ Update(i, Finish(Answer(Conn(i), "OK", "250")))
  /\ UNCHANGED <<proc, maildir>>

\* data is NULL when pcre_get_substring() cannot allocate the address.
process_mail(i) ==
  /\ Handling(i, "process_mail")
  /\ \/ Update(i, Finish(Answer(Conn(i), "ERR", "451")))
     \/ Update(i, Finish([Answer(Conn(i), "OK", "250")
                            EXCEPT !.letter = letter_create(Data(i))]))
  /\ UNCHANGED <<proc, maildir>>

\* An address pattern_email() cannot split makes it return NULL, and the
\* handler dereferences that.
process_rcpt(i) ==
  /\ Handling(i, "process_rcpt")
  /\ \/ /\ Update(i, Finish(Answer(Conn(i), "ERR", "501")))
        /\ UNCHANGED proc
     \/ /\ Data(i) \in Mailboxes
        /\ Update(i, Finish([Answer(Conn(i), "OK", "250")
                               EXCEPT !.letter.rcpt_to = Data(i)]))
        /\ UNCHANGED proc
     \/ /\ Data(i) \notin Mailboxes
        /\ proc' = "crashed"
        /\ UNCHANGED connections
  /\ UNCHANGED maildir

process_data(i) ==
  /\ Handling(i, "process_data")
  /\ Update(i, Finish(Answer(Conn(i), "OK", "354")))
  /\ UNCHANGED <<proc, maildir>>

\* Mutated form: stored, and still receiving.
process_data_end_goes_on(i, c) ==
  /\ maildir' = Append(maildir, [mail_from |-> c.letter.mail_from,
                                 rcpt_to |-> c.letter.rcpt_to,
                                 body |-> c.letter.body])
  /\ Update(i, Finish([c EXCEPT !.state = "expect_data_recv", !.send_buf = "250 saved"]))

\* Writes the letter of c into new/ and frees it; when fopen() fails the
\* session goes back to "ready" and keeps its letter.
process_data_end(i, c) ==
  \/ /\ maildir' = Append(maildir, [mail_from |-> c.letter.mail_from,
                                    rcpt_to |-> c.letter.rcpt_to,
                                    body |-> c.letter.body])
     /\ Update(i, Finish([Answer(c, "OK", "250 saved") EXCEPT !.letter.mem = "freed"]))
  \/ /\ Update(i, Finish([c EXCEPT !.state = "ready", !.send_buf = "554"]))
     /\ UNCHANGED maildir

\* Mutated form: the dot is appended like a line.
data_end_keeps_dot(i) ==
  /\ Handling(i, "process_data_end")
  /\ process_data_end(i, [Conn(i) EXCEPT !.letter.body = Append(@, "TEXT")])
  /\ UNCHANGED proc

\* The lone dot: pattern DATA_END has no group, so nothing is appended.
data_end(i) ==
  /\ Handling(i, "process_data_end")
  /\ process_data_end(i, Conn(i))
  /\ UNCHANGED proc

\* A chunk of the message.  One that ends in CR LF . CR LF goes on to
\* process_data_end(), which appends it, terminator and all.
process_data_recv(i) ==
  /\ Handling(i, "process_data_recv")
  /\ LET c      == Conn(i)
         filled == [c EXCEPT !.letter.body = Append(@, c.recv_buf.kind)]
     IN  IF c.recv_buf.kind = "TEXT_END"
         THEN process_data_end(i,
                [filled EXCEPT !.old_state = c.state,
                   !.state = server_step(server_step(c.state, "OK"), "DATA_END")])
         ELSE /\ Update(i, Finish([filled EXCEPT !.state = server_step(c.state, "OK")]))
              /\ UNCHANGED maildir
  /\ UNCHANGED proc

\* Mutated form: the session goes on where it was, as after VRFY.
process_rset_resumes(i) ==
  /\ Handling(i, "process_rset")
  /\ Update(i, Finish([Conn(i) EXCEPT !.state = Conn(i).old_state, !.send_buf = "250",
                                      !.letter.mem = "freed"]))
  /\ UNCHANGED <<proc, maildir>>

\* letter_free() of a pointer that is garbage or was freed before is
\* undefined: it kills the process or goes unnoticed.
process_rset(i) ==
  /\ Handling(i, "process_rset")
  /\ \/ /\ Update(i, Finish([Answer(Conn(i), "OK", "250") EXCEPT !.letter.mem = "freed"]))
        /\ UNCHANGED proc
     \/ /\ connections[i].letter.mem # "live"
        /\ proc' = "crashed"
        /\ UNCHANGED connections
  /\ UNCHANGED maildir

process_vrfy(i) ==
  /\ Handling(i, "process_vrfy")
  /\ Update(i, Finish([Conn(i) EXCEPT !.state = Conn(i).old_state, !.send_buf = "502"]))
  /\ UNCHANGED <<proc, maildir>>

process_quit(i) ==
  /\ Handling(i, "process_quit")
  /\ Update(i, Finish(Answer(Conn(i), "OK", "221")))
  /\ UNCHANGED <<proc, maildir>>

reply_500(i) ==
  /\ Live(i) /\ connections[i].recv_buf # NoChunk /\ Unmatched(connections[i])
  /\ Update(i, Finish([connections[i] EXCEPT !.send_buf = "500"]))
  /\ UNCHANGED <<proc, maildir>>

\* A command smtp.tpl has no transition for: server_step() calls exit().
invalid_transition(i) ==
  /\ Handling(i, "invalid")
  /\ proc' = "exited"
  /\ UNCHANGED <<connections, maildir>>

no_command(i) ==
  /\ Live(i) /\ connections[i].recv_buf = NoChunk
  /\ Update(i, Idle(connections[i]))
  /\ UNCHANGED <<proc, maildir>>

\* The slot still points at a freed conn_t: what the pass reads and writes
\* there is undefined.  It kills the process or goes unnoticed.
use_after_free(i) ==
  /\ connections[i].mem = "freed"
  /\ proc' \in {"running", "crashed"}
  /\ UNCHANGED <<connections, maildir>>

\* The body of the loop of protocol_update() for slot i.
protocol_slot(i) ==
  \/ process_helo(i) \/ process_mail(i) \/ process_rcpt(i) \/ process_data(i)
  \/ data_end(i) \/ process_data_recv(i) \/ process_rset(i)
  \/ process_vrfy(i) \/ process_quit(i) \/ reply_500(i)
  \/ invalid_transition(i) \/ no_command(i) \/ use_after_free(i)
=============================================================================
