---------------------------- MODULE ServerProofs ----------------------------
(***************************************************************************)
(* Proofs about ServerLoop, for every number of descriptors, set of         *)
(* mailboxes, choice of faults and bound.                                   *)
(***************************************************************************)
EXTENDS ServerLoop, TLAPS

-----------------------------------------------------------------------------
(* The state machine. *)

\* The steps the handlers take.
LEMMA StepOfHandler ==
  /\ server_step("init", "CONNECT") = "connected"
  /\ server_step("connected", "OK") = "ready"
  /\ server_step("process_helo", "OK") = "expect_mail"
  /\ server_step("process_ehlo", "OK") = "expect_mail"
  /\ server_step("process_mail", "ERR") = "expect_mail"
  /\ server_step("process_mail", "OK") = "expect_rcpt"
  /\ server_step("process_rcpt", "ERR") = "expect_rcpt"
  /\ server_step("process_rcpt", "OK") = "expect_data"
  /\ server_step("process_data", "OK") = "expect_data_recv"
  /\ server_step("process_data_recv", "OK") = "expect_data_recv"
  /\ server_step("expect_data_recv", "DATA_END") = "process_data_end"
  /\ server_step("process_data_end", "OK") = "expect_mail"
  /\ server_step("process_rset", "OK") = "ready"
  /\ server_step("process_quit", "OK") = "disconnected"
BY DEF server_step, Interruptible

LEMMA StepsToResting ==
  /\ server_step("process_helo", "OK") \in Resting
  /\ server_step("process_ehlo", "OK") \in Resting
  /\ server_step("process_mail", "ERR") \in Resting
  /\ server_step("process_mail", "OK") \in Resting
  /\ server_step("process_rcpt", "ERR") \in Resting
  /\ server_step("process_rcpt", "OK") \in Resting
  /\ server_step("process_data", "OK") \in Resting
  /\ server_step("process_data_recv", "OK") \in Resting
  /\ server_step("process_data_end", "OK") \in Resting
  /\ server_step("process_rset", "OK") \in Resting
  /\ server_step("process_quit", "OK") \in Resting
BY StepOfHandler DEF Resting

\* From which resting state, and on which event, each handler is reached.
LEMMA StepToHandler ==
  ASSUME NEW st \in Resting, NEW ev
  PROVE  /\ server_step(st, ev) = "process_mail" => st = "expect_mail" /\ ev = "MAIL"
         /\ server_step(st, ev) = "process_rcpt" => st = "expect_rcpt" /\ ev = "RCPT"
         /\ server_step(st, ev) = "process_data" => st = "expect_data"
         /\ server_step(st, ev) = "process_data_recv" =>
              st = "expect_data_recv" /\ ev = "DATA_RECV"
         /\ server_step(st, ev) = "process_data_end" =>
              st = "expect_data_recv" /\ ev = "DATA_END"
         /\ server_step(st, ev) = "process_vrfy" => st \in Interruptible
BY DEF server_step, Interruptible, Resting

\* What the handlers write into a conn_t.
LEMMA MembersOfTypes ==
  /\ Resting \subseteq States /\ {"connected", "process_data_recv"} \subseteq States
  /\ Replies \subseteq Outputs /\ "" \in Outputs
  /\ {"220", "221", "250", "250 saved", "354", "421 timeout", "451", "500",
      "501", "502", "554"} \subseteq Outputs
  /\ NoChunk \in Inputs /\ NoMailbox \in Names /\ Mailboxes \subseteq Names
  /\ {"fresh", "expired"} \subseteq Watch
  /\ {"null", "live", "freed"} \subseteq SlotMem
  /\ {"garbage", "live", "freed"} \subseteq LetterMem
  /\ <<>> \in Seq(Lines)
BY DEF Resting, States, Replies, Outputs, Inputs, Names, Addresses, Watch, SlotMem, LetterMem

LEMMA RepliesOfHandlers ==
  /\ "221" \in Outputs /\ "250" \in Outputs /\ "250 saved" \in Outputs
  /\ "354" \in Outputs /\ "451" \in Outputs /\ "500" \in Outputs
  /\ "501" \in Outputs /\ "502" \in Outputs /\ "554" \in Outputs
BY DEF Replies, Outputs

\* The states of Resting are told apart by name.
LEMMA RestingStates ==
  {"init", "ready", "expect_mail", "expect_rcpt", "expect_data",
   "expect_data_recv", "disconnected"} \subseteq Resting
BY DEF Resting
-----------------------------------------------------------------------------
(* One connection. *)

\* A conn_t as it is between two passes.
Settled(c) == c \in ConnRecords /\ c.state \in Resting

LEMMA IdleSettled ==
  ASSUME NEW c, Settled(c)
  PROVE  /\ Settled(Idle(c))
         /\ Idle(c).letter = c.letter /\ Idle(c).mem = c.mem
         /\ Idle(c).state \in {c.state, "ready", "disconnected"}
<1>1. /\ Settled(Greet(c))
      /\ Greet(c).letter = c.letter /\ Greet(c).mem = c.mem
      /\ Greet(c).state = (IF c.state = "init" THEN "ready" ELSE c.state)
  <2>1. CASE c.state # "init"
    BY <2>1 DEF Settled, Greet
  <2>2. CASE c.state = "init"
    <3> DEFINE d == [c EXCEPT !.state = "ready", !.send_buf = "220", !.old_state = "connected"]
    <3>1. c \in ConnRecords
      BY DEF Settled
    <3>a. {"ready", "connected"} \subseteq States /\ "220" \in Outputs
      BY MembersOfTypes, RestingStates
    <3>2. Greet(c) = d
      BY <2>2, <3>1, StepOfHandler DEF Greet, Answer, ConnRecords
    <3>3. d \in ConnRecords /\ d.letter = c.letter /\ d.mem = c.mem /\ d.state = "ready"
      BY <3>1, <3>a DEF ConnRecords
    <3>4. QED
      BY <2>2, <3>2, <3>3 DEF Settled, Resting
  <2>3. QED
    BY <2>1, <2>2
<1>2. ASSUME NEW d, Settled(d)
      PROVE  /\ Settled(TimeOut(d))
             /\ TimeOut(d).letter = d.letter /\ TimeOut(d).mem = d.mem
             /\ TimeOut(d).state \in {d.state, "disconnected"}
  <2>1. {"disconnected"} \subseteq Resting /\ d.state \in States /\ "disconnected" \in States
        /\ "421 timeout" \in Outputs
    BY <1>2, MembersOfTypes, RestingStates DEF Settled
  <2>2. QED
    BY <1>2, <2>1 DEF Settled, ConnRecords, TimeOut
<1>3. QED
  BY <1>1, <1>2 DEF Idle

LEMMA FinishSettled ==
  ASSUME NEW c, Settled(c)
  PROVE  /\ Settled(Finish(c))
         /\ Finish(c).letter = c.letter /\ Finish(c).mem = c.mem
         /\ Finish(c).state \in {c.state, "ready", "disconnected"}
<1> DEFINE d == [c EXCEPT !.recv_buf = NoChunk, !.watch = "fresh"]
<1>1. Settled(d) /\ d.letter = c.letter /\ d.mem = c.mem /\ d.state = c.state
  BY MembersOfTypes DEF Settled, ConnRecords
<1>2. Finish(c) = Idle(d)
  BY DEF Finish
<1> HIDE DEF d
<1>3. QED
  BY <1>1, <1>2, IdleSettled

\* A settled connection whose letter is the one its state calls for.
Fits(c) == Settled(c) /\ LetterFits(c)

\* The end of a pass keeps it so: it moves only to states without a letter.
LEMMA IdleFits ==
  ASSUME NEW c, Fits(c)
  PROVE  Fits(Idle(c)) /\ Idle(c).mem = c.mem
BY IdleSettled DEF Fits, LetterFits

LEMMA FinishFits ==
  ASSUME NEW c, Fits(c)
  PROVE  Fits(Finish(c)) /\ Finish(c).mem = c.mem
BY FinishSettled DEF Fits, LetterFits

LEMMA AnswerSettled ==
  ASSUME NEW c \in ConnRecords, NEW ev, NEW r \in Outputs,
         server_step(c.state, ev) \in Resting
  PROVE  /\ Settled(Answer(c, ev, r))
         /\ Answer(c, ev, r).letter = c.letter /\ Answer(c, ev, r).mem = c.mem
         /\ Answer(c, ev, r).state = server_step(c.state, ev)
<1>1. server_step(c.state, ev) \in States
  BY MembersOfTypes
<1>2. QED
  BY <1>1 DEF Answer, Settled, ConnRecords

\* The connection a handler is called with.
LEMMA DispatchedConn ==
  ASSUME NEW i \in Fds, Settled(connections[i]), NEW st \in States, Handling(i, st)
  PROVE  /\ Conn(i) \in ConnRecords
         /\ Conn(i).state = st /\ Conn(i).old_state = connections[i].state
         /\ Conn(i).letter = connections[i].letter
         /\ Conn(i).mem = connections[i].mem /\ connections[i].mem = "live"
         /\ Conn(i).recv_buf = connections[i].recv_buf
         /\ server_step(connections[i].state, Event(connections[i].recv_buf)) = st
         /\ connections[i].recv_buf \in Chunks
<1> DEFINE c == connections[i]
           nx == server_step(c.state, Event(c.recv_buf))
<1>1. c \in ConnRecords /\ c.state \in States /\ c.recv_buf # NoChunk /\ c.mem = "live"
  BY MembersOfTypes DEF Settled, Handling, Live
<1>2. Conn(i) = [c EXCEPT !.old_state = c.state, !.state = nx]
  BY DEF Conn, Dispatched
<1>3. c.recv_buf \in Chunks
  BY <1>1 DEF ConnRecords, Inputs
<1>4. nx = st
  BY <1>1, <1>2 DEF Handling, Conn, ConnRecords
<1> HIDE DEF nx
<1>5. QED
  BY <1>1, <1>2, <1>3, <1>4 DEF ConnRecords, nx
-----------------------------------------------------------------------------
(* The handlers: each leaves the slot of i with a connection that fits. *)

Passes(i) ==
  \E d : Fits(d) /\ d.mem = connections[i].mem /\ Update(i, d)

LEMMA FinishPasses ==
  ASSUME NEW i \in Fds, NEW e, Fits(e), e.mem = connections[i].mem, Update(i, Finish(e))
  PROVE  Passes(i)
BY FinishFits DEF Passes

\* The connection after an answer.
LEMMA AnswerConn ==
  ASSUME NEW i \in Fds, Settled(connections[i]), NEW st \in States, Handling(i, st),
         NEW ev, NEW r \in Outputs, server_step(st, ev) \in Resting
  PROVE  /\ Settled(Answer(Conn(i), ev, r))
         /\ Answer(Conn(i), ev, r).mem = connections[i].mem
         /\ Answer(Conn(i), ev, r).letter = connections[i].letter
         /\ Answer(Conn(i), ev, r).state = server_step(st, ev)
<1>1. Conn(i) \in ConnRecords /\ Conn(i).state = st
  BY DispatchedConn
<1>2. QED
  BY <1>1, AnswerSettled, DispatchedConn

\* An answer that leads to a state without a letter.
LEMMA AnswerPasses ==
  ASSUME NEW i \in Fds, Settled(connections[i]), NEW st \in States, Handling(i, st),
         NEW ev, NEW r \in Outputs,
         server_step(st, ev) \in {"ready", "expect_mail", "disconnected"},
         Update(i, Finish(Answer(Conn(i), ev, r)))
  PROVE  Passes(i)
<1> DEFINE e == Answer(Conn(i), ev, r)
<1>1. /\ Settled(e) /\ e.mem = connections[i].mem
      /\ e.state \in {"ready", "expect_mail", "disconnected"}
  BY AnswerConn, RestingStates
<1>2. Fits(e)
  BY <1>1 DEF Fits, LetterFits
<1>3. QED
  BY <1>1, <1>2, FinishPasses

LEMMA HandlerStates ==
  {"process_helo", "process_ehlo", "process_mail", "process_rcpt", "process_data",
   "process_data_recv", "process_data_end", "process_rset", "process_vrfy",
   "process_quit", "invalid"} \subseteq States
BY DEF States

LEMMA process_helo_Passes ==
  ASSUME NEW i \in Fds, Fits(connections[i]), process_helo(i)
  PROVE  Passes(i)
<1>1. PICK st \in {"process_helo", "process_ehlo"} : Handling(i, st)
  BY DEF process_helo
<1>2. Update(i, Finish(Answer(Conn(i), "OK", "250")))
  BY DEF process_helo
<1>3. QED
  BY <1>1, <1>2, AnswerPasses, StepOfHandler, HandlerStates, MembersOfTypes DEF Fits

LEMMA process_quit_Passes ==
  ASSUME NEW i \in Fds, Fits(connections[i]), process_quit(i)
  PROVE  Passes(i)
BY AnswerPasses, StepOfHandler, HandlerStates, MembersOfTypes DEF Fits, process_quit

\* The letter process_mail() makes.
LEMMA MailLetter ==
  ASSUME NEW i \in Fds, Settled(connections[i]), Handling(i, "process_mail")
  PROVE  Data(i) \in Addresses /\ letter_create(Data(i)) \in Letters
<1>1. connections[i].recv_buf \in Chunks /\ Event(connections[i].recv_buf) = "MAIL"
  BY DispatchedConn, StepToHandler, HandlerStates DEF Settled
<1>2. Data(i) \in Addresses
  BY <1>1 DEF Chunks, Event, Lines, Data
<1>3. Data(i) \in Names
  BY <1>2 DEF Names
<1>4. QED
  BY <1>2, <1>3, MembersOfTypes DEF letter_create, NoLetter, Letters

LEMMA process_mail_Passes ==
  ASSUME NEW i \in Fds, Fits(connections[i]), process_mail(i)
  PROVE  Passes(i)
<1>1. Handling(i, "process_mail") /\ "process_mail" \in States
  BY HandlerStates DEF process_mail
<1>2. CASE Update(i, Finish(Answer(Conn(i), "ERR", "451")))
  BY <1>1, <1>2, AnswerPasses, StepOfHandler, MembersOfTypes DEF Fits
<1>3. CASE Update(i, Finish([Answer(Conn(i), "OK", "250")
                               EXCEPT !.letter = letter_create(Data(i))]))
  <2> DEFINE a == Answer(Conn(i), "OK", "250")
             e == [a EXCEPT !.letter = letter_create(Data(i))]
  <2>1. /\ Settled(a) /\ a.mem = connections[i].mem /\ a.state = "expect_rcpt"
    BY <1>1, AnswerConn, StepsToResting, StepOfHandler, RepliesOfHandlers DEF Fits
  <2>2. Data(i) \in Addresses /\ letter_create(Data(i)) \in Letters
    BY <1>1, MailLetter DEF Fits
  <2>3. /\ letter_create(Data(i)).mem = "live"
        /\ letter_create(Data(i)).mail_from = Data(i)
        /\ letter_create(Data(i)).rcpt_to = NoMailbox
        /\ letter_create(Data(i)).body = <<>>
    BY DEF letter_create, NoLetter
  <2> HIDE DEF a
  <2>4. Settled(e) /\ e.mem = connections[i].mem /\ e.state = "expect_rcpt"
        /\ e.letter = letter_create(Data(i))
    BY <2>1, <2>2 DEF Settled, ConnRecords
  <2>5. Fits(e)
    BY <2>2, <2>3, <2>4 DEF Fits, LetterFits
  <2>6. QED
    BY <1>3, <2>4, <2>5, FinishPasses DEF a
<1>4. QED
  BY <1>2, <1>3 DEF process_mail

LEMMA process_rcpt_Passes ==
  ASSUME NEW i \in Fds, Fits(connections[i]), process_rcpt(i)
  PROVE  Passes(i) \/ UNCHANGED connections
<1>1. Handling(i, "process_rcpt") /\ "process_rcpt" \in States
  BY HandlerStates DEF process_rcpt
<1>2. connections[i].state = "expect_rcpt"
  BY <1>1, DispatchedConn, StepToHandler DEF Fits, Settled
<1>3. CASE Update(i, Finish(Answer(Conn(i), "ERR", "501")))
  <2> DEFINE e == Answer(Conn(i), "ERR", "501")
  <2>1. /\ Settled(e) /\ e.mem = connections[i].mem /\ e.state = "expect_rcpt"
        /\ e.letter = connections[i].letter
    BY <1>1, AnswerConn, StepsToResting, StepOfHandler, RepliesOfHandlers DEF Fits
  <2>2. Fits(e)
    BY <1>2, <2>1 DEF Fits, LetterFits
  <2>3. QED
    BY <1>3, <2>1, <2>2, FinishPasses
<1>4. CASE /\ Data(i) \in Mailboxes
           /\ Update(i, Finish([Answer(Conn(i), "OK", "250")
                                  EXCEPT !.letter.rcpt_to = Data(i)]))
  <2> DEFINE a == Answer(Conn(i), "OK", "250")
             e == [a EXCEPT !.letter.rcpt_to = Data(i)]
  <2>1. /\ Settled(a) /\ a.mem = connections[i].mem /\ a.state = "expect_data"
        /\ a.letter = connections[i].letter
    BY <1>1, AnswerConn, StepsToResting, StepOfHandler, RepliesOfHandlers DEF Fits
  <2> HIDE DEF a
  <2>2. a \in ConnRecords /\ a.letter \in Letters /\ Data(i) \in Names
    BY <1>4, <2>1, MembersOfTypes DEF Settled, ConnRecords
  <2>3. /\ e \in ConnRecords /\ e.mem = a.mem /\ e.state = a.state
        /\ e.letter.mem = a.letter.mem /\ e.letter.mail_from = a.letter.mail_from
        /\ e.letter.rcpt_to = Data(i) /\ e.letter.body = a.letter.body
    BY <2>2 DEF ConnRecords, Letters
  <2>4. Fits(e) /\ e.mem = connections[i].mem
    BY <1>2, <1>4, <2>1, <2>3 DEF Fits, LetterFits, Settled
  <2>5. QED
    BY <1>4, <2>4, FinishPasses DEF a
<1>5. QED
  BY <1>3, <1>4 DEF process_rcpt

LEMMA process_data_Passes ==
  ASSUME NEW i \in Fds, Fits(connections[i]), process_data(i)
  PROVE  Passes(i)
<1> DEFINE e == Answer(Conn(i), "OK", "354")
<1>1. Handling(i, "process_data") /\ "process_data" \in States
  BY HandlerStates DEF process_data
<1>2. connections[i].state = "expect_data"
  BY <1>1, DispatchedConn, StepToHandler DEF Fits, Settled
<1>3. /\ Settled(e) /\ e.mem = connections[i].mem /\ e.state = "expect_data_recv"
      /\ e.letter = connections[i].letter
  BY <1>1, AnswerConn, StepsToResting, StepOfHandler, RepliesOfHandlers DEF Fits
<1>4. Fits(e)
  BY <1>2, <1>3 DEF Fits, LetterFits
<1>5. QED
  BY <1>3, <1>4, FinishPasses DEF process_data

LEMMA process_vrfy_Passes ==
  ASSUME NEW i \in Fds, Fits(connections[i]), process_vrfy(i)
  PROVE  Passes(i)
<1> DEFINE e == [Conn(i) EXCEPT !.state = Conn(i).old_state, !.send_buf = "502"]
<1>1. Handling(i, "process_vrfy") /\ "process_vrfy" \in States
  BY HandlerStates DEF process_vrfy
<1>2. /\ Conn(i) \in ConnRecords /\ Conn(i).old_state = connections[i].state
      /\ Conn(i).letter = connections[i].letter /\ Conn(i).mem = connections[i].mem
      /\ connections[i].state \in Resting
  BY <1>1, DispatchedConn DEF Fits, Settled
<1>3. "502" \in Outputs /\ connections[i].state \in States
  BY <1>2, MembersOfTypes
<1>4. /\ Settled(e) /\ e.mem = connections[i].mem
      /\ e.state = connections[i].state /\ e.letter = connections[i].letter
  BY <1>2, <1>3 DEF Settled, ConnRecords
<1>5. Fits(e)
  BY <1>4 DEF Fits, LetterFits
<1>6. QED
  BY <1>4, <1>5, FinishPasses DEF process_vrfy

LEMMA process_rset_Passes ==
  ASSUME NEW i \in Fds, Fits(connections[i]), process_rset(i)
  PROVE  Passes(i) \/ UNCHANGED connections
<1> DEFINE a == Answer(Conn(i), "OK", "250")
           e == [a EXCEPT !.letter.mem = "freed"]
<1>1. Handling(i, "process_rset") /\ "process_rset" \in States
  BY HandlerStates DEF process_rset
<1>2. /\ Settled(a) /\ a.mem = connections[i].mem /\ a.state = "ready"
  BY <1>1, AnswerConn, StepsToResting, StepOfHandler, RepliesOfHandlers DEF Fits
<1>3. CASE Update(i, Finish(e))
  <2> HIDE DEF a
  <2>1. a \in ConnRecords /\ a.letter \in Letters /\ "freed" \in LetterMem
    BY <1>2, MembersOfTypes DEF Settled, ConnRecords
  <2>2. e \in ConnRecords /\ e.mem = a.mem /\ e.state = a.state
    BY <2>1 DEF ConnRecords, Letters
  <2>3. Fits(e) /\ e.mem = connections[i].mem
    BY <1>2, <2>2 DEF Fits, LetterFits, Settled
  <2>4. QED
    BY <1>3, <2>3, FinishPasses
<1>4. QED
  BY <1>3 DEF process_rset

\* process_data_end() for a connection c on its way to "process_data_end".
LEMMA process_data_end_Passes ==
  ASSUME NEW i \in Fds, NEW c \in ConnRecords, c.mem = connections[i].mem,
         c.state = "process_data_end", process_data_end(i, c)
  PROVE  Passes(i)
<1>1. CASE Update(i, Finish([Answer(c, "OK", "250 saved") EXCEPT !.letter.mem = "freed"]))
  <2> DEFINE a == Answer(c, "OK", "250 saved")
             e == [a EXCEPT !.letter.mem = "freed"]
  <2>1. /\ Settled(a) /\ a.mem = connections[i].mem /\ a.state = "expect_mail"
    <3>1. server_step(c.state, "OK") = "expect_mail" /\ server_step(c.state, "OK") \in Resting
      BY StepOfHandler, StepsToResting
    <3>2. QED
      BY <3>1, AnswerSettled, RepliesOfHandlers
  <2> HIDE DEF a
  <2>2. a \in ConnRecords /\ a.letter \in Letters /\ "freed" \in LetterMem
    BY <2>1, MembersOfTypes DEF Settled, ConnRecords
  <2>3. e \in ConnRecords /\ e.mem = a.mem /\ e.state = a.state
    BY <2>2 DEF ConnRecords, Letters
  <2>4. Fits(e) /\ e.mem = connections[i].mem
    BY <2>1, <2>3 DEF Fits, LetterFits, Settled
  <2>5. QED
    BY <1>1, <2>4, FinishPasses DEF a
<1>2. CASE Update(i, Finish([c EXCEPT !.state = "ready", !.send_buf = "554"]))
  <2> DEFINE e == [c EXCEPT !.state = "ready", !.send_buf = "554"]
  <2>1. "ready" \in States /\ "ready" \in Resting /\ "554" \in Outputs
    BY MembersOfTypes, RestingStates
  <2>2. Settled(e) /\ e.mem = connections[i].mem /\ e.state = "ready"
    BY <2>1 DEF Settled, ConnRecords
  <2>3. Fits(e)
    BY <2>2 DEF Fits, LetterFits
  <2>4. QED
    BY <1>2, <2>2, <2>3, FinishPasses
<1>3. QED
  BY <1>1, <1>2 DEF process_data_end

LEMMA data_end_Passes ==
  ASSUME NEW i \in Fds, Fits(connections[i]), data_end(i)
  PROVE  Passes(i)
<1>1. Handling(i, "process_data_end") /\ "process_data_end" \in States
  BY HandlerStates DEF data_end
<1>2. QED
  BY <1>1, DispatchedConn, process_data_end_Passes DEF data_end, Fits

\* The connection process_data_recv() works on, with the chunk in its letter.
LEMMA FilledConn ==
  ASSUME NEW i \in Fds, Fits(connections[i]), Handling(i, "process_data_recv")
  PROVE  LET c == Conn(i)
             f == [c EXCEPT !.letter.body = Append(@, c.recv_buf.kind)]
         IN  /\ f \in ConnRecords /\ f.mem = connections[i].mem
             /\ f.state = "process_data_recv" /\ c.state = "process_data_recv"
             /\ connections[i].state = "expect_data_recv"
             /\ c.recv_buf.kind \in Lines
             /\ f.letter.mem = connections[i].letter.mem
             /\ f.letter.mail_from = connections[i].letter.mail_from
             /\ f.letter.rcpt_to = connections[i].letter.rcpt_to
             /\ f.letter.body = Append(connections[i].letter.body, c.recv_buf.kind)
<1> DEFINE c == Conn(i)
           b == Append(c.letter.body, c.recv_buf.kind)
           f == [c EXCEPT !.letter.body = Append(@, c.recv_buf.kind)]
<1>1. "process_data_recv" \in States
  BY HandlerStates
<1>2. /\ c \in ConnRecords /\ c.state = "process_data_recv"
      /\ c.mem = connections[i].mem /\ c.letter = connections[i].letter
      /\ c.recv_buf \in Chunks
      /\ server_step(connections[i].state, Event(c.recv_buf)) = "process_data_recv"
  BY <1>1, DispatchedConn DEF Fits
<1>3. connections[i].state = "expect_data_recv" /\ Event(c.recv_buf) = "DATA_RECV"
  BY <1>2, StepToHandler DEF Fits, Settled
<1>4. c.recv_buf.kind \in Lines
  BY <1>2, <1>3 DEF Event, Chunks, Lines
<1>5. c.letter \in Letters /\ c.letter.body \in Seq(Lines)
  BY <1>2 DEF ConnRecords, Letters
<1>6. b \in Seq(Lines)
  BY <1>4, <1>5
<1>7. f = [c EXCEPT !.letter = [c.letter EXCEPT !.body = b]]
  OBVIOUS
<1> HIDE DEF c, b
<1>8. /\ [c.letter EXCEPT !.body = b] \in Letters
      /\ [c.letter EXCEPT !.body = b].mem = c.letter.mem
      /\ [c.letter EXCEPT !.body = b].mail_from = c.letter.mail_from
      /\ [c.letter EXCEPT !.body = b].rcpt_to = c.letter.rcpt_to
      /\ [c.letter EXCEPT !.body = b].body = b
  BY <1>5, <1>6 DEF Letters
<1>9. /\ f \in ConnRecords /\ f.mem = c.mem /\ f.state = c.state
      /\ f.letter = [c.letter EXCEPT !.body = b]
  BY <1>2, <1>7, <1>8 DEF ConnRecords
<1>10. QED
  BY <1>2, <1>3, <1>4, <1>8, <1>9 DEF c, b

LEMMA process_data_recv_Passes ==
  ASSUME NEW i \in Fds, Fits(connections[i]), process_data_recv(i)
  PROVE  Passes(i)
<1> DEFINE c == Conn(i)
           f == [c EXCEPT !.letter.body = Append(@, c.recv_buf.kind)]
<1>1. Handling(i, "process_data_recv")
  BY DEF process_data_recv
<1>2. /\ f \in ConnRecords /\ f.mem = connections[i].mem
      /\ c.state = "process_data_recv"
      /\ connections[i].state = "expect_data_recv"
      /\ f.letter.mem = connections[i].letter.mem
      /\ f.letter.mail_from = connections[i].letter.mail_from
      /\ f.letter.rcpt_to = connections[i].letter.rcpt_to
  BY <1>1, FilledConn
<1>3. CASE c.recv_buf.kind = "TEXT_END"
  <2> DEFINE g == [f EXCEPT !.old_state = c.state,
                     !.state = server_step(server_step(c.state, "OK"), "DATA_END")]
  <2>1. process_data_end(i, g)
    BY <1>3 DEF process_data_recv
  <2>2. server_step(server_step(c.state, "OK"), "DATA_END") = "process_data_end"
    BY <1>2, StepOfHandler
  <2>3. "process_data_end" \in States /\ c.state \in States
    BY <1>2, HandlerStates
  <2> HIDE DEF f, c
  <2>4. g \in ConnRecords /\ g.mem = connections[i].mem /\ g.state = "process_data_end"
    BY <1>2, <2>2, <2>3 DEF ConnRecords
  <2>5. QED
    BY <2>1, <2>4, process_data_end_Passes
<1>4. CASE c.recv_buf.kind # "TEXT_END"
  <2> DEFINE e == [f EXCEPT !.state = server_step(c.state, "OK")]
  <2>1. Update(i, Finish(e))
    BY <1>4 DEF process_data_recv
  <2>2. /\ server_step(c.state, "OK") = "expect_data_recv"
        /\ "expect_data_recv" \in States /\ "expect_data_recv" \in Resting
    BY <1>2, StepOfHandler, RestingStates, MembersOfTypes
  <2> HIDE DEF f, c
  <2>3. /\ e \in ConnRecords /\ e.mem = connections[i].mem
        /\ e.state = "expect_data_recv" /\ e.letter = f.letter
    BY <1>2, <2>2 DEF ConnRecords
  <2>4. Fits(e)
    BY <1>2, <2>2, <2>3 DEF Fits, Settled, LetterFits
  <2>5. QED
    BY <2>1, <2>3, <2>4, FinishPasses
<1>5. QED
  BY <1>3, <1>4

LEMMA reply_500_Passes ==
  ASSUME NEW i \in Fds, Fits(connections[i]), reply_500(i)
  PROVE  Passes(i)
<1> DEFINE e == [connections[i] EXCEPT !.send_buf = "500"]
<1>1. Settled(e) /\ e.mem = connections[i].mem
      /\ e.state = connections[i].state /\ e.letter = connections[i].letter
  BY RepliesOfHandlers DEF Fits, Settled, ConnRecords
<1>2. Fits(e)
  BY <1>1 DEF Fits, LetterFits
<1>3. QED
  BY <1>1, <1>2, FinishPasses DEF reply_500

\* Whatever protocol_update() does with slot i, the slot keeps its letter in
\* step with its state, or is not touched.
LEMMA SlotPasses ==
  ASSUME NEW i \in Fds, Fits(connections[i]), protocol_slot(i)
  PROVE  Passes(i) \/ UNCHANGED connections
<1>1. CASE no_command(i)
  BY <1>1, IdleFits DEF no_command, Passes
<1>2. CASE invalid_transition(i) \/ use_after_free(i)
  BY <1>2 DEF invalid_transition, use_after_free
<1>3. QED
  BY <1>1, <1>2, process_helo_Passes, process_mail_Passes, process_rcpt_Passes,
     process_data_Passes, data_end_Passes, process_data_recv_Passes,
     process_rset_Passes, process_vrfy_Passes, process_quit_Passes, reply_500_Passes
     DEF protocol_slot
-----------------------------------------------------------------------------
(* The connections through the whole loop. *)

ConnsFit == connections \in [Fds -> ConnRecords] /\ \A i \in Fds : Fits(connections[i])

LEMMA UpdateFits ==
  ASSUME ConnsFit, NEW i \in Fds, NEW d, Fits(d), Update(i, d)
  PROVE  ConnsFit'
BY DEF ConnsFit, Update, Fits, Settled, LetterFits

\* ConnsFit' and Fits speak of connections' only.
LEMMA UnchangedFits ==
  ASSUME ConnsFit, UNCHANGED connections
  PROVE  ConnsFit'
BY DEF ConnsFit

LEMMA NoConnFits ==
  /\ Fits(NoConn)
  /\ Fits([NoConn EXCEPT !.mem = "live"]) /\ [NoConn EXCEPT !.mem = "live"].mem = "live"
<1>1. NoLetter \in Letters
  BY MembersOfTypes DEF NoLetter, Letters
<1>2. "init" \in States /\ "init" \in Resting
  BY MembersOfTypes, RestingStates
<1>3. NoConn \in ConnRecords /\ NoConn.state = "init"
  BY <1>1, <1>2, MembersOfTypes DEF NoConn, ConnRecords
<1>4. /\ [NoConn EXCEPT !.mem = "live"] \in ConnRecords
      /\ [NoConn EXCEPT !.mem = "live"].state = "init"
      /\ [NoConn EXCEPT !.mem = "live"].mem = "live"
  BY <1>3, MembersOfTypes DEF ConnRecords
<1>5. QED
  BY <1>2, <1>3, <1>4 DEF Fits, Settled, LetterFits

\* Changes of other fields than the state and the letter.
LEMMA FieldsFit ==
  ASSUME NEW c, Fits(c)
  PROVE  /\ \A x \in Inputs : Fits([c EXCEPT !.recv_buf = x])
         /\ Fits([c EXCEPT !.send_buf = ""])
         /\ Fits([[c EXCEPT !.send_buf = ""] EXCEPT !.mem = "freed"])
         /\ Fits([c EXCEPT !.watch = "expired"])
<1>1. c \in ConnRecords
  BY DEF Fits, Settled
<1>2. ASSUME NEW x \in Inputs
      PROVE  Fits([c EXCEPT !.recv_buf = x])
  BY <1>1 DEF Fits, Settled, ConnRecords, LetterFits
<1>3. Fits([c EXCEPT !.send_buf = ""])
  BY <1>1, MembersOfTypes DEF Fits, Settled, ConnRecords, LetterFits
<1>4. Fits([[c EXCEPT !.send_buf = ""] EXCEPT !.mem = "freed"])
  BY <1>1, MembersOfTypes DEF Fits, Settled, ConnRecords, LetterFits
<1>5. Fits([c EXCEPT !.watch = "expired"])
  BY <1>1, MembersOfTypes DEF Fits, Settled, ConnRecords, LetterFits
<1>6. QED
  BY <1>2, <1>3, <1>4, <1>5

LEMMA NextFits ==
  ASSUME ConnsFit, inbox \in [Fds -> Inputs], [Next]_vars
  PROVE  ConnsFit'
<1>1. CASE UNCHANGED connections
  BY <1>1, UnchangedFits
<1>2. CASE accept_connection
  BY <1>2, NoConnFits, UpdateFits DEF accept_connection
<1>3. ASSUME NEW i \in Fds, conn_recv(i)
      PROVE  ConnsFit'
  <2>1. Fits([connections[i] EXCEPT !.recv_buf = inbox[i]])
    BY FieldsFit DEF ConnsFit
  <2>2. QED
    BY <1>3, <2>1, UpdateFits DEF conn_recv
<1>4. ASSUME NEW i \in Fds, flush(i)
      PROVE  ConnsFit'
  <2>1. Fits(Flushed(i)) /\ Fits([Flushed(i) EXCEPT !.mem = "freed"])
    BY FieldsFit DEF ConnsFit, Flushed
  <2>2. \/ UNCHANGED connections
        \/ Update(i, Flushed(i)) \/ Update(i, [Flushed(i) EXCEPT !.mem = "freed"])
    BY <1>4 DEF flush, killed_by_sigpipe
  <2>3. QED
    BY <2>1, <2>2, UpdateFits, UnchangedFits
<1>5. ASSUME NEW i \in Fds, protocol(i)
      PROVE  ConnsFit'
  BY <1>5, SlotPasses, UpdateFits, UnchangedFits DEF protocol, Passes, ConnsFit
<1>6. ASSUME NEW i \in Fds, expire(i)
      PROVE  ConnsFit'
  <2>1. Fits([connections[i] EXCEPT !.watch = "expired"])
    BY FieldsFit DEF ConnsFit
  <2>2. QED
    BY <1>6, <2>1, UpdateFits DEF expire
<1>7. CASE \/ select_fails \/ select_returns \/ end_serve \/ end_flush \/ enter_select
           \/ accept_fails \/ handle_signal \/ peers
           \/ \E i \in Fds : write_ready(i) \/ double_free(i)
  <2>1. UNCHANGED connections
    BY <1>7 DEF select_fails, select_returns, end_serve, end_flush, enter_select,
       accept_fails, handle_signal, peers, write_ready, killed_by_sigpipe, double_free,
       use_after_free, protocolVars
  <2>2. QED
    BY <2>1, <1>1
<1>8. CASE UNCHANGED vars
  BY <1>8, <1>1 DEF vars, protocolVars
<1>9. QED
  BY <1>2, <1>3, <1>4, <1>5, <1>6, <1>7, <1>8 DEF Next, loop
-----------------------------------------------------------------------------
(* What is stored. *)

\* The letter of connection i as process_data_end() writes it, with the lines
\* the chunk in recv_buf adds to it.
Stored(i, tail) ==
  [mail_from |-> connections[i].letter.mail_from,
   rcpt_to |-> connections[i].letter.rcpt_to,
   body |-> connections[i].letter.body \o tail]

LastLine(i) == IF connections[i].recv_buf.kind = "TEXT_END" THEN <<"TEXT_END">> ELSE <<>>

LEMMA AppendIsConcat ==
  ASSUME NEW S, NEW s \in Seq(S), NEW e \in S
  PROVE  Append(s, e) = s \o <<e>>
OBVIOUS

\* A pass over slot i stores at most its own letter, and only while the
\* session is in "expect_data_recv".
LEMMA SlotStores ==
  ASSUME NEW i \in Fds, Fits(connections[i]), protocol_slot(i)
  PROVE  \/ UNCHANGED maildir
         \/ /\ maildir' = Append(maildir, Stored(i, LastLine(i)))
            /\ connections[i].state = "expect_data_recv"
            /\ connections[i].mem = "live"
            /\ Event(connections[i].recv_buf) \in {"DATA_RECV", "DATA_END"}
            /\ connections[i].recv_buf \in Chunks
            /\ connections[i].recv_buf.kind \in {"DOT", "TEXT_END"}
<1>1. CASE data_end(i)
  <2>1. Handling(i, "process_data_end") /\ "process_data_end" \in States
    BY <1>1, HandlerStates DEF data_end
  <2>2. /\ Conn(i).letter = connections[i].letter
        /\ connections[i].state = "expect_data_recv" /\ connections[i].mem = "live"
        /\ Event(connections[i].recv_buf) = "DATA_END"
        /\ connections[i].recv_buf \in Chunks
    BY <2>1, DispatchedConn, StepToHandler DEF Fits, Settled
  <2> connections[i].recv_buf.kind = "DOT"
    BY <2>2 DEF Event, Chunks, Lines
  <2>3. LastLine(i) = <<>>
    BY <2>2 DEF Event, Lines, LastLine
  <2>4. connections[i].letter.body \in Seq(Lines)
    BY DEF Fits, Settled, ConnRecords, Letters
  <2>5. Stored(i, LastLine(i)) = [mail_from |-> Conn(i).letter.mail_from,
                              rcpt_to |-> Conn(i).letter.rcpt_to,
                              body |-> Conn(i).letter.body]
    BY <2>2, <2>3, <2>4 DEF Stored
  <2>6. QED
    BY <1>1, <2>2, <2>5 DEF data_end, process_data_end
<1>2. CASE process_data_recv(i)
  <2> DEFINE c == Conn(i)
             f == [c EXCEPT !.letter.body = Append(@, c.recv_buf.kind)]
             g == [f EXCEPT !.old_state = c.state,
                     !.state = server_step(server_step(c.state, "OK"), "DATA_END")]
  <2>1. Handling(i, "process_data_recv") /\ "process_data_recv" \in States
    BY <1>2, HandlerStates DEF process_data_recv
  <2>2. /\ f \in ConnRecords
        /\ connections[i].state = "expect_data_recv" /\ connections[i].mem = "live"
        /\ c.recv_buf = connections[i].recv_buf /\ c.recv_buf \in Chunks
        /\ Event(connections[i].recv_buf) = "DATA_RECV"
        /\ f.letter.mail_from = connections[i].letter.mail_from
        /\ f.letter.rcpt_to = connections[i].letter.rcpt_to
        /\ f.letter.body = Append(connections[i].letter.body, c.recv_buf.kind)
    BY <2>1, FilledConn, DispatchedConn, StepToHandler DEF Fits, Settled
  <2>3. \/ UNCHANGED maildir
        \/ c.recv_buf.kind = "TEXT_END" /\ process_data_end(i, g)
    BY <1>2 DEF process_data_recv
  <2> HIDE DEF f, c
  <2>4. g.letter = f.letter
    BY <2>2 DEF ConnRecords
  <2>5. connections[i].letter.body \in Seq(Lines) /\ "TEXT_END" \in Lines
    BY DEF Fits, Settled, ConnRecords, Letters, Lines
  <2>6. CASE c.recv_buf.kind = "TEXT_END" /\ process_data_end(i, g)
    <3>1. LastLine(i) = <<"TEXT_END">>
      BY <2>2, <2>6 DEF LastLine
    <3>2. f.letter.body = connections[i].letter.body \o LastLine(i)
      <4>1. f.letter.body = Append(connections[i].letter.body, "TEXT_END")
        BY <2>2, <2>6
      <4>2. QED
        BY <2>5, <3>1, <4>1, AppendIsConcat
    <3>3. Stored(i, LastLine(i)) = [mail_from |-> g.letter.mail_from,
                                rcpt_to |-> g.letter.rcpt_to, body |-> g.letter.body]
      BY <2>2, <2>4, <3>2 DEF Stored
    <3>4. QED
      BY <2>2, <2>6, <3>3 DEF process_data_end
  <2>7. QED
    BY <2>3, <2>6
<1>3. CASE ~data_end(i) /\ ~process_data_recv(i)
  BY <1>3 DEF protocol_slot, process_helo, process_mail, process_rcpt, process_data,
     process_rset, process_vrfy, process_quit, reply_500, invalid_transition,
     no_command, use_after_free
<1>4. QED
  BY <1>1, <1>2, <1>3

\* Nothing but protocol_update() stores a letter.
LEMMA OthersStoreNothing ==
  ASSUME [Next]_vars, \A i \in Fds : ~protocol(i)
  PROVE  UNCHANGED maildir
BY DEF Next, loop, select_fails, select_returns, end_serve, end_flush, enter_select,
   accept_connection, accept_fails, conn_recv, write_ready, flush, double_free,
   use_after_free, handle_signal, peers, expire, vars, protocolVars
-----------------------------------------------------------------------------
(* Types. *)

ProcOK == proc \in {"running", "shutdown", "exited", "crashed"}

LoopOK ==
  /\ phase \in {"select", "serve", "flush", "protocol"}
  /\ todo \subseteq AllFds
  /\ active_read_fds \subseteq AllFds /\ active_write_fds \subseteq Fds
  /\ read_fds \subseteq AllFds /\ write_fds \subseteq Fds

KernelOK ==
  /\ sock \in [Fds -> {"closed", "open", "fin", "rst", "dead"}]
  /\ inbox \in [Fds -> Inputs]
  /\ full \in [Fds -> {"never", "now", "before"}]
  /\ backlog \in Nat /\ connects \in Nat /\ inputs \in Nat

GhostOK ==
  /\ said \in [Fds -> Saved]
  /\ owed \in [Fds -> Int]
  /\ told \subseteq Fds

LEMMA TypeParts ==
  TypeOK /\ LetterLive <=>
    ProcOK /\ ConnsFit /\ maildir \in Seq(Saved) /\ LoopOK /\ KernelOK /\ GhostOK
BY DEF TypeOK, LetterLive, ProcOK, ConnsFit, LoopOK, KernelOK, GhostOK, Fits, Settled

LEMMA ProcStep ==
  ASSUME ProcOK, [Next]_vars
  PROVE  ProcOK'
<1>1. ASSUME NEW i \in Fds, protocol_slot(i)
      PROVE  ProcOK'
  BY <1>1 DEF ProcOK, protocol_slot, process_helo, process_mail, process_rcpt, process_data,
     data_end, process_data_recv, process_rset, process_vrfy, process_quit, reply_500,
     invalid_transition, no_command, use_after_free
<1>2. ASSUME NEW i \in Fds, protocol(i) \/ double_free(i)
      PROVE  ProcOK'
  BY <1>1, <1>2 DEF protocol, double_free, use_after_free, ProcOK
<1>3. QED
  BY <1>2 DEF ProcOK, Next, loop, select_fails, select_returns, end_serve, end_flush,
     enter_select, accept_connection, accept_fails, conn_recv, write_ready, flush,
     killed_by_sigpipe, handle_signal, peers, expire, vars, protocolVars

LEMMA LoopStep ==
  ASSUME LoopOK, [Next]_vars
  PROVE  LoopOK'
<1>1. \A i \in Fds : i \in AllFds
  BY DEF AllFds
<1>2. CASE \/ select_fails \/ select_returns \/ end_serve \/ end_flush \/ enter_select
           \/ accept_fails
  BY <1>1, <1>2 DEF LoopOK, select_fails, select_returns, end_serve, end_flush,
     enter_select, accept_fails, At, Enter, AllFds
<1>3. CASE accept_connection
  BY <1>1, <1>3 DEF LoopOK, accept_connection, At
<1>4. ASSUME NEW i \in Fds, conn_recv(i)
      PROVE  LoopOK'
  <2>1. read_fds' \subseteq read_fds /\ todo' \subseteq todo
    BY <1>4 DEF conn_recv, At
  <2>2. QED
    BY <1>4, <2>1 DEF LoopOK, conn_recv
<1>5. ASSUME NEW i \in Fds, write_ready(i) \/ flush(i)
      PROVE  LoopOK'
  <2>1. /\ active_read_fds' \subseteq active_read_fds \cup {i}
        /\ active_write_fds' \subseteq active_write_fds \cup {i}
    BY <1>5 DEF write_ready, flush, killed_by_sigpipe, to_write_set, to_read_set
  <2>2. todo' \subseteq todo /\ UNCHANGED <<phase, read_fds, write_fds>>
    BY <1>5 DEF write_ready, flush, At
  <2>3. QED
    BY <1>1, <2>1, <2>2 DEF LoopOK
<1>6. ASSUME NEW i \in Fds, double_free(i) \/ protocol(i)
      PROVE  LoopOK'
  BY <1>6 DEF LoopOK, double_free, protocol, At
<1>7. CASE handle_signal \/ peers \/ (\E i \in Fds : expire(i)) \/ UNCHANGED vars
  BY <1>7 DEF LoopOK, handle_signal, peers, expire, vars, loopVars
<1>8. QED
  BY <1>2, <1>3, <1>4, <1>5, <1>6, <1>7 DEF Next, loop

LEMMA KernelStep ==
  ASSUME KernelOK, [Next]_vars
  PROVE  KernelOK'
<1> DEFINE Socks == {"closed", "open", "fin", "rst", "dead"}
<1>1. NoChunk \in Inputs
  BY MembersOfTypes
<1>2. CASE accept_connection
  <2>1. backlog' \in Nat
    BY <1>2 DEF accept_connection, KernelOK
  <2>2. QED
    BY <1>1, <1>2, <2>1 DEF KernelOK, accept_connection
<1>3. ASSUME NEW i \in Fds, conn_recv(i)
      PROVE  KernelOK'
  BY <1>1, <1>3 DEF KernelOK, conn_recv
<1>4. ASSUME NEW i \in Fds, write_ready(i) \/ flush(i)
      PROVE  KernelOK'
  <2>1. Reported(i) \in Socks
    BY DEF KernelOK, Reported
  <2>2. /\ sock' \in {sock, [sock EXCEPT ![i] = Reported(i)], [sock EXCEPT ![i] = "closed"]}
        /\ inbox' \in {inbox, [inbox EXCEPT ![i] = NoChunk]}
        /\ UNCHANGED <<full, backlog, connects, inputs>>
    BY <1>4 DEF write_ready, flush, killed_by_sigpipe
  <2>3. QED
    BY <1>1, <2>1, <2>2 DEF KernelOK
<1>5. CASE peers
  <2>1. CASE peer_connects \/ other_accepts
    BY <2>1 DEF peer_connects, other_accepts, KernelOK
  <2>2. ASSUME NEW i \in Fds, peer_sends(i)
        PROVE  KernelOK'
    <3>1. Offered \subseteq Inputs
      BY LoopAssumption DEF Inputs
    <3>2. QED
      BY <2>2, <3>1 DEF peer_sends, KernelOK
  <2>3. ASSUME NEW i \in Fds,
               peer_closes(i) \/ peer_resets(i) \/ peer_stalls(i) \/ peer_drains(i)
        PROVE  KernelOK'
    BY <2>3 DEF peer_closes, peer_resets, peer_stalls, peer_drains, KernelOK
  <2>4. QED
    BY <1>5, <2>1, <2>2, <2>3 DEF peers
<1>6. CASE UNCHANGED kernelVars
  BY <1>6 DEF KernelOK, kernelVars
<1>7. CASE UNCHANGED vars
  BY <1>6, <1>7 DEF vars
<1>8. CASE \/ select_fails \/ select_returns \/ end_serve \/ end_flush \/ enter_select
           \/ accept_fails \/ handle_signal
           \/ \E i \in Fds : double_free(i) \/ protocol(i) \/ expire(i)
  BY <1>6, <1>8 DEF select_fails, select_returns, end_serve, end_flush, enter_select,
     accept_fails, handle_signal, double_free, protocol, expire
<1>9. QED
  BY <1>2, <1>3, <1>4, <1>5, <1>7, <1>8 DEF Next, loop

LEMMA DictateSaved ==
  ASSUME NEW l \in Saved, NEW chunk \in Inputs
  PROVE  Nothing \in Saved /\ Dictate(l, chunk) \in Saved
<1>1. Nothing \in Saved
  BY MembersOfTypes DEF Nothing, Saved
<1>2. chunk.arg \in Names
  <2>1. CASE chunk = NoChunk
    BY <2>1 DEF NoChunk, Names
  <2>2. CASE chunk \in Chunks
    BY <2>2 DEF Chunks, Names
  <2>3. QED
    BY <2>1, <2>2 DEF Inputs
<1>3. [Nothing EXCEPT !.mail_from = chunk.arg] \in Saved
  BY <1>1, <1>2 DEF Saved
<1>4. [l EXCEPT !.rcpt_to = chunk.arg] \in Saved
  BY <1>2 DEF Saved
<1>5. [l EXCEPT !.body = <<>>] \in Saved
  BY MembersOfTypes DEF Saved
<1>6. ASSUME chunk.kind \in Lines
      PROVE  [l EXCEPT !.body = Append(l.body, chunk.kind)] \in Saved
  <2>1. Append(l.body, chunk.kind) \in Seq(Lines)
    BY <1>6 DEF Saved
  <2>2. QED
    BY <2>1 DEF Saved
<1>7. QED
  BY <1>1, <1>3, <1>4, <1>5, <1>6 DEF Dictate

LEMMA GhostStep ==
  ASSUME GhostOK, KernelOK, [Next]_vars
  PROVE  GhostOK'
<1>1. CASE accept_connection
  <2>1. PICK i \in Fds : /\ said' = [said EXCEPT ![i] = Nothing]
                         /\ owed' = [owed EXCEPT ![i] = 1]
    BY <1>1 DEF accept_connection
  <2>2. Nothing \in Saved
    BY MembersOfTypes DEF Nothing, Saved
  <2>3. UNCHANGED told
    BY <1>1 DEF accept_connection
  <2>4. QED
    BY <2>1, <2>2, <2>3 DEF GhostOK
<1>2. ASSUME NEW i \in Fds, conn_recv(i)
      PROVE  GhostOK'
  <2>1. Dictate(said[i], inbox[i]) \in Saved
    BY DictateSaved DEF GhostOK, KernelOK
  <2>2. /\ said' = [said EXCEPT ![i] = Dictate(said[i], inbox[i])]
        /\ owed' \in {owed, [owed EXCEPT ![i] = owed[i] + 1]}
        /\ UNCHANGED told
    BY <1>2 DEF conn_recv
  <2>3. QED
    BY <2>1, <2>2 DEF GhostOK
<1>3. ASSUME NEW i \in Fds, write_ready(i) \/ flush(i)
      PROVE  GhostOK'
  <2>1. owed' \in {owed, [owed EXCEPT ![i] = owed[i] - 1]} /\ UNCHANGED <<said, told>>
    BY <1>3 DEF write_ready, flush, Transmit, killed_by_sigpipe
  <2>2. QED
    BY <2>1 DEF GhostOK
<1>4. CASE handle_signal
  BY <1>4 DEF handle_signal, GhostOK
<1>5. CASE UNCHANGED ghostVars
  BY <1>5 DEF GhostOK, ghostVars
<1>6. CASE UNCHANGED vars
  BY <1>5, <1>6 DEF vars
<1>7. CASE \/ select_fails \/ select_returns \/ end_serve \/ end_flush \/ enter_select
           \/ accept_fails \/ peers
           \/ \E i \in Fds : double_free(i) \/ protocol(i) \/ expire(i)
  BY <1>5, <1>7 DEF select_fails, select_returns, end_serve, end_flush, enter_select,
     accept_fails, peers, double_free, protocol, expire
<1>8. QED
  BY <1>1, <1>2, <1>3, <1>4, <1>6, <1>7 DEF Next, loop

LEMMA MaildirStep ==
  ASSUME ConnsFit, maildir \in Seq(Saved), [Next]_vars
  PROVE  maildir' \in Seq(Saved)
<1>1. ASSUME NEW i \in Fds, protocol(i)
      PROVE  maildir' \in Seq(Saved)
  <2>1. protocol_slot(i) /\ Fits(connections[i])
    BY <1>1 DEF protocol, ConnsFit
  <2>2. Stored(i, LastLine(i)) \in Saved
    <3>1. LastLine(i) \in Seq(Lines)
      <4>1. "TEXT_END" \in Lines
        BY DEF Lines
      <4>2. <<"TEXT_END">> \in Seq(Lines) /\ <<>> \in Seq(Lines)
        BY <4>1
      <4>3. QED
        BY <4>2 DEF LastLine
    <3>2. /\ connections[i].letter.mail_from \in Names
          /\ connections[i].letter.rcpt_to \in Names
          /\ connections[i].letter.body \in Seq(Lines)
      BY <2>1 DEF Fits, Settled, ConnRecords, Letters
    <3>3. connections[i].letter.body \o LastLine(i) \in Seq(Lines)
      BY <3>1, <3>2
    <3>4. QED
      BY <3>2, <3>3 DEF Stored, Saved
  <2>3. QED
    BY <2>1, <2>2, SlotStores
<1>2. QED
  BY <1>1, OthersStoreNothing

LEMMA InitOK ==
  ASSUME Init
  PROVE  TypeOK /\ LetterLive
<1>1. ConnsFit
  BY NoConnFits DEF Init, ConnsFit, Fits, Settled
<1>2. Nothing \in Saved /\ NoChunk \in Inputs
  BY MembersOfTypes DEF Nothing, Saved
<1>3. ProcOK /\ maildir \in Seq(Saved)
  BY DEF Init, ProcOK
<1>4. LoopOK
  BY DEF Init, LoopOK, AllFds
<1>5. KernelOK /\ GhostOK
  BY <1>2 DEF Init, KernelOK, GhostOK
<1>6. QED
  BY <1>1, <1>3, <1>4, <1>5, TypeParts

LEMMA NextOK ==
  ASSUME TypeOK /\ LetterLive, [Next]_vars
  PROVE  TypeOK' /\ LetterLive'
<1>1. ProcOK /\ ConnsFit /\ maildir \in Seq(Saved) /\ LoopOK /\ KernelOK /\ GhostOK
  BY TypeParts
<1>2. ConnsFit'
  BY <1>1, NextFits DEF KernelOK
<1>3. ProcOK' /\ maildir' \in Seq(Saved) /\ LoopOK' /\ KernelOK' /\ GhostOK'
  BY <1>1, ProcStep, MaildirStep, LoopStep, KernelStep, GhostStep
<1>4. QED
  BY <1>2, <1>3 DEF TypeOK, LetterLive, ProcOK, ConnsFit, LoopOK, KernelOK, GhostOK,
     Fits, Settled

\* In every behaviour of the process every variable keeps its type and every
\* connection rests in a state of Resting between two passes of
\* protocol_update(), for any number of descriptors and any faults.
THEOREM TypesOK == Spec => []TypeOK
<1>1. Init => TypeOK /\ LetterLive
  BY InitOK
<1>2. TypeOK /\ LetterLive /\ [Next]_vars => (TypeOK /\ LetterLive)'
  BY NextOK
<1>3. QED
  BY <1>1, <1>2, PTL DEF Spec

\* The letter a handler reaches through conn->letter is always allocated and
\* at the stage the state of the session promises (process_rcpt(),
\* process_data_recv() and process_data_end() use it without a check).
THEOREM LettersLive == Spec => []LetterLive
<1>1. Init => TypeOK /\ LetterLive
  BY InitOK
<1>2. TypeOK /\ LetterLive /\ [Next]_vars => (TypeOK /\ LetterLive)'
  BY NextOK
<1>3. QED
  BY <1>1, <1>2, PTL DEF Spec
-----------------------------------------------------------------------------
(* ServerLoop implements MailService. *)

Drafts == [i \in Fds |-> Draft(i)]

NoDraft == [stage |-> "none", mail_from |-> NoMailbox, rcpt_to |-> NoMailbox, body |-> <<>>]

DraftAt(stage, letter) ==
  [stage |-> stage, mail_from |-> letter.mail_from, rcpt_to |-> letter.rcpt_to,
   body |-> letter.body]

\* Draft(i) as a function of the connection alone.
DraftOf(c) ==
  CASE c.mem = "live" /\ c.state = "expect_rcpt"      -> DraftAt("sender", c.letter)
    [] c.mem = "live" /\ c.state = "expect_data"      -> DraftAt("recipient", c.letter)
    [] c.mem = "live" /\ c.state = "expect_data_recv" -> DraftAt("text", c.letter)
    [] OTHER                                          -> NoDraft

\* A step of MailService, or none.
MStep == [MS!Next]_<<Drafts, maildir>>

LEMMA DraftIsDraftOf ==
  /\ \A i \in Fds : Draft(i) = DraftOf(connections[i])
  /\ MS!Blank = NoDraft
BY DEF Draft, DraftOf, DraftAt, NoDraft, Live, MS!Blank, MS!Draft

LEMMA DraftIsDraftOfNext ==
  \A i \in Fds : Draft(i)' = DraftOf(connections[i]')
BY DEF Draft, DraftOf, DraftAt, NoDraft, Live

LEMMA DraftUpdate ==
  ASSUME ConnsFit, NEW i \in Fds, NEW d, Update(i, d)
  PROVE  /\ Drafts' = [Drafts EXCEPT ![i] = DraftOf(d)]
         /\ Drafts[i] = DraftOf(connections[i])
<1>1. /\ connections[i]' = d
      /\ \A j \in Fds \ {i} : connections[j]' = connections[j]
  BY DEF ConnsFit, Update
<1>2. Draft(i)' = DraftOf(d) /\ Draft(i) = DraftOf(connections[i])
  BY <1>1, DraftIsDraftOf, DraftIsDraftOfNext
<1>3. \A j \in Fds \ {i} : Draft(j)' = Draft(j)
  BY <1>1, DraftIsDraftOf, DraftIsDraftOfNext
<1>4. Drafts' = [j \in Fds |-> Draft(j)']
  BY DEF Drafts, Fds
<1> HIDE DEF Drafts
<1>5. Drafts = [j \in Fds |-> Draft(j)]
  BY DEF Drafts
<1>6. QED
  BY <1>2, <1>3, <1>4, <1>5
-----------------------------------------------------------------------------
(* The steps of MailService a change of one connection amounts to. *)

LEMMA DropStep ==
  ASSUME ConnsFit, NEW i \in Fds, NEW d, Update(i, d), UNCHANGED maildir,
         DraftOf(d) \in {NoDraft, DraftOf(connections[i])}
  PROVE  MStep
<1>1. /\ Drafts' = [Drafts EXCEPT ![i] = DraftOf(d)]
      /\ Drafts[i] = DraftOf(connections[i])
  BY DraftUpdate
<1>2. CASE DraftOf(d) = NoDraft
  <2>1. MS!Drop(i)
    BY <1>1, <1>2, DraftIsDraftOf DEF MS!Drop, MS!Redraft, Drafts
  <2>2. QED
    BY <2>1 DEF MStep, MS!Next
<1>3. CASE DraftOf(d) = DraftOf(connections[i])
  <2>1. Drafts' = Drafts
    BY <1>1, <1>3 DEF Drafts
  <2>2. QED
    BY <2>1 DEF MStep
<1>4. QED
  BY <1>2, <1>3

LEMMA StutterStep ==
  ASSUME UNCHANGED <<connections, maildir>>
  PROVE  MStep
<1>1. \A i \in Fds : Draft(i)' = Draft(i)
  BY DraftIsDraftOf, DraftIsDraftOfNext
<1>2. Drafts' = Drafts
  BY <1>1 DEF Drafts, Fds
<1>3. QED
  BY <1>2 DEF MStep

LEMMA FinishDraft ==
  ASSUME NEW e, Settled(e)
  PROVE  /\ DraftOf(Finish(e)) \in {NoDraft, DraftOf(e)}
         /\ DraftOf(Idle(e)) \in {NoDraft, DraftOf(e)}
BY FinishSettled, IdleSettled DEF DraftOf

\* A pass that ends in a state without a letter.
LEMMA FinishDrops ==
  ASSUME ConnsFit, NEW i \in Fds, NEW e, Settled(e), Update(i, Finish(e)),
         UNCHANGED maildir, DraftOf(e) \in {NoDraft, DraftOf(connections[i])}
  PROVE  MStep
BY FinishDraft, DropStep

LEMMA AnswerDrops ==
  ASSUME ConnsFit, NEW i \in Fds, NEW st \in States, Handling(i, st), UNCHANGED maildir,
         NEW ev, NEW r \in Outputs,
         server_step(st, ev) \in {"ready", "expect_mail", "disconnected"},
         Update(i, Finish(Answer(Conn(i), ev, r)))
  PROVE  MStep
<1> DEFINE e == Answer(Conn(i), ev, r)
<1>1. Settled(e) /\ e.state \in {"ready", "expect_mail", "disconnected"}
  BY AnswerConn, RestingStates DEF ConnsFit, Fits
<1>2. DraftOf(e) = NoDraft
  BY <1>1 DEF DraftOf
<1>3. QED
  BY <1>1, <1>2, FinishDrops

\* A pass that ends in the draft of e, unless the greeting or the timeout at
\* its end drops it.
LEMMA FinishMoves ==
  ASSUME ConnsFit, NEW i \in Fds, NEW e, Settled(e), Update(i, Finish(e)),
         UNCHANGED maildir,
         Drafts' = [Drafts EXCEPT ![i] = DraftOf(e)] => MStep
  PROVE  MStep
<1>1. Drafts' = [Drafts EXCEPT ![i] = DraftOf(Finish(e))]
  BY DraftUpdate
<1>2. DraftOf(Finish(e)) \in {NoDraft, DraftOf(e)}
  BY FinishDraft
<1>3. CASE DraftOf(Finish(e)) = NoDraft
  BY <1>3, DropStep
<1>4. CASE DraftOf(Finish(e)) = DraftOf(e)
  BY <1>1, <1>4
<1>5. QED
  BY <1>2, <1>3, <1>4

LEMMA NoDraftFields ==
  /\ NoDraft.stage = "none" /\ NoDraft.mail_from = NoMailbox
  /\ NoDraft.rcpt_to = NoMailbox /\ NoDraft.body = <<>>
BY DEF NoDraft
-----------------------------------------------------------------------------
(* The handlers. *)

LEMMA process_helo_Implements ==
  ASSUME ConnsFit, NEW i \in Fds, process_helo(i)
  PROVE  MStep
<1>1. PICK st \in {"process_helo", "process_ehlo"} : Handling(i, st)
  BY DEF process_helo
<1>2. Update(i, Finish(Answer(Conn(i), "OK", "250"))) /\ UNCHANGED maildir
  BY DEF process_helo
<1>3. QED
  BY <1>1, <1>2, AnswerDrops, StepOfHandler, HandlerStates, RepliesOfHandlers

LEMMA process_quit_Implements ==
  ASSUME ConnsFit, NEW i \in Fds, process_quit(i)
  PROVE  MStep
BY AnswerDrops, StepOfHandler, HandlerStates, RepliesOfHandlers DEF process_quit

LEMMA process_mail_Implements ==
  ASSUME ConnsFit, NEW i \in Fds, process_mail(i)
  PROVE  MStep
<1>1. /\ Handling(i, "process_mail") /\ "process_mail" \in States
      /\ UNCHANGED maildir /\ Settled(connections[i])
  BY HandlerStates DEF process_mail, ConnsFit, Fits
<1>2. CASE Update(i, Finish(Answer(Conn(i), "ERR", "451")))
  BY <1>1, <1>2, AnswerDrops, StepOfHandler, RepliesOfHandlers
<1>3. CASE Update(i, Finish([Answer(Conn(i), "OK", "250")
                               EXCEPT !.letter = letter_create(Data(i))]))
  <2> DEFINE a == Answer(Conn(i), "OK", "250")
             e == [a EXCEPT !.letter = letter_create(Data(i))]
  <2>1. /\ Settled(a) /\ a.mem = connections[i].mem /\ a.state = "expect_rcpt"
    BY <1>1, AnswerConn, StepsToResting, StepOfHandler, RepliesOfHandlers
  <2>2. connections[i].state = "expect_mail" /\ connections[i].mem = "live"
    BY <1>1, DispatchedConn, StepToHandler DEF Settled
  <2>3. Data(i) \in Addresses /\ letter_create(Data(i)) \in Letters
    BY <1>1, MailLetter
  <2> HIDE DEF a
  <2>4. /\ Settled(e) /\ e.mem = connections[i].mem /\ e.state = "expect_rcpt"
        /\ e.letter = letter_create(Data(i))
    BY <2>1, <2>3 DEF Settled, ConnRecords
  <2>5. /\ DraftOf(e) = MS!Draft("sender", Data(i), NoMailbox, <<>>)
        /\ Drafts[i].stage = "none"
    <3>1. DraftOf(e) = DraftAt("sender", letter_create(Data(i)))
      BY <2>2, <2>4 DEF DraftOf
    <3>2. Drafts[i] = NoDraft
      BY <2>2, DraftIsDraftOf DEF DraftOf, Drafts
    <3>3. /\ letter_create(Data(i)).mail_from = Data(i)
          /\ letter_create(Data(i)).rcpt_to = NoMailbox
          /\ letter_create(Data(i)).body = <<>>
      BY DEF letter_create, NoLetter
    <3>4. QED
      BY <3>1, <3>2, <3>3, NoDraftFields DEF DraftAt, MS!Draft
  <2>6. ASSUME Drafts' = [Drafts EXCEPT ![i] = DraftOf(e)]
        PROVE  MStep
    <3>1. MS!Begin(i)
      BY <1>1, <2>3, <2>5, <2>6 DEF MS!Begin, MS!Redraft, Drafts
    <3>2. QED
      BY <3>1 DEF MStep, MS!Next
  <2>7. QED
    BY <1>1, <1>3, <2>4, <2>6, FinishMoves DEF a
<1>4. QED
  BY <1>2, <1>3 DEF process_mail

LEMMA process_rcpt_Implements ==
  ASSUME ConnsFit, NEW i \in Fds, process_rcpt(i)
  PROVE  MStep
<1>1. /\ Handling(i, "process_rcpt") /\ "process_rcpt" \in States
      /\ UNCHANGED maildir /\ Settled(connections[i])
  BY HandlerStates DEF process_rcpt, ConnsFit, Fits
<1>2. connections[i].state = "expect_rcpt" /\ connections[i].mem = "live"
  BY <1>1, DispatchedConn, StepToHandler DEF Settled
<1>3. CASE Update(i, Finish(Answer(Conn(i), "ERR", "501")))
  <2> DEFINE e == Answer(Conn(i), "ERR", "501")
  <2>1. /\ Settled(e) /\ e.mem = connections[i].mem /\ e.state = "expect_rcpt"
        /\ e.letter = connections[i].letter
    BY <1>1, AnswerConn, StepsToResting, StepOfHandler, RepliesOfHandlers
  <2>2. DraftOf(e) = DraftOf(connections[i])
    BY <1>2, <2>1 DEF DraftOf
  <2>3. QED
    BY <1>1, <1>3, <2>1, <2>2, FinishDrops
<1>4. CASE /\ Data(i) \in Mailboxes
           /\ Update(i, Finish([Answer(Conn(i), "OK", "250")
                                  EXCEPT !.letter.rcpt_to = Data(i)]))
  <2> DEFINE a == Answer(Conn(i), "OK", "250")
             e == [a EXCEPT !.letter.rcpt_to = Data(i)]
  <2>1. /\ Settled(a) /\ a.mem = connections[i].mem /\ a.state = "expect_data"
        /\ a.letter = connections[i].letter
    BY <1>1, AnswerConn, StepsToResting, StepOfHandler, RepliesOfHandlers
  <2> HIDE DEF a
  <2>2. a \in ConnRecords /\ a.letter \in Letters /\ Data(i) \in Names
    BY <1>4, <2>1, MembersOfTypes DEF Settled, ConnRecords
  <2>3. /\ e \in ConnRecords /\ e.mem = a.mem /\ e.state = a.state
        /\ e.letter.mail_from = a.letter.mail_from
        /\ e.letter.rcpt_to = Data(i) /\ e.letter.body = a.letter.body
    BY <2>2 DEF ConnRecords, Letters
  <2>4. Settled(e)
    BY <2>1, <2>3 DEF Settled
  <2>5. /\ DraftOf(e) = MS!Draft("recipient", Drafts[i].mail_from, Data(i), Drafts[i].body)
        /\ Drafts[i].stage = "sender"
    <3>1. DraftOf(e) = DraftAt("recipient", e.letter)
      BY <1>2, <2>1, <2>3 DEF DraftOf
    <3>2. Drafts[i] = DraftAt("sender", connections[i].letter)
      BY <1>2, DraftIsDraftOf DEF DraftOf, Drafts
    <3>3. QED
      BY <2>1, <2>3, <3>1, <3>2 DEF DraftAt, MS!Draft
  <2>6. ASSUME Drafts' = [Drafts EXCEPT ![i] = DraftOf(e)]
        PROVE  MStep
    <3>1. MS!Address(i)
      BY <1>1, <1>4, <2>5, <2>6 DEF MS!Address, MS!Redraft, Drafts
    <3>2. QED
      BY <3>1 DEF MStep, MS!Next
  <2>7. QED
    BY <1>1, <1>4, <2>4, <2>6, FinishMoves DEF a
<1>5. CASE UNCHANGED connections
  BY <1>1, <1>5, StutterStep
<1>6. QED
  BY <1>3, <1>4, <1>5 DEF process_rcpt

LEMMA process_data_Implements ==
  ASSUME ConnsFit, NEW i \in Fds, process_data(i)
  PROVE  MStep
<1> DEFINE e == Answer(Conn(i), "OK", "354")
<1>1. /\ Handling(i, "process_data") /\ "process_data" \in States
      /\ UNCHANGED maildir /\ Settled(connections[i])
  BY HandlerStates DEF process_data, ConnsFit, Fits
<1>2. connections[i].state = "expect_data" /\ connections[i].mem = "live"
  BY <1>1, DispatchedConn, StepToHandler DEF Settled
<1>3. /\ Settled(e) /\ e.mem = connections[i].mem /\ e.state = "expect_data_recv"
      /\ e.letter = connections[i].letter
  BY <1>1, AnswerConn, StepsToResting, StepOfHandler, RepliesOfHandlers
<1>4. /\ DraftOf(e) = MS!Draft("text", Drafts[i].mail_from, Drafts[i].rcpt_to, Drafts[i].body)
      /\ Drafts[i].stage = "recipient"
  <2>1. DraftOf(e) = DraftAt("text", e.letter)
    BY <1>2, <1>3 DEF DraftOf
  <2>2. Drafts[i] = DraftAt("recipient", connections[i].letter)
    BY <1>2, DraftIsDraftOf DEF DraftOf, Drafts
  <2>3. QED
    BY <1>3, <2>1, <2>2 DEF DraftAt, MS!Draft
<1>5. ASSUME Drafts' = [Drafts EXCEPT ![i] = DraftOf(e)]
      PROVE  MStep
  <2>1. MS!StartText(i)
    BY <1>1, <1>4, <1>5 DEF MS!StartText, MS!Redraft, Drafts
  <2>2. QED
    BY <2>1 DEF MStep, MS!Next
<1>6. QED
  BY <1>1, <1>3, <1>5, FinishMoves DEF process_data

LEMMA process_rset_Implements ==
  ASSUME ConnsFit, NEW i \in Fds, process_rset(i)
  PROVE  MStep
<1> DEFINE a == Answer(Conn(i), "OK", "250")
           e == [a EXCEPT !.letter.mem = "freed"]
<1>1. /\ Handling(i, "process_rset") /\ "process_rset" \in States
      /\ UNCHANGED maildir /\ Settled(connections[i])
  BY HandlerStates DEF process_rset, ConnsFit, Fits
<1>2. Settled(a) /\ a.state = "ready"
  BY <1>1, AnswerConn, StepsToResting, StepOfHandler, RepliesOfHandlers
<1>3. a \in ConnRecords /\ a.letter \in Letters
  BY <1>2 DEF Settled, ConnRecords
<1>4. Update(i, Finish(e)) \/ UNCHANGED connections
  BY DEF process_rset
<1> HIDE DEF a
<1>5. Settled(e) /\ e.state = "ready"
  BY <1>2, <1>3, MembersOfTypes DEF Settled, ConnRecords, Letters
<1>6. DraftOf(e) = NoDraft
  BY <1>5 DEF DraftOf
<1>7. QED
  BY <1>1, <1>4, <1>5, <1>6, FinishDrops, StutterStep

LEMMA process_vrfy_Implements ==
  ASSUME ConnsFit, NEW i \in Fds, process_vrfy(i)
  PROVE  MStep
<1> DEFINE e == [Conn(i) EXCEPT !.state = Conn(i).old_state, !.send_buf = "502"]
<1>1. /\ Handling(i, "process_vrfy") /\ "process_vrfy" \in States
      /\ UNCHANGED maildir /\ Settled(connections[i])
  BY HandlerStates DEF process_vrfy, ConnsFit, Fits
<1>2. /\ Conn(i) \in ConnRecords /\ Conn(i).old_state = connections[i].state
      /\ Conn(i).letter = connections[i].letter /\ Conn(i).mem = connections[i].mem
  BY <1>1, DispatchedConn
<1>3. /\ Settled(e) /\ e.mem = connections[i].mem
      /\ e.state = connections[i].state /\ e.letter = connections[i].letter
  BY <1>1, <1>2, RepliesOfHandlers, MembersOfTypes DEF Settled, ConnRecords
<1>4. DraftOf(e) = DraftOf(connections[i])
  BY <1>3 DEF DraftOf
<1>5. QED
  BY <1>1, <1>3, <1>4, FinishDrops DEF process_vrfy

LEMMA reply_500_Implements ==
  ASSUME ConnsFit, NEW i \in Fds, reply_500(i)
  PROVE  MStep
<1> DEFINE e == [connections[i] EXCEPT !.send_buf = "500"]
<1>1. /\ Settled(e) /\ e.mem = connections[i].mem
      /\ e.state = connections[i].state /\ e.letter = connections[i].letter
  BY RepliesOfHandlers DEF ConnsFit, Fits, Settled, ConnRecords
<1>2. DraftOf(e) = DraftOf(connections[i])
  BY <1>1 DEF DraftOf
<1>3. QED
  BY <1>1, <1>2, FinishDrops DEF reply_500

LEMMA no_command_Implements ==
  ASSUME ConnsFit, NEW i \in Fds, no_command(i)
  PROVE  MStep
BY FinishDraft, DropStep DEF no_command, ConnsFit, Fits

\* However process_data_end() ends, the session is left without a draft.
LEMMA DataEndDraft ==
  ASSUME NEW i \in Fds, NEW c \in ConnRecords, c.state = "process_data_end",
         process_data_end(i, c)
  PROVE  \E d : Update(i, d) /\ DraftOf(d) = NoDraft
<1>1. ASSUME NEW e, Settled(e), DraftOf(e) = NoDraft, Update(i, Finish(e))
      PROVE  \E d : Update(i, d) /\ DraftOf(d) = NoDraft
  BY <1>1, FinishDraft
<1>2. CASE Update(i, Finish([Answer(c, "OK", "250 saved") EXCEPT !.letter.mem = "freed"]))
  <2> DEFINE a == Answer(c, "OK", "250 saved")
             e == [a EXCEPT !.letter.mem = "freed"]
  <2>1. Settled(a) /\ a.state = "expect_mail"
    <3>1. /\ server_step(c.state, "OK") = "expect_mail"
          /\ server_step(c.state, "OK") \in Resting /\ "250 saved" \in Outputs
      BY StepsToResting, StepOfHandler, RepliesOfHandlers
    <3>2. QED
      BY <3>1, AnswerSettled
  <2> HIDE DEF a
  <2>2. a \in ConnRecords /\ a.letter \in Letters
    BY <2>1 DEF Settled, ConnRecords
  <2>3. Settled(e) /\ e.state = "expect_mail"
    BY <2>1, <2>2, MembersOfTypes DEF Settled, ConnRecords, Letters
  <2>4. DraftOf(e) = NoDraft
    BY <2>3 DEF DraftOf
  <2>5. QED
    BY <1>1, <1>2, <2>3, <2>4 DEF a
<1>3. CASE Update(i, Finish([c EXCEPT !.state = "ready", !.send_buf = "554"]))
  <2> DEFINE e == [c EXCEPT !.state = "ready", !.send_buf = "554"]
  <2>1. "ready" \in States /\ "ready" \in Resting /\ "554" \in Outputs
    BY MembersOfTypes, RestingStates
  <2>2. Settled(e) /\ e.state = "ready"
    BY <2>1 DEF Settled, ConnRecords
  <2>3. DraftOf(e) = NoDraft
    BY <2>2 DEF DraftOf
  <2>4. QED
    BY <1>1, <1>3, <2>2, <2>3
<1>4. QED
  BY <1>2, <1>3 DEF process_data_end

\* The end of the message stores the draft, with the last line when it came in
\* the chunk that ended it, or drops it.
LEMMA DataEndStep ==
  ASSUME ConnsFit, NEW i \in Fds, protocol_slot(i), NEW d, Update(i, d),
         DraftOf(d) = NoDraft
  PROVE  MStep
<1>1. CASE UNCHANGED maildir
  BY <1>1, DropStep
<1>2. CASE /\ maildir' = Append(maildir, Stored(i, LastLine(i)))
           /\ connections[i].state = "expect_data_recv" /\ connections[i].mem = "live"
  <2>1. /\ Drafts' = [Drafts EXCEPT ![i] = NoDraft]
        /\ Drafts[i] = DraftOf(connections[i])
    BY DraftUpdate
  <2>2. Drafts[i] = DraftAt("text", connections[i].letter)
    BY <1>2, <2>1 DEF DraftOf
  <2>3. /\ Drafts[i].stage = "text"
        /\ Stored(i, LastLine(i)) = [mail_from |-> Drafts[i].mail_from,
                                 rcpt_to |-> Drafts[i].rcpt_to,
                                 body |-> Drafts[i].body \o LastLine(i)]
    BY <2>2 DEF DraftAt, Stored
  <2>4. LastLine(i) \in {<<>>} \cup {<<l>> : l \in Lines}
    BY DEF LastLine, Lines
  <2>5. MS!Store(i)
    BY <1>2, <2>1, <2>3, <2>4, DraftIsDraftOf DEF MS!Store, MS!Redraft, Drafts
  <2>6. QED
    BY <2>5 DEF MStep, MS!Next
<1>3. QED
  BY <1>1, <1>2, SlotStores DEF ConnsFit

LEMMA data_end_Implements ==
  ASSUME ConnsFit, NEW i \in Fds, protocol_slot(i), data_end(i)
  PROVE  MStep
<1>1. /\ Handling(i, "process_data_end") /\ "process_data_end" \in States
      /\ Settled(connections[i])
  BY HandlerStates DEF data_end, ConnsFit, Fits
<1>2. \E d : Update(i, d) /\ DraftOf(d) = NoDraft
  BY <1>1, DispatchedConn, DataEndDraft DEF data_end
<1>3. QED
  BY <1>2, DataEndStep

LEMMA process_data_recv_Implements ==
  ASSUME ConnsFit, NEW i \in Fds, protocol_slot(i), process_data_recv(i)
  PROVE  MStep
<1> DEFINE c == Conn(i)
           f == [c EXCEPT !.letter.body = Append(@, c.recv_buf.kind)]
<1>1. Handling(i, "process_data_recv") /\ Fits(connections[i])
  BY DEF process_data_recv, ConnsFit
<1>2. /\ f \in ConnRecords /\ f.mem = connections[i].mem
      /\ c.state = "process_data_recv"
      /\ connections[i].state = "expect_data_recv" /\ connections[i].mem = "live"
      /\ c.recv_buf.kind \in Lines
      /\ f.letter.mail_from = connections[i].letter.mail_from
      /\ f.letter.rcpt_to = connections[i].letter.rcpt_to
      /\ f.letter.body = Append(connections[i].letter.body, c.recv_buf.kind)
  BY <1>1, FilledConn DEF Handling, Live
<1>3. CASE c.recv_buf.kind = "TEXT_END"
  <2> DEFINE g == [f EXCEPT !.old_state = c.state,
                     !.state = server_step(server_step(c.state, "OK"), "DATA_END")]
  <2>1. process_data_end(i, g)
    BY <1>3 DEF process_data_recv
  <2>2. server_step(server_step(c.state, "OK"), "DATA_END") = "process_data_end"
    BY <1>2, StepOfHandler
  <2>3. "process_data_end" \in States /\ c.state \in States
    BY <1>2, HandlerStates
  <2> HIDE DEF f, c
  <2>4. g \in ConnRecords /\ g.state = "process_data_end"
    BY <1>2, <2>2, <2>3 DEF ConnRecords
  <2>5. QED
    BY <2>1, <2>4, DataEndDraft, DataEndStep
<1>4. CASE c.recv_buf.kind # "TEXT_END"
  <2> DEFINE e == [f EXCEPT !.state = server_step(c.state, "OK")]
  <2>1. Update(i, Finish(e)) /\ UNCHANGED maildir
    BY <1>4 DEF process_data_recv
  <2>2. /\ server_step(c.state, "OK") = "expect_data_recv"
        /\ "expect_data_recv" \in States /\ "expect_data_recv" \in Resting
    BY <1>2, StepOfHandler, RestingStates, MembersOfTypes
  <2> HIDE DEF f, c
  <2>3. /\ Settled(e) /\ e.mem = "live"
        /\ e.state = "expect_data_recv" /\ e.letter = f.letter
    BY <1>2, <2>2 DEF ConnRecords, Settled
  <2>4. /\ DraftOf(e) = MS!Draft("text", Drafts[i].mail_from, Drafts[i].rcpt_to,
                                 Append(Drafts[i].body, c.recv_buf.kind))
        /\ Drafts[i].stage = "text"
    <3>1. DraftOf(e) = DraftAt("text", e.letter)
      BY <2>3 DEF DraftOf
    <3>2. Drafts[i] = DraftAt("text", connections[i].letter)
      BY <1>2, DraftIsDraftOf DEF DraftOf, Drafts
    <3> HIDE DEF e
    <3>3. QED
      BY <1>2, <2>3, <3>1, <3>2 DEF DraftAt, MS!Draft
  <2>5. ASSUME Drafts' = [Drafts EXCEPT ![i] = DraftOf(e)]
        PROVE  MStep
    <3>1. MS!Write(i)
      BY <1>2, <2>1, <2>4, <2>5 DEF MS!Write, MS!Redraft, Drafts
    <3>2. QED
      BY <3>1 DEF MStep, MS!Next
  <2>6. QED
    BY <2>1, <2>3, <2>5, FinishMoves
<1>5. QED
  BY <1>3, <1>4

LEMMA SlotImplements ==
  ASSUME ConnsFit, NEW i \in Fds, protocol_slot(i)
  PROVE  MStep
<1>1. CASE invalid_transition(i) \/ use_after_free(i)
  BY <1>1, StutterStep DEF invalid_transition, use_after_free
<1>2. QED
  BY <1>1, process_helo_Implements, process_mail_Implements, process_rcpt_Implements,
     process_data_Implements, data_end_Implements, process_data_recv_Implements,
     process_rset_Implements, process_vrfy_Implements, process_quit_Implements,
     reply_500_Implements, no_command_Implements DEF protocol_slot
-----------------------------------------------------------------------------
(* The steps outside of protocol_update(): none but a release moves a draft. *)

LEMMA FieldsDraft ==
  ASSUME NEW c \in ConnRecords
  PROVE  /\ \A x \in Inputs : DraftOf([c EXCEPT !.recv_buf = x]) = DraftOf(c)
         /\ DraftOf([c EXCEPT !.send_buf = ""]) = DraftOf(c)
         /\ DraftOf([c EXCEPT !.watch = "expired"]) = DraftOf(c)
<1>1. ASSUME NEW x \in Inputs
      PROVE  DraftOf([c EXCEPT !.recv_buf = x]) = DraftOf(c)
  <2>1. /\ [c EXCEPT !.recv_buf = x].mem = c.mem
        /\ [c EXCEPT !.recv_buf = x].state = c.state
        /\ [c EXCEPT !.recv_buf = x].letter = c.letter
    BY DEF ConnRecords
  <2>2. QED
    BY <2>1 DEF DraftOf
<1>2. DraftOf([c EXCEPT !.send_buf = ""]) = DraftOf(c)
  <2>1. /\ [c EXCEPT !.send_buf = ""].mem = c.mem
        /\ [c EXCEPT !.send_buf = ""].state = c.state
        /\ [c EXCEPT !.send_buf = ""].letter = c.letter
    BY DEF ConnRecords
  <2>2. QED
    BY <2>1 DEF DraftOf
<1>3. DraftOf([c EXCEPT !.watch = "expired"]) = DraftOf(c)
  <2>1. /\ [c EXCEPT !.watch = "expired"].mem = c.mem
        /\ [c EXCEPT !.watch = "expired"].state = c.state
        /\ [c EXCEPT !.watch = "expired"].letter = c.letter
    BY DEF ConnRecords
  <2>2. QED
    BY <2>1 DEF DraftOf
<1>4. QED
  BY <1>1, <1>2, <1>3

LEMMA accept_connection_Implements ==
  ASSUME ConnsFit, accept_connection
  PROVE  MStep
<1>1. PICK i \in Fds : Update(i, [NoConn EXCEPT !.mem = "live"])
  BY DEF accept_connection
<1>2. [NoConn EXCEPT !.mem = "live"].state = "init"
  BY DEF NoConn
<1>3. DraftOf([NoConn EXCEPT !.mem = "live"]) = NoDraft
  BY <1>2 DEF DraftOf
<1>4. UNCHANGED maildir
  BY DEF accept_connection
<1>5. QED
  BY <1>1, <1>3, <1>4, DropStep

LEMMA flush_Implements ==
  ASSUME ConnsFit, NEW i \in Fds, flush(i)
  PROVE  MStep
<1> DEFINE d == [Flushed(i) EXCEPT !.mem = "freed"]
<1>1. connections[i] \in ConnRecords /\ UNCHANGED maildir
  BY DEF ConnsFit, flush
<1>2. UNCHANGED connections \/ Update(i, Flushed(i)) \/ Update(i, d)
  BY DEF flush, killed_by_sigpipe
<1>3. DraftOf(Flushed(i)) = DraftOf(connections[i])
  BY <1>1, FieldsDraft DEF Flushed
<1>4. DraftOf(d) = NoDraft
  <2>1. Flushed(i) \in ConnRecords
    BY FieldsFit DEF ConnsFit, Flushed, Fits, Settled
  <2>2. d.mem = "freed"
    BY <2>1 DEF ConnRecords
  <2>3. QED
    BY <2>2 DEF DraftOf
<1> HIDE DEF d
<1>5. QED
  BY <1>1, <1>2, <1>3, <1>4, DropStep, StutterStep

LEMMA NextImplements ==
  ASSUME ConnsFit, inbox \in [Fds -> Inputs], [Next]_vars
  PROVE  MStep
<1>1. ASSUME NEW i \in Fds, conn_recv(i)
      PROVE  MStep
  <2>1. DraftOf([connections[i] EXCEPT !.recv_buf = inbox[i]]) = DraftOf(connections[i])
    BY FieldsDraft DEF ConnsFit
  <2>2. QED
    BY <1>1, <2>1, DropStep DEF conn_recv
<1>2. ASSUME NEW i \in Fds, expire(i)
      PROVE  MStep
  <2>1. DraftOf([connections[i] EXCEPT !.watch = "expired"]) = DraftOf(connections[i])
    BY FieldsDraft DEF ConnsFit
  <2>2. QED
    BY <1>2, <2>1, DropStep DEF expire
<1>3. ASSUME NEW i \in Fds, protocol(i)
      PROVE  MStep
  BY <1>3, SlotImplements DEF protocol
<1>4. CASE \/ select_fails \/ select_returns \/ end_serve \/ end_flush \/ enter_select
           \/ accept_fails \/ handle_signal \/ peers \/ UNCHANGED vars
           \/ \E i \in Fds : write_ready(i) \/ double_free(i)
  <2>1. UNCHANGED <<connections, maildir>>
    BY <1>4 DEF select_fails, select_returns, end_serve, end_flush, enter_select,
       accept_fails, handle_signal, peers, write_ready, killed_by_sigpipe, double_free,
       use_after_free, protocolVars, vars
  <2>2. QED
    BY <2>1, StutterStep
<1>5. QED
  BY <1>1, <1>2, <1>3, <1>4, accept_connection_Implements, flush_Implements DEF Next, loop

LEMMA InitImplements ==
  ASSUME Init
  PROVE  MS!Init
<1>1. \A i \in Fds : Draft(i) = NoDraft
  <2>1. \A i \in Fds : connections[i].mem = "null"
    BY DEF Init, NoConn
  <2>2. QED
    BY <2>1, DraftIsDraftOf DEF DraftOf
<1>2. QED
  BY <1>1, DraftIsDraftOf DEF Init, MS!Init

\* Whatever peers, other processes, timeouts and signals do to a process, it
\* keeps the promise of MailService: each letter is built in order and stored
\* once, whole, as its session built it.
THEOREM Implements == Spec => ImplementsMailService
<1>1. Init => MS!Init
  BY InitImplements
<1>2. TypeOK /\ LetterLive /\ [Next]_vars => [MS!Next]_<<Drafts, maildir>>
  BY NextImplements, TypeParts DEF MStep, KernelOK
<1>3. Spec => [](TypeOK /\ LetterLive)
  BY TypesOK, LettersLive, PTL
<1>4. QED
  BY <1>1, <1>2, <1>3, PTL DEF Spec, ImplementsMailService, MS!Spec, Drafts
=============================================================================
