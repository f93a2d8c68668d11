----------------------------- MODULE ServerLoop -----------------------------
(***************************************************************************)
(* One process of the server: the select() loop of conn.c around            *)
(* protocol_update(), its sockets, and the peers that talk to it.  All      *)
(* processes prefork() makes share the listening socket and run this loop;  *)
(* the others appear here as other_accepts.                                 *)
(***************************************************************************)
EXTENDS ServerProtocol, FiniteSets

CONSTANTS Offered,      \* the chunks the peers of this run may send
          Faults,       \* what else may happen, of PossibleFaults
          MaxBacklog,   \* bound on connections waiting in accept()'s queue
          MaxInputs,    \* bound on chunks sent, over all connections
          MaxConnects   \* bound on connections made

\* A peer closes its connection, aborts it with RST, stops reading replies or
\* falls silent; SIGINT arrives; another process accepts.
PossibleFaults == {"close", "reset", "stall", "silence", "signal", "steal"}

ASSUME LoopAssumption ==
  /\ Offered \subseteq Chunks
  /\ Faults \subseteq PossibleFaults
  /\ {MaxBacklog, MaxInputs, MaxConnects} \subseteq Nat

listener == 0
AllFds   == Fds \cup {listener}

VARIABLES
  phase,      \* where the loop is: "select", "serve", "flush" or "protocol"
  todo,       \* the descriptors the for loop of the phase has yet to visit
  active_read_fds, active_write_fds,  \* the interest sets
  read_fds, write_fds,                \* the sets given to select(), then its results
  sock,       \* the socket of a descriptor: "closed", "open", "fin" (the peer
              \* sent FIN), "rst" (an ECONNRESET is pending), "dead" (reported)
  inbox,      \* what recv() will return, NoChunk for nothing
  full,       \* the peer reads no replies: "never" so far, "now", "before"
  backlog, connects, inputs,  \* connections waiting; made so far; chunks sent
  said,       \* ghost: the letter the peer dictated since it last said MAIL
  owed,       \* ghost: replies the peer waits for, less those it was sent
  told        \* ghost: the descriptors conn_destroy() sent 421 to

loopVars   == <<phase, todo, active_read_fds, active_write_fds, read_fds, write_fds>>
kernelVars == <<sock, inbox, full, backlog, connects, inputs>>
ghostVars  == <<said, owed, told>>
vars       == <<protocolVars, loopVars, kernelVars, ghostVars>>

Nothing == [mail_from |-> NoMailbox, rcpt_to |-> NoMailbox, body |-> <<>>]

\* A chunk the peer expects a reply to: all but the inner lines of a message.
Expects(st, chunk) ==
  chunk # NoChunk /\ ~(st = "expect_data_recv" /\ chunk.kind = "TEXT")

\* What the peer has dictated once the server read chunk, by the words of the
\* dialogue alone and not by the state the server is in.
Dictate(letter, chunk) ==
  CASE chunk.kind = "MAIL" -> [Nothing EXCEPT !.mail_from = chunk.arg]
    [] chunk.kind = "RCPT" -> [letter EXCEPT !.rcpt_to = chunk.arg]
    [] chunk.kind = "DATA" -> [letter EXCEPT !.body = <<>>]
    [] chunk.kind \in Lines -> [letter EXCEPT !.body = Append(@, chunk.kind)]
    [] OTHER -> letter

Init ==
  /\ proc = "running"
  /\ connections = [i \in Fds |-> NoConn]
  /\ maildir = <<>>
  /\ phase = "select" /\ todo = {}
  /\ active_read_fds = {listener} /\ active_write_fds = {}
  /\ read_fds = {listener} /\ write_fds = {}
  /\ sock = [i \in Fds |-> "closed"]
  /\ inbox = [i \in Fds |-> NoChunk]
  /\ full = [i \in Fds |-> "never"]
  /\ backlog = 0 /\ connects = 0 /\ inputs = 0
  /\ said = [i \in Fds |-> Nothing]
  /\ owed = [i \in Fds |-> 0]
  /\ told = {}
-----------------------------------------------------------------------------
(* The loop. *)

\* i is the descriptor the for loop of phase p visits next.
At(p, i) ==
  /\ proc = "running" /\ phase = p
  /\ i \in todo /\ \A j \in todo : i <= j
  /\ todo' = todo \ {i}

Enter(p, visits) == phase' = p /\ todo' = visits

\* A descriptor that was closed and left in an interest set.
Stale == {i \in (active_read_fds \cup active_write_fds) \ {listener} : sock[i] = "closed"}

Readable(i) == IF i = listener THEN backlog > 0
               ELSE inbox[i] # NoChunk \/ sock[i] \in {"fin", "rst", "dead"}
Writable(i) == full[i] # "now" \/ sock[i] \in {"rst", "dead"}

\* select() fails with EBADF, conn_update() returns -1 and the loop goes
\* straight on to protocol_update().
select_fails ==
  /\ proc = "running" /\ phase = "select" /\ Stale # {}
  /\ Enter("protocol", {i \in Fds : connections[i].mem # "null"})
  /\ UNCHANGED <<protocolVars, kernelVars, ghostVars, active_read_fds,
                 active_write_fds, read_fds, write_fds>>

\* select() returns the ready descriptors, none after its timeout of a second.
select_returns ==
  /\ proc = "running" /\ phase = "select" /\ Stale = {}
  /\ read_fds'  = {i \in read_fds : Readable(i)}
  /\ write_fds' = {i \in write_fds : Writable(i)}
  /\ Enter("serve", read_fds' \cup write_fds')
  /\ UNCHANGED <<protocolVars, kernelVars, ghostVars, active_read_fds, active_write_fds>>

Lowest(i) == sock[i] = "closed" /\ \A j \in Fds : sock[j] = "closed" => i <= j

\* accept() gives the lowest free descriptor; whatever connections[] held
\* there is overwritten.
accept_connection ==
  /\ At("serve", listener) /\ backlog > 0
  /\ \E i \in Fds :
       /\ Lowest(i)
       /\ Update(i, [NoConn EXCEPT !.mem = "live"])
       /\ active_read_fds' = active_read_fds \cup {i}
       /\ sock'  = [sock EXCEPT ![i] = "open"]
       /\ inbox' = [inbox EXCEPT ![i] = NoChunk]
       /\ full'  = [full EXCEPT ![i] = "never"]
       /\ said'  = [said EXCEPT ![i] = Nothing]
       /\ owed'  = [owed EXCEPT ![i] = 1]
  /\ backlog' = backlog - 1
  /\ UNCHANGED <<proc, maildir, phase, active_write_fds, read_fds, write_fds,
                 connects, inputs, told>>

\* Another process took the connection first, or descriptors ran out.
accept_fails ==
  /\ At("serve", listener)
  /\ backlog = 0 \/ \A i \in Fds : sock[i] # "closed"
  /\ UNCHANGED <<protocolVars, kernelVars, ghostVars, phase, active_read_fds,
                 active_write_fds, read_fds, write_fds>>

\* recv() returns a chunk; or 0, and the descriptor is closed but only
\* cleared from read_fds; or -1, which a size_t takes for data.
conn_recv(i) ==
  /\ At("serve", i) /\ i \in read_fds /\ i # listener
  /\ Update(i, [connections[i] EXCEPT !.recv_buf = inbox[i]])
  /\ inbox' = [inbox EXCEPT ![i] = NoChunk]
  /\ LET eof == inbox[i] = NoChunk /\ sock[i] \in {"fin", "dead"}
     IN  /\ read_fds' = IF eof THEN read_fds \ {i} ELSE read_fds
         /\ sock' = CASE eof -> [sock EXCEPT ![i] = "closed"]
                      [] inbox[i] = NoChunk /\ sock[i] = "rst" -> [sock EXCEPT ![i] = "dead"]
                      [] OTHER -> sock
  /\ said' = [said EXCEPT ![i] = Dictate(@, inbox[i])]
  /\ owed' = IF Expects(connections[i].state, inbox[i])
             THEN [owed EXCEPT ![i] = @ + 1] ELSE owed
  /\ UNCHANGED <<proc, maildir, phase, active_read_fds, active_write_fds, write_fds,
                 full, backlog, connects, inputs, told>>

\* What send() of send_buf does on descriptor i: the socket takes it (zero
\* bytes even when it is full), EAGAIN, EBADF or ECONNRESET, or SIGPIPE, which
\* nobody handles.
Connected(i) == sock[i] \in {"open", "fin"}
Reply(i)     == connections[i].send_buf
Takes(i)     == Connected(i) /\ (full[i] # "now" \/ Reply(i) = "")
Blocks(i)    == Connected(i) /\ ~Takes(i)
Kills(i)     == sock[i] = "dead"

\* The peer's side of it.
Transmit(i) ==
  owed' = IF Takes(i) /\ Reply(i) # "" THEN [owed EXCEPT ![i] = @ - 1] ELSE owed

\* send() reports an ECONNRESET once.
Reported(i) == IF sock[i] = "rst" THEN "dead" ELSE sock[i]

killed_by_sigpipe(i) ==
  /\ Kills(i)
  /\ proc' = "crashed"
  /\ UNCHANGED <<connections, active_read_fds, active_write_fds, sock, inbox, owed>>

\* Mutated forms of the two below: one FD_CLR, one FD_SET forgotten.
to_write_set_only_adds(i) ==
  active_write_fds' = active_write_fds \cup {i} /\ UNCHANGED active_read_fds
to_read_set_only_clears(i) ==
  active_write_fds' = active_write_fds \ {i} /\ UNCHANGED active_read_fds

\* A descriptor changes interest sets, when send() blocked and when it may go on.
to_write_set(i) ==
  /\ active_read_fds'  = active_read_fds \ {i}
  /\ active_write_fds' = active_write_fds \cup {i}

to_read_set(i) ==
  /\ active_write_fds' = active_write_fds \ {i}
  /\ active_read_fds'  = active_read_fds \cup {i}

\* A descriptor of the write set is sent send_buf, which keeps its contents,
\* and goes back to the read set.
write_ready(i) ==
  /\ At("serve", i) /\ i \in write_fds \ read_fds
  /\ \/ killed_by_sigpipe(i)
     \/ /\ ~Kills(i) /\ Transmit(i)
        /\ sock' = [sock EXCEPT ![i] = Reported(i)]
        /\ IF Takes(i) THEN to_read_set(i) ELSE UNCHANGED <<active_read_fds, active_write_fds>>
        /\ UNCHANGED <<proc, connections, inbox>>
  /\ UNCHANGED <<maildir, phase, read_fds, write_fds, full, backlog, connects, inputs, said, told>>

end_serve ==
  /\ proc = "running" /\ phase = "serve" /\ todo = {}
  /\ Enter("flush", {i \in Fds : connections[i].mem # "null"})
  /\ UNCHANGED <<protocolVars, kernelVars, ghostVars, active_read_fds,
                 active_write_fds, read_fds, write_fds>>

\* Mutated forms of Flushed: send_buf survives the send, or survives EAGAIN.
Flushed_kept(i) == connections[i]
Flushed_unless_blocked(i) ==
  IF Blocks(i) THEN connections[i] ELSE [connections[i] EXCEPT !.send_buf = ""]

\* send_buf is cleared, whatever send() said.
Flushed(i) == [connections[i] EXCEPT !.send_buf = ""]

\* Slot i of the second loop of conn_update(): send_buf is sent and cleared,
\* a descriptor that would block moves to the write set, and a "disconnected"
\* connection is released, its slot left as it is.
flush(i) ==
  /\ At("flush", i) /\ Live(i)
  /\ \/ Reply(i) # "" /\ killed_by_sigpipe(i)
     \/ /\ Reply(i) = "" \/ ~Kills(i)
        /\ Transmit(i)
        /\ IF connections[i].state = "disconnected"
           THEN /\ Update(i, [Flushed(i) EXCEPT !.mem = "freed"])
                /\ active_read_fds'  = active_read_fds \ {i}
                /\ active_write_fds' = active_write_fds \ {i}
                /\ sock'  = [sock EXCEPT ![i] = "closed"]
                /\ inbox' = [inbox EXCEPT ![i] = NoChunk]
           ELSE /\ Update(i, Flushed(i))
                /\ IF Blocks(i) THEN to_write_set(i)
                   ELSE UNCHANGED <<active_read_fds, active_write_fds>>
                /\ sock' = IF Reply(i) = "" THEN sock ELSE [sock EXCEPT ![i] = Reported(i)]
                /\ UNCHANGED inbox
        /\ UNCHANGED proc
  /\ UNCHANGED <<maildir, phase, read_fds, write_fds, full, backlog, connects, inputs, said, told>>

\* The slot was freed by an earlier pass: conn_free() frees it again.
double_free(i) ==
  /\ At("flush", i) /\ use_after_free(i)
  /\ UNCHANGED <<kernelVars, ghostVars, phase, active_read_fds, active_write_fds,
                 read_fds, write_fds>>

end_flush ==
  /\ proc = "running" /\ phase = "flush" /\ todo = {}
  /\ Enter("protocol", {i \in Fds : connections[i].mem # "null"})
  /\ UNCHANGED <<protocolVars, kernelVars, ghostVars, active_read_fds,
                 active_write_fds, read_fds, write_fds>>

\* protocol_update() for slot i.
protocol(i) ==
  /\ At("protocol", i) /\ protocol_slot(i)
  /\ UNCHANGED <<kernelVars, ghostVars, phase, active_read_fds, active_write_fds,
                 read_fds, write_fds>>

\* conn_update() is called again and copies the interest sets for select().
enter_select ==
  /\ proc = "running" /\ phase = "protocol" /\ todo = {}
  /\ Enter("select", {})
  /\ read_fds' = active_read_fds /\ write_fds' = active_write_fds
  /\ UNCHANGED <<protocolVars, kernelVars, ghostVars, active_read_fds, active_write_fds>>

\* Everything the process does by itself.
loop ==
  \/ select_fails \/ select_returns \/ end_serve \/ end_flush \/ enter_select
  \/ accept_connection \/ accept_fails
  \/ \E i \in Fds : \/ conn_recv(i) \/ write_ready(i)
                    \/ flush(i) \/ double_free(i) \/ protocol(i)

\* SIGINT, between any two steps: handle_signal() runs conn_destroy(), which
\* looks at read_fds and write_fds, and exits.
handle_signal ==
  /\ "signal" \in Faults /\ proc = "running"
  /\ proc' = "shutdown"
  /\ told' = {i \in Fds \cap (read_fds \cup write_fds) : Connected(i) /\ full[i] # "now"}
  /\ UNCHANGED <<connections, maildir, loopVars, kernelVars, said, owed>>
-----------------------------------------------------------------------------
(* The peers, the other processes and the clock. *)

peer_connects ==
  /\ connects < MaxConnects /\ backlog < MaxBacklog
  /\ connects' = connects + 1 /\ backlog' = backlog + 1
  /\ UNCHANGED <<sock, inbox, full, inputs>>

other_accepts ==
  /\ "steal" \in Faults
  /\ backlog > 0 /\ backlog' = backlog - 1
  /\ UNCHANGED <<sock, inbox, full, connects, inputs>>

\* A peer may send on without waiting for a reply.
peer_sends(i) ==
  /\ sock[i] = "open" /\ inbox[i] = NoChunk /\ inputs < MaxInputs
  /\ \E chunk \in Offered : inbox' = [inbox EXCEPT ![i] = chunk]
  /\ inputs' = inputs + 1
  /\ UNCHANGED <<sock, full, backlog, connects>>

peer_closes(i) ==
  /\ "close" \in Faults /\ sock[i] = "open"
  /\ sock' = [sock EXCEPT ![i] = "fin"]
  /\ UNCHANGED <<inbox, full, backlog, connects, inputs>>

peer_resets(i) ==
  /\ "reset" \in Faults /\ Connected(i)
  /\ sock' = [sock EXCEPT ![i] = IF @ = "open" THEN "rst" ELSE "dead"]
  /\ UNCHANGED <<inbox, full, backlog, connects, inputs>>

peer_stalls(i) ==
  /\ "stall" \in Faults /\ Connected(i) /\ full[i] # "now"
  /\ full' = [full EXCEPT ![i] = "now"]
  /\ UNCHANGED <<sock, inbox, backlog, connects, inputs>>

peer_drains(i) ==
  /\ full[i] = "now"
  /\ full' = [full EXCEPT ![i] = "before"]
  /\ UNCHANGED <<sock, inbox, backlog, connects, inputs>>

peers ==
  /\ proc = "running"
  /\ \/ peer_connects \/ other_accepts
     \/ \E i \in Fds : \/ peer_sends(i) \/ peer_closes(i) \/ peer_resets(i)
                       \/ peer_stalls(i) \/ peer_drains(i)
  /\ UNCHANGED <<protocolVars, loopVars, ghostVars>>

\* CONN_TIMEOUT ms pass without a command on connection i.
expire(i) ==
  /\ "silence" \in Faults /\ proc = "running"
  /\ Live(i) /\ connections[i].watch = "fresh"
  /\ Update(i, [connections[i] EXCEPT !.watch = "expired"])
  /\ UNCHANGED <<proc, maildir, loopVars, kernelVars, ghostVars>>

Next == loop \/ handle_signal \/ peers \/ \E i \in Fds : expire(i)

Spec == Init /\ [][Next]_vars

\* conn_accept() calls conn_update() and protocol_update() in a loop without
\* end and no call in it blocks for more than a second.
FairSpec == Spec /\ WF_vars(loop)
-----------------------------------------------------------------------------
(* Properties. *)

\* The states a connection rests in between two passes; the process_* states
\* last no longer than the handler they call.
Resting == {"init", "ready", "expect_mail", "expect_rcpt", "expect_data",
            "expect_data_recv", "disconnected"}

\* Every variable keeps to its type, and no connection is left in a state only
\* a handler may be in (process_bind[], protocol.c:27-36).
TypeOK ==
  /\ proc \in {"running", "shutdown", "exited", "crashed"}
  /\ connections \in [Fds -> ConnRecords]
  /\ \A i \in Fds : connections[i].state \in Resting
  /\ maildir \in Seq(Saved)
  /\ phase \in {"select", "serve", "flush", "protocol"}
  /\ todo \subseteq AllFds
  /\ active_read_fds \subseteq AllFds /\ active_write_fds \subseteq Fds
  /\ read_fds \subseteq AllFds /\ write_fds \subseteq Fds
  /\ sock \in [Fds -> {"closed", "open", "fin", "rst", "dead"}]
  /\ inbox \in [Fds -> Inputs]
  /\ full \in [Fds -> {"never", "now", "before"}]
  /\ backlog \in Nat /\ connects \in Nat /\ inputs \in Nat
  /\ said \in [Fds -> Saved]
  /\ owed \in [Fds -> Int]
  /\ told \subseteq Fds

\* The letter a handler finds in state st: allocated, with its sender, with a
\* recipient from RCPT on and without one before, and without text before DATA.
LetterFits(c) ==
  /\ c.state \in {"expect_rcpt", "expect_data", "expect_data_recv"} =>
       c.letter.mem = "live" /\ c.letter.mail_from \in Addresses
  /\ c.state = "expect_rcpt" => c.letter.rcpt_to = NoMailbox
  /\ c.state \in {"expect_data", "expect_data_recv"} => c.letter.rcpt_to \in Mailboxes
  /\ c.state \in {"expect_rcpt", "expect_data"} => c.letter.body = <<>>

\* The handlers of RCPT, DATA and the message body write through conn->letter
\* without a look at it, and nothing in conn_t says whether it was allocated,
\* freed, or left over from the letter before: by the state of the session
\* alone it is always the right one.
LetterLive == \A i \in Fds : LetterFits(connections[i])

\* A letter is stored only as one of the peers dictated it since its last
\* MAIL: nothing of an earlier letter, of another connection, or of a line
\* that was refused gets into the file process_data_end() writes.
SavedAsSaid ==
  [][maildir' # maildir => \E i \in Fds : maildir' = Append(maildir, said[i])]_vars

\* select() watches a connection in exactly one of its two interest sets, and
\* watches nothing else: a descriptor in both is read while it still has to be
\* written, one in neither is never served again.
WatchedOnce ==
  \A i \in Fds : IF Live(i)
                 THEN (i \in active_read_fds) # (i \in active_write_fds)
                 ELSE i \notin active_read_fds \cup active_write_fds

\* protocol_update() copies each reply over send_buf without a look at it: as
\* long as select() works, the buffer is empty whenever that happens, so no
\* reply is replaced by the next before send() was called with it.
NoReplyOverwritten ==
  [][\A i \in Fds : Live(i) /\ Reply(i) # "" /\ Stale = {} =>
       connections'[i].send_buf \in {Reply(i), ""}]_vars

\* Every command is answered once, in its turn: what a peer still waits for is
\* exactly what recv_buf and send_buf hold.  Peers that stopped reading are
\* left out (conn.c:195 drops the reply that would block), and so is a process
\* whose select() fails.
ReplyAccounting ==
  proc = "running" /\ Stale = {} =>
    \A i \in Fds :
      Live(i) /\ Connected(i) /\ full[i] = "never" /\ Reply(i) # "421 timeout" =>
        owed[i] = Cardinality({b \in {"recv", "send", "greet"} :
          \/ b = "recv" /\ Expects(connections[i].state, connections[i].recv_buf)
          \/ b = "send" /\ Reply(i) # ""
          \/ b = "greet" /\ connections[i].state = "init"})

\* The letter a session is at, by the state of its connection.
Draft(i) ==
  LET c     == connections[i]
      stage == CASE c.state = "expect_rcpt"      -> "sender"
                 [] c.state = "expect_data"      -> "recipient"
                 [] c.state = "expect_data_recv" -> "text"
                 [] OTHER                        -> "none"
  IN  IF Live(i) /\ stage # "none"
      THEN [stage |-> stage, mail_from |-> c.letter.mail_from,
            rcpt_to |-> c.letter.rcpt_to, body |-> c.letter.body]
      ELSE [stage |-> "none", mail_from |-> NoMailbox, rcpt_to |-> NoMailbox, body |-> <<>>]

MS == INSTANCE MailService WITH
        Sessions <- Fds, Senders <- Addresses, Recipients <- Mailboxes,
        TextLines <- Lines, Nobody <- NoMailbox,
        draft <- [i \in Fds |-> Draft(i)], stored <- maildir

\* The connections of a process, with everything that interrupts them, keep
\* the promise of MailService: no letter is stored twice, in part, or mixed
\* with what another command, letter or connection left in letter_t.
ImplementsMailService == MS!Spec

Up == proc = "running" /\ Stale = {}

\* What a peer sent is read, whatever happened to its descriptor in between,
\* as long as the process is up and the peer reads its replies.
Served ==
  \A i \in Fds : (Live(i) /\ inbox[i] # NoChunk) ~> (inbox[i] = NoChunk \/ ~Up \/ full[i] = "now")

\* A connection that stays silent past CONN_TIMEOUT is closed.
TimedOutIsClosed ==
  \A i \in Fds : (Live(i) /\ connections[i].watch = "expired")
                   ~> (~Live(i) \/ connections[i].watch = "fresh" \/ ~Up)
-----------------------------------------------------------------------------
(* What comments and texts of the code say of it, and it does not do. *)

\* conn.h:42, of conn_destroy(): all connections are closed with code 421.
ShutdownNotifiesAll ==
  proc = "shutdown" => \A i \in Fds : Live(i) /\ Connected(i) /\ full[i] # "now" => i \in told

\* protocol.c:91-95: a connection silent past CONN_TIMEOUT is disconnected with
\* 421, here without an exception for a process whose select() fails: README.md,
\* section 6.
EveryTimeoutEnds ==
  \A i \in Fds : (Live(i) /\ connections[i].watch = "expired")
                   ~> (~Live(i) \/ connections[i].watch = "fresh" \/ proc # "running")
=============================================================================
