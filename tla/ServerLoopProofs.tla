--------------------------- MODULE ServerLoopProofs ---------------------------
(***************************************************************************)
(* Proofs about the rounds of the loop of ServerLoop: which descriptors      *)
(* select() watches, when the two buffers of a connection are empty, what    *)
(* the peer was promised, and what it said of the letter that is stored.     *)
(***************************************************************************)
EXTENDS ServerProofs, FiniteSetTheorems

-----------------------------------------------------------------------------
(* The sets. *)

\* What the sets and the descriptors yet to visit have to do with the
\* connections, from one call of select() to the next.  WatchedOnce alone is
\* not inductive: write_ready() moves a descriptor to the read set because it
\* was in the results of select(), and accept() takes a number that was free
\* when select() was called.
Sets ==
  /\ WatchedOnce
  /\ phase = "select" =>
       read_fds \subseteq active_read_fds /\ write_fds \subseteq active_write_fds
  /\ phase = "serve" =>
       /\ \A i \in Fds \cap todo : Live(i)
       /\ todo \cap write_fds \subseteq active_write_fds
  /\ phase = "serve" /\ listener \in todo => Stale = {}

SameSlots == \A i \in Fds : Live(i)' = Live(i) /\ (sock[i] = "closed")' = (sock[i] = "closed")

LEMMA ListenerIsNoFd == listener \notin Fds /\ \A i \in Fds : i \in AllFds /\ i > listener
BY MaxFdAssumption DEF Fds, AllFds, listener

\* Stale, without the set.
LEMMA StaleIs ==
  /\ Stale = {} <=> \A i \in (active_read_fds \cup active_write_fds) \ {listener} :
                       sock[i] # "closed"
  /\ Stale' = {} <=> \A i \in (active_read_fds' \cup active_write_fds') \ {listener} :
                       sock'[i] # "closed"
BY DEF Stale

\* A step that leaves the interest sets alone.
LEMMA SameStale ==
  ASSUME LoopOK, SameSlots, UNCHANGED <<active_read_fds, active_write_fds>>
  PROVE  (Stale = {})' = (Stale = {})
<1>1. \A i \in (active_read_fds \cup active_write_fds) \ {listener} :
         (sock'[i] = "closed") = (sock[i] = "closed")
  BY DEF LoopOK, AllFds, SameSlots
<1>2. QED
  BY <1>1, StaleIs

LEMMA SetsKept ==
  ASSUME LoopOK, Sets, SameSlots,
         UNCHANGED <<active_read_fds, active_write_fds, read_fds, write_fds>>,
         phase' = phase, todo' \subseteq todo
  PROVE  Sets'
<1>1. (Stale = {})' = (Stale = {})
  BY SameStale
<1>2. WatchedOnce'
  BY DEF Sets, WatchedOnce, SameSlots
<1>3. QED
  BY <1>1, <1>2 DEF Sets, SameSlots

\* A pass of protocol_update() and expire() leave a slot what it is.
LEMMA UpdateKeepsSlots ==
  ASSUME ConnsFit, NEW i \in Fds, NEW d, d.mem = connections[i].mem, Update(i, d),
         UNCHANGED sock
  PROVE  SameSlots
BY DEF ConnsFit, Update, SameSlots, Live

LEMMA protocol_KeepsSlots ==
  ASSUME ConnsFit, NEW i \in Fds, protocol(i)
  PROVE  SameSlots
<1>1. Fits(connections[i]) /\ protocol_slot(i) /\ UNCHANGED sock
  BY DEF ConnsFit, protocol, kernelVars
<1>2. Passes(i) \/ UNCHANGED connections
  BY <1>1, SlotPasses
<1>3. CASE UNCHANGED connections
  BY <1>1, <1>3 DEF SameSlots, Live
<1>4. CASE Passes(i)
  BY <1>1, <1>4, UpdateKeepsSlots DEF Passes
<1>5. QED
  BY <1>2, <1>3, <1>4

LEMMA peers_KeepSlots ==
  ASSUME KernelOK, peers
  PROVE  SameSlots
<1>1. ASSUME NEW i \in Fds
      PROVE  (sock'[i] = "closed") = (sock[i] = "closed")
  BY DEF KernelOK, peers, peer_connects, other_accepts, peer_sends, peer_closes,
     peer_resets, peer_stalls, peer_drains, Connected
<1>2. UNCHANGED connections
  BY DEF peers, protocolVars
<1>3. QED
  BY <1>1, <1>2 DEF SameSlots, Live

LEMMA accept_Sets ==
  ASSUME LoopOK, KernelOK, ConnsFit, Sets, accept_connection
  PROVE  Sets'
<1> PICK i \in Fds : /\ Lowest(i) /\ Update(i, [NoConn EXCEPT !.mem = "live"])
                     /\ active_read_fds' = active_read_fds \cup {i}
                     /\ sock' = [sock EXCEPT ![i] = "open"]
  BY DEF accept_connection
<1>1. /\ phase = "serve" /\ listener \in todo /\ todo' = todo \ {listener} /\ phase' = phase
      /\ UNCHANGED <<active_write_fds, read_fds, write_fds>>
  BY DEF accept_connection, At
<1>2. i \notin active_read_fds \cup active_write_fds
  BY <1>1, StaleIs, ListenerIsNoFd DEF Sets, Lowest
<1>3. /\ Live(i)' /\ \A j \in Fds \ {i} : Live(j)' = Live(j)
  BY NoConnFits DEF ConnsFit, Update, Live
<1>4. WatchedOnce'
  BY <1>1, <1>2, <1>3 DEF Sets, WatchedOnce
<1>5. /\ \A j \in Fds \cap todo' : Live(j)'
      /\ todo' \cap write_fds' \subseteq active_write_fds'
  BY <1>1, <1>3 DEF Sets
<1>6. QED
  BY <1>1, <1>4, <1>5 DEF Sets

LEMMA select_Sets ==
  ASSUME LoopOK, Sets, select_fails \/ select_returns \/ end_serve \/ end_flush \/ enter_select
  PROVE  Sets'
<1>1. UNCHANGED <<connections, sock, active_read_fds, active_write_fds>>
  BY DEF select_fails, select_returns, end_serve, end_flush, enter_select, protocolVars,
     kernelVars
<1>2. SameSlots
  BY <1>1 DEF SameSlots, Live
<1>3. WatchedOnce' /\ (Stale = {})' = (Stale = {})
  BY <1>1, <1>2, SameStale DEF Sets, WatchedOnce, Live
<1>4. CASE select_fails \/ end_serve \/ end_flush
  <2>1. phase' \notin {"select", "serve"}
    BY <1>4 DEF select_fails, end_serve, end_flush, Enter
  <2>2. QED
    BY <1>3, <2>1 DEF Sets
<1>5. CASE select_returns
  <2>1. /\ phase = "select" /\ Stale = {} /\ phase' = "serve"
        /\ todo' = read_fds' \cup write_fds'
        /\ read_fds' \subseteq read_fds /\ write_fds' \subseteq write_fds
    BY <1>5 DEF select_returns, Enter
  <2>2. todo' \subseteq active_read_fds \cup active_write_fds
        /\ write_fds' \subseteq active_write_fds
    BY <2>1 DEF Sets
  <2>3. \A i \in Fds \cap todo' : Live(i)'
    BY <1>2, <2>2 DEF Sets, WatchedOnce, SameSlots
  <2>4. QED
    BY <1>1, <1>3, <2>1, <2>2, <2>3 DEF Sets
<1>6. CASE enter_select
  BY <1>1, <1>3, <1>6 DEF Sets, enter_select, Enter
<1>7. QED
  BY <1>4, <1>5, <1>6

LEMMA conn_recv_Sets ==
  ASSUME LoopOK, KernelOK, ConnsFit, Sets, NEW i \in Fds, conn_recv(i)
  PROVE  Sets'
<1>1. /\ phase = "serve" /\ i \in todo /\ listener \notin todo' /\ todo' \subseteq todo
      /\ UNCHANGED <<phase, active_read_fds, active_write_fds, write_fds>>
  BY ListenerIsNoFd DEF conn_recv, At, listener, LoopOK, AllFds, Fds
<1>2. \A j \in Fds : Live(j)' = Live(j)
  BY DEF conn_recv, ConnsFit, Update, Live, Fits, Settled, ConnRecords
<1>3. WatchedOnce'
  BY <1>1, <1>2 DEF Sets, WatchedOnce
<1>4. QED
  BY <1>1, <1>2, <1>3 DEF Sets

LEMMA write_ready_Sets ==
  ASSUME LoopOK, KernelOK, ConnsFit, Sets, NEW i \in Fds, write_ready(i)
  PROVE  Sets'
<1>1. /\ phase = "serve" /\ i \in todo /\ listener \notin todo' /\ todo' = todo \ {i}
      /\ UNCHANGED <<phase, connections, write_fds>>
  BY ListenerIsNoFd DEF write_ready, At, listener, LoopOK, AllFds, Fds, killed_by_sigpipe
<1>2. \A j \in Fds : Live(j)' = Live(j)
  BY <1>1 DEF Live
<1>3. Live(i)
  BY <1>1 DEF Sets
<1>4. \/ UNCHANGED <<active_read_fds, active_write_fds>>
      \/ /\ active_write_fds' = active_write_fds \ {i}
         /\ active_read_fds' = active_read_fds \cup {i}
  BY DEF write_ready, killed_by_sigpipe, to_read_set
<1>5. WatchedOnce'
  BY <1>2, <1>3, <1>4 DEF Sets, WatchedOnce
<1>6. todo' \cap write_fds' \subseteq active_write_fds'
  BY <1>1, <1>4 DEF Sets
<1>7. QED
  BY <1>1, <1>2, <1>5, <1>6 DEF Sets

LEMMA flush_Sets ==
  ASSUME LoopOK, KernelOK, ConnsFit, Sets, NEW i \in Fds, flush(i)
  PROVE  Sets'
<1>1. phase = "flush" /\ phase' = "flush" /\ Live(i)
  BY DEF flush, At
<1>2. connections[i] \in ConnRecords
  BY DEF ConnsFit
<1>3. CASE killed_by_sigpipe(i)
  <2>1. UNCHANGED <<connections, active_read_fds, active_write_fds>>
    BY <1>3 DEF killed_by_sigpipe
  <2>2. WatchedOnce'
    BY <2>1 DEF Sets, WatchedOnce, Live
  <2>3. QED
    BY <1>1, <2>2 DEF Sets
<1>4. CASE /\ Update(i, Flushed(i))
           /\ UNCHANGED <<active_read_fds, active_write_fds>> \/ to_write_set(i)
  <2>1. \A j \in Fds : Live(j)' = Live(j)
    BY <1>2, <1>4 DEF ConnsFit, Update, Flushed, ConnRecords, Live
  <2>2. WatchedOnce'
    BY <1>1, <1>4, <2>1 DEF Sets, WatchedOnce, to_write_set
  <2>3. QED
    BY <1>1, <2>2 DEF Sets
<1>5. CASE /\ Update(i, [Flushed(i) EXCEPT !.mem = "freed"])
           /\ active_read_fds' = active_read_fds \ {i}
           /\ active_write_fds' = active_write_fds \ {i}
  <2>1. ~Live(i)' /\ \A j \in Fds \ {i} : Live(j)' = Live(j)
    BY <1>2, <1>5 DEF ConnsFit, Update, Flushed, ConnRecords, Live
  <2>2. WatchedOnce'
    BY <1>5, <2>1 DEF Sets, WatchedOnce
  <2>3. QED
    BY <1>1, <2>2 DEF Sets
<1>6. QED
  BY <1>3, <1>4, <1>5 DEF flush

LEMMA SetsStep ==
  ASSUME TypeOK, LetterLive, Sets, [Next]_vars
  PROVE  Sets'
<1>1. LoopOK /\ KernelOK /\ ConnsFit
  BY TypeParts
<1>2. CASE accept_fails \/ handle_signal \/ UNCHANGED vars \/ \E i \in Fds : double_free(i)
  <2>1. /\ UNCHANGED <<connections, sock, active_read_fds, active_write_fds, read_fds,
                      write_fds, phase>>
        /\ todo' \subseteq todo
    BY <1>2 DEF accept_fails, handle_signal, double_free, use_after_free, At, vars,
       protocolVars, loopVars, kernelVars
  <2>2. QED
    BY <1>1, <2>1, SetsKept DEF SameSlots, Live
<1>3. CASE peers \/ \E i \in Fds : protocol(i) \/ expire(i)
  <2>1. /\ UNCHANGED <<active_read_fds, active_write_fds, read_fds, write_fds, phase>>
        /\ todo' \subseteq todo
    BY <1>3 DEF peers, protocol, expire, At, loopVars
  <2>2. ASSUME NEW i \in Fds, expire(i)
        PROVE  SameSlots
    <3>1. [connections[i] EXCEPT !.watch = "expired"].mem = connections[i].mem
      BY <1>1 DEF ConnsFit, ConnRecords
    <3>2. QED
      BY <1>1, <2>2, <3>1, UpdateKeepsSlots DEF expire, kernelVars
  <2>3. SameSlots
    BY <1>1, <1>3, <2>2, protocol_KeepsSlots, peers_KeepSlots
  <2>4. QED
    BY <1>1, <2>1, <2>3, SetsKept
<1>4. CASE loop /\ ~accept_fails /\ ~\E i \in Fds : double_free(i) \/ protocol(i)
  BY <1>1, <1>4, accept_Sets, select_Sets, conn_recv_Sets, write_ready_Sets, flush_Sets DEF loop
<1>5. QED
  BY <1>2, <1>3, <1>4 DEF Next, loop

LEMMA InitSets ==
  ASSUME Init
  PROVE  Sets
<1>1. \A i \in Fds : ~Live(i)
  BY DEF Init, Live, NoConn
<1>2. QED
  BY <1>1, ListenerIsNoFd DEF Init, Sets, WatchedOnce

\* select() watches every connection in exactly one of its interest sets and
\* nothing else, between any two steps of conn_update(): a descriptor that was
\* blocked comes back, and a number accept() hands out again is in no set.
THEOREM EachWatchedOnce == Spec => []WatchedOnce
<1>1. Init => TypeOK /\ LetterLive /\ Sets
  BY InitOK, InitSets
<1>2. TypeOK /\ LetterLive /\ Sets /\ [Next]_vars => (TypeOK /\ LetterLive /\ Sets)'
  BY NextOK, SetsStep
<1>3. Sets => WatchedOnce
  BY DEF Sets
<1>4. QED
  BY <1>1, <1>2, <1>3, PTL DEF Spec
-----------------------------------------------------------------------------
(* One pass of protocol_update() over one connection. *)

\* A greeted connection in which no command waits.
Ready(c) == c.recv_buf = NoChunk /\ c.state # "init"

\* A connection is greeted before anything is read from it, and is told of its
\* timeout as it is disconnected.
Sound(c) == /\ c.state = "init" => c.recv_buf = NoChunk
            /\ c.send_buf = "421 timeout" => c.state = "disconnected"

\* The replies its peer has yet to be sent, as a sum.
Waiting(c) ==   (IF Expects(c.state, c.recv_buf) THEN 1 ELSE 0)
              + (IF c.send_buf # "" THEN 1 ELSE 0)
              + (IF c.state = "init" THEN 1 ELSE 0)

\* l is the letter of c, as far as the session has come with it.
Keeps(c, l) ==
  /\ c.state \in {"expect_rcpt", "expect_data", "expect_data_recv"} =>
       l.mail_from = c.letter.mail_from
  /\ c.state \in {"expect_data", "expect_data_recv"} => l.rcpt_to = c.letter.rcpt_to
  /\ c.state = "expect_data_recv" => l.body = c.letter.body

\* A pass turns c into d: the command is taken out of recv_buf, one reply is
\* put into an empty send_buf if one was due, and the letter follows what the
\* peer said.
Turns(c, d) ==
  /\ d.mem = c.mem
  /\ Ready(d) /\ Sound(d)
  /\ c.send_buf = "" /\ d.send_buf # "421 timeout" => Waiting(d) = Waiting(c)
  /\ \A l \in Saved : Keeps(c, l) => Keeps(d, Dictate(l, c.recv_buf))

Turned(i) == \E d : Fits(d) /\ Turns(connections[i], d) /\ Update(i, d)

\* No chunk is no command and dictates nothing.
LEMMA NoChunkIsSilent ==
  /\ \A st : ~Expects(st, NoChunk)
  /\ \A l : Dictate(l, NoChunk) = l
BY DEF NoChunk, Expects, Dictate, Lines

LEMMA WaitingOf ==
  ASSUME NEW c
  PROVE  /\ Ready(c) => Waiting(c) = (IF c.send_buf = "" THEN 0 ELSE 1)
         /\ c.state # "init" /\ c.send_buf = "" =>
              Waiting(c) = (IF Expects(c.state, c.recv_buf) THEN 1 ELSE 0)
         /\ c.state = "init" /\ c.send_buf = "" /\ c.recv_buf = NoChunk => Waiting(c) = 1
<1> DEFINE r == IF Expects(c.state, c.recv_buf) THEN 1 ELSE 0
           s == IF c.send_buf # "" THEN 1 ELSE 0
           g == IF c.state = "init" THEN 1 ELSE 0
<1>1. Waiting(c) = r + s + g
  BY DEF Waiting
<1>2. r \in {0, 1} /\ s \in {0, 1} /\ g \in {0, 1}
  OBVIOUS
<1>3. ASSUME Ready(c)
      PROVE  Waiting(c) = s
  <2>1. r = 0 /\ g = 0
    BY <1>3, NoChunkIsSilent DEF Ready
  <2> HIDE DEF r, s, g
  <2>2. QED
    BY <1>1, <1>2, <2>1
<1>4. ASSUME c.state # "init", c.send_buf = ""
      PROVE  Waiting(c) = r
  <2>1. s = 0 /\ g = 0
    BY <1>4
  <2> HIDE DEF r, s, g
  <2>2. QED
    BY <1>1, <1>2, <2>1
<1>5. ASSUME c.state = "init", c.send_buf = "", c.recv_buf = NoChunk
      PROVE  Waiting(c) = 1
  <2>1. r = 0 /\ s = 0 /\ g = 1
    BY <1>5, NoChunkIsSilent
  <2> HIDE DEF r, s, g
  <2>2. QED
    BY <1>1, <2>1
<1>6. QED
  BY <1>3, <1>4, <1>5

LEMMA DictateOf ==
  ASSUME NEW l \in Saved, NEW chunk
  PROVE  LET k == chunk.kind
             said_now == Dictate(l, chunk)
         IN  /\ k = "MAIL" => said_now.mail_from = chunk.arg
             /\ k = "RCPT" => /\ said_now.mail_from = l.mail_from
                              /\ said_now.rcpt_to = chunk.arg
             /\ k = "DATA" => /\ said_now.mail_from = l.mail_from
                              /\ said_now.rcpt_to = l.rcpt_to /\ said_now.body = <<>>
             /\ k \in Lines => /\ said_now.mail_from = l.mail_from
                               /\ said_now.rcpt_to = l.rcpt_to
                               /\ said_now.body = Append(l.body, k)
             /\ k \notin {"MAIL", "RCPT", "DATA"} \cup Lines => said_now = l
<1>1. l = [mail_from |-> l.mail_from, rcpt_to |-> l.rcpt_to, body |-> l.body]
  BY DEF Saved
<1>2. CASE chunk.kind = "MAIL"
  BY <1>2 DEF Dictate, Nothing, Lines
<1>3. CASE chunk.kind = "RCPT"
  BY <1>1, <1>3 DEF Dictate, Lines
<1>4. CASE chunk.kind = "DATA"
  BY <1>1, <1>4 DEF Dictate, Lines
<1>5. CASE chunk.kind \in Lines
  BY <1>1, <1>5 DEF Dictate, Lines
<1>6. CASE chunk.kind \notin {"MAIL", "RCPT", "DATA"} \cup Lines
  BY <1>6 DEF Dictate, Lines
<1>7. QED
  BY <1>2, <1>3, <1>4, <1>5, <1>6

\* A greeted connection whose stopwatch was just started ends a pass as it is.
LEMMA FinishConn ==
  ASSUME NEW e \in ConnRecords, e.state # "init"
  PROVE  /\ Finish(e).state = e.state /\ Finish(e).letter = e.letter
         /\ Finish(e).mem = e.mem /\ Finish(e).send_buf = e.send_buf
         /\ Finish(e).recv_buf = NoChunk
<1> DEFINE d == [e EXCEPT !.recv_buf = NoChunk, !.watch = "fresh"]
<1>1. /\ d.state = e.state /\ d.letter = e.letter /\ d.mem = e.mem
      /\ d.send_buf = e.send_buf /\ d.recv_buf = NoChunk /\ d.watch = "fresh"
  BY DEF ConnRecords
<1>2. Finish(e) = Idle(d)
  BY DEF Finish
<1> HIDE DEF d
<1>3. Greet(d) = d /\ TimeOut(d) = d
  BY <1>1 DEF Greet, TimeOut
<1>4. QED
  BY <1>1, <1>2, <1>3 DEF Idle

\* The end of a pass over a connection without a command.
LEMMA IdleConn ==
  ASSUME NEW c \in ConnRecords
  PROVE  /\ Idle(c).recv_buf = c.recv_buf
         /\ c.watch # "expired" =>
              /\ Idle(c).send_buf = (IF c.state = "init" THEN "220" ELSE c.send_buf)
              /\ Idle(c).state = (IF c.state = "init" THEN "ready" ELSE c.state)
         /\ c.watch = "expired" =>
              Idle(c).send_buf = "421 timeout" /\ Idle(c).state = "disconnected"
<1>1. /\ Greet(c) \in ConnRecords /\ Greet(c).recv_buf = c.recv_buf
      /\ Greet(c).watch = c.watch
      /\ Greet(c).state = (IF c.state = "init" THEN "ready" ELSE c.state)
      /\ Greet(c).send_buf = (IF c.state = "init" THEN "220" ELSE c.send_buf)
  <2>1. CASE c.state # "init"
    BY <2>1 DEF Greet
  <2>2. CASE c.state = "init"
    <3> DEFINE d == [c EXCEPT !.state = "ready", !.send_buf = "220", !.old_state = "connected"]
    <3>1. {"ready", "connected"} \subseteq States /\ "220" \in Outputs
      BY MembersOfTypes, RestingStates
    <3>2. Greet(c) = d
      BY <2>2, StepOfHandler DEF Greet, Answer, ConnRecords
    <3>3. /\ d \in ConnRecords /\ d.recv_buf = c.recv_buf /\ d.watch = c.watch
          /\ d.state = "ready" /\ d.send_buf = "220"
      BY <3>1 DEF ConnRecords
    <3>4. QED
      BY <2>2, <3>2, <3>3
  <2>3. QED
    BY <2>1, <2>2
<1>2. QED
  BY <1>1 DEF Idle, TimeOut, ConnRecords

LEMMA no_command_Turns ==
  ASSUME NEW i \in Fds, Fits(connections[i]), Sound(connections[i]), no_command(i)
  PROVE  Turned(i)
<1> DEFINE c == connections[i]
<1>1. c \in ConnRecords /\ c.recv_buf = NoChunk /\ Update(i, Idle(c))
  BY DEF Fits, Settled, no_command
<1>2. /\ Fits(Idle(c)) /\ Idle(c).mem = c.mem /\ Idle(c).letter = c.letter
      /\ Idle(c).state \in {c.state, "ready", "disconnected"}
  BY IdleFits, IdleSettled DEF Fits
<1>3. Ready(Idle(c)) /\ Sound(Idle(c))
  BY <1>1, IdleConn DEF Ready, Sound
<1>4. c.send_buf = "" /\ Idle(c).send_buf # "421 timeout" => Waiting(Idle(c)) = Waiting(c)
  <2> HIDE DEF c
  <2>1. CASE c.state = "init"
    BY <1>1, <1>3, <2>1, IdleConn, WaitingOf
  <2>2. CASE c.state # "init"
    BY <1>1, <1>3, <2>2, IdleConn, WaitingOf DEF Ready
  <2>3. QED
    BY <2>1, <2>2
<1>5. ASSUME NEW l \in Saved, Keeps(c, l)
      PROVE  Keeps(Idle(c), Dictate(l, c.recv_buf))
  BY <1>1, <1>2, <1>5, NoChunkIsSilent DEF Keeps
<1>6. Turns(c, Idle(c))
  BY <1>2, <1>3, <1>4, <1>5 DEF Turns
<1>7. QED
  BY <1>1, <1>2, <1>6 DEF Turned

\* A pass that ends with Finish(e).
LEMMA FinishTurns ==
  ASSUME NEW i \in Fds, NEW e, Fits(e), e.mem = connections[i].mem, e.state # "init",
         connections[i].state # "init", Update(i, Finish(e)),
         e.send_buf # "421 timeout",
         connections[i].send_buf = "" =>
           (e.send_buf # "" <=> Expects(connections[i].state, connections[i].recv_buf)),
         \A l \in Saved : Keeps(connections[i], l) =>
                          Keeps(e, Dictate(l, connections[i].recv_buf))
  PROVE  Turned(i)
<1> DEFINE c == connections[i]
           d == Finish(e)
<1>1. /\ Fits(d) /\ d.mem = c.mem
  BY FinishFits
<1>2. /\ d.state = e.state /\ d.letter = e.letter
      /\ d.send_buf = e.send_buf /\ d.recv_buf = NoChunk
  BY FinishConn DEF Fits, Settled
<1> HIDE DEF d
<1>3. Ready(d) /\ Sound(d)
  BY <1>2 DEF Ready, Sound
<1>4. c.send_buf = "" => Waiting(d) = Waiting(c)
  BY <1>2, <1>3, WaitingOf
<1>5. \A l \in Saved : Keeps(c, l) => Keeps(d, Dictate(l, c.recv_buf))
  BY <1>2 DEF Keeps
<1>6. QED
  BY <1>1, <1>3, <1>4, <1>5 DEF Turned, Turns, d

\* Nothing a peer sends is dispatched before the greeting, and only lines and
\* the final dot are while a text is received.
LEMMA StepFromInitAndText ==
  ASSUME NEW ev
  PROVE  /\ ev # "CONNECT" => server_step("init", ev) = "invalid"
         /\ server_step("expect_data_recv", ev) \in
              {"process_data_recv", "process_data_end", "invalid"}
BY DEF server_step, Interruptible

LEMMA EventOf ==
  ASSUME NEW chunk \in Chunks
  PROVE  /\ Event(chunk) # "CONNECT"
         /\ chunk.kind \in Lines <=> Event(chunk) = "DATA_RECV"
         /\ chunk.kind = "DOT" <=> Event(chunk) = "DATA_END"
         /\ \A kind \in {"MAIL", "RCPT", "DATA"} : chunk.kind = kind <=> Event(chunk) = kind
BY DEF Event, Chunks, Lines

\* What a handler is reached with: a greeted connection, and a chunk that is
\* due a reply unless it is an inner line of a text.
LEMMA HandledConn ==
  ASSUME NEW i \in Fds, Fits(connections[i]), NEW st \in States, st # "invalid",
         Handling(i, st)
  PROVE  /\ connections[i].state # "init"
         /\ connections[i].recv_buf \in Chunks
         /\ Expects(connections[i].state, connections[i].recv_buf) <=>
              ~(st = "process_data_recv" /\ connections[i].recv_buf.kind = "TEXT")
<1> DEFINE c == connections[i]
<1>1. /\ server_step(c.state, Event(c.recv_buf)) = st
      /\ c.recv_buf \in Chunks
  BY DispatchedConn DEF Fits
<1>2. c.state # "init"
  BY <1>1, StepFromInitAndText, EventOf
<1>3. c.recv_buf # NoChunk
  BY DEF Handling
<1>4. CASE c.state # "expect_data_recv"
  <2>1. st # "process_data_recv"
    BY <1>1, <1>4, StepToHandler DEF Fits, Settled
  <2>2. QED
    BY <1>1, <1>2, <1>3, <1>4, <2>1 DEF Expects
<1>5. CASE c.state = "expect_data_recv"
  <2>1. st \in {"process_data_recv", "process_data_end"}
    BY <1>1, <1>5, StepFromInitAndText
  <2>2. st = "process_data_end" => c.recv_buf.kind # "TEXT"
    BY <1>1, EventOf, StepToHandler DEF Fits, Settled, Lines
  <2>3. QED
    BY <1>1, <1>2, <1>3, <1>5, <2>1, <2>2 DEF Expects
<1>6. QED
  BY <1>4, <1>5

\* An answer that leads to a state without a letter.
LEMMA AnswerTurns ==
  ASSUME NEW i \in Fds, Fits(connections[i]), NEW st \in States, st # "invalid",
         st # "process_data_recv", Handling(i, st),
         NEW ev, NEW r \in Outputs, r # "", r # "421 timeout",
         server_step(st, ev) \in {"ready", "expect_mail", "disconnected"},
         NEW e, Fits(e), e.mem = connections[i].mem, e.state = server_step(st, ev),
         e.send_buf = r, Update(i, Finish(e))
  PROVE  Turned(i)
<1>1. \A l : Keeps(e, l)
  BY DEF Keeps
<1>2. QED
  BY <1>1, HandledConn, FinishTurns

LEMMA AnswerReplies ==
  ASSUME NEW c \in ConnRecords, NEW ev, NEW r
  PROVE  Answer(c, ev, r).send_buf = r
BY DEF Answer, ConnRecords

LEMMA PlainReply ==
  ASSUME NEW i \in Fds, Settled(connections[i]), NEW st \in States, Handling(i, st)
  PROVE  \A ev, r : Answer(Conn(i), ev, r).send_buf = r
BY DispatchedConn, AnswerReplies

LEMMA PlainAnswerTurns ==
  ASSUME NEW i \in Fds, Fits(connections[i]), NEW st \in States, st # "invalid",
         st # "process_data_recv", Handling(i, st),
         NEW ev, NEW r \in Outputs, r # "", r # "421 timeout",
         server_step(st, ev) \in {"ready", "expect_mail", "disconnected"},
         Update(i, Finish(Answer(Conn(i), ev, r)))
  PROVE  Turned(i)
<1> DEFINE e == Answer(Conn(i), ev, r)
<1>1. /\ Settled(e) /\ e.mem = connections[i].mem
      /\ e.state = server_step(st, ev) /\ e.send_buf = r
  <2>1. /\ st \in States /\ r \in Outputs /\ server_step(st, ev) \in Resting
        /\ Settled(connections[i])
    BY RestingStates DEF Fits
  <2>2. Settled(e) /\ e.mem = connections[i].mem /\ e.state = server_step(st, ev)
    BY <2>1, AnswerConn
  <2>3. e.send_buf = r
    BY <2>1, PlainReply
  <2>4. QED
    BY <2>2, <2>3
<1> HIDE DEF e
<1>2. Fits(e)
  BY <1>1 DEF Fits, LetterFits
<1>3. Update(i, Finish(e))
  BY DEF e
<1>4. QED
  BY <1>1, <1>2, <1>3, AnswerTurns

LEMMA helo_quit_Turn ==
  ASSUME NEW i \in Fds, Fits(connections[i]), process_helo(i) \/ process_quit(i)
  PROVE  Turned(i)
<1>1. CASE process_helo(i)
  <2>1. PICK st \in {"process_helo", "process_ehlo"} : Handling(i, st)
    BY <1>1 DEF process_helo
  <2>2. Update(i, Finish(Answer(Conn(i), "OK", "250")))
    BY <1>1 DEF process_helo
  <2>3. QED
    BY <2>1, <2>2, PlainAnswerTurns, StepOfHandler, HandlerStates, RepliesOfHandlers
<1>2. CASE process_quit(i)
  BY <1>2, PlainAnswerTurns, StepOfHandler, HandlerStates, RepliesOfHandlers DEF process_quit
<1>3. QED
  BY <1>1, <1>2

LEMMA process_mail_Turns ==
  ASSUME NEW i \in Fds, Fits(connections[i]), process_mail(i)
  PROVE  Turned(i)
<1>1. /\ Handling(i, "process_mail") /\ "process_mail" \in States
      /\ Settled(connections[i])
  BY HandlerStates DEF process_mail, Fits
<1>2. CASE Update(i, Finish(Answer(Conn(i), "ERR", "451")))
  BY <1>1, <1>2, PlainAnswerTurns, StepOfHandler, RepliesOfHandlers
<1>3. CASE Update(i, Finish([Answer(Conn(i), "OK", "250")
                               EXCEPT !.letter = letter_create(Data(i))]))
  <2> DEFINE a == Answer(Conn(i), "OK", "250")
             e == [a EXCEPT !.letter = letter_create(Data(i))]
             c == connections[i]
  <2>1. /\ Settled(a) /\ a.mem = c.mem /\ a.state = "expect_rcpt" /\ a.send_buf = "250"
    <3>1. Settled(a) /\ a.mem = c.mem /\ a.state = "expect_rcpt"
      BY <1>1, AnswerConn, StepsToResting, StepOfHandler, RepliesOfHandlers
    <3>2. QED
      BY <1>1, <3>1, PlainReply
  <2>2. Data(i) \in Addresses /\ letter_create(Data(i)) \in Letters
    BY <1>1, MailLetter
  <2>3. /\ letter_create(Data(i)).mem = "live"
        /\ letter_create(Data(i)).mail_from = Data(i)
        /\ letter_create(Data(i)).rcpt_to = NoMailbox
        /\ letter_create(Data(i)).body = <<>>
    BY DEF letter_create, NoLetter
  <2>4. c.recv_buf \in Chunks /\ c.recv_buf.kind = "MAIL" /\ Data(i) = c.recv_buf.arg
    BY <1>1, DispatchedConn, StepToHandler, EventOf DEF Settled, Data
  <2> HIDE DEF a
  <2>5. /\ Settled(e) /\ e.mem = c.mem /\ e.state = "expect_rcpt"
        /\ e.letter = letter_create(Data(i)) /\ e.send_buf = "250"
    BY <2>1, <2>2 DEF Settled, ConnRecords
  <2> HIDE DEF e
  <2>6. Fits(e)
    BY <2>2, <2>3, <2>5 DEF Fits, LetterFits
  <2>7. \A l \in Saved : Keeps(e, Dictate(l, c.recv_buf))
    <3>1. \A l \in Saved : Dictate(l, c.recv_buf).mail_from = Data(i)
      BY <2>4, DictateOf
    <3>2. QED
      BY <2>3, <2>5, <3>1 DEF Keeps
  <2>8. c.state # "init" /\ Expects(c.state, c.recv_buf)
    BY <1>1, HandledConn
  <2>9. Update(i, Finish(e))
    BY <1>3 DEF e, a
  <2>10. QED
    BY <2>5, <2>6, <2>7, <2>8, <2>9, FinishTurns
<1>4. QED
  BY <1>2, <1>3 DEF process_mail

LEMMA process_rcpt_Turns ==
  ASSUME NEW i \in Fds, Fits(connections[i]), process_rcpt(i), proc' = proc,
         proc = "running"
  PROVE  Turned(i)
<1> DEFINE c == connections[i]
<1>1. /\ Handling(i, "process_rcpt") /\ "process_rcpt" \in States
      /\ Settled(c)
  BY HandlerStates DEF process_rcpt, Fits
<1>2. /\ c.state = "expect_rcpt" /\ c.recv_buf \in Chunks /\ c.recv_buf.kind = "RCPT"
      /\ Data(i) = c.recv_buf.arg
  BY <1>1, DispatchedConn, StepToHandler, EventOf DEF Settled, Data
<1>3. c.state # "init" /\ Expects(c.state, c.recv_buf)
  BY <1>1, HandledConn
<1>4. \A l \in Saved : /\ Dictate(l, c.recv_buf).mail_from = l.mail_from
                       /\ Dictate(l, c.recv_buf).rcpt_to = Data(i)
  BY <1>2, DictateOf
<1>5. CASE Update(i, Finish(Answer(Conn(i), "ERR", "501")))
  <2> DEFINE e == Answer(Conn(i), "ERR", "501")
  <2>1. /\ Settled(e) /\ e.mem = c.mem /\ e.state = "expect_rcpt"
        /\ e.letter = c.letter /\ e.send_buf = "501"
    <3>1. Settled(e) /\ e.mem = c.mem /\ e.state = "expect_rcpt" /\ e.letter = c.letter
      BY <1>1, AnswerConn, StepsToResting, StepOfHandler, RepliesOfHandlers
    <3>2. QED
      BY <1>1, <3>1, PlainReply
  <2>2. Update(i, Finish(e))
    BY <1>5
  <2> HIDE DEF e
  <2>3. Fits(e)
    BY <1>2, <2>1 DEF Fits, LetterFits
  <2>4. \A l \in Saved : Keeps(c, l) => Keeps(e, Dictate(l, c.recv_buf))
    BY <1>2, <1>4, <2>1 DEF Keeps
  <2>5. QED
    BY <1>3, <2>1, <2>2, <2>3, <2>4, FinishTurns
<1>6. CASE /\ Data(i) \in Mailboxes
           /\ Update(i, Finish([Answer(Conn(i), "OK", "250")
                                  EXCEPT !.letter.rcpt_to = Data(i)]))
  <2> DEFINE a == Answer(Conn(i), "OK", "250")
             e == [a EXCEPT !.letter.rcpt_to = Data(i)]
  <2>1. /\ Settled(a) /\ a.mem = c.mem /\ a.state = "expect_data"
        /\ a.letter = c.letter /\ a.send_buf = "250"
    <3>1. Settled(a) /\ a.mem = c.mem /\ a.state = "expect_data" /\ a.letter = c.letter
      BY <1>1, AnswerConn, StepsToResting, StepOfHandler, RepliesOfHandlers
    <3>2. QED
      BY <1>1, <3>1, PlainReply
  <2> HIDE DEF a
  <2>2. a \in ConnRecords /\ a.letter \in Letters /\ Data(i) \in Names
    BY <1>6, <2>1, MembersOfTypes DEF Settled, ConnRecords
  <2>3. /\ e \in ConnRecords /\ e.mem = a.mem /\ e.state = a.state
        /\ e.send_buf = a.send_buf
        /\ e.letter.mem = a.letter.mem /\ e.letter.mail_from = a.letter.mail_from
        /\ e.letter.rcpt_to = Data(i) /\ e.letter.body = a.letter.body
    BY <2>2 DEF ConnRecords, Letters
  <2>4. Update(i, Finish(e))
    BY <1>6 DEF a
  <2> HIDE DEF e
  <2>5. Fits(e)
    BY <1>2, <1>6, <2>1, <2>3 DEF Fits, LetterFits, Settled
  <2>6. \A l \in Saved : Keeps(c, l) => Keeps(e, Dictate(l, c.recv_buf))
    BY <1>2, <1>4, <2>1, <2>3 DEF Keeps
  <2>7. QED
    BY <1>3, <2>1, <2>3, <2>4, <2>5, <2>6, FinishTurns
<1>7. QED
  BY <1>5, <1>6 DEF process_rcpt

LEMMA process_data_Turns ==
  ASSUME NEW i \in Fds, Fits(connections[i]), process_data(i)
  PROVE  Turned(i)
<1> DEFINE c == connections[i]
           e == Answer(Conn(i), "OK", "354")
<1>1. /\ Handling(i, "process_data") /\ "process_data" \in States /\ Settled(c)
      /\ Update(i, Finish(e))
  BY HandlerStates DEF process_data, Fits
<1>2. c.state = "expect_data" /\ c.recv_buf \in Chunks /\ c.recv_buf.kind = "DATA"
  <2>1. /\ server_step(c.state, Event(c.recv_buf)) = "process_data" /\ c.recv_buf \in Chunks
    BY <1>1, DispatchedConn
  <2>2. c.state = "expect_data" /\ Event(c.recv_buf) = "DATA"
    BY <1>1, <2>1 DEF server_step, Interruptible, Settled, Resting
  <2>3. QED
    BY <2>1, <2>2, EventOf
<1>3. c.state # "init" /\ Expects(c.state, c.recv_buf)
  BY <1>1, HandledConn
<1>4. /\ Settled(e) /\ e.mem = c.mem /\ e.state = "expect_data_recv"
      /\ e.letter = c.letter
  BY <1>1, AnswerConn, StepsToResting, StepOfHandler, RepliesOfHandlers
<1>5. e.send_buf = "354"
  BY <1>1, PlainReply
<1> HIDE DEF e
<1>6. Fits(e) /\ c.letter.body = <<>>
  BY <1>2, <1>4 DEF Fits, LetterFits
<1>7. \A l \in Saved : Keeps(c, l) => Keeps(e, Dictate(l, c.recv_buf))
  BY <1>2, <1>4, <1>6, DictateOf DEF Keeps
<1>8. QED
  BY <1>1, <1>3, <1>4, <1>5, <1>6, <1>7, FinishTurns

LEMMA process_rset_Turns ==
  ASSUME NEW i \in Fds, Fits(connections[i]), process_rset(i), proc' = proc,
         proc = "running"
  PROVE  Turned(i)
<1> DEFINE c == connections[i]
           a == Answer(Conn(i), "OK", "250")
           e == [a EXCEPT !.letter.mem = "freed"]
<1>1. /\ Handling(i, "process_rset") /\ "process_rset" \in States /\ Settled(c)
      /\ Update(i, Finish(e))
  BY HandlerStates DEF process_rset, Fits
<1>2. Settled(a) /\ a.mem = c.mem /\ a.state = "ready"
  BY <1>1, AnswerConn, StepsToResting, StepOfHandler, RepliesOfHandlers
<1>3. a.send_buf = "250"
  BY <1>1, PlainReply
<1> HIDE DEF a
<1>4. a \in ConnRecords /\ a.letter \in Letters /\ "freed" \in LetterMem
  BY <1>2, MembersOfTypes DEF Settled, ConnRecords
<1>5. e \in ConnRecords /\ e.mem = a.mem /\ e.state = a.state /\ e.send_buf = a.send_buf
  BY <1>4 DEF ConnRecords, Letters
<1> HIDE DEF e
<1>6. Fits(e) /\ \A l : Keeps(e, l)
  BY <1>2, <1>5 DEF Fits, LetterFits, Settled, Keeps
<1>7. c.state # "init" /\ Expects(c.state, c.recv_buf)
  BY <1>1, HandledConn
<1>8. QED
  BY <1>1, <1>2, <1>3, <1>5, <1>6, <1>7, FinishTurns

LEMMA process_vrfy_Turns ==
  ASSUME NEW i \in Fds, Fits(connections[i]), process_vrfy(i)
  PROVE  Turned(i)
<1> DEFINE c == connections[i]
           e == [Conn(i) EXCEPT !.state = Conn(i).old_state, !.send_buf = "502"]
<1>1. /\ Handling(i, "process_vrfy") /\ "process_vrfy" \in States /\ Settled(c)
      /\ Update(i, Finish(e))
  BY HandlerStates DEF process_vrfy, Fits
<1>2. /\ Conn(i) \in ConnRecords /\ Conn(i).old_state = c.state
      /\ Conn(i).letter = c.letter /\ Conn(i).mem = c.mem /\ c.state \in Resting
      /\ server_step(c.state, Event(c.recv_buf)) = "process_vrfy" /\ c.recv_buf \in Chunks
  BY <1>1, DispatchedConn DEF Settled
<1>3. "502" \in Outputs /\ c.state \in States
  BY <1>2, MembersOfTypes
<1>4. /\ Settled(e) /\ e.mem = c.mem /\ e.state = c.state /\ e.letter = c.letter
      /\ e.send_buf = "502"
  BY <1>2, <1>3 DEF Settled, ConnRecords
<1>5. c.recv_buf.kind \notin {"MAIL", "RCPT", "DATA"} \cup Lines
  <2>1. Event(c.recv_buf) = "VRFY"
    BY <1>2 DEF server_step, Interruptible, Resting
  <2>2. QED
    BY <1>2, <2>1, EventOf
<1> HIDE DEF e
<1>6. Fits(e)
  BY <1>4 DEF Fits, LetterFits
<1>7. \A l \in Saved : Keeps(c, l) => Keeps(e, Dictate(l, c.recv_buf))
  BY <1>4, <1>5, DictateOf DEF Keeps
<1>8. c.state # "init" /\ Expects(c.state, c.recv_buf)
  BY <1>1, HandledConn
<1>9. QED
  BY <1>1, <1>4, <1>6, <1>7, <1>8, FinishTurns

LEMMA reply_500_Turns ==
  ASSUME NEW i \in Fds, Fits(connections[i]), Sound(connections[i]), reply_500(i)
  PROVE  Turned(i)
<1> DEFINE c == connections[i]
           e == [c EXCEPT !.send_buf = "500"]
<1>1. /\ c \in ConnRecords /\ c.recv_buf # NoChunk /\ Update(i, Finish(e))
      /\ Event(c.recv_buf) = "DATA_RECV" /\ c.state # "expect_data_recv"
  BY DEF reply_500, Unmatched, Fits, Settled
<1>2. c.recv_buf \in Chunks /\ c.recv_buf.kind \in Lines
  <2>1. c.recv_buf \in Chunks
    BY <1>1 DEF ConnRecords, Inputs
  <2>2. QED
    BY <1>1, <2>1, EventOf
<1>3. /\ Settled(e) /\ e.mem = c.mem /\ e.state = c.state /\ e.letter = c.letter
      /\ e.send_buf = "500"
  BY <1>1, RepliesOfHandlers DEF Fits, Settled, ConnRecords
<1> HIDE DEF e
<1>4. Fits(e)
  BY <1>3 DEF Fits, LetterFits
<1>5. \A l \in Saved : Keeps(c, l) => Keeps(e, Dictate(l, c.recv_buf))
  BY <1>1, <1>2, <1>3, DictateOf DEF Keeps
<1>6. c.state # "init" /\ Expects(c.state, c.recv_buf)
  BY <1>1 DEF Sound, Expects
<1>7. QED
  BY <1>1, <1>3, <1>4, <1>5, <1>6, FinishTurns

\* process_data_end() of a connection c on its way to "process_data_end".
LEMMA process_data_end_Turns ==
  ASSUME NEW i \in Fds, NEW c \in ConnRecords, c.mem = connections[i].mem,
         c.state = "process_data_end", process_data_end(i, c),
         connections[i].state # "init",
         Expects(connections[i].state, connections[i].recv_buf)
  PROVE  Turned(i)
<1>1. ASSUME NEW e, Settled(e), e.mem = c.mem, e.state \in {"ready", "expect_mail"},
             e.send_buf \in {"250 saved", "554"}, Update(i, Finish(e))
      PROVE  Turned(i)
  <2>1. Fits(e) /\ \A l : Keeps(e, l)
    BY <1>1 DEF Fits, LetterFits, Keeps
  <2>2. e.send_buf # "" /\ e.send_buf # "421 timeout" /\ e.state # "init"
    BY <1>1
  <2>3. QED
    BY <1>1, <2>1, <2>2, FinishTurns
<1>2. CASE Update(i, Finish([Answer(c, "OK", "250 saved") EXCEPT !.letter.mem = "freed"]))
  <2> DEFINE a == Answer(c, "OK", "250 saved")
             e == [a EXCEPT !.letter.mem = "freed"]
  <2>1. Settled(a) /\ a.mem = c.mem /\ a.state = "expect_mail"
    <3>1. server_step(c.state, "OK") = "expect_mail" /\ server_step(c.state, "OK") \in Resting
      BY StepOfHandler, StepsToResting
    <3>2. QED
      BY <3>1, AnswerSettled, RepliesOfHandlers
  <2>2. a.send_buf = "250 saved"
    BY AnswerReplies
  <2> HIDE DEF a
  <2>3. a \in ConnRecords /\ a.letter \in Letters /\ "freed" \in LetterMem
    BY <2>1, MembersOfTypes DEF Settled, ConnRecords
  <2>4. e \in ConnRecords /\ e.mem = a.mem /\ e.state = a.state /\ e.send_buf = a.send_buf
    BY <2>3 DEF ConnRecords, Letters
  <2>5. Update(i, Finish(e))
    BY <1>2 DEF a
  <2> HIDE DEF e
  <2>6. Settled(e)
    BY <2>1, <2>4 DEF Settled
  <2>7. QED
    BY <1>1, <2>1, <2>2, <2>4, <2>5, <2>6
<1>3. CASE Update(i, Finish([c EXCEPT !.state = "ready", !.send_buf = "554"]))
  <2> DEFINE e == [c EXCEPT !.state = "ready", !.send_buf = "554"]
  <2>1. "ready" \in States /\ "ready" \in Resting /\ "554" \in Outputs
    BY MembersOfTypes, RestingStates
  <2>2. Settled(e) /\ e.mem = c.mem /\ e.state = "ready" /\ e.send_buf = "554"
    BY <2>1 DEF Settled, ConnRecords
  <2>3. QED
    BY <1>1, <1>3, <2>2
<1>4. QED
  BY <1>2, <1>3 DEF process_data_end

LEMMA data_end_Turns ==
  ASSUME NEW i \in Fds, Fits(connections[i]), data_end(i)
  PROVE  Turned(i)
<1>1. /\ Handling(i, "process_data_end") /\ "process_data_end" \in States
      /\ process_data_end(i, Conn(i))
  BY HandlerStates DEF data_end
<1>2. /\ connections[i].state # "init"
      /\ Expects(connections[i].state, connections[i].recv_buf)
  BY <1>1, HandledConn
<1>3. /\ Conn(i) \in ConnRecords /\ Conn(i).state = "process_data_end"
      /\ Conn(i).mem = connections[i].mem
  BY <1>1, DispatchedConn DEF Fits
<1>4. QED
  BY <1>1, <1>2, <1>3, process_data_end_Turns

LEMMA process_data_recv_Turns ==
  ASSUME NEW i \in Fds, Fits(connections[i]), Sound(connections[i]), process_data_recv(i)
  PROVE  Turned(i)
<1> DEFINE c == Conn(i)
           f == [c EXCEPT !.letter.body = Append(@, c.recv_buf.kind)]
           e == [f EXCEPT !.state = server_step(c.state, "OK")]
           g == [f EXCEPT !.old_state = c.state,
                   !.state = server_step(server_step(c.state, "OK"), "DATA_END")]
<1>1. /\ Handling(i, "process_data_recv") /\ "process_data_recv" \in States
      /\ Settled(connections[i])
  BY HandlerStates DEF process_data_recv, Fits
<1>2. /\ f \in ConnRecords /\ f.mem = connections[i].mem
      /\ c.state = "process_data_recv"
      /\ connections[i].state = "expect_data_recv"
      /\ c.recv_buf.kind \in Lines
      /\ f.letter.mem = connections[i].letter.mem
      /\ f.letter.mail_from = connections[i].letter.mail_from
      /\ f.letter.rcpt_to = connections[i].letter.rcpt_to
      /\ f.letter.body = Append(connections[i].letter.body, c.recv_buf.kind)
  BY <1>1, FilledConn
<1>3. c.recv_buf = connections[i].recv_buf /\ c \in ConnRecords
  BY <1>1, DispatchedConn
<1>4. f.send_buf = connections[i].send_buf /\ f.send_buf # "421 timeout"
  <2>1. f.send_buf = connections[i].send_buf
    BY <1>3 DEF Conn, Dispatched, ConnRecords, Fits, Settled
  <2>2. QED
    BY <1>2, <2>1 DEF Sound
<1>5. /\ connections[i].state # "init"
      /\ Expects(connections[i].state, connections[i].recv_buf) <=>
           c.recv_buf.kind # "TEXT"
  BY <1>1, <1>3, HandledConn
<1>6. \/ c.recv_buf.kind = "TEXT_END" /\ process_data_end(i, g)
      \/ c.recv_buf.kind # "TEXT_END" /\ Update(i, Finish(e))
  BY DEF process_data_recv
<1> HIDE DEF c, f
<1>7. /\ server_step(c.state, "OK") = "expect_data_recv"
      /\ server_step(server_step(c.state, "OK"), "DATA_END") = "process_data_end"
      /\ {"expect_data_recv", "process_data_recv", "process_data_end"} \subseteq States
      /\ "expect_data_recv" \in Resting
  BY <1>2, StepOfHandler, HandlerStates, RestingStates, MembersOfTypes
<1>8. CASE c.recv_buf.kind = "TEXT_END"
  <2>1. g \in ConnRecords /\ g.mem = connections[i].mem /\ g.state = "process_data_end"
    BY <1>2, <1>7 DEF ConnRecords
  <2>2. process_data_end(i, g)
    BY <1>6, <1>8
  <2> HIDE DEF g
  <2>3. QED
    BY <1>5, <1>8, <2>1, <2>2, process_data_end_Turns
<1>9. CASE c.recv_buf.kind # "TEXT_END"
  <2>1. /\ e \in ConnRecords /\ e.mem = connections[i].mem /\ e.send_buf = f.send_buf
        /\ e.state = "expect_data_recv" /\ e.letter = f.letter
    BY <1>2, <1>7 DEF ConnRecords
  <2>2. Update(i, Finish(e))
    BY <1>6, <1>9
  <2> HIDE DEF e
  <2>3. Fits(e)
    BY <1>2, <1>7, <2>1 DEF Fits, Settled, LetterFits
  <2>4. \A l \in Saved : Keeps(connections[i], l) =>
                         Keeps(e, Dictate(l, connections[i].recv_buf))
    <3> SUFFICES ASSUME NEW l \in Saved, Keeps(connections[i], l)
                 PROVE  Keeps(e, Dictate(l, connections[i].recv_buf))
      OBVIOUS
    <3>1. /\ l.mail_from = connections[i].letter.mail_from
          /\ l.rcpt_to = connections[i].letter.rcpt_to
          /\ l.body = connections[i].letter.body
      BY <1>2 DEF Keeps
    <3>2. /\ Dictate(l, c.recv_buf).mail_from = l.mail_from
          /\ Dictate(l, c.recv_buf).rcpt_to = l.rcpt_to
          /\ Dictate(l, c.recv_buf).body = Append(l.body, c.recv_buf.kind)
      BY <1>2, DictateOf
    <3>3. QED
      BY <1>2, <1>3, <2>1, <3>1, <3>2 DEF Keeps
  <2>5. ~Expects(connections[i].state, connections[i].recv_buf)
    BY <1>2, <1>5, <1>9 DEF Lines
  <2>6. e.state # "init" /\ e.send_buf = connections[i].send_buf /\ e.send_buf # "421 timeout"
    BY <1>4, <2>1
  <2>7. QED
    BY <1>5, <2>1, <2>2, <2>3, <2>4, <2>5, <2>6, FinishTurns
<1>10. QED
  BY <1>8, <1>9

\* A slot that is not in use is not touched.
LEMMA DeadSlot ==
  ASSUME NEW i \in Fds, ~Live(i), protocol_slot(i)
  PROVE  UNCHANGED connections
BY DEF protocol_slot, process_helo, process_mail, process_rcpt, process_data, data_end,
   process_data_recv, process_rset, process_vrfy, process_quit, reply_500,
   invalid_transition, no_command, use_after_free, Handling

\* Whatever protocol_update() does with a connection while the process lives,
\* it turns it.
LEMMA SlotTurns ==
  ASSUME NEW i \in Fds, Fits(connections[i]), Sound(connections[i]), Live(i),
         protocol_slot(i), proc = "running", proc' = "running"
  PROVE  Turned(i)
<1>1. ~invalid_transition(i) /\ ~use_after_free(i)
  BY DEF invalid_transition, use_after_free, Live
<1>2. QED
  BY <1>1, helo_quit_Turn, process_mail_Turns, process_rcpt_Turns, process_data_Turns,
     data_end_Turns, process_data_recv_Turns, process_rset_Turns, process_vrfy_Turns,
     reply_500_Turns, no_command_Turns DEF protocol_slot
-----------------------------------------------------------------------------
(* The buffers. *)

\* The pass of protocol_update() over slot i is over, and nothing was read
\* into it since.
Handled(i) ==
  \/ phase = "select"
  \/ phase = "serve" /\ i \in todo
  \/ phase = "protocol" /\ i \notin todo

\* conn_update() has called send() for slot i, and no pass came after it.  A
\* round in which select() fails has no such time.
Emptied(i) ==
  \/ phase = "flush" /\ i \notin todo
  \/ phase = "protocol" /\ i \in todo /\ Stale = {}

Buffered(i) ==
  Live(i) => /\ Sound(connections[i])
             /\ Handled(i) => Ready(connections[i])
             /\ Emptied(i) => Reply(i) = ""

\* One command and one reply at a time.
Buffers == proc = "running" => \A i \in Fds : Buffered(i)

LEMMA LoopSameStale ==
  ASSUME LoopOK, UNCHANGED <<sock, active_read_fds, active_write_fds>>
  PROVE  (Stale = {})' = (Stale = {})
BY DEF Stale

\* A slot the step is not about.
LEMMA BufferKept ==
  ASSUME NEW j \in Fds, Buffered(j), connections'[j] = connections[j],
         phase' = phase, j \in todo' <=> j \in todo,
         phase = "protocol" => (Stale = {})' = (Stale = {})
  PROVE  Buffered(j)'
BY DEF Buffered, Handled, Emptied, Live, Reply

LEMMA UpdateSlot ==
  ASSUME ConnsFit, NEW i \in Fds, NEW d, Update(i, d)
  PROVE  /\ connections'[i] = d
         /\ \A j \in Fds \ {i} : connections'[j] = connections[j]
BY DEF ConnsFit, Update

\* accept() finds no connection in the slot it takes, and no visit is due to it.
LEMMA AcceptedSlot ==
  ASSUME LoopOK, Sets, At("serve", listener), NEW i \in Fds, Lowest(i)
  PROVE  ~Live(i) /\ i \notin todo /\ i \notin active_read_fds \cup active_write_fds
<1>1. i \notin active_read_fds \cup active_write_fds
  BY StaleIs, ListenerIsNoFd DEF At, Sets, Lowest
<1>2. ~Live(i)
  BY <1>1 DEF Sets, WatchedOnce
<1>3. QED
  BY <1>1, <1>2 DEF At, Sets

LEMMA accept_Buffers ==
  ASSUME LoopOK, ConnsFit, Sets, Buffers, accept_connection
  PROVE  Buffers'
<1> PICK i \in Fds : Lowest(i) /\ Update(i, [NoConn EXCEPT !.mem = "live"])
  BY DEF accept_connection
<1>1. /\ At("serve", listener) /\ phase = "serve" /\ phase' = "serve" /\ proc = "running"
      /\ \A j \in Fds : j \in todo' <=> j \in todo
  BY ListenerIsNoFd DEF accept_connection, At
<1>2. i \notin todo
  BY <1>1, AcceptedSlot
<1>3. ASSUME NEW j \in Fds \ {i}
      PROVE  Buffered(j)'
  BY <1>1, UpdateSlot, BufferKept DEF Buffers
<1>4. Buffered(i)'
  <2>1. connections'[i].recv_buf = NoChunk /\ connections'[i].send_buf = ""
    <3>1. connections'[i] = [NoConn EXCEPT !.mem = "live"]
      BY UpdateSlot
    <3>2. QED
      BY <3>1 DEF NoConn
  <2>2. ~Handled(i)' /\ ~Emptied(i)'
    BY <1>1, <1>2 DEF Handled, Emptied
  <2>3. QED
    BY <2>1, <2>2 DEF Buffered, Sound
<1>5. QED
  BY <1>3, <1>4 DEF Buffers

\* The steps of the loop between its phases.
LEMMA phases_Buffers ==
  ASSUME LoopOK, ConnsFit, Buffers,
         select_fails \/ select_returns \/ end_serve \/ end_flush \/ enter_select
  PROVE  Buffers'
<1>1. /\ UNCHANGED <<proc, connections, sock, active_read_fds, active_write_fds>>
      /\ proc = "running"
  BY DEF select_fails, select_returns, end_serve, end_flush, enter_select, protocolVars,
     kernelVars
<1>2. (Stale = {})' = (Stale = {})
  BY <1>1, LoopSameStale
<1> SUFFICES ASSUME NEW i \in Fds, Live(i)'
             PROVE  Buffered(i)'
  BY DEF Buffers, Buffered
<1>3. Live(i) /\ Buffered(i) /\ connections'[i] = connections[i]
  BY <1>1 DEF Buffers, Live
<1>4. CASE select_fails
  <2>1. ~Handled(i)' /\ ~Emptied(i)'
    BY <1>2, <1>3, <1>4 DEF select_fails, Enter, Handled, Emptied, Live
  <2>2. QED
    BY <1>3, <2>1 DEF Buffered
<1>5. CASE select_returns
  <2>1. Handled(i) /\ ~Emptied(i)'
    BY <1>5 DEF select_returns, Enter, Handled, Emptied
  <2>2. QED
    BY <1>3, <2>1 DEF Buffered
<1>6. CASE end_serve
  <2>1. ~Handled(i)' /\ ~Emptied(i)'
    BY <1>3, <1>6 DEF end_serve, Enter, Handled, Emptied, Live
  <2>2. QED
    BY <1>3, <2>1 DEF Buffered
<1>7. CASE end_flush
  <2>1. ~Handled(i)' /\ Emptied(i)
    BY <1>3, <1>7 DEF end_flush, Enter, Handled, Emptied, Live
  <2>2. QED
    BY <1>3, <2>1 DEF Buffered, Reply
<1>8. CASE enter_select
  <2>1. Handled(i) /\ ~Emptied(i)'
    BY <1>8 DEF enter_select, Enter, Handled, Emptied
  <2>2. QED
    BY <1>3, <2>1 DEF Buffered
<1>9. QED
  BY <1>4, <1>5, <1>6, <1>7, <1>8

\* The descriptor a step visits is the only one whose buffers it touches.
LEMMA VisitBuffers ==
  ASSUME LoopOK, ConnsFit, Buffers, NEW i \in Fds, NEW p, At(p, i), phase' = phase,
         phase = "protocol" => (Stale = {})' = (Stale = {}),
         \A j \in Fds \ {i} : connections'[j] = connections[j],
         Buffered(i)'
  PROVE  Buffers'
<1>1. \A j \in Fds \ {i} : j \in todo' <=> j \in todo
  BY DEF At
<1>2. \A j \in Fds \ {i} : Buffered(j)
  BY DEF Buffers, At
<1>3. \A j \in Fds \ {i} : Buffered(j)'
  BY <1>1, <1>2, BufferKept
<1>4. QED
  BY <1>3 DEF Buffers

LEMMA conn_recv_Buffers ==
  ASSUME LoopOK, ConnsFit, Sets, Buffers, NEW i \in Fds, conn_recv(i)
  PROVE  Buffers'
<1> DEFINE d == [connections[i] EXCEPT !.recv_buf = inbox[i]]
<1>1. /\ At("serve", i) /\ phase = "serve" /\ phase' = phase /\ i \in todo /\ i \notin todo'
      /\ Update(i, d)
  BY DEF conn_recv, At
<1>2. /\ connections'[i] = d
      /\ \A j \in Fds \ {i} : connections'[j] = connections[j]
  BY <1>1, UpdateSlot
<1>3. d.state = connections[i].state /\ d.send_buf = connections[i].send_buf
  BY DEF ConnsFit, Fits, Settled, ConnRecords
<1> HIDE DEF d
<1>4. Sound(connections[i]) /\ Ready(connections[i])
  BY <1>1 DEF Sets, Buffers, Buffered, Handled, At
<1>5. ~Handled(i)' /\ ~Emptied(i)'
  BY <1>1 DEF Handled, Emptied
<1>6. Buffered(i)'
  BY <1>2, <1>3, <1>4, <1>5 DEF Buffered, Sound, Ready
<1>7. QED
  BY <1>1, <1>2, <1>6, VisitBuffers

LEMMA write_ready_Buffers ==
  ASSUME LoopOK, ConnsFit, Buffers, NEW i \in Fds, write_ready(i), proc' = "running"
  PROVE  Buffers'
<1>1. /\ At("serve", i) /\ phase = "serve" /\ phase' = phase /\ i \notin todo'
      /\ UNCHANGED connections /\ proc = "running"
  BY DEF write_ready, At, killed_by_sigpipe
<1>2. ~Handled(i)' /\ ~Emptied(i)'
  BY <1>1 DEF Handled, Emptied
<1>3. Buffered(i)'
  BY <1>1, <1>2 DEF Buffers, Buffered, Live
<1>4. QED
  BY <1>1, <1>3, VisitBuffers

LEMMA flush_Buffers ==
  ASSUME LoopOK, ConnsFit, Buffers, NEW i \in Fds, flush(i), proc' = "running"
  PROVE  Buffers'
<1>1. /\ At("flush", i) /\ phase = "flush" /\ phase' = phase /\ Live(i) /\ proc = "running"
  BY DEF flush, At
<1>2. Update(i, [Flushed(i) EXCEPT !.mem = "freed"]) \/ Update(i, Flushed(i))
  BY <1>1 DEF flush, killed_by_sigpipe
<1>3. /\ Flushed(i).state = connections[i].state /\ Flushed(i).send_buf = ""
      /\ Flushed(i).recv_buf = connections[i].recv_buf
      /\ [Flushed(i) EXCEPT !.mem = "freed"].mem = "freed"
  BY DEF ConnsFit, Fits, Settled, ConnRecords, Flushed
<1>4. \A j \in Fds \ {i} : connections'[j] = connections[j]
  BY <1>2, UpdateSlot
<1>5. ~Live(i)' \/ connections'[i] = Flushed(i)
  BY <1>2, <1>3, UpdateSlot DEF Live
<1>6. Buffered(i)'
  <2>1. Sound(connections[i]) /\ ~Handled(i)'
    BY <1>1 DEF Buffers, Buffered, Handled
  <2>2. QED
    BY <1>3, <1>5, <2>1 DEF Buffered, Sound, Reply
<1>7. QED
  BY <1>1, <1>4, <1>6, VisitBuffers

LEMMA protocol_Buffers ==
  ASSUME LoopOK, ConnsFit, Buffers, NEW i \in Fds, protocol(i), proc' = "running"
  PROVE  Buffers'
<1>1. /\ At("protocol", i) /\ phase = "protocol" /\ phase' = phase /\ i \notin todo'
      /\ proc = "running" /\ protocol_slot(i) /\ Fits(connections[i]) /\ Buffered(i)
      /\ UNCHANGED <<active_read_fds, active_write_fds>>
  BY DEF protocol, At, ConnsFit, Buffers
<1>2. (Stale = {})' = (Stale = {})
  BY <1>1, protocol_KeepsSlots, SameStale
<1>3. ~Emptied(i)'
  BY <1>1 DEF Emptied
<1>4. CASE ~Live(i)
  <2>1. UNCHANGED connections
    BY <1>1, <1>4, DeadSlot
  <2>2. Buffered(i)'
    BY <1>4, <2>1 DEF Buffered, Live
  <2>3. QED
    BY <1>1, <1>2, <2>1, <2>2, VisitBuffers
<1>5. CASE Live(i)
  <2>1. PICK d : Turns(connections[i], d) /\ Update(i, d)
    BY <1>1, <1>5, SlotTurns DEF Turned, Buffered
  <2>2. /\ connections'[i] = d
        /\ \A j \in Fds \ {i} : connections'[j] = connections[j]
    BY <2>1, UpdateSlot
  <2>3. Buffered(i)'
    BY <1>3, <2>1, <2>2 DEF Buffered, Turns
  <2>4. QED
    BY <1>1, <1>2, <2>2, <2>3, VisitBuffers
<1>6. QED
  BY <1>4, <1>5

\* A step that leaves the loop where it is, and the buffers as they are.
LEMMA AsideBuffers ==
  ASSUME LoopOK, Buffers, SameSlots, proc = "running",
         UNCHANGED <<phase, active_read_fds, active_write_fds>>,
         \A i \in Fds : /\ i \in todo' <=> i \in todo
                        /\ connections'[i].mem = connections[i].mem
                        /\ connections'[i].state = connections[i].state
                        /\ connections'[i].recv_buf = connections[i].recv_buf
                        /\ connections'[i].send_buf = connections[i].send_buf
  PROVE  Buffers'
<1>1. (Stale = {})' = (Stale = {})
  BY SameStale
<1>2. QED
  BY <1>1 DEF Buffers, Buffered, Handled, Emptied, Live, Reply, Sound, Ready

LEMMA BuffersStep ==
  ASSUME TypeOK, LetterLive, Sets, Buffers, [Next]_vars
  PROVE  Buffers'
<1> SUFFICES ASSUME proc' = "running"
             PROVE  Buffers'
  BY DEF Buffers
<1>1. LoopOK /\ KernelOK /\ ConnsFit
  BY TypeParts
<1>2. CASE UNCHANGED vars
  <2>1. proc = "running" /\ SameSlots
        /\ UNCHANGED <<connections, phase, todo, active_read_fds, active_write_fds>>
    BY <1>2 DEF vars, protocolVars, loopVars, kernelVars, SameSlots, Live
  <2>2. QED
    BY <1>1, <2>1, AsideBuffers
<1>3. CASE accept_fails \/ \E i \in Fds : double_free(i)
  <2>1. CASE accept_fails
    <3>1. /\ proc = "running" /\ SameSlots
          /\ UNCHANGED <<connections, phase, active_read_fds, active_write_fds>>
          /\ todo' = todo \ {listener}
      BY <2>1 DEF accept_fails, At, protocolVars, kernelVars, SameSlots, Live
    <3>2. QED
      BY <1>1, <3>1, ListenerIsNoFd, AsideBuffers
  <2>2. ASSUME NEW i \in Fds, double_free(i)
        PROVE  Buffers'
    <3>1. /\ At("flush", i) /\ phase = "flush" /\ phase' = phase /\ UNCHANGED connections
          /\ ~Live(i)
      BY <2>2 DEF double_free, At, use_after_free, Live
    <3>2. Buffered(i)'
      BY <3>1 DEF Buffered, Live
    <3>3. QED
      BY <1>1, <3>1, <3>2, VisitBuffers
  <2>3. QED
    BY <1>3, <2>1, <2>2
<1>4. CASE peers
  <2>1. /\ proc = "running" /\ SameSlots
        /\ UNCHANGED <<connections, phase, todo, active_read_fds, active_write_fds>>
    BY <1>1, <1>4, peers_KeepSlots DEF peers, protocolVars, loopVars
  <2>2. QED
    BY <1>1, <2>1, AsideBuffers
<1>5. ASSUME NEW i \in Fds, expire(i)
      PROVE  Buffers'
  <2> DEFINE d == [connections[i] EXCEPT !.watch = "expired"]
  <2>1. /\ proc = "running" /\ Update(i, d)
        /\ UNCHANGED <<phase, todo, active_read_fds, active_write_fds, sock>>
    BY <1>5 DEF expire, loopVars, kernelVars
  <2>2. /\ d.mem = connections[i].mem /\ d.state = connections[i].state
        /\ d.recv_buf = connections[i].recv_buf /\ d.send_buf = connections[i].send_buf
    BY <1>1 DEF ConnsFit, Fits, Settled, ConnRecords
  <2> HIDE DEF d
  <2>3. SameSlots
    BY <1>1, <2>1, <2>2, UpdateKeepsSlots
  <2>4. connections'[i] = d /\ \A j \in Fds \ {i} : connections'[j] = connections[j]
    BY <1>1, <2>1, UpdateSlot
  <2>5. QED
    BY <1>1, <2>1, <2>2, <2>3, <2>4, AsideBuffers
<1>6. ~handle_signal
  BY DEF handle_signal
<1>7. CASE loop /\ ~accept_fails /\ ~\E i \in Fds : double_free(i)
  BY <1>1, <1>7, phases_Buffers, accept_Buffers, conn_recv_Buffers, write_ready_Buffers,
     flush_Buffers, protocol_Buffers DEF loop
<1>8. QED
  BY <1>2, <1>3, <1>4, <1>5, <1>6, <1>7 DEF Next

LEMMA InitBuffers ==
  ASSUME Init
  PROVE  Buffers
BY DEF Init, Buffers, Buffered, Live, NoConn

\* A step that writes another reply over one that is there is a pass of
\* protocol_update() after a round without a flush, and only a failing
\* select() makes such a round.
LEMMA OneReplyAtATime ==
  ASSUME TypeOK, LetterLive, Sets, Buffers, [Next]_vars,
         NEW i \in Fds, Live(i), Reply(i) # "", Stale = {}
  PROVE  connections'[i].send_buf \in {Reply(i), ""}
<1>1. LoopOK /\ KernelOK /\ ConnsFit
  BY TypeParts
<1>2. CASE UNCHANGED connections
  BY <1>2 DEF Reply
<1>3. ASSUME NEW j \in Fds, NEW d, Update(j, d), d.send_buf \in {connections[j].send_buf, ""}
      PROVE  connections'[i].send_buf \in {Reply(i), ""}
  BY <1>1, <1>3, UpdateSlot DEF Reply
<1>4. CASE accept_connection
  <2>1. [NoConn EXCEPT !.mem = "live"].send_buf = ""
    BY DEF NoConn
  <2>2. QED
    BY <1>3, <1>4, <2>1 DEF accept_connection
<1>5. ASSUME NEW j \in Fds, conn_recv(j) \/ expire(j)
      PROVE  connections'[i].send_buf \in {Reply(i), ""}
  <2>1. /\ [connections[j] EXCEPT !.recv_buf = inbox[j]].send_buf = connections[j].send_buf
        /\ [connections[j] EXCEPT !.watch = "expired"].send_buf = connections[j].send_buf
    BY <1>1 DEF ConnsFit, Fits, Settled, ConnRecords
  <2>2. QED
    BY <1>3, <1>5, <2>1 DEF conn_recv, expire
<1>6. ASSUME NEW j \in Fds, flush(j)
      PROVE  connections'[i].send_buf \in {Reply(i), ""}
  <2>1. /\ Flushed(j).send_buf = "" /\ [Flushed(j) EXCEPT !.mem = "freed"].send_buf = ""
    BY <1>1 DEF ConnsFit, Fits, Settled, ConnRecords, Flushed
  <2>2. QED
    BY <1>2, <1>3, <1>6, <2>1 DEF flush, killed_by_sigpipe
<1>7. ASSUME NEW j \in Fds, protocol(j)
      PROVE  connections'[i].send_buf \in {Reply(i), ""}
  <2>1. /\ phase = "protocol" /\ j \in todo /\ protocol_slot(j) /\ proc = "running"
    BY <1>7 DEF protocol, At
  <2>2. j = i => Reply(i) = ""
    BY <2>1 DEF Buffers, Buffered, Emptied
  <2>3. Passes(j) \/ UNCHANGED connections
    BY <1>1, <2>1, SlotPasses DEF ConnsFit
  <2>4. QED
    BY <1>1, <1>2, <2>2, <2>3, UpdateSlot DEF Passes, Reply
<1>8. CASE loop
  BY <1>2, <1>4, <1>5, <1>6, <1>7, <1>8
     DEF loop, select_fails, select_returns, end_serve, end_flush, enter_select, accept_fails,
         write_ready, killed_by_sigpipe, double_free, use_after_free, protocolVars
<1>9. QED
  BY <1>2, <1>5, <1>8 DEF Next, handle_signal, peers, vars, protocolVars

\* protocol_update() copies each reply over send_buf without a look at it.  As
\* long as select() works conn_update() has always called send() for what was
\* there: no reply is lost to the next one.
THEOREM NoReplyIsOverwritten == Spec => NoReplyOverwritten
<1>1. Init => TypeOK /\ LetterLive /\ Sets /\ Buffers
  BY InitOK, InitSets, InitBuffers
<1>2. TypeOK /\ LetterLive /\ Sets /\ Buffers /\ [Next]_vars =>
        (TypeOK /\ LetterLive /\ Sets /\ Buffers)'
  BY NextOK, SetsStep, BuffersStep
<1>3. TypeOK /\ LetterLive /\ Sets /\ Buffers /\ [Next]_vars =>
        [\A i \in Fds : Live(i) /\ Reply(i) # "" /\ Stale = {} =>
           connections'[i].send_buf \in {Reply(i), ""}]_vars
  BY OneReplyAtATime
<1>4. QED
  BY <1>1, <1>2, <1>3, PTL DEF Spec, NoReplyOverwritten
-----------------------------------------------------------------------------
(* What the peer said. *)

\* The letter the peer of i dictated is the one the connection keeps, or will
\* be once the chunk in recv_buf is handled.
HeardAt(i) ==
  \E before \in Saved : /\ Keeps(connections[i], before)
                        /\ said[i] = Dictate(before, connections[i].recv_buf)

Heard == proc = "running" => \A i \in Fds : Live(i) => HeardAt(i)

LEMMA HeardKept ==
  ASSUME NEW i \in Fds, HeardAt(i), said'[i] = said[i],
         connections'[i].state = connections[i].state,
         connections'[i].letter = connections[i].letter,
         connections'[i].recv_buf = connections[i].recv_buf
  PROVE  HeardAt(i)'
BY DEF HeardAt, Keeps

\* A step that changes slot i only.
LEMMA HeardUpdate ==
  ASSUME ConnsFit, Heard, proc = "running", NEW i \in Fds, NEW d, Update(i, d),
         \A j \in Fds \ {i} : said'[j] = said[j],
         d.mem = "live" => HeardAt(i)'
  PROVE  Heard'
<1>1. connections'[i] = d /\ \A j \in Fds \ {i} : connections'[j] = connections[j]
  BY UpdateSlot
<1>2. ASSUME NEW j \in Fds, Live(j)', j # i
      PROVE  HeardAt(j)'
  BY <1>1, <1>2, HeardKept DEF Heard, Live
<1>3. QED
  BY <1>1, <1>2 DEF Heard, Live

LEMMA accept_Heard ==
  ASSUME ConnsFit, GhostOK, Heard, accept_connection
  PROVE  Heard'
<1> PICK i \in Fds : /\ Update(i, [NoConn EXCEPT !.mem = "live"])
                     /\ said' = [said EXCEPT ![i] = Nothing]
  BY DEF accept_connection
<1> DEFINE d == [NoConn EXCEPT !.mem = "live"]
<1>1. d.recv_buf = NoChunk /\ d.state = "init"
  BY DEF NoConn
<1> HIDE DEF d
<1>2. connections'[i] = d
  BY UpdateSlot DEF d
<1>3. Nothing \in Saved
  BY MembersOfTypes DEF Nothing, Saved
<1>4. said'[i] = Nothing /\ \A j \in Fds \ {i} : said'[j] = said[j]
  BY DEF GhostOK
<1>5. Keeps(d, Nothing) /\ Dictate(Nothing, NoChunk) = Nothing
  BY <1>1, NoChunkIsSilent DEF Keeps
<1>6. HeardAt(i)'
  BY <1>1, <1>2, <1>3, <1>4, <1>5 DEF HeardAt
<1>7. proc = "running" /\ Update(i, d)
  BY DEF accept_connection, At, d
<1>8. QED
  BY <1>4, <1>6, <1>7, HeardUpdate

LEMMA conn_recv_Heard ==
  ASSUME ConnsFit, GhostOK, Sets, Buffers, Heard, NEW i \in Fds, conn_recv(i)
  PROVE  Heard'
<1> DEFINE c == connections[i]
           d == [c EXCEPT !.recv_buf = inbox[i]]
<1>1. /\ Update(i, d) /\ said' = [said EXCEPT ![i] = Dictate(@, inbox[i])]
      /\ proc = "running" /\ phase = "serve" /\ i \in todo
  BY DEF conn_recv, At
<1>2. d.recv_buf = inbox[i] /\ d.state = c.state /\ d.letter = c.letter
  BY DEF ConnsFit, Fits, Settled, ConnRecords
<1> HIDE DEF d
<1>3. Live(i) /\ c.recv_buf = NoChunk
  BY <1>1 DEF Sets, Buffers, Buffered, Handled, Ready
<1>4. PICK before \in Saved : Keeps(c, before) /\ said[i] = Dictate(before, NoChunk)
  BY <1>1, <1>3 DEF Heard, HeardAt
<1>5. said[i] = before
  BY <1>4, NoChunkIsSilent
<1>6. said'[i] = Dictate(before, inbox[i]) /\ \A j \in Fds \ {i} : said'[j] = said[j]
  BY <1>1, <1>5 DEF GhostOK
<1>7. connections'[i] = d
  BY <1>1, UpdateSlot
<1>8. HeardAt(i)'
  BY <1>2, <1>4, <1>6, <1>7 DEF HeardAt, Keeps
<1>9. QED
  BY <1>1, <1>6, <1>8, HeardUpdate

LEMMA protocol_Heard ==
  ASSUME ConnsFit, GhostOK, Buffers, Heard, NEW i \in Fds, protocol(i), proc' = "running"
  PROVE  Heard'
<1>1. /\ proc = "running" /\ protocol_slot(i) /\ Fits(connections[i]) /\ UNCHANGED said
      /\ Buffered(i)
  BY DEF protocol, At, ghostVars, ConnsFit, Buffers
<1>2. CASE ~Live(i)
  <2>1. UNCHANGED connections
    BY <1>1, <1>2, DeadSlot
  <2>2. QED
    BY <1>1, <2>1, HeardKept DEF Heard, Live
<1>3. CASE Live(i)
  <2>1. PICK d : Turns(connections[i], d) /\ Update(i, d)
    BY <1>1, <1>3, SlotTurns DEF Turned, Buffered
  <2>2. connections'[i] = d
    BY <2>1, UpdateSlot
  <2>3. PICK before \in Saved : /\ Keeps(connections[i], before)
                                /\ said[i] = Dictate(before, connections[i].recv_buf)
    BY <1>1, <1>3 DEF Heard, HeardAt
  <2>4. Keeps(d, said[i]) /\ d.recv_buf = NoChunk
    BY <2>1, <2>3 DEF Turns, Ready
  <2>5. said[i] \in Saved /\ Dictate(said[i], NoChunk) = said[i]
    BY NoChunkIsSilent DEF GhostOK
  <2>6. HeardAt(i)'
    BY <1>1, <2>2, <2>4, <2>5 DEF HeardAt
  <2>7. QED
    BY <1>1, <2>1, <2>6, HeardUpdate
<1>4. QED
  BY <1>2, <1>3

\* flush() and expire() touch neither what was read nor what it led to.
LEMMA AsideHeard ==
  ASSUME ConnsFit, Heard, NEW i \in Fds, flush(i) \/ expire(i), proc' = "running"
  PROVE  Heard'
<1>1. proc = "running" /\ Live(i) /\ UNCHANGED said
  BY DEF flush, expire, At, ghostVars
<1>2. ASSUME NEW d, Update(i, d), d.state = connections[i].state,
             d.letter = connections[i].letter, d.recv_buf = connections[i].recv_buf
      PROVE  Heard'
  <2>1. connections'[i] = d
    BY <1>2, UpdateSlot
  <2>2. HeardAt(i)'
    BY <1>1, <1>2, <2>1, HeardKept DEF Heard
  <2>3. QED
    BY <1>1, <1>2, <2>2, HeardUpdate
<1>3. ASSUME NEW d \in {Flushed(i), [Flushed(i) EXCEPT !.mem = "freed"],
                        [connections[i] EXCEPT !.watch = "expired"]}
      PROVE  /\ d.state = connections[i].state /\ d.letter = connections[i].letter
             /\ d.recv_buf = connections[i].recv_buf
  BY <1>3 DEF ConnsFit, Fits, Settled, ConnRecords, Flushed
<1>4. CASE flush(i)
  <2>1. Update(i, Flushed(i)) \/ Update(i, [Flushed(i) EXCEPT !.mem = "freed"])
    BY <1>1, <1>4 DEF flush, killed_by_sigpipe
  <2>2. QED
    BY <1>2, <1>3, <2>1
<1>5. CASE expire(i)
  <2>1. Update(i, [connections[i] EXCEPT !.watch = "expired"])
    BY <1>5 DEF expire
  <2>2. QED
    BY <1>2, <1>3, <2>1
<1>6. QED
  BY <1>4, <1>5

LEMMA HeardStep ==
  ASSUME TypeOK, LetterLive, Sets, Buffers, Heard, [Next]_vars
  PROVE  Heard'
<1> SUFFICES ASSUME proc' = "running"
             PROVE  Heard'
  BY DEF Heard
<1>1. LoopOK /\ KernelOK /\ ConnsFit /\ GhostOK
  BY TypeParts
<1>2. CASE UNCHANGED <<connections, said>>
  <2>1. proc = "running"
    BY DEF Next, loop, select_fails, select_returns, end_serve, end_flush, enter_select,
       accept_connection, accept_fails, conn_recv, write_ready, flush, double_free,
       protocol, handle_signal, peers, expire, At, vars, protocolVars
  <2>2. QED
    BY <1>2, <2>1, HeardKept DEF Heard, Live
<1>3. CASE \/ accept_connection
           \/ \E i \in Fds : conn_recv(i) \/ flush(i) \/ protocol(i) \/ expire(i)
  BY <1>1, <1>3, accept_Heard, conn_recv_Heard, protocol_Heard, AsideHeard
<1>4. CASE ~(\/ accept_connection
             \/ \E i \in Fds : conn_recv(i) \/ flush(i) \/ protocol(i) \/ expire(i))
  <2>1. UNCHANGED <<connections, said>>
    BY <1>4 DEF Next, loop, select_fails, select_returns, end_serve, end_flush, enter_select,
       accept_fails, write_ready, killed_by_sigpipe, double_free, use_after_free,
       handle_signal, peers, vars, protocolVars, ghostVars
  <2>2. QED
    BY <1>2, <2>1
<1>5. QED
  BY <1>3, <1>4

LEMMA InitHeard ==
  ASSUME Init
  PROVE  Heard
BY DEF Init, Heard, Live, NoConn

\* The letter process_data_end() writes is the one the peer dictated.
LEMMA StoredIsSaid ==
  ASSUME NEW i \in Fds, Fits(connections[i]), HeardAt(i),
         connections[i].state = "expect_data_recv",
         connections[i].recv_buf.kind \in {"DOT", "TEXT_END"}
  PROVE  Stored(i, LastLine(i)) = said[i]
<1> DEFINE l == connections[i].letter
<1>1. PICK before \in Saved : /\ Keeps(connections[i], before)
                              /\ said[i] = Dictate(before, connections[i].recv_buf)
  BY DEF HeardAt
<1>2. before = [mail_from |-> l.mail_from, rcpt_to |-> l.rcpt_to, body |-> l.body]
  BY <1>1 DEF Keeps, Saved
<1>3. l.body \in Seq(Lines)
  BY DEF Fits, Settled, ConnRecords, Letters
<1> HIDE DEF l
<1>4. CASE connections[i].recv_buf.kind = "DOT"
  <2>1. said[i] = before
    BY <1>1, <1>4 DEF Dictate, Lines
  <2>2. l.body \o LastLine(i) = l.body
    BY <1>3, <1>4 DEF LastLine
  <2>3. QED
    BY <1>2, <2>1, <2>2 DEF Stored, l
<1>5. CASE connections[i].recv_buf.kind = "TEXT_END"
  <2>1. said[i] = [before EXCEPT !.body = Append(@, "TEXT_END")]
    BY <1>1, <1>5 DEF Dictate, Lines
  <2>2. l.body \o LastLine(i) = Append(l.body, "TEXT_END")
    <3>1. "TEXT_END" \in Lines /\ LastLine(i) = <<"TEXT_END">>
      BY <1>5 DEF Lines, LastLine
    <3>2. QED
      BY <1>3, <3>1, AppendIsConcat
  <2>3. QED
    BY <1>2, <2>1, <2>2 DEF Stored, l
<1>6. QED
  BY <1>4, <1>5

\* Whatever is stored is the letter one peer dictated since its last MAIL, to
\* the line: nothing of an earlier letter, of a refused line or of another
\* connection.
THEOREM StoredAsSaid == Spec => SavedAsSaid
<1>1. Init => TypeOK /\ LetterLive /\ Sets /\ Buffers /\ Heard
  BY InitOK, InitSets, InitBuffers, InitHeard
<1>2. TypeOK /\ LetterLive /\ Sets /\ Buffers /\ Heard /\ [Next]_vars =>
        (TypeOK /\ LetterLive /\ Sets /\ Buffers /\ Heard)'
  BY NextOK, SetsStep, BuffersStep, HeardStep
<1>3. ASSUME TypeOK, LetterLive, Heard, [Next]_vars
      PROVE  [maildir' # maildir => \E i \in Fds : maildir' = Append(maildir, said[i])]_vars
  <2> SUFFICES ASSUME maildir' # maildir
               PROVE  \E i \in Fds : maildir' = Append(maildir, said[i])
    OBVIOUS
  <2>1. PICK i \in Fds : protocol(i)
    BY <1>3, OthersStoreNothing
  <2>2. protocol_slot(i) /\ proc = "running" /\ Fits(connections[i])
    BY <1>3, <2>1, TypeParts DEF protocol, At, ConnsFit
  <2>3. /\ maildir' = Append(maildir, Stored(i, LastLine(i)))
        /\ connections[i].state = "expect_data_recv" /\ connections[i].mem = "live"
        /\ connections[i].recv_buf.kind \in {"DOT", "TEXT_END"}
    BY <2>2, SlotStores
  <2>4. HeardAt(i)
    BY <1>3, <2>2, <2>3 DEF Heard, Live
  <2>5. QED
    BY <2>2, <2>3, <2>4, StoredIsSaid
<1>4. QED
  BY <1>1, <1>2, <1>3, PTL DEF Spec, SavedAsSaid
-----------------------------------------------------------------------------
(* The accounts. *)

\* From a select() that found no closed descriptor to the end of its round,
\* and on as long as there is none.
Counting == proc = "running" /\ (phase \in {"serve", "flush"} \/ Stale = {})

\* Peers that kept up with their replies, and were not timed out.
KeptUp(i) == Live(i) /\ Connected(i) /\ full[i] = "never" /\ Reply(i) # "421 timeout"

Balanced(i) == KeptUp(i) => owed[i] = Waiting(connections[i])

Accounts ==
  /\ Counting => \A i \in Fds : Balanced(i)
  /\ \A i \in active_write_fds : full[i] # "never"

\* A descriptor that is closed stays closed unless accept() hands it out, so
\* nothing that was not counted is counted again.
LEMMA CountingKept ==
  ASSUME LoopOK, SameSlots, UNCHANGED <<active_read_fds, active_write_fds, phase>>,
         proc = "running", Counting'
  PROVE  Counting
BY SameStale DEF Counting

\* The buffers of i are what they were, and its peer does no better.
LEMMA BalanceKept ==
  ASSUME NEW i \in Fds, Balanced(i), owed'[i] = owed[i], KeptUp(i)' => KeptUp(i),
         connections'[i].state = connections[i].state,
         connections'[i].recv_buf = connections[i].recv_buf,
         connections'[i].send_buf = connections[i].send_buf
  PROVE  Balanced(i)'
BY DEF Balanced, Waiting

LEMMA VisitAccounts ==
  ASSUME Counting' => Counting, Accounts, ConnsFit, NEW i \in Fds, NEW d, Update(i, d),
         \A j \in Fds \ {i} : owed'[j] = owed[j] /\ full'[j] = full[j] /\ sock'[j] = sock[j],
         Counting => Balanced(i)',
         \A j \in active_write_fds' : full'[j] # "never"
  PROVE  Accounts'
<1>1. \A j \in Fds \ {i} : connections'[j] = connections[j]
  BY UpdateSlot
<1>2. ASSUME NEW j \in Fds, j # i, Counting
      PROVE  Balanced(j)'
  <2>1. KeptUp(j)' => KeptUp(j)
    BY <1>1, <1>2 DEF KeptUp, Live, Connected, Reply
  <2>2. QED
    BY <1>1, <1>2, <2>1, BalanceKept DEF Accounts
<1>3. QED
  BY <1>2 DEF Accounts

LEMMA accept_Accounts ==
  ASSUME LoopOK, KernelOK, GhostOK, ConnsFit, Sets, Accounts, accept_connection
  PROVE  Accounts'
<1> DEFINE d == [NoConn EXCEPT !.mem = "live"]
<1> PICK i \in Fds : /\ Lowest(i) /\ Update(i, d)
                     /\ sock' = [sock EXCEPT ![i] = "open"]
                     /\ full' = [full EXCEPT ![i] = "never"]
                     /\ owed' = [owed EXCEPT ![i] = 1]
  BY DEF accept_connection
<1>1. d.recv_buf = NoChunk /\ d.state = "init" /\ d.send_buf = ""
  BY DEF NoConn
<1> HIDE DEF d
<1>2. At("serve", listener) /\ UNCHANGED active_write_fds /\ Counting
  BY DEF accept_connection, At, Counting
<1>3. i \notin active_write_fds
  BY <1>2, AcceptedSlot
<1>4. /\ \A j \in Fds \ {i} : owed'[j] = owed[j] /\ full'[j] = full[j] /\ sock'[j] = sock[j]
      /\ owed'[i] = 1
  BY DEF KernelOK, GhostOK
<1>5. Balanced(i)'
  <2>1. connections'[i] = d
    BY UpdateSlot
  <2>2. Waiting(d) = 1
    BY <1>1, WaitingOf
  <2>3. Waiting(connections[i])' = 1
    BY <2>1, <2>2 DEF Waiting
  <2>4. QED
    BY <1>4, <2>3 DEF Balanced
<1>6. \A j \in active_write_fds' : full'[j] # "never"
  BY <1>2, <1>3, <1>4 DEF Accounts, LoopOK
<1>7. QED
  BY <1>2, <1>4, <1>5, <1>6, VisitAccounts

LEMMA conn_recv_Accounts ==
  ASSUME LoopOK, KernelOK, GhostOK, ConnsFit, Sets, Buffers, Accounts,
         NEW i \in Fds, conn_recv(i)
  PROVE  Accounts'
<1> DEFINE c == connections[i]
           d == [c EXCEPT !.recv_buf = inbox[i]]
<1>1. /\ Update(i, d) /\ proc = "running" /\ phase = "serve" /\ i \in todo
      /\ UNCHANGED <<full, active_write_fds>>
      /\ owed' = (IF Expects(c.state, inbox[i]) THEN [owed EXCEPT ![i] = @ + 1] ELSE owed)
      /\ \/ sock' = [sock EXCEPT ![i] = "closed"]
         \/ sock' = [sock EXCEPT ![i] = "dead"]
         \/ sock' = sock
  BY DEF conn_recv, At
<1>2. /\ d.recv_buf = inbox[i] /\ d.state = c.state /\ d.send_buf = c.send_buf
      /\ d.mem = c.mem
  BY DEF ConnsFit, Fits, Settled, ConnRecords
<1> HIDE DEF d
<1>3. Live(i) /\ Ready(c) /\ Counting
  BY <1>1 DEF Sets, Buffers, Buffered, Handled, Counting
<1>4. connections'[i] = d
  BY <1>1, UpdateSlot
<1>5. KeptUp(i)' => KeptUp(i)
  BY <1>1, <1>2, <1>3, <1>4 DEF KeptUp, Live, Connected, Reply, KernelOK
<1>6. /\ owed'[i] = (IF Expects(c.state, inbox[i]) THEN owed[i] + 1 ELSE owed[i])
      /\ owed[i] \in Int
      /\ \A j \in Fds \ {i} : owed'[j] = owed[j] /\ full'[j] = full[j] /\ sock'[j] = sock[j]
  BY <1>1 DEF KernelOK, GhostOK
<1>7. Waiting(d) = (IF Expects(c.state, inbox[i]) THEN Waiting(c) + 1 ELSE Waiting(c))
  <2> DEFINE r == IF Expects(c.state, inbox[i]) THEN 1 ELSE 0
             s == IF c.send_buf # "" THEN 1 ELSE 0
  <2>1. Waiting(d) = r + s + 0
    BY <1>2, <1>3 DEF Waiting, Ready
  <2>2. Waiting(c) = s
    BY <1>3, WaitingOf
  <2>3. s \in {0, 1}
    OBVIOUS
  <2> HIDE DEF s
  <2>4. QED
    BY <2>1, <2>2, <2>3
<1>8. Balanced(i)'
  <2> SUFFICES ASSUME KeptUp(i)'
               PROVE  owed'[i] = Waiting(d)
    BY <1>4 DEF Balanced, Waiting
  <2>1. owed[i] = Waiting(c)
    BY <1>3, <1>5 DEF Accounts, Balanced
  <2>2. QED
    BY <1>6, <1>7, <2>1
<1>9. QED
  BY <1>1, <1>3, <1>6, <1>8, VisitAccounts DEF Accounts

\* Whoever is in the write set did not keep up, so write_ready() serves nobody
\* whose account is kept.
LEMMA write_ready_Accounts ==
  ASSUME LoopOK, KernelOK, GhostOK, ConnsFit, Sets, Accounts, NEW i \in Fds, write_ready(i),
         proc' = "running"
  PROVE  Accounts'
<1>1. /\ phase = "serve" /\ proc = "running" /\ i \in todo \cap write_fds
      /\ UNCHANGED <<connections, full>>
      /\ active_write_fds' \subseteq active_write_fds
      /\ owed' \in {owed, [owed EXCEPT ![i] = owed[i] - 1]}
      /\ sock' = [sock EXCEPT ![i] = Reported(i)]
  BY DEF write_ready, At, killed_by_sigpipe, to_read_set, Transmit
<1>2. full[i] # "never" /\ Counting
  BY <1>1 DEF Sets, Accounts, Counting
<1>3. ASSUME NEW j \in Fds
      PROVE  Balanced(j)'
  <2>1. CASE j = i
    BY <1>1, <1>2, <2>1 DEF Balanced, KeptUp
  <2>2. CASE j # i
    <3>1. owed'[j] = owed[j] /\ sock'[j] = sock[j]
      BY <1>1, <2>2 DEF KernelOK, GhostOK
    <3>2. KeptUp(j)' => KeptUp(j)
      BY <1>1, <3>1 DEF KeptUp, Live, Connected, Reply
    <3>3. QED
      BY <1>1, <1>2, <3>1, <3>2, BalanceKept DEF Accounts
  <2>3. QED
    BY <2>1, <2>2
<1>4. QED
  BY <1>1, <1>3 DEF Accounts

LEMMA flush_Accounts ==
  ASSUME LoopOK, KernelOK, GhostOK, ConnsFit, Buffers, Accounts, NEW i \in Fds, flush(i),
         proc' = "running"
  PROVE  Accounts'
<1> DEFINE c == connections[i]
<1>1. /\ phase = "flush" /\ proc = "running" /\ Live(i) /\ Counting /\ UNCHANGED full
      /\ owed' = (IF Takes(i) /\ Reply(i) # "" THEN [owed EXCEPT ![i] = @ - 1] ELSE owed)
      /\ active_write_fds' \subseteq active_write_fds \cup {j \in {i} : Blocks(i)}
      /\ \/ sock' = [sock EXCEPT ![i] = "closed"]
         \/ sock' = [sock EXCEPT ![i] = Reported(i)]
         \/ sock' = sock
  BY DEF flush, At, killed_by_sigpipe, Transmit, to_write_set, Counting
<1>2. /\ Flushed(i).state = c.state /\ Flushed(i).send_buf = ""
      /\ Flushed(i).recv_buf = c.recv_buf
      /\ [Flushed(i) EXCEPT !.mem = "freed"].mem = "freed"
  BY DEF ConnsFit, Fits, Settled, ConnRecords, Flushed
<1>3. PICK d : /\ Update(i, d)
               /\ d.mem = "freed" \/ (d = Flushed(i) /\ c.state # "disconnected")
  BY <1>1, <1>2 DEF flush, killed_by_sigpipe
<1>4. connections'[i] = d
  BY <1>3, UpdateSlot
<1>5. \A j \in active_write_fds' : full'[j] # "never"
  BY <1>1 DEF Accounts, Blocks, Takes
<1>6. \A j \in Fds \ {i} : owed'[j] = owed[j] /\ full'[j] = full[j] /\ sock'[j] = sock[j]
  BY <1>1 DEF KernelOK, GhostOK
<1>7. ASSUME KeptUp(i)'
      PROVE  owed'[i] = Waiting(d)
  <2>1. d = Flushed(i) /\ c.state # "disconnected"
    BY <1>3, <1>4, <1>7 DEF KeptUp, Live
  <2>2. Connected(i) /\ full[i] = "never"
    BY <1>1, <1>7 DEF KeptUp, Connected, Reported, KernelOK
  <2>3. KeptUp(i)
    BY <1>1, <2>1, <2>2 DEF KeptUp, Buffers, Buffered, Sound, Reply
  <2>4. owed[i] = Waiting(c) /\ owed[i] \in Int
    BY <1>1, <2>3 DEF Accounts, Balanced, GhostOK
  <2>5. owed'[i] = (IF c.send_buf # "" THEN owed[i] - 1 ELSE owed[i])
    BY <1>1, <2>2 DEF Takes, Reply, GhostOK
  <2> DEFINE r == IF Expects(c.state, c.recv_buf) THEN 1 ELSE 0
             g == IF c.state = "init" THEN 1 ELSE 0
             s == IF c.send_buf # "" THEN 1 ELSE 0
  <2>6. Waiting(d) = r + 0 + g
    BY <1>2, <2>1 DEF Waiting
  <2>7. Waiting(c) = r + s + g
    BY DEF Waiting
  <2>8. owed'[i] = owed[i] - s
    <3>1. CASE c.send_buf # ""
      BY <2>5, <3>1
    <3>2. CASE c.send_buf = ""
      <4>1. owed'[i] = owed[i] /\ s = 0
        BY <2>5, <3>2
      <4> HIDE DEF s
      <4>2. QED
        BY <2>4, <4>1
    <3>3. QED
      BY <3>1, <3>2
  <2>9. r \in Int /\ s \in Int /\ g \in Int
    OBVIOUS
  <2> HIDE DEF r, s, g
  <2>10. QED
    BY <2>4, <2>6, <2>7, <2>8, <2>9
<1>8. Balanced(i)'
  BY <1>4, <1>7 DEF Balanced, Waiting
<1>9. QED
  BY <1>1, <1>3, <1>5, <1>6, <1>8, VisitAccounts

LEMMA protocol_Accounts ==
  ASSUME LoopOK, KernelOK, ConnsFit, Buffers, Accounts, NEW i \in Fds, protocol(i),
         proc' = "running"
  PROVE  Accounts'
<1>1. /\ proc = "running" /\ phase = "protocol" /\ i \in todo /\ protocol_slot(i)
      /\ Fits(connections[i]) /\ Buffered(i)
      /\ UNCHANGED <<phase, active_read_fds, active_write_fds, sock, full, owed>>
  BY DEF protocol, At, ghostVars, kernelVars, ConnsFit, Buffers
<1>2. Counting' => Counting
  BY <1>1, protocol_KeepsSlots, CountingKept
<1>3. CASE ~Live(i)
  <2>1. UNCHANGED connections
    BY <1>1, <1>3, DeadSlot
  <2>2. \A j \in Fds : Counting => Balanced(j)'
    BY <1>1, <2>1 DEF Accounts, Balanced, KeptUp, Live, Connected, Reply, Waiting
  <2>3. QED
    BY <1>1, <1>2, <2>2 DEF Accounts
<1>4. CASE Live(i)
  <2>1. PICK d : Turns(connections[i], d) /\ Update(i, d)
    BY <1>1, <1>4, SlotTurns DEF Turned, Buffered
  <2>2. connections'[i] = d
    BY <2>1, UpdateSlot
  <2>3. ASSUME Counting, KeptUp(i)'
        PROVE  owed[i] = Waiting(d)
    <3>1. Reply(i) = ""
      BY <1>1, <1>4, <2>3 DEF Buffered, Emptied, Counting
    <3>2. KeptUp(i)
      BY <1>1, <1>4, <2>3, <3>1 DEF KeptUp, Connected
    <3>3. Waiting(d) = Waiting(connections[i])
      BY <2>1, <2>2, <2>3, <3>1 DEF Turns, KeptUp, Reply
    <3>4. QED
      BY <2>3, <3>2, <3>3 DEF Accounts, Balanced
  <2>4. Counting => Balanced(i)'
    BY <1>1, <2>2, <2>3 DEF Balanced, Waiting
  <2>5. QED
    BY <1>1, <1>2, <2>1, <2>4, VisitAccounts DEF Accounts
<1>5. QED
  BY <1>3, <1>4

LEMMA peers_Accounts ==
  ASSUME LoopOK, KernelOK, Accounts, peers
  PROVE  Accounts'
<1>1. proc = "running"
      /\ UNCHANGED <<connections, owed, phase, active_read_fds, active_write_fds>>
  BY DEF peers, protocolVars, ghostVars, loopVars
<1>2. Counting' => Counting
  BY <1>1, peers_KeepSlots, CountingKept
<1>3. ASSUME NEW i \in Fds
      PROVE  /\ Connected(i)' => Connected(i)
             /\ full[i] # "never" => full'[i] # "never"
  BY DEF KernelOK, peers, peer_connects, other_accepts, peer_sends, peer_closes,
     peer_resets, peer_stalls, peer_drains, Connected
<1>4. ASSUME NEW i \in Fds, Balanced(i)
      PROVE  Balanced(i)'
  <2>1. KeptUp(i)' => KeptUp(i)
    BY <1>1, <1>3 DEF KeptUp, Live, Reply
  <2>2. QED
    BY <1>1, <1>4, <2>1, BalanceKept
<1>5. QED
  BY <1>1, <1>2, <1>3, <1>4 DEF Accounts, LoopOK

\* The steps that touch no buffer, descriptor or account.
LEMMA AsideAccounts ==
  ASSUME LoopOK, KernelOK, ConnsFit, Accounts, proc = "running",
         UNCHANGED <<active_read_fds, active_write_fds, sock, full, owed>>,
         Counting' => Counting,
         \A i \in Fds : /\ connections'[i].mem = connections[i].mem
                        /\ connections'[i].state = connections[i].state
                        /\ connections'[i].recv_buf = connections[i].recv_buf
                        /\ connections'[i].send_buf = connections[i].send_buf
  PROVE  Accounts'
<1>1. ASSUME NEW i \in Fds, Balanced(i)
      PROVE  Balanced(i)'
  <2>1. KeptUp(i)' => KeptUp(i)
    BY DEF KeptUp, Live, Connected, Reply
  <2>2. QED
    BY <1>1, <2>1, BalanceKept
<1>2. QED
  BY <1>1 DEF Accounts

LEMMA AccountsStep ==
  ASSUME TypeOK, LetterLive, Sets, Buffers, Accounts, [Next]_vars
  PROVE  Accounts'
<1>1. LoopOK /\ KernelOK /\ ConnsFit /\ GhostOK
  BY TypeParts
<1>2. CASE proc' # "running"
  <2>1. \/ UNCHANGED <<active_write_fds, full>>
        \/ proc' = proc
    BY <1>2 DEF Next, loop, select_fails, select_returns, end_serve, end_flush, enter_select,
       accept_connection, accept_fails, conn_recv, write_ready, flush, double_free,
       killed_by_sigpipe, protocol, handle_signal, peers, expire, At, vars, protocolVars,
       loopVars, kernelVars
  <2>2. proc' = proc => UNCHANGED <<active_write_fds, full>>
    BY <1>2 DEF Next, loop, select_fails, select_returns, end_serve, end_flush, enter_select,
       accept_connection, accept_fails, conn_recv, write_ready, flush, double_free,
       killed_by_sigpipe, protocol, handle_signal, peers, expire, At, vars, protocolVars,
       loopVars, kernelVars
  <2>3. QED
    BY <1>2, <2>1, <2>2 DEF Accounts, Counting
<1>3. ASSUME proc' = "running"
      PROVE  Accounts'
  <2>1. CASE \/ select_fails \/ select_returns \/ end_serve \/ end_flush \/ enter_select
             \/ accept_fails \/ \E i \in Fds : double_free(i)
    <3>1. /\ UNCHANGED <<connections, active_read_fds, active_write_fds, sock, full, owed>>
          /\ proc = "running"
      BY <2>1 DEF select_fails, select_returns, end_serve, end_flush, enter_select,
         accept_fails, double_free, use_after_free, At, protocolVars, kernelVars, ghostVars
    <3>2. (Stale = {})' = (Stale = {})
      BY <1>1, <3>1, LoopSameStale
    <3>3. Counting' => Counting
      BY <2>1, <3>1, <3>2 DEF Counting, select_fails, select_returns, end_serve, end_flush,
         enter_select, accept_fails, double_free, At, Enter
    <3>4. QED
      BY <1>1, <3>1, <3>3, AsideAccounts
  <2>2. CASE UNCHANGED vars
    <3>1. UNCHANGED <<proc, phase, connections, active_read_fds, active_write_fds, sock, full,
                      owed>>
      BY <2>2 DEF vars, protocolVars, loopVars, kernelVars, ghostVars
    <3>2. (Stale = {})' = (Stale = {})
      BY <1>1, <3>1, LoopSameStale
    <3>3. QED
      BY <1>1, <1>3, <3>1, <3>2, AsideAccounts DEF Counting
  <2>3. ASSUME NEW i \in Fds, expire(i)
        PROVE  Accounts'
    <3> DEFINE d == [connections[i] EXCEPT !.watch = "expired"]
    <3>1. /\ Update(i, d) /\ proc = "running"
          /\ UNCHANGED <<phase, active_read_fds, active_write_fds, sock, full, owed>>
      BY <2>3 DEF expire, loopVars, kernelVars, ghostVars
    <3>2. /\ d.mem = connections[i].mem /\ d.state = connections[i].state
          /\ d.recv_buf = connections[i].recv_buf /\ d.send_buf = connections[i].send_buf
      BY <1>1 DEF ConnsFit, Fits, Settled, ConnRecords
    <3> HIDE DEF d
    <3>3. connections'[i] = d /\ \A j \in Fds \ {i} : connections'[j] = connections[j]
      BY <1>1, <3>1, UpdateSlot
    <3>4. (Stale = {})' = (Stale = {})
      BY <1>1, <3>1, LoopSameStale
    <3>5. QED
      BY <1>1, <3>1, <3>2, <3>3, <3>4, AsideAccounts DEF Counting
  <2>4. ~handle_signal
    BY <1>3 DEF handle_signal
  <2>5. QED
    BY <1>1, <1>3, <2>1, <2>2, <2>3, <2>4, accept_Accounts, conn_recv_Accounts,
       write_ready_Accounts, flush_Accounts, protocol_Accounts, peers_Accounts DEF Next, loop
<1>4. QED
  BY <1>2, <1>3

LEMMA InitAccounts ==
  ASSUME Init
  PROVE  Accounts
BY DEF Init, Accounts, Balanced, KeptUp, Live, NoConn

\* The count of ReplyAccounting is the sum the steps keep.
LEMMA WaitingIsCount ==
  ASSUME NEW r \in BOOLEAN, NEW s \in BOOLEAN, NEW g \in BOOLEAN
  PROVE  Cardinality({b \in {"recv", "send", "greet"} :
                        \/ b = "recv" /\ r
                        \/ b = "send" /\ s
                        \/ b = "greet" /\ g})
           = (IF r THEN 1 ELSE 0) + (IF s THEN 1 ELSE 0) + (IF g THEN 1 ELSE 0)
<1> DEFINE R == {b \in {"recv"} : r}
           S == R \cup {b \in {"send"} : s}
           G == S \cup {b \in {"greet"} : g}
<1>1. G = {b \in {"recv", "send", "greet"} :
             \/ b = "recv" /\ r
             \/ b = "send" /\ s
             \/ b = "greet" /\ g}
  OBVIOUS
<1>2. ASSUME NEW T, IsFiniteSet(T), NEW x, x \notin T, NEW p \in BOOLEAN
      PROVE  /\ IsFiniteSet(T \cup {b \in {x} : p})
             /\ Cardinality(T \cup {b \in {x} : p}) = Cardinality(T) + (IF p THEN 1 ELSE 0)
  <2>1. Cardinality(T) \in Nat
    BY <1>2, FS_CardinalityType
  <2>2. CASE p
    <3>1. T \cup {b \in {x} : p} = T \cup {x}
      BY <2>2
    <3>2. QED
      BY <1>2, <2>2, <3>1, FS_AddElement
  <2>3. CASE ~p
    <3>1. T \cup {b \in {x} : p} = T
      BY <2>3
    <3>2. Cardinality(T) = Cardinality(T) + 0 /\ (IF p THEN 1 ELSE 0) = 0
      BY <2>1, <2>3
    <3>3. QED
      BY <1>2, <3>1, <3>2
  <2>4. QED
    BY <2>2, <2>3
<1>3. IsFiniteSet({}) /\ Cardinality({}) = 0
  BY FS_EmptySet
<1>4. IsFiniteSet(R) /\ Cardinality(R) = 0 + (IF r THEN 1 ELSE 0)
  <2>1. R = {} \cup {b \in {"recv"} : r}
    OBVIOUS
  <2> HIDE DEF R
  <2>2. QED
    BY <1>2, <1>3, <2>1
<1>5. IsFiniteSet(S) /\ Cardinality(S) = Cardinality(R) + (IF s THEN 1 ELSE 0)
  <2>1. "send" \notin R
    OBVIOUS
  <2> HIDE DEF R
  <2>2. QED
    BY <1>2, <1>4, <2>1
<1>6. IsFiniteSet(G) /\ Cardinality(G) = Cardinality(S) + (IF g THEN 1 ELSE 0)
  <2>1. "greet" \notin S
    OBVIOUS
  <2> HIDE DEF S
  <2>2. QED
    BY <1>2, <1>5, <2>1
<1> HIDE DEF G, R, S
<1>7. Cardinality(G) = (IF r THEN 1 ELSE 0) + (IF s THEN 1 ELSE 0) + (IF g THEN 1 ELSE 0)
  BY <1>4, <1>5, <1>6
<1>8. QED
  BY <1>1, <1>7

\* Every command is answered once and in its turn: a peer that reads its
\* replies waits for exactly what the two buffers of its connection hold, at
\* every point of every round, as long as no descriptor is stale.
THEOREM RepliesAccounted == Spec => []ReplyAccounting
<1>1. Init => TypeOK /\ LetterLive /\ Sets /\ Buffers /\ Accounts
  BY InitOK, InitSets, InitBuffers, InitAccounts
<1>2. TypeOK /\ LetterLive /\ Sets /\ Buffers /\ Accounts /\ [Next]_vars =>
        (TypeOK /\ LetterLive /\ Sets /\ Buffers /\ Accounts)'
  BY NextOK, SetsStep, BuffersStep, AccountsStep
<1>3. ASSUME Accounts
      PROVE  ReplyAccounting
  <2> SUFFICES ASSUME proc = "running", Stale = {}, NEW i \in Fds,
                      Live(i), Connected(i), full[i] = "never", Reply(i) # "421 timeout"
               PROVE  owed[i] = Cardinality({b \in {"recv", "send", "greet"} :
          \/ b = "recv" /\ Expects(connections[i].state, connections[i].recv_buf)
          \/ b = "send" /\ Reply(i) # ""
          \/ b = "greet" /\ connections[i].state = "init"})
    BY DEF ReplyAccounting
  <2>1. owed[i] = Waiting(connections[i])
    BY <1>3 DEF Accounts, Counting, Balanced, KeptUp
  <2>2. Expects(connections[i].state, connections[i].recv_buf) \in BOOLEAN
    BY DEF Expects
  <2>3. QED
    BY <2>1, <2>2, WaitingIsCount DEF Waiting, Reply
<1>4. QED
  BY <1>1, <1>2, <1>3, PTL DEF Spec
=============================================================================
