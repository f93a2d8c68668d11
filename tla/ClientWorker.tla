----------------------------- MODULE ClientWorker -----------------------------
(***************************************************************************)
(* One child process of the client: child_process_worker_start() of         *)
(* scheduler.c, the handlers of domain_proc.c it calls, what smtp_client.c  *)
(* writes and reads, and around them the mail servers, the IPC queue and    *)
(* the files of the maildir.  The statements scheduler.c:170-176 left over  *)
(* from a merge, which do not compile, are not part of the model.           *)
(***************************************************************************)
EXTENDS ClientFsm, Integers, Sequences, SequencesExt

CONSTANTS Domains,     \* mail domains this process is given
          Mails,       \* letters in the maildir
          NoDomain, NoMail,
          DomainOf,    \* the domain a letter is for
          MaxFd,       \* socket() hands out 1..MaxFd, then EMFILE
          Uninit,      \* what state may hold in a descriptor not yet written
          ServerFaults,\* what may go wrong, of PossibleServerFaults
          MaxScans     \* bound on how often the master finds a letter

\* A server refuses connections or commands, does not know a command, closes
\* or aborts a connection, answers in two segments or later than in 15 s, and
\* does not read, so that the buffer of the client's socket is full.
PossibleServerFaults ==
  {"refuse", "negative", "not implemented", "close", "reset", "split", "slow", "full"}

ASSUME WorkerAssumption ==
  /\ NoDomain \notin Domains /\ NoMail \notin Mails
  /\ DomainOf \in [Mails -> Domains]
  /\ MaxFd \in Nat /\ MaxScans \in [Mails -> Nat]
  /\ Uninit \subseteq ClientStates
  /\ ServerFaults \subseteq PossibleServerFaults

Fds      == 1 .. MaxFd
NoSocket == 0
Commands == {"greeting", "HELO", "MAIL", "RCPT", "DATA", "BODY", "QUIT"}

\* A position in the text of a letter: its sender (1), its recipient (2), the
\* rest (3) or its end (4).  Freed is a pointer into released memory.
Texts == [mail : Mails \cup {NoMail}, line : 1 .. 4]
Freed == [mail |-> NoMail, line |-> 4]

\* Mutated form of Past: strtok() leaves the text.
Past_end(text) == [text EXCEPT !.line = @ + 1]

Past(text) == [text EXCEPT !.line = IF @ = 4 THEN 4 ELSE @ + 1]

Letters  == [sender : Texts, rcpt : Texts, body : Texts]
NoLetter == [sender |-> Freed, rcpt |-> Freed, body |-> Freed]

\* mail_domain_dscrptr.  mails is mails_list without the empty node at its
\* end, which count() does not count.
Descriptors ==
  [state : ClientStates, socket : Fds \cup {NoSocket}, mails : Seq(Mails),
   buffer : Mails \cup {NoMail}]
NoDescriptor == [state |-> "init", socket |-> NoSocket, mails |-> <<>>, buffer |-> NoMail]

\* What is there to recv(): a reply, the first segment of a positive one with
\* its code ("part") or a piece of the code ("cut"), or the end ("eof").
Responses == {"positive", "negative", "not implemented", "part", "cut", "eof"}
Agreed    == {"positive", "part", "cut"}

\* The states from which a domain that is connected awaits the greeting.
Fresh == {"init", "send_quit", "done", "invalid"}

\* Mutated form: a refusal is no error.
check_server_code_lenient(response) ==
  CASE response \in {"positive", "negative"} -> "OK"
    [] response = "not implemented" -> "COMMAND_NOT_IMPLEMENTED"
    [] OTHER                        -> "ERROR"

check_server_code(response) ==
  CASE response = "positive"        -> "OK"
    [] response = "not implemented" -> "COMMAND_NOT_IMPLEMENTED"
    [] OTHER                        -> "ERROR"

VARIABLES
  proc,        \* the process: "running", "exited" by exit(), or "crashed"
  mq,          \* its IPC queue
  files,       \* the directory a letter is in, "new" or "cur"
  registered,  \* the domains with a descriptor, in the order of the array
  descriptors, \* mail_domains_dscrptrs[]
  read_fds, write_fds, except_fds, \* the sets given to select(), and its results
  phase, todo, half,    \* where the loop is, and in which half of a visit
  cur_mail_domain,      \* a pointer that keeps its value between iterations
  text,        \* where strtok() will go on, for all sessions of the process
  conn,        \* a descriptor: "free", "open", "fin", "rst" or "leaked"
  wants,       \* the commands a server has yet to answer
  reply,       \* the reply that waits to be read, "" for none
  draft,       \* the letter a server was given on a connection
  granted,     \* ghost: the last command a server agreed to, or what it said
  opener,      \* ghost: the domain a descriptor was last opened for
  mixed,       \* ghost: a descriptor was served for a domain it is not open for
  misbegun,    \* ghost: the domains whose descriptor held a state not Fresh
  accepted,    \* ghost: the letters the servers took
  scans        \* how often the master sent a letter to the queue

workVars   == <<registered, descriptors, cur_mail_domain, text, misbegun>>
setVars    == <<read_fds, write_fds, except_fds>>
loopVars   == <<phase, todo, half>>
socketVars == <<conn, wants, reply, draft, granted, opener>>
otherVars  == <<accepted, scans, mixed>>
vars == <<proc, mq, files, workVars, setVars, loopVars, socketVars, otherVars>>

Init ==
  /\ proc = "running"
  /\ mq = <<>>
  /\ files = [m \in Mails |-> "new"]
  /\ registered = <<>>
  /\ descriptors = [d \in Domains |-> NoDescriptor]
  /\ read_fds = {} /\ write_fds = {} /\ except_fds = {}
  /\ phase = "queue" /\ todo = {} /\ half = "read"
  /\ cur_mail_domain = NoDomain
  /\ text = Freed
  /\ conn = [i \in Fds |-> "free"]
  /\ wants = [i \in Fds |-> <<>>]
  /\ reply = [i \in Fds |-> ""]
  /\ draft = [i \in Fds |-> NoLetter]
  /\ granted = [i \in Fds |-> "negative"]
  /\ opener = [i \in Fds |-> NoDomain]
  /\ mixed = FALSE /\ misbegun = {}
  /\ accepted = <<>>
  /\ scans = [m \in Mails |-> 0]

Registered(d) == d \in Range(registered)
Describe(d, record) == descriptors' = [descriptors EXCEPT ![d] = record]
-----------------------------------------------------------------------------
(* Taking a letter from the queue. *)

\* connect_to_mail_server(): the lowest descriptor, or none.
Lowest(i) == conn[i] = "free" /\ \A j \in Fds : conn[j] = "free" => i <= j

Open(i, d) ==
  /\ conn'    = [conn EXCEPT ![i] = "open"]
  /\ opener'  = [opener EXCEPT ![i] = d]
  /\ wants'   = [wants EXCEPT ![i] = <<"greeting">>]
  /\ granted' = [granted EXCEPT ![i] = "negative"]
  /\ draft'   = [draft EXCEPT ![i] = NoLetter]
  /\ UNCHANGED reply

\* A socket that could not connect is not closed.
Leak(i) ==
  /\ conn' = [conn EXCEPT ![i] = "leaked"]
  /\ UNCHANGED <<wants, reply, draft, granted, opener>>

\* FD_CLR and FD_SET of -1, or of a socket_fd nobody ever set, are undefined:
\* they end the process or go unnoticed.
UsesFdSet(c) == proc' \in (IF c.socket \in Fds THEN {proc} ELSE {proc, "crashed"})

\* Where register_new_email() leaves descriptor c of domain d, new being the
\* socket it just got, if any: a domain that is DONE forgets its socket, and
\* the letter; any other gets the letter at the head of its list.
Admit(d, c, m, new) ==
  IF c.state = "done"
  THEN /\ Describe(d, [c EXCEPT !.socket = NoSocket])
       /\ read_fds' = read_fds \ {c.socket} /\ except_fds' = except_fds \ {c.socket}
       /\ UsesFdSet(c)
  ELSE /\ Describe(d, [c EXCEPT !.mails = <<m>> \o @])
       /\ read_fds' = read_fds \cup new /\ except_fds' = except_fds \cup new
       /\ UNCHANGED proc

\* init_mail_domain_conn_settings(), then Admit.
init_mail_domain_conn_settings(d, c, m) ==
  LET trying == [c EXCEPT !.state = client_fsm_step(@, "OK")]
      failed == [trying EXCEPT !.state = client_fsm_step(@, "ERROR")]
  IN  \/ \E i \in Fds :
           /\ Lowest(i) /\ Open(i, d)
           /\ Admit(d, [trying EXCEPT !.socket = i], m, {i})
      \/ /\ \/ "refuse" \in ServerFaults /\ \E i \in Fds : Lowest(i) /\ Leak(i)
            \/ (\A i \in Fds : conn[i] # "free") /\ UNCHANGED socketVars
         /\ Admit(d, failed, m, {})

\* str_split() of the path runs strtok() to the end of a copy that is freed.
register_new_email(m) ==
  LET d == DomainOf[m]
      c == descriptors[d]
  IN  /\ text' = Freed
      /\ IF ~Registered(d)
         THEN /\ registered' = Append(registered, d)
              /\ \E st \in Uninit :
                   /\ misbegun' = misbegun \cup IF st \in Fresh THEN {} ELSE {d}
                   /\ init_mail_domain_conn_settings(d, [c EXCEPT !.state = st], m)
         ELSE /\ UNCHANGED <<registered, misbegun>>
              /\ IF c.mails = <<>> \/ c.state = "init"
                 THEN init_mail_domain_conn_settings(d, c, m)
                 ELSE Admit(d, c, m, {}) /\ UNCHANGED socketVars

\* msgrcv(IPC_NOWAIT): at most one letter per iteration.
take_message ==
  /\ proc = "running" /\ phase = "queue"
  /\ IF mq = <<>>
     THEN UNCHANGED <<proc, mq, workVars, setVars, socketVars>>
     ELSE /\ mq' = Tail(mq)
          /\ register_new_email(Head(mq))
          /\ UNCHANGED <<cur_mail_domain, write_fds>>
  /\ phase' = "select"
  /\ UNCHANGED <<todo, half, files, otherVars>>
-----------------------------------------------------------------------------
(* select(), on the very sets that say what the process is interested in. *)

\* Mutated form of Serve: the loop ends before the largest descriptor.
Serve_short == phase' = "serve" /\ todo' = Fds \ {MaxFd} /\ half' = "read"

Serve == phase' = "serve" /\ todo' = Fds /\ half' = "read"

Stale == {i \in read_fds \cup write_fds \cup except_fds : conn[i] \in {"free", "leaked"}}
ReadReady  == {i \in read_fds : reply[i] # "" \/ conn[i] \in {"fin", "rst"}}

\* EBADF: the sets stay what they were, and are taken for results.
select_fails ==
  /\ proc = "running" /\ phase = "select" /\ Stale # {}
  /\ Serve
  /\ UNCHANGED <<proc, mq, files, workVars, setVars, socketVars, otherVars>>

\* With nothing ready select() returns after 15 s.
Waits == /\ "slow" \notin ServerFaults
         /\ ReadReady \cup write_fds = {}
         /\ \E i \in read_fds : wants[i] # <<>>

\* What is not ready leaves the sets.  Urgent data nobody sends, and of what is
\* in except_fds the loop only makes a log message.
select_returns ==
  /\ proc = "running" /\ phase = "select" /\ Stale = {} /\ ~Waits
  /\ read_fds' = ReadReady /\ except_fds' = {}
  /\ UNCHANGED write_fds
  /\ Serve
  /\ UNCHANGED <<proc, mq, files, workVars, socketVars, otherVars>>
-----------------------------------------------------------------------------
(* Descriptor after descriptor, the half for reading and the one for writing. *)

Visits(i, h) ==
  /\ proc = "running" /\ phase = "serve" /\ half = h
  /\ i \in todo /\ \A j \in todo : i <= j

\* The domain the loop finds for i: the first in the array with that socket,
\* or the one found last when there is none.
Owner(i) ==
  LET owners == {k \in DOMAIN registered : descriptors[registered[k]].socket = i}
  IN  IF owners = {} THEN cur_mail_domain ELSE registered[Min(owners)]

\* i is what domain d was given at its last connect_to_mail_server(), and was
\* given to no other since.
Holds(d, i) == d \in Domains /\ opener[i] = d /\ descriptors[d].socket = i

To(h, i) == half' = h /\ todo' = (IF h = "read" THEN todo \ {i} ELSE todo) /\ UNCHANGED phase

\* A closed descriptor.
Close(i) ==
  /\ conn'  = [j \in Fds |-> IF j = i THEN "free" ELSE conn[j]]
  /\ wants' = [j \in Fds |-> IF j = i THEN <<>> ELSE wants[j]]
  /\ reply' = [j \in Fds |-> IF j = i THEN "" ELSE reply[j]]
  /\ UNCHANGED <<draft, granted, opener>>

\* What read_data_from_server() returns: a reply, or what came of it before the
\* server closed, of which check_server_code() looks at the code.  NULL, and
\* check_server_code(NULL) a crash, if recv() fails before CR LF.
Null == "null"
Response(s) ==
  IF s \notin Fds \/ (reply[s] \in {"", "part", "cut"} /\ conn[s] # "fin") THEN Null
  ELSE CASE reply[s] = "part"      -> "positive"
         [] reply[s] \in {"", "cut"} -> "eof"
         [] OTHER                  -> reply[s]

\* Mutated form of Stepped: count() counts the empty node too.
Stepped_counts_all(c, ev) ==
  client_fsm_step(c.state, IF c.state = "send_body" /\ ev # "ERROR" /\ Len(c.mails) > 0
                           THEN "MULTIPLE_EMAILS" ELSE ev)

\* The state after a reply.  In SEND_BODY the head of the list is removed.
Mailed(c, ev) == c.state = "send_body" /\ ev # "ERROR"
Stepped(c, ev) ==
  client_fsm_step(c.state, IF Mailed(c, ev) /\ Len(c.mails) > 1 THEN "MULTIPLE_EMAILS" ELSE ev)

\* The end of handle_read_socket(): close or ask for writing.
Turn(c) ==
  IF c.state = "init"
  THEN Close(c.socket) /\ write_fds' = write_fds \ {c.socket}
  ELSE /\ write_fds' = write_fds \cup {c.socket}
       /\ reply' = [reply EXCEPT ![c.socket] = ""]
       /\ UNCHANGED <<conn, wants, draft, granted, opener>>

handle_read_socket(d) ==
  LET c  == descriptors[d]
      ev == check_server_code(Response(c.socket))
      st == Stepped(c, ev)
      stepped == [c EXCEPT !.state = st,
                           !.mails = IF Mailed(c, ev) /\ @ # <<>> THEN Tail(@) ELSE @]
  IN  /\ Response(c.socket) # Null /\ st # "invalid"
      /\ Describe(d, stepped)
      /\ text' = IF Mailed(c, ev) /\ c.buffer # NoMail /\ text.mail = c.buffer
                 THEN Freed ELSE text
      /\ Turn(stepped)
      /\ read_fds' = read_fds \ {c.socket}

\* What becomes of a process that cannot go on from the reply: exit() in the
\* state machine, a crash without a reply or without a domain.
DiesReading(d) ==
  IF d # NoDomain /\ Response(descriptors[d].socket) # Null THEN "exited" ELSE "crashed"

visit_read(i) ==
  /\ Visits(i, "read")
  /\ cur_mail_domain' = Owner(i)
  /\ To("write", i)
  /\ \/ /\ i \notin read_fds
        /\ UNCHANGED <<proc, descriptors, text, setVars, socketVars>>
     \/ /\ i \in read_fds /\ Owner(i) # NoDomain
        /\ handle_read_socket(Owner(i))
        /\ UNCHANGED proc
     \/ /\ i \in read_fds
        /\ \/ Owner(i) = NoDomain
           \/ LET c == descriptors[Owner(i)]
              IN  \/ Response(c.socket) = Null
                  \/ Stepped(c, check_server_code(Response(c.socket))) = "invalid"
        /\ proc' = DiesReading(Owner(i))
        /\ UNCHANGED <<descriptors, text, setVars, socketVars>>
  /\ mixed' = (mixed \/ (i \in read_fds /\ ~Holds(Owner(i), i)))
  /\ UNCHANGED <<mq, files, registered, misbegun, except_fds, accepted, scans>>

\* What write() puts into the socket of an open connection.  When its buffer is
\* full, lines of the text are lost, for send_msg_body() ignores what becomes of
\* them, or a part of the last line goes out, which send_data() takes for all.
Deliver(s, command, letter) ==
  \/ \E got \in {letter} \cup (IF "full" \in ServerFaults /\ command = "BODY"
                               THEN {[letter EXCEPT !.body.line = 4]} ELSE {}) :
       wants' = [wants EXCEPT ![s] = Append(@, command)] /\ draft' = [draft EXCEPT ![s] = got]
  \/ "full" \in ServerFaults /\ UNCHANGED <<wants, draft>>

\* send_data(): the server gets the command, or the connection is gone and
\* the bytes are lost; when write() fails the socket is closed, and stays in
\* write_fds.  A write() after an RST may be a SIGPIPE, and the body is several.
Transmit(s, command, letter) ==
  \/ /\ s \in Fds /\ conn[s] \in {"open", "fin"}
     /\ IF conn[s] = "open"
        THEN Deliver(s, command, letter) /\ UNCHANGED conn
        ELSE /\ conn' \in {conn, [conn EXCEPT ![s] = "rst"]}
             /\ UNCHANGED <<wants, draft>>
     /\ write_fds' = write_fds \ {s} /\ read_fds' = read_fds \cup {s}
     /\ UNCHANGED <<proc, reply, granted, opener>>
  \/ /\ s \notin Fds \/ conn[s] \notin {"open", "fin"} \/ "full" \in ServerFaults
     /\ Close(s)
     /\ UNCHANGED <<read_fds, write_fds, proc>>
  \/ /\ s \in Fds
     /\ conn[s] = "rst" \/ (conn[s] = "fin" /\ command = "BODY")
     /\ proc' = "crashed"
     /\ UNCHANGED <<read_fds, write_fds, socketVars>>

Draft(s) == IF s \in Fds THEN draft[s] ELSE NoLetter

\* strtok(NULL) has a token to give: a line of the text it was last called
\* with, or what it finds in released memory.
HasToken == text.line < 4 \/ text = Freed

send_word(c, state, command) ==
  /\ c.state = state
  /\ Transmit(c.socket, command, Draft(c.socket))
  /\ UNCHANGED <<text, files, descriptors>>

\* Mutated form of Renamed: the letter stays in new/.
Renamed_not(m) == files

Renamed(m) == [files EXCEPT ![m] = "cur"]

\* The letter is read and moved to cur/ before its sender is announced.  When
\* it cannot be read, strtok() goes on in the text it was in.
send_mail_from(d, c) ==
  /\ c.state = "send_mail_from" /\ c.mails # <<>>
  /\ LET m    == Head(c.mails)
         read == files[m] = "new"
         from == IF read THEN [mail |-> m, line |-> 1] ELSE text
     IN  /\ read \/ HasToken
         /\ text' = Past(from)
         /\ files' = Renamed(m)
         /\ Describe(d, [c EXCEPT !.buffer = IF read THEN m ELSE NoMail])
         /\ Transmit(c.socket, "MAIL", [NoLetter EXCEPT !.sender = from])

send_rcpt_to(c) ==
  /\ c.state = "send_rcpt_to" /\ HasToken
  /\ text' = Past(text)
  /\ Transmit(c.socket, "RCPT", [Draft(c.socket) EXCEPT !.rcpt = text])
  /\ UNCHANGED <<files, descriptors>>

\* Mutated form: strtok() is not taken to the end of the text.
send_msg_body_peeks(c) ==
  /\ c.state = "send_body"
  /\ Transmit(c.socket, "BODY", [Draft(c.socket) EXCEPT !.body = text])
  /\ UNCHANGED <<text, files, descriptors>>

\* Whatever lines are left, possibly none, and the final dot.
send_msg_body(c) ==
  /\ c.state = "send_body"
  /\ text' = [text EXCEPT !.line = 4]
  /\ Transmit(c.socket, "BODY", [Draft(c.socket) EXCEPT !.body = text])
  /\ UNCHANGED <<files, descriptors>>

\* The states in which there is nothing to send.
send_nothing(c) ==
  /\ c.state \in {"init", "connect", "done"}
  /\ write_fds' = write_fds \ {c.socket}
  /\ read_fds'  = read_fds \cup ({c.socket} \cap Fds)
  /\ UsesFdSet(c)
  /\ UNCHANGED <<text, files, descriptors, socketVars>>

\* strcat() of the NULL strtok() gave, or the first letter of an empty list.
no_token(c) ==
  /\ \/ c.state = "send_rcpt_to" /\ text.line = 4
     \/ /\ c.state = "send_mail_from"
        /\ c.mails = <<>> \/ (files[Head(c.mails)] # "new" /\ text.line = 4)
  /\ proc' = "crashed"
  /\ UNCHANGED <<text, files, descriptors, read_fds, write_fds, socketVars>>

\* handle_write_socket() and send_msg_to_server().  last_attempt_time is never
\* set to anything but 0, so the branches for retries are dead.
handle_write_socket(d) ==
  LET c == descriptors[d]
  IN  \/ send_word(c, "send_helo", "HELO") \/ send_word(c, "send_data", "DATA")
      \/ send_word(c, "send_quit", "QUIT") \/ send_mail_from(d, c)
      \/ send_rcpt_to(c) \/ send_msg_body(c) \/ send_nothing(c) \/ no_token(c)

visit_write(i) ==
  /\ Visits(i, "write")
  /\ To("read", i)
  /\ IF i \in write_fds
     THEN handle_write_socket(cur_mail_domain)
     ELSE UNCHANGED <<proc, text, files, descriptors, setVars, socketVars>>
  /\ mixed' = (mixed \/ (i \in write_fds /\ ~Holds(cur_mail_domain, i)))
  /\ UNCHANGED <<mq, registered, cur_mail_domain, misbegun, except_fds, accepted, scans>>

next_iteration ==
  /\ proc = "running" /\ phase = "serve" /\ todo = {}
  /\ phase' = "queue"
  /\ UNCHANGED <<proc, mq, files, workVars, setVars, todo, half, socketVars, otherVars>>

worker ==
  \/ take_message \/ select_fails \/ select_returns \/ next_iteration
  \/ \E i \in Fds : visit_read(i) \/ visit_write(i)
-----------------------------------------------------------------------------
(* The master process and the servers. *)

\* The master sends a letter that one of its scans found in new/.  It was
\* still there when the master found it, not necessarily when it sends it: a
\* second scan may begin as soon as the first path is in the queue.
master_sends(m) ==
  /\ proc = "running"
  /\ scans[m] < MaxScans[m]
  /\ mq' = Append(mq, m)
  /\ scans' = [scans EXCEPT ![m] = @ + 1]
  /\ UNCHANGED <<proc, files, workVars, setVars, loopVars, socketVars, accepted,
                 mixed>>

Outcomes ==
  {"positive"} \cup (ServerFaults \cap {"negative", "not implemented"})
               \cup (IF "split" \in ServerFaults THEN {"part", "cut"} ELSE {})

server_replies(i) ==
  /\ proc = "running"
  /\ conn[i] = "open" /\ wants[i] # <<>> /\ reply[i] = ""
  /\ \E outcome \in Outcomes :
       /\ reply' = [reply EXCEPT ![i] = outcome]
       /\ granted' = [granted EXCEPT ![i] = IF outcome \in Agreed
                                            THEN Head(wants[i]) ELSE outcome]
       /\ accepted' = IF Head(wants[i]) = "BODY" /\ outcome \in Agreed
                      THEN Append(accepted, draft[i]) ELSE accepted
  /\ wants' = [wants EXCEPT ![i] = Tail(@)]
  /\ UNCHANGED <<proc, mq, files, workVars, setVars, loopVars, conn, draft, opener,
                 scans, mixed>>

server_hangs_up(i) ==
  /\ proc = "running" /\ conn[i] \in {"open", "fin"}
  /\ \/ "close" \in ServerFaults /\ conn[i] = "open" /\ conn' = [conn EXCEPT ![i] = "fin"]
     \/ "reset" \in ServerFaults /\ conn' = [conn EXCEPT ![i] = "rst"]
  /\ wants' = [wants EXCEPT ![i] = <<>>]
  /\ UNCHANGED <<proc, mq, files, workVars, setVars, loopVars, reply, draft, granted, opener,
                 otherVars>>

servers == \E i \in Fds : server_replies(i)

Next == worker \/ servers \/ (\E m \in Mails : master_sends(m))
               \/ (\E i \in Fds : server_hangs_up(i))

Spec == Init /\ [][Next]_vars

\* The loop has no end and nothing in it blocks for more than 15 s; servers
\* answer what they were asked.
FairSpec == Spec /\ WF_vars(worker) /\ \A i \in Fds : WF_vars(server_replies(i))
-----------------------------------------------------------------------------
(* Properties. *)

\* Every variable keeps to its type, and client_fsm_step() is never asked to
\* leave a state it has no entry for.
TypeOK ==
  /\ proc \in {"running", "exited", "crashed"}
  /\ mq \in Seq(Mails)
  /\ files \in [Mails -> {"new", "cur"}]
  /\ registered \in Seq(Domains)
  /\ descriptors \in [Domains -> Descriptors]
  /\ read_fds \subseteq Fds /\ write_fds \subseteq Fds /\ except_fds \subseteq Fds
  /\ phase \in {"queue", "select", "serve"} /\ todo \subseteq Fds
  /\ half \in {"read", "write"}
  /\ cur_mail_domain \in Domains \cup {NoDomain}
  /\ text \in Texts
  /\ conn \in [Fds -> {"free", "open", "fin", "rst", "leaked"}]
  /\ wants \in [Fds -> Seq(Commands)]
  /\ reply \in [Fds -> Responses \cup {""}]
  /\ draft \in [Fds -> Letters]
  /\ granted \in [Fds -> Commands \cup {"negative", "not implemented"}]
  /\ opener \in [Fds -> Domains \cup {NoDomain}]
  /\ mixed \in BOOLEAN /\ misbegun \subseteq Domains
  /\ accepted \in Seq(Letters)
  /\ scans \in [Mails -> Nat] /\ \A m \in Mails : scans[m] <= MaxScans[m]

\* send_msg_to_server() takes mails_list->val for the letter to send, and
\* handle_read_socket() removes it, without asking count(): from MAIL FROM to
\* the reply to the body the list has to hold a letter, across replies,
\* reconnections and refused commands. It ends when a descriptor is served for
\* a domain it is not open for: README.md, section 6.
HeadPresent ==
  ~mixed =>
    \A d \in Domains :
      descriptors[d].state \in {"send_helo", "send_mail_from", "send_rcpt_to", "send_data",
                                "send_body"}
        => descriptors[d].mails # <<>>

\* A letter queued twice, sent again after an error, or mixed into another one
\* by strtok(): its text still goes into one accepted letter at most. The one
\* draft of a connection stands for what a server has to judge, which needs
\* that it was not sent two commands at once, as it is for a wrong domain, and
\* may be for one that begins in the middle of a dialogue.
AcceptedOnce ==
  ~mixed /\ misbegun = {} =>
    \A j, k \in DOMAIN accepted :
      j # k /\ accepted[j].body.line < 4 /\ accepted[k].body.line < 4
        => accepted[j].body.mail # accepted[k].body.mail

\* The commands a server may be sent after the one it agreed to last.  A body
\* it does not implement is for handle_read_socket() as good as taken, and the
\* next letter follows; with any other command client_fsm_step() ends there.
Follows(said) ==
  CASE said = "greeting" -> {"HELO"}
    [] said = "HELO"     -> {"MAIL"}
    [] said = "MAIL"     -> {"RCPT"}
    [] said = "RCPT"     -> {"DATA"}
    [] said = "DATA"     -> {"BODY"}
    [] said = "BODY"     -> {"MAIL", "QUIT"}
    [] said = "not implemented" -> {"MAIL"}
    [] OTHER             -> {}

\* On every connection a command is sent only once the one before is answered,
\* and only one that follows what the server agreed to (or the exception of
\* Follows), although the state of a session outlives its connection and is
\* stepped by other events than replies, and although a closed descriptor in
\* write_fds makes select() fail, so that the sets are served as if all were
\* ready.  It ends when a descriptor is served for a domain it is not open for
\* (the array still holds the numbers of sessions that are over, and socket()
\* gives them to other domains), and says nothing of a domain whose descriptor
\* held a state from the middle of a dialogue: README.md, section 6.
InOrder ==
  [][\A i \in Fds :
       conn[i] = "open" /\ Len(wants'[i]) > Len(wants[i]) /\ ~mixed'
         /\ opener[i] \notin misbegun =>
           wants[i] = <<>> /\ reply[i] = "" /\ Last(wants'[i]) \in Follows(granted[i])]_vars

Held(i) == \E d \in Domains : descriptors[d].socket = i

\* A reply that comes in on a descriptor that is watched is read, however many
\* domains share the loop and whatever select() drops meanwhile, as long as one
\* of them keeps the connection. A descriptor that select() dropped before the
\* reply came is not watched any more: README.md, section 6.
ReplyIsRead ==
  \A i \in Fds :
    (Held(i) /\ reply[i] # "" /\ i \in read_fds)
      ~> (reply[i] = "" \/ ~Held(i) \/ proc # "running")
=============================================================================
