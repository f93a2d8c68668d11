-------------------------- MODULE ClientWorkerProofs --------------------------
(***************************************************************************)
(* Proofs about ClientWorker, for every number of domains, letters and      *)
(* descriptors and every choice of faults: its types, and what holds of the *)
(* sessions as long as no descriptor is served for a domain it is not open  *)
(* for.                                                                     *)
(***************************************************************************)
EXTENDS ClientWorker, SequenceTheorems, WellFoundedInduction, TLAPS

-----------------------------------------------------------------------------
(* The state machine and the array. *)

\* The table, entry by entry.
LEMMA AdvanceOf ==
  /\ DOMAIN Advance = {"init", "connect", "send_helo", "send_mail_from", "send_rcpt_to",
                       "send_data", "send_body", "send_quit"}
  /\ Advance["init"] = "connect" /\ Advance["connect"] = "send_helo"
  /\ Advance["send_helo"] = "send_mail_from" /\ Advance["send_mail_from"] = "send_rcpt_to"
  /\ Advance["send_rcpt_to"] = "send_data" /\ Advance["send_data"] = "send_body"
  /\ Advance["send_body"] = "send_quit" /\ Advance["send_quit"] = "init"
BY DEF Advance

LEMMA StepType == \A st, ev : client_fsm_step(st, ev) \in ClientStates
BY AdvanceOf DEF client_fsm_step, ClientStates

\* The least of a set of numbers is one of them.
LEMMA MinOf ==
  ASSUME NEW S, S \subseteq Nat, S # {}
  PROVE  Min(S) \in S
<1>1. PICK x \in S : \A y \in S : ~(<<y, x>> \in OpToRel(<, Nat))
  BY NatLessThanWellFounded, WFMin
<1>2. ASSUME NEW y \in S
      PROVE  x <= y
  <2>1. <<y, x>> \in OpToRel(<, Nat) <=> y < x
    <3>1. OpToRel(<, Nat) = {ss \in Nat \X Nat : ss[1] < ss[2]}
      BY Zenon DEF OpToRel
    <3>2. QED
      BY <3>1
  <2>2. ~(y < x)
    BY <1>1, <2>1, Zenon
  <2>3. QED
    BY <2>2
<1>3. QED
  BY <1>2, Zenon DEF Min
-----------------------------------------------------------------------------
(* Types. *)

WorkOK ==
  /\ registered \in Seq(Domains)
  /\ descriptors \in [Domains -> Descriptors]
  /\ cur_mail_domain \in Domains \cup {NoDomain}
  /\ text \in Texts
  /\ misbegun \subseteq Domains

QueueOK ==
  /\ mq \in Seq(Mails)
  /\ files \in [Mails -> {"new", "cur"}]
  /\ scans \in [Mails -> Nat] /\ \A m \in Mails : scans[m] <= MaxScans[m]

SetsOK == read_fds \subseteq Fds /\ write_fds \subseteq Fds /\ except_fds \subseteq Fds

LoopOK ==
  /\ phase \in {"queue", "select", "serve"} /\ todo \subseteq Fds
  /\ half \in {"read", "write"}

SocketOK ==
  /\ conn \in [Fds -> {"free", "open", "fin", "rst", "leaked"}]
  /\ wants \in [Fds -> Seq(Commands)]
  /\ reply \in [Fds -> Responses \cup {""}]
  /\ draft \in [Fds -> Letters]
  /\ granted \in [Fds -> Commands \cup {"negative", "not implemented"}]
  /\ opener \in [Fds -> Domains \cup {NoDomain}]

ProcOK == proc \in {"running", "exited", "crashed"}

\* Nothing is written before a domain was found for it.
Found == write_fds # {} => cur_mail_domain \in Domains

LEMMA TypeParts ==
  /\ TypeOK <=> /\ ProcOK /\ QueueOK /\ WorkOK /\ SetsOK /\ LoopOK /\ SocketOK
                /\ accepted \in Seq(Letters) /\ mixed \in BOOLEAN
  /\ TypeOK' <=> /\ ProcOK' /\ QueueOK' /\ WorkOK' /\ SetsOK' /\ LoopOK' /\ SocketOK'
                 /\ accepted' \in Seq(Letters) /\ mixed' \in BOOLEAN
BY DEF TypeOK, ProcOK, QueueOK, WorkOK, SetsOK, LoopOK, SocketOK

LEMMA Constants ==
  /\ NoDomain \notin Domains /\ NoMail \notin Mails
  /\ NoSocket \notin Fds /\ MaxFd \in Nat
  /\ Freed \in Texts /\ NoLetter \in Letters
  /\ NoDescriptor \in Descriptors
BY WorkerAssumption DEF NoSocket, Fds, Freed, Texts, NoLetter, Letters, NoDescriptor,
   Descriptors, ClientStates

LEMMA DescriptorFields ==
  ASSUME NEW c \in Descriptors
  PROVE  /\ c.state \in ClientStates /\ c.socket \in Fds \cup {NoSocket}
         /\ c.mails \in Seq(Mails) /\ c.buffer \in Mails \cup {NoMail}
         /\ \A st \in ClientStates : /\ [c EXCEPT !.state = st] \in Descriptors
                                     /\ [c EXCEPT !.state = st].state = st
                                     /\ [c EXCEPT !.state = st].mails = c.mails
                                     /\ [c EXCEPT !.state = st].socket = c.socket
         /\ \A s \in Fds \cup {NoSocket} : /\ [c EXCEPT !.socket = s] \in Descriptors
                                           /\ [c EXCEPT !.socket = s].state = c.state
                                           /\ [c EXCEPT !.socket = s].mails = c.mails
                                           /\ [c EXCEPT !.socket = s].socket = s
         /\ \A l \in Seq(Mails) : /\ [c EXCEPT !.mails = l] \in Descriptors
                                  /\ [c EXCEPT !.mails = l].state = c.state
                                  /\ [c EXCEPT !.mails = l].mails = l
                                  /\ [c EXCEPT !.mails = l].socket = c.socket
         /\ \A b \in Mails \cup {NoMail} : /\ [c EXCEPT !.buffer = b] \in Descriptors
                                           /\ [c EXCEPT !.buffer = b].state = c.state
                                           /\ [c EXCEPT !.buffer = b].mails = c.mails
                                           /\ [c EXCEPT !.buffer = b].socket = c.socket
BY DEF Descriptors

\* A descriptor nobody has is served for the domain found last.
LEMMA OwnerFound ==
  ASSUME WorkOK, NEW i \in Fds
  PROVE  Owner(i) \in Domains \/ Owner(i) = cur_mail_domain
<1> DEFINE owners == {k \in DOMAIN registered : descriptors[registered[k]].socket = i}
<1>1. Owner(i) = (IF owners = {} THEN cur_mail_domain ELSE registered[Min(owners)])
  BY DEF Owner
<1>2. owners \subseteq DOMAIN registered /\ DOMAIN registered \subseteq Nat
  BY DEF WorkOK
<1> HIDE DEF owners
<1>3. owners # {} => Min(owners) \in DOMAIN registered
  BY <1>2, MinOf
<1>4. QED
  BY <1>1, <1>3 DEF WorkOK

\* What a single entry of the descriptors' records may become.
LEMMA EntryType ==
  ASSUME SocketOK
  PROVE  \A i \in Fds :
           /\ \A v \in {"free", "open", "fin", "rst", "leaked"} :
                [conn EXCEPT ![i] = v] \in [Fds -> {"free", "open", "fin", "rst", "leaked"}]
           /\ \A v \in Seq(Commands) : [wants EXCEPT ![i] = v] \in [Fds -> Seq(Commands)]
           /\ \A v \in Responses \cup {""} :
                [reply EXCEPT ![i] = v] \in [Fds -> Responses \cup {""}]
           /\ \A v \in Letters : [draft EXCEPT ![i] = v] \in [Fds -> Letters]
           /\ \A v \in Commands \cup {"negative", "not implemented"} :
                [granted EXCEPT ![i] = v] \in [Fds -> Commands \cup {"negative", "not implemented"}]
           /\ \A v \in Domains \cup {NoDomain} :
                [opener EXCEPT ![i] = v] \in [Fds -> Domains \cup {NoDomain}]
BY DEF SocketOK

LEMMA Asked ==
  /\ <<>> \in Seq(Commands)
  /\ \A l \in Seq(Commands), command \in Commands : Append(l, command) \in Seq(Commands)
  /\ \A l \in Seq(Commands) : l # <<>> => Tail(l) \in Seq(Commands)
OBVIOUS

LEMMA SocketsOpened ==
  ASSUME SocketOK, NEW i \in Fds, NEW d \in Domains, Open(i, d) \/ Leak(i)
  PROVE  SocketOK'
<1>1. CASE Leak(i)
  BY <1>1, EntryType DEF SocketOK, Leak
<1>2. CASE Open(i, d)
  <2>1. <<"greeting">> \in Seq(Commands) /\ "negative" \in Commands \cup {"negative", "not implemented"}
        /\ NoLetter \in Letters
    BY Constants DEF Commands
  <2>2. conn' \in [Fds -> {"free", "open", "fin", "rst", "leaked"}]
    BY <1>2, EntryType DEF Open
  <2>3. wants' \in [Fds -> Seq(Commands)]
    BY <1>2, <2>1, EntryType DEF Open
  <2>4. /\ reply' \in [Fds -> Responses \cup {""}]
        /\ draft' \in [Fds -> Letters]
        /\ granted' \in [Fds -> Commands \cup {"negative", "not implemented"}]
        /\ opener' \in [Fds -> Domains \cup {NoDomain}]
    BY <1>2, <2>1, EntryType DEF Open, SocketOK
  <2>5. QED
    BY <2>2, <2>3, <2>4 DEF SocketOK
<1>3. QED
  BY <1>1, <1>2

LEMMA SocketsClosed ==
  ASSUME SocketOK, NEW i, Close(i)
  PROVE  SocketOK'
<1>1. conn' \in [Fds -> {"free", "open", "fin", "rst", "leaked"}]
  BY DEF SocketOK, Close
<1>2. wants' \in [Fds -> Seq(Commands)]
  BY Asked DEF SocketOK, Close
<1>3. reply' \in [Fds -> Responses \cup {""}]
  BY DEF SocketOK, Close
<1>4. QED
  BY <1>1, <1>2, <1>3 DEF SocketOK, Close

LEMMA DeliverType ==
  ASSUME SocketOK, NEW s \in Fds, NEW command \in Commands, NEW letter \in Letters,
         Deliver(s, command, letter)
  PROVE  wants' \in [Fds -> Seq(Commands)] /\ draft' \in [Fds -> Letters]
<1>1. Append(wants[s], command) \in Seq(Commands)
  BY Asked DEF SocketOK
<1>2. [letter EXCEPT !.body.line = 4] \in Letters
  BY DEF Letters, Texts
<1>3. ASSUME NEW got \in Letters, wants' = [wants EXCEPT ![s] = Append(@, command)],
             draft' = [draft EXCEPT ![s] = got]
      PROVE  wants' \in [Fds -> Seq(Commands)] /\ draft' \in [Fds -> Letters]
  <2>1. wants' = [wants EXCEPT ![s] = Append(wants[s], command)]
    BY <1>3
  <2>2. /\ [wants EXCEPT ![s] = Append(wants[s], command)] \in [Fds -> Seq(Commands)]
        /\ [draft EXCEPT ![s] = got] \in [Fds -> Letters]
    BY <1>1, EntryType, Zenon
  <2>3. QED
    BY <1>3, <2>1, <2>2, Zenon
<1>4. CASE UNCHANGED <<wants, draft>>
  BY <1>4 DEF SocketOK
<1>5. QED
  BY <1>2, <1>3, <1>4, Zenon DEF Deliver

LEMMA TransmitType ==
  ASSUME ProcOK, SetsOK, SocketOK, NEW s \in Fds \cup {NoSocket}, NEW command \in Commands,
         NEW letter \in Letters, Transmit(s, command, letter), except_fds' = except_fds
  PROVE  ProcOK' /\ SetsOK' /\ SocketOK' /\ write_fds' \subseteq write_fds
<1>1. CASE /\ s \in Fds /\ conn[s] \in {"open", "fin"}
           /\ UNCHANGED <<proc, reply, granted, opener>>
           /\ write_fds' = write_fds \ {s} /\ read_fds' = read_fds \cup {s}
           /\ IF conn[s] = "open"
              THEN Deliver(s, command, letter) /\ UNCHANGED conn
              ELSE /\ conn' \in {conn, [conn EXCEPT ![s] = "rst"]}
                   /\ UNCHANGED <<wants, draft>>
  <2>1. conn' \in [Fds -> {"free", "open", "fin", "rst", "leaked"}]
    <3>1. [conn EXCEPT ![s] = "rst"] \in [Fds -> {"free", "open", "fin", "rst", "leaked"}]
      BY <1>1, EntryType
    <3>2. conn' = conn \/ conn' = [conn EXCEPT ![s] = "rst"]
      BY <1>1
    <3>3. QED
      BY <3>1, <3>2, Zenon DEF SocketOK
  <2>2. wants' \in [Fds -> Seq(Commands)] /\ draft' \in [Fds -> Letters]
    <3>1. CASE conn[s] = "open"
      BY <1>1, <3>1, DeliverType
    <3>2. CASE conn[s] # "open"
      BY <1>1, <3>2 DEF SocketOK
    <3>3. QED
      BY <3>1, <3>2
  <2>3. SocketOK'
    BY <1>1, <2>1, <2>2 DEF SocketOK
  <2>4. ProcOK' /\ SetsOK' /\ write_fds' \subseteq write_fds
    BY <1>1 DEF ProcOK, SetsOK
  <2>5. QED
    BY <2>3, <2>4
<1>2. CASE Close(s) /\ UNCHANGED <<read_fds, write_fds, proc>>
  BY <1>2, SocketsClosed DEF SetsOK, ProcOK
<1>3. CASE proc' = "crashed" /\ UNCHANGED <<read_fds, write_fds, socketVars>>
  BY <1>3 DEF socketVars, SetsOK, ProcOK, SocketOK
<1>4. QED
  BY <1>1, <1>2, <1>3 DEF Transmit

\* Admit: the new record, and the set it leaves.
LEMMA AdmitType ==
  ASSUME ProcOK, WorkOK, NEW d \in Domains, NEW c \in Descriptors, NEW m \in Mails,
         NEW new, new \subseteq Fds, SetsOK, Admit(d, c, m, new)
  PROVE  /\ descriptors' \in [Domains -> Descriptors] /\ ProcOK'
         /\ read_fds' \subseteq Fds /\ except_fds' \subseteq Fds
<1>1. CASE c.state = "done"
  <2>1. [c EXCEPT !.socket = NoSocket] \in Descriptors
    BY DescriptorFields
  <2>2. QED
    BY <1>1, <2>1 DEF Admit, Describe, UsesFdSet, ProcOK, WorkOK, SetsOK
<1>2. CASE c.state # "done"
  <2>1. <<m>> \o c.mails \in Seq(Mails)
    BY DescriptorFields
  <2>2. [c EXCEPT !.mails = <<m>> \o c.mails] \in Descriptors
    BY <2>1, DescriptorFields
  <2>3. QED
    BY <1>2, <2>2 DEF Admit, Describe, ProcOK, WorkOK, SetsOK
<1>3. QED
  BY <1>1, <1>2

LEMMA init_Type ==
  ASSUME ProcOK, WorkOK, SetsOK, SocketOK, NEW d \in Domains, NEW c \in Descriptors,
         NEW m \in Mails, init_mail_domain_conn_settings(d, c, m)
  PROVE  /\ descriptors' \in [Domains -> Descriptors] /\ read_fds' \subseteq Fds
         /\ except_fds' \subseteq Fds /\ ProcOK' /\ SocketOK'
<1> DEFINE trying == [c EXCEPT !.state = client_fsm_step(@, "OK")]
           failed == [trying EXCEPT !.state = client_fsm_step(@, "ERROR")]
<1>1. trying \in Descriptors /\ failed \in Descriptors
  BY StepType, DescriptorFields
<1>2. \/ \E i \in Fds : /\ Open(i, d)
                        /\ Admit(d, [trying EXCEPT !.socket = i], m, {i})
      \/ /\ (\E i \in Fds : Leak(i)) \/ UNCHANGED socketVars
         /\ Admit(d, failed, m, {})
  BY Zenon DEF init_mail_domain_conn_settings
<1> HIDE DEF trying, failed
<1>3. SocketOK'
  BY <1>2, SocketsOpened DEF socketVars, SocketOK
<1>4. CASE \E i \in Fds : Admit(d, [trying EXCEPT !.socket = i], m, {i})
  <2>1. PICK i \in Fds : Admit(d, [trying EXCEPT !.socket = i], m, {i})
    BY <1>4
  <2>2. [trying EXCEPT !.socket = i] \in Descriptors
    BY <1>1, DescriptorFields
  <2>3. {i} \subseteq Fds
    OBVIOUS
  <2>4. QED
    BY <1>3, <2>1, <2>2, <2>3, AdmitType
<1>5. CASE Admit(d, failed, m, {})
  BY <1>1, <1>3, <1>5, AdmitType
<1>6. QED
  BY <1>2, <1>4, <1>5

LEMMA register_Type ==
  ASSUME ProcOK, WorkOK, SetsOK, SocketOK, NEW m \in Mails, register_new_email(m)
  PROVE  /\ registered' \in Seq(Domains) /\ descriptors' \in [Domains -> Descriptors]
         /\ text' \in Texts /\ read_fds' \subseteq Fds /\ except_fds' \subseteq Fds
         /\ ProcOK' /\ SocketOK' /\ misbegun' \subseteq Domains
<1> DEFINE d == DomainOf[m]
           c == descriptors[d]
<1>1. d \in Domains /\ c \in Descriptors
  BY WorkerAssumption DEF WorkOK
<1>2. text' \in Texts
  BY Constants DEF register_new_email
<1>3. \/ /\ registered' = Append(registered, d)
         /\ \E st \in Uninit : init_mail_domain_conn_settings(d, [c EXCEPT !.state = st], m)
      \/ UNCHANGED registered /\ init_mail_domain_conn_settings(d, c, m)
      \/ UNCHANGED registered /\ Admit(d, c, m, {}) /\ UNCHANGED socketVars
  BY Zenon DEF register_new_email
<1> HIDE DEF d, c
<1>4. registered' \in Seq(Domains) /\ misbegun' \subseteq Domains
  <2>1. misbegun' = misbegun \/ \E st \in Uninit :
          misbegun' = misbegun \cup IF st \in Fresh THEN {} ELSE {d}
    BY Zenon DEF register_new_email, d
  <2>2. QED
    BY <1>1, <1>3, <2>1 DEF WorkOK
<1>5. CASE \E st \in Uninit : init_mail_domain_conn_settings(d, [c EXCEPT !.state = st], m)
  <2>1. PICK st \in Uninit : init_mail_domain_conn_settings(d, [c EXCEPT !.state = st], m)
    BY <1>5
  <2>2. [c EXCEPT !.state = st] \in Descriptors
    BY <1>1, DescriptorFields, WorkerAssumption
  <2>3. QED
    BY <1>1, <1>2, <1>4, <2>1, <2>2, init_Type
<1>6. CASE init_mail_domain_conn_settings(d, c, m)
  BY <1>1, <1>2, <1>4, <1>6, init_Type
<1>7. CASE Admit(d, c, m, {}) /\ UNCHANGED socketVars
  <2>1. SocketOK'
    BY <1>7 DEF socketVars, SocketOK
  <2>2. QED
    BY <1>1, <1>2, <1>4, <1>7, <2>1, AdmitType
<1>8. QED
  BY <1>3, <1>5, <1>6, <1>7

LEMMA take_message_Type ==
  ASSUME TypeOK, Found, take_message
  PROVE  TypeOK' /\ Found'
<1> USE TypeParts
<1>1. CASE mq = <<>>
  <2>1. /\ UNCHANGED <<proc, mq, files, workVars, setVars, socketVars, todo, half, otherVars>>
        /\ phase' = "select"
    BY <1>1 DEF take_message
  <2>2. QED
    BY <2>1 DEF workVars, setVars, socketVars, otherVars, ProcOK, QueueOK, WorkOK, SetsOK,
       LoopOK, SocketOK, Found
<1>2. CASE mq # <<>>
  <2>1. Head(mq) \in Mails /\ Tail(mq) \in Seq(Mails)
    BY <1>2 DEF QueueOK
  <2>2. /\ register_new_email(Head(mq)) /\ mq' = Tail(mq)
        /\ UNCHANGED <<cur_mail_domain, write_fds, todo, half, files, otherVars>>
        /\ phase' = "select"
    BY <1>2 DEF take_message
  <2>3. /\ registered' \in Seq(Domains) /\ descriptors' \in [Domains -> Descriptors]
        /\ text' \in Texts /\ read_fds' \subseteq Fds /\ except_fds' \subseteq Fds
        /\ ProcOK' /\ SocketOK' /\ misbegun' \subseteq Domains
    BY <2>1, <2>2, register_Type
  <2>4. WorkOK' /\ SetsOK' /\ LoopOK' /\ Found'
    BY <2>2, <2>3 DEF WorkOK, SetsOK, LoopOK, Found
  <2>5. QueueOK' /\ accepted' \in Seq(Letters) /\ mixed' \in BOOLEAN
    BY <2>1, <2>2 DEF QueueOK, otherVars
  <2>6. QED
    BY <2>3, <2>4, <2>5
<1>3. QED
  BY <1>1, <1>2
\* The steps around select(), of the master and of the servers.
LEMMA select_Type ==
  ASSUME TypeOK, Found, select_fails \/ select_returns \/ next_iteration
  PROVE  TypeOK' /\ Found'
<1> USE TypeParts
<1>1. /\ UNCHANGED <<proc, mq, files, workVars, socketVars, otherVars, write_fds>>
      /\ read_fds' \in {read_fds, ReadReady} /\ except_fds' \in {except_fds, {}}
      /\ \/ phase' = "serve" /\ todo' = Fds /\ half' = "read"
         \/ phase' = "queue" /\ UNCHANGED <<todo, half>>
  BY DEF select_fails, select_returns, next_iteration, Serve, setVars
<1>2. ReadReady \subseteq read_fds
  BY DEF ReadReady
<1>3. ProcOK' /\ QueueOK' /\ WorkOK' /\ SocketOK'
  BY <1>1 DEF workVars, socketVars, otherVars, ProcOK, QueueOK, WorkOK, SocketOK
<1>4. SetsOK' /\ LoopOK' /\ Found'
  BY <1>1, <1>2 DEF workVars, SetsOK, LoopOK, Found
<1>5. accepted' \in Seq(Letters) /\ mixed' \in BOOLEAN
  BY <1>1 DEF otherVars
<1>6. QED
  BY <1>3, <1>4, <1>5

LEMMA master_Type ==
  ASSUME TypeOK, Found, NEW m \in Mails, master_sends(m)
  PROVE  TypeOK' /\ Found'
<1> USE TypeParts
<1>1. UNCHANGED <<proc, files, workVars, setVars, loopVars, socketVars, accepted, mixed>>
  BY DEF master_sends
<1>2. ProcOK' /\ WorkOK' /\ SetsOK' /\ LoopOK' /\ SocketOK' /\ Found'
  BY <1>1 DEF workVars, setVars, loopVars, socketVars, ProcOK, WorkOK, SetsOK, LoopOK,
     SocketOK, Found
<1>3. mq' \in Seq(Mails)
  BY DEF master_sends, QueueOK
<1>4. scans' \in [Mails -> Nat] /\ \A l \in Mails : scans'[l] <= MaxScans[l]
  <2>1. scans[m] + 1 \in Nat /\ scans[m] + 1 <= MaxScans[m]
    BY WorkerAssumption DEF master_sends, QueueOK
  <2>2. /\ scans' = [scans EXCEPT ![m] = scans[m] + 1]
        /\ scans \in [Mails -> Nat] /\ \A l \in Mails : scans[l] <= MaxScans[l]
    BY DEF master_sends, QueueOK
  <2>3. QED
    BY <2>1, <2>2
<1>5. QED
  BY <1>1, <1>2, <1>3, <1>4 DEF QueueOK

LEMMA server_replies_Type ==
  ASSUME TypeOK, Found, NEW i \in Fds, server_replies(i)
  PROVE  TypeOK' /\ Found'
<1> USE TypeParts
<1>1. UNCHANGED <<proc, mq, files, workVars, setVars, loopVars, conn, draft, opener, scans,
                  mixed>>
  BY DEF server_replies
<1>2. ProcOK' /\ QueueOK' /\ WorkOK' /\ SetsOK' /\ LoopOK' /\ Found'
  BY <1>1 DEF workVars, setVars, loopVars, ProcOK, QueueOK, WorkOK, SetsOK, LoopOK, Found
<1>3. PICK outcome \in Outcomes :
        /\ reply' = [reply EXCEPT ![i] = outcome]
        /\ granted' = [granted EXCEPT ![i] = IF outcome \in Agreed
                                             THEN Head(wants[i]) ELSE outcome]
        /\ accepted' = IF Head(wants[i]) = "BODY" /\ outcome \in Agreed
                       THEN Append(accepted, draft[i]) ELSE accepted
  BY DEF server_replies
<1>4. wants[i] \in Seq(Commands) /\ wants[i] # <<>>
  BY DEF server_replies, SocketOK
<1>5. Head(wants[i]) \in Commands /\ Tail(wants[i]) \in Seq(Commands)
  BY <1>4
<1>6. /\ outcome \in Responses \cup {""}
      /\ outcome \in Agreed \cup {"negative", "not implemented"}
  BY DEF Outcomes, Responses, Agreed
<1>7. reply' \in [Fds -> Responses \cup {""}]
  BY <1>3, <1>6, EntryType
<1>8. granted' \in [Fds -> Commands \cup {"negative", "not implemented"}]
  <2>1. \E v \in Commands \cup {"negative", "not implemented"} : granted' = [granted EXCEPT ![i] = v]
    BY <1>3, <1>5, <1>6
  <2>2. QED
    <3>1. SocketOK
      OBVIOUS
    <3>2. QED
      <4>1. PICK v \in Commands \cup {"negative", "not implemented"} : granted' = [granted EXCEPT ![i] = v]
        BY <2>1
      <4>2. QED
        BY <3>1, <4>1, EntryType
<1>9. wants' \in [Fds -> Seq(Commands)]
  <2>1. wants' = [wants EXCEPT ![i] = Tail(wants[i])]
    BY DEF server_replies
  <2>2. QED
    BY <1>5, <2>1, EntryType
<1>10. accepted' \in Seq(Letters)
  <2>1. draft[i] \in Letters
    BY DEF SocketOK
  <2>2. accepted' = accepted \/ accepted' = Append(accepted, draft[i])
    BY <1>3, Zenon
  <2>3. QED
    BY <2>1, <2>2
<1>11. SocketOK'
  BY <1>1, <1>7, <1>8, <1>9 DEF SocketOK
<1>12. QED
  BY <1>1, <1>2, <1>10, <1>11

LEMMA server_hangs_up_Type ==
  ASSUME TypeOK, Found, NEW i \in Fds, server_hangs_up(i)
  PROVE  TypeOK' /\ Found'
<1> USE TypeParts
<1>1. UNCHANGED <<proc, mq, files, workVars, setVars, loopVars, reply, draft, granted, opener,
                  otherVars>>
  BY DEF server_hangs_up
<1>2. ProcOK' /\ QueueOK' /\ WorkOK' /\ SetsOK' /\ LoopOK' /\ Found'
  BY <1>1 DEF workVars, setVars, loopVars, otherVars, ProcOK, QueueOK, WorkOK, SetsOK, LoopOK,
     Found
<1>3. conn' \in [Fds -> {"free", "open", "fin", "rst", "leaked"}]
  <2>1. \E v \in {"free", "open", "fin", "rst", "leaked"} : conn' = [conn EXCEPT ![i] = v]
    BY DEF server_hangs_up
  <2>2. QED
    <3>1. SocketOK
      OBVIOUS
    <3>2. QED
      <4>1. PICK v \in {"free", "open", "fin", "rst", "leaked"} :
                 conn' = [conn EXCEPT ![i] = v]
        BY <2>1
      <4>2. QED
        BY <3>1, <4>1, EntryType
<1>4. wants' \in [Fds -> Seq(Commands)]
  BY EntryType, Asked DEF server_hangs_up
<1>5. SocketOK'
  BY <1>1, <1>3, <1>4 DEF SocketOK
<1>6. QED
  BY <1>1, <1>2, <1>5 DEF otherVars
LEMMA PastType == \A t \in Texts : Past(t) \in Texts /\ [t EXCEPT !.line = 4] \in Texts
<1> SUFFICES ASSUME NEW t \in Texts
             PROVE  Past(t) \in Texts /\ [t EXCEPT !.line = 4] \in Texts
  OBVIOUS
<1>1. t.line \in 1 .. 4 /\ t.mail \in Mails \cup {NoMail}
  BY DEF Texts
<1>2. \A n \in 1 .. 4 : [t EXCEPT !.line = n] \in Texts
  BY DEF Texts
<1>3. (IF t.line = 4 THEN 4 ELSE t.line + 1) \in 1 .. 4
  BY <1>1
<1>4. QED
  BY <1>2, <1>3 DEF Past

\* A response that lets handle_read_socket() go on comes from a descriptor.
LEMMA ResponseFrom ==
  \A s : Response(s) # Null => s \in Fds /\ (reply[s] # "" \/ conn[s] = "fin")
BY DEF Response

LEMMA SteppedType ==
  ASSUME NEW c \in Descriptors, NEW ev
  PROVE  LET stepped == [c EXCEPT !.state = Stepped(c, ev),
                                  !.mails = IF Mailed(c, ev) /\ @ # <<>> THEN Tail(@) ELSE @]
         IN  /\ stepped \in Descriptors /\ stepped.socket = c.socket
             /\ stepped.state = Stepped(c, ev)
             /\ stepped.mails = IF Mailed(c, ev) /\ c.mails # <<>> THEN Tail(c.mails) ELSE c.mails
<1> DEFINE st == Stepped(c, ev)
           l  == IF Mailed(c, ev) /\ c.mails # <<>> THEN Tail(c.mails) ELSE c.mails
<1>1. st \in ClientStates
  BY StepType DEF Stepped
<1>2. l \in Seq(Mails)
  BY DescriptorFields
<1> HIDE DEF st, l
<1>3. [c EXCEPT !.state = st, !.mails = l] \in Descriptors
  BY <1>1, <1>2 DEF Descriptors
<1>4. /\ [c EXCEPT !.state = st, !.mails = l].socket = c.socket
      /\ [c EXCEPT !.state = st, !.mails = l].state = st
      /\ [c EXCEPT !.state = st, !.mails = l].mails = l
  BY DEF Descriptors
<1>5. QED
  BY <1>3, <1>4 DEF st, l

\* Turn on an open descriptor.
LEMMA TurnType ==
  ASSUME SetsOK, SocketOK, NEW c, c.socket \in Fds, Turn(c)
  PROVE  SocketOK' /\ write_fds' \subseteq Fds
<1>1. CASE Close(c.socket) /\ write_fds' = write_fds \ {c.socket}
  BY <1>1, SocketsClosed DEF SetsOK
<1>2. CASE /\ write_fds' = write_fds \cup {c.socket}
           /\ reply' = [reply EXCEPT ![c.socket] = ""]
           /\ UNCHANGED <<conn, wants, draft, granted, opener>>
  BY <1>2, EntryType DEF SetsOK, SocketOK
<1>3. QED
  BY <1>1, <1>2 DEF Turn

LEMMA visit_read_Type ==
  ASSUME TypeOK, Found, NEW i \in Fds, visit_read(i)
  PROVE  TypeOK' /\ Found'
<1> USE TypeParts
<1>1. /\ cur_mail_domain' = Owner(i) /\ half' = "write" /\ todo' = todo /\ UNCHANGED phase
      /\ UNCHANGED <<mq, files, registered, misbegun, except_fds, accepted, scans>>
      /\ mixed' = (mixed \/ (i \in read_fds /\ ~Holds(Owner(i), i)))
  BY DEF visit_read, To
<1>2. Owner(i) \in Domains \cup {NoDomain}
  BY OwnerFound DEF WorkOK
<1>3. QueueOK' /\ LoopOK' /\ accepted' \in Seq(Letters) /\ mixed' \in BOOLEAN
  BY <1>1 DEF QueueOK, LoopOK
<1>4. CASE i \notin read_fds /\ UNCHANGED <<proc, descriptors, text, setVars, socketVars>>
  <2>1. Found'
    BY <1>1, <1>4, OwnerFound DEF Found, setVars
  <2>2. ProcOK' /\ WorkOK' /\ SetsOK' /\ SocketOK'
    BY <1>1, <1>2, <1>4 DEF setVars, socketVars, ProcOK, WorkOK, SetsOK, SocketOK
  <2>3. QED
    BY <1>3, <2>1, <2>2
<1>5. CASE Owner(i) # NoDomain /\ handle_read_socket(Owner(i)) /\ UNCHANGED proc
  <2> DEFINE c  == descriptors[Owner(i)]
             ev == check_server_code(Response(c.socket))
             stepped == [c EXCEPT !.state = Stepped(c, ev),
                                  !.mails = IF Mailed(c, ev) /\ @ # <<>> THEN Tail(@) ELSE @]
  <2>1. Owner(i) \in Domains /\ c \in Descriptors
    BY <1>2, <1>5 DEF WorkOK
  <2>2. /\ Response(c.socket) # Null /\ Describe(Owner(i), stepped)
        /\ text' = text \/ text' = Freed
        /\ Turn(stepped) /\ read_fds' = read_fds \ {c.socket}
    BY <1>5 DEF handle_read_socket
  <2>3. stepped \in Descriptors /\ stepped.socket = c.socket
    BY <2>1, SteppedType
  <2> HIDE DEF c, ev, stepped
  <2>4. c.socket \in Fds
    BY <2>2, ResponseFrom
  <2>5. SocketOK' /\ write_fds' \subseteq Fds
    BY <2>2, <2>3, <2>4, TurnType
  <2>6. WorkOK'
    BY <1>1, <1>2, <2>1, <2>2, <2>3, Constants DEF WorkOK, Describe
  <2>7. SetsOK' /\ Found' /\ ProcOK'
    BY <1>1, <1>5, <2>1, <2>2, <2>5 DEF SetsOK, Found, ProcOK
  <2>8. QED
    BY <1>3, <2>5, <2>6, <2>7
<1>6. CASE /\ proc' = DiesReading(Owner(i))
           /\ UNCHANGED <<descriptors, text, setVars, socketVars>>
  <2>1. Found'
    BY <1>1, <1>6, OwnerFound DEF Found, setVars
  <2>2. ProcOK' /\ WorkOK' /\ SetsOK' /\ SocketOK'
    BY <1>1, <1>2, <1>6 DEF setVars, socketVars, ProcOK, WorkOK, SetsOK, SocketOK, DiesReading
  <2>3. QED
    BY <1>3, <2>1, <2>2
<1>7. QED
  BY <1>4, <1>5, <1>6 DEF visit_read
LEMMA DraftType ==
  ASSUME SocketOK, NEW s \in Fds \cup {NoSocket}
  PROVE  /\ Draft(s) \in Letters
         /\ \A t \in Texts : /\ [Draft(s) EXCEPT !.rcpt = t] \in Letters
                             /\ [Draft(s) EXCEPT !.body = t] \in Letters
                             /\ [NoLetter EXCEPT !.sender = t] \in Letters
<1>1. Draft(s) \in Letters
  BY Constants DEF Draft, SocketOK
<1>2. \A l \in Letters, t \in Texts : /\ [l EXCEPT !.rcpt = t] \in Letters
                                      /\ [l EXCEPT !.body = t] \in Letters
                                      /\ [l EXCEPT !.sender = t] \in Letters
  BY DEF Letters
<1>3. QED
  BY <1>1, <1>2, Constants

\* What the write half of a visit leaves.
WriteOK == ProcOK' /\ SetsOK' /\ SocketOK' /\ WorkOK' /\ files' \in [Mails -> {"new", "cur"}]
           /\ write_fds' \subseteq write_fds

LEMMA send_mail_from_Type ==
  ASSUME ProcOK, SetsOK, SocketOK, WorkOK, QueueOK, NEW d \in Domains,
         UNCHANGED <<registered, cur_mail_domain, misbegun, except_fds>>, send_mail_from(d, descriptors[d])
  PROVE  WriteOK
<1> DEFINE c    == descriptors[d]
           m    == Head(c.mails)
           read == files[m] = "new"
           from == IF read THEN [mail |-> m, line |-> 1] ELSE text
<1>1. c \in Descriptors /\ c.mails # <<>>
  BY DEF WorkOK, send_mail_from
<1>2. c.socket \in Fds \cup {NoSocket} /\ c.mails \in Seq(Mails)
  BY <1>1, DescriptorFields
<1>3. m \in Mails
  BY <1>1, <1>2
<1>4. from \in Texts
  BY <1>3 DEF WorkOK, Texts
<1>5. /\ text' = Past(from) /\ files' = [files EXCEPT ![m] = "cur"]
      /\ Describe(d, [c EXCEPT !.buffer = IF read THEN m ELSE NoMail])
      /\ Transmit(c.socket, "MAIL", [NoLetter EXCEPT !.sender = from])
  BY DEF send_mail_from, Renamed
<1> HIDE DEF c, m, from, read
<1>6. text' \in Texts
  BY <1>4, <1>5, PastType
<1>7. files' \in [Mails -> {"new", "cur"}]
  BY <1>3, <1>5 DEF QueueOK
<1>8. (IF read THEN m ELSE NoMail) \in Mails \cup {NoMail}
  BY <1>3
<1>9. [c EXCEPT !.buffer = IF read THEN m ELSE NoMail] \in Descriptors
  BY <1>1, <1>8, DescriptorFields
<1>10. WorkOK'
  BY <1>5, <1>6, <1>9 DEF WorkOK, Describe
<1>11. [NoLetter EXCEPT !.sender = from] \in Letters /\ "MAIL" \in Commands
  BY <1>2, <1>4, DraftType DEF Commands
<1>12. QED
  BY <1>2, <1>5, <1>7, <1>10, <1>11, TransmitType DEF WriteOK

LEMMA handle_write_socket_Type ==
  ASSUME ProcOK, SetsOK, SocketOK, WorkOK, QueueOK, NEW d \in Domains,
         UNCHANGED <<registered, cur_mail_domain, misbegun, except_fds>>, handle_write_socket(d)
  PROVE  WriteOK
<1> DEFINE c == descriptors[d]
<1>1. c \in Descriptors
  BY DEF WorkOK
<1>2. c.socket \in Fds \cup {NoSocket}
  BY <1>1, DescriptorFields
<1>3. /\ Draft(c.socket) \in Letters /\ [Draft(c.socket) EXCEPT !.rcpt = text] \in Letters
      /\ [Draft(c.socket) EXCEPT !.body = text] \in Letters
  BY <1>2, DraftType DEF WorkOK
<1>4. {"HELO", "MAIL", "RCPT", "DATA", "BODY", "QUIT"} \subseteq Commands
  BY DEF Commands
<1>5. CASE send_mail_from(d, c)
  BY <1>5, send_mail_from_Type
<1>6. ASSUME /\ UNCHANGED <<files, descriptors>> /\ text' \in Texts
             /\ \E command \in Commands, letter \in Letters : Transmit(c.socket, command, letter)
      PROVE  WriteOK
  <2>1. ProcOK' /\ SetsOK' /\ SocketOK' /\ write_fds' \subseteq write_fds
    BY <1>2, <1>6, TransmitType, Zenon
  <2>2. QED
    BY <1>6, <2>1 DEF WriteOK, WorkOK, QueueOK
<1>7. CASE send_word(c, "send_helo", "HELO") \/ send_word(c, "send_data", "DATA")
           \/ send_word(c, "send_quit", "QUIT")
  <2>1. \E command \in Commands, letter \in Letters : Transmit(c.socket, command, letter)
    BY <1>3, <1>4, <1>7 DEF send_word
  <2>2. UNCHANGED <<text, files, descriptors>>
    BY <1>7 DEF send_word
  <2>3. QED
    BY <1>6, <2>1, <2>2 DEF WorkOK
<1>8. CASE send_rcpt_to(c)
  <2>1. Transmit(c.socket, "RCPT", [Draft(c.socket) EXCEPT !.rcpt = text])
        /\ UNCHANGED <<files, descriptors>> /\ text' = Past(text)
    BY <1>8 DEF send_rcpt_to
  <2>2. text' \in Texts
    BY <2>1, PastType DEF WorkOK
  <2>3. \E command \in Commands, letter \in Letters : Transmit(c.socket, command, letter)
    BY <1>3, <1>4, <2>1
  <2>4. QED
    BY <1>6, <2>1, <2>2, <2>3
<1>9. CASE send_msg_body(c)
  <2>1. Transmit(c.socket, "BODY", [Draft(c.socket) EXCEPT !.body = text])
        /\ UNCHANGED <<files, descriptors>> /\ text' = [text EXCEPT !.line = 4]
    BY <1>9 DEF send_msg_body
  <2>2. text' \in Texts
    BY <2>1, PastType DEF WorkOK
  <2>3. \E command \in Commands, letter \in Letters : Transmit(c.socket, command, letter)
    BY <1>3, <1>4, <2>1
  <2>4. QED
    BY <1>6, <2>1, <2>2, <2>3
<1>10. CASE send_nothing(c) \/ no_token(c)
  <2>1. /\ UNCHANGED <<text, files, descriptors, socketVars>>
        /\ write_fds' \subseteq write_fds /\ read_fds' \subseteq Fds /\ ProcOK'
    BY <1>10 DEF send_nothing, no_token, UsesFdSet, SetsOK, ProcOK
  <2>2. QED
    BY <2>1 DEF WriteOK, socketVars, SetsOK, SocketOK, WorkOK, QueueOK
<1>11. QED
  BY <1>5, <1>7, <1>8, <1>9, <1>10 DEF handle_write_socket

LEMMA visit_write_Type ==
  ASSUME TypeOK, Found, NEW i \in Fds, visit_write(i)
  PROVE  TypeOK' /\ Found'
<1> USE TypeParts
<1>1. /\ half' = "read" /\ todo' = todo \ {i} /\ UNCHANGED phase
      /\ UNCHANGED <<mq, registered, cur_mail_domain, misbegun, except_fds, accepted, scans>>
      /\ mixed' = (mixed \/ (i \in write_fds /\ ~Holds(cur_mail_domain, i)))
  BY DEF visit_write, To
<1>2. LoopOK' /\ accepted' \in Seq(Letters) /\ mixed' \in BOOLEAN
  BY <1>1 DEF LoopOK
<1>3. CASE i \in write_fds
  <2>1. cur_mail_domain \in Domains /\ handle_write_socket(cur_mail_domain)
    BY <1>3 DEF Found, visit_write
  <2>2. WriteOK
    BY <1>1, <2>1, handle_write_socket_Type
  <2>3. QED
    BY <1>1, <1>2, <2>2 DEF WriteOK, QueueOK, Found
<1>4. CASE i \notin write_fds
  <2>1. UNCHANGED <<proc, text, files, descriptors, setVars, socketVars>>
    BY <1>4 DEF visit_write
  <2>2. QED
    BY <1>1, <1>2, <2>1 DEF setVars, socketVars, ProcOK, QueueOK, WorkOK, SetsOK, SocketOK,
       Found
<1>5. QED
  BY <1>3, <1>4


LEMMA InitType == Init => TypeOK /\ Found
<1> SUFFICES ASSUME Init
             PROVE  TypeOK /\ Found
  OBVIOUS
<1>1. SocketOK
  BY Constants, Asked DEF Init, SocketOK
<1>2. WorkOK
  BY Constants, EmptySeq DEF Init, WorkOK
<1>3. ProcOK /\ QueueOK /\ SetsOK /\ LoopOK /\ Found
  <2>1. \A m \in Mails : 0 <= MaxScans[m]
    BY WorkerAssumption
  <2>2. mq \in Seq(Mails)
    BY EmptySeq DEF Init
  <2>3. /\ scans \in [Mails -> Nat] /\ \A m \in Mails : scans[m] <= MaxScans[m]
        /\ files \in [Mails -> {"new", "cur"}]
    BY <2>1 DEF Init
  <2>4. QED
    BY <2>2, <2>3 DEF Init, ProcOK, QueueOK, SetsOK, LoopOK, Found
<1>4. QED
  <2>1. accepted \in Seq(Letters) /\ mixed \in BOOLEAN
    BY EmptySeq DEF Init
  <2>2. QED
    BY <1>1, <1>2, <1>3, <2>1, TypeParts

LEMMA NextType ==
  ASSUME TypeOK, Found, [Next]_vars
  PROVE  TypeOK' /\ Found'
<1>1. CASE Next
  BY <1>1, take_message_Type, select_Type, master_Type, server_replies_Type,
     server_hangs_up_Type, visit_read_Type, visit_write_Type DEF Next, worker, servers
<1>2. CASE UNCHANGED vars
  BY <1>2, TypeParts DEF vars, workVars, setVars, loopVars, socketVars, otherVars, ProcOK,
     QueueOK, WorkOK, SetsOK, LoopOK, SocketOK, Found
<1>3. QED
  BY <1>1, <1>2

\* Every variable keeps to its type: no letter, number or state is made up, the
\* results of select() are descriptors, and a domain was found before anything
\* is written for it.
THEOREM ChildTyped == Spec => [](TypeOK /\ Found)
<1>1. Init => TypeOK /\ Found
  BY InitType
<1>2. TypeOK /\ Found /\ [Next]_vars => TypeOK' /\ Found'
  BY NextType
<1>3. QED
  BY <1>1, <1>2, PTL DEF Spec
-----------------------------------------------------------------------------
(* What the steps do to the sessions: every step changes at most the record  *)
(* of one domain and the connection of one descriptor.                       *)

Others(d, r) ==
  /\ descriptors'[d] = r
  /\ \A e \in Domains : e # d => descriptors'[e] = descriptors[e]

LEMMA Described ==
  ASSUME WorkOK, NEW d \in Domains, NEW r, Describe(d, r)
  PROVE  Others(d, r)
BY DEF WorkOK, Describe, Others

LEMMA StepOK ==
  \A st \in ClientStates :
    /\ client_fsm_step(st, "OK") \notin {"done", "invalid"}
    /\ client_fsm_step(client_fsm_step(st, "OK"), "ERROR") = "done"
<1> SUFFICES ASSUME NEW st \in ClientStates
             PROVE  /\ client_fsm_step(st, "OK") \notin {"done", "invalid"}
                    /\ client_fsm_step(client_fsm_step(st, "OK"), "ERROR") = "done"
  OBVIOUS
<1>1. client_fsm_step(st, "OK") \in ClientStates \ {"done", "invalid"}
  BY AdvanceOf DEF client_fsm_step, ClientStates
<1> DEFINE new == client_fsm_step(st, "OK")
<1>2. new \in ClientStates \ {"done", "invalid"}
  BY <1>1
<1> HIDE DEF new
<1>3. client_fsm_step(new, "ERROR") = "done"
  BY <1>2, AdvanceOf DEF client_fsm_step, ClientStates
<1>4. QED
  BY <1>1, <1>3 DEF new

\* A domain got a socket, or it did not, or it has one.
Opened(d, i, r, st) ==
  /\ Lowest(i) /\ Open(i, d) /\ Describe(d, r)
  /\ r.state = client_fsm_step(st, "OK") /\ r.socket = i /\ r.mails # <<>>

Failed(d, r) ==
  /\ (\E i \in Fds : Lowest(i) /\ Leak(i)) \/ UNCHANGED socketVars
  /\ Describe(d, r) /\ r.state = "done" /\ r.socket = NoSocket

Queued(d, r) ==
  /\ UNCHANGED socketVars /\ Describe(d, r)
  /\ r.state = descriptors[d].state /\ r.state \notin {"init", "done"}
  /\ r.socket = descriptors[d].socket /\ r.mails # <<>>

LEMMA AdmitEffect ==
  ASSUME NEW d \in Domains, NEW c \in Descriptors, NEW m \in Mails, NEW new,
         Admit(d, c, m, new)
  PROVE  \E r \in Descriptors :
           /\ Describe(d, r) /\ r.state = c.state
           /\ c.state = "done" => r.socket = NoSocket
           /\ c.state # "done" => r.socket = c.socket /\ r.mails # <<>>
<1>1. CASE c.state = "done"
  <2> DEFINE r == [c EXCEPT !.socket = NoSocket]
  <2>1. r \in Descriptors /\ r.state = c.state /\ r.socket = NoSocket
    BY DescriptorFields
  <2>2. Describe(d, r)
    BY <1>1 DEF Admit
  <2> HIDE DEF r
  <2>3. QED
    BY <1>1, <2>1, <2>2
<1>2. CASE c.state # "done"
  <2>1. <<m>> \o c.mails \in Seq(Mails) /\ <<m>> \o c.mails # <<>>
    BY DescriptorFields
  <2>2. Describe(d, [c EXCEPT !.mails = <<m>> \o c.mails])
    BY <1>2 DEF Admit
  <2> DEFINE r == [c EXCEPT !.mails = <<m>> \o c.mails]
  <2>3. r \in Descriptors /\ r.state = c.state /\ r.mails = <<m>> \o c.mails
        /\ r.socket = c.socket
    BY <2>1, DescriptorFields
  <2> HIDE DEF r
  <2>4. QED
    BY <1>2, <2>1, <2>2, <2>3 DEF r
<1>3. QED
  BY <1>1, <1>2

LEMMA init_Effect ==
  ASSUME NEW d \in Domains, NEW c \in Descriptors, NEW m \in Mails,
         init_mail_domain_conn_settings(d, c, m)
  PROVE  \E r \in Descriptors : Failed(d, r) \/ \E i \in Fds : Opened(d, i, r, c.state)
<1> DEFINE trying == [c EXCEPT !.state = client_fsm_step(@, "OK")]
           failed == [trying EXCEPT !.state = client_fsm_step(@, "ERROR")]
<1>1. /\ trying \in Descriptors /\ failed \in Descriptors
      /\ trying.state = client_fsm_step(c.state, "OK")
      /\ failed.state = client_fsm_step(trying.state, "ERROR")
  <2>1. \A e \in Descriptors : \A ev :
           LET new == [e EXCEPT !.state = client_fsm_step(@, ev)]
           IN  new \in Descriptors /\ new.state = client_fsm_step(e.state, ev)
    BY StepType, DescriptorFields
  <2>2. trying \in Descriptors /\ trying.state = client_fsm_step(c.state, "OK")
    BY <2>1
  <2> HIDE DEF trying
  <2>3. QED
    BY <2>1, <2>2
<1>2. trying.state # "done" /\ failed.state = "done"
  BY <1>1, StepOK, DescriptorFields
<1>3. \/ \E i \in Fds : /\ Lowest(i) /\ Open(i, d)
                        /\ Admit(d, [trying EXCEPT !.socket = i], m, {i})
      \/ /\ (\E i \in Fds : Lowest(i) /\ Leak(i)) \/ UNCHANGED socketVars
         /\ Admit(d, failed, m, {})
  BY Zenon DEF init_mail_domain_conn_settings
<1> HIDE DEF trying, failed
<1>4. CASE Admit(d, failed, m, {})
           /\ ((\E i \in Fds : Lowest(i) /\ Leak(i)) \/ UNCHANGED socketVars)
  <2>1. PICK r \in Descriptors : /\ Describe(d, r) /\ r.state = failed.state
                                 /\ failed.state = "done" => r.socket = NoSocket
    BY <1>1, <1>4, AdmitEffect
  <2>2. QED
    BY <1>2, <1>4, <2>1 DEF Failed
<1>5. CASE \E i \in Fds : /\ Lowest(i) /\ Open(i, d)
                          /\ Admit(d, [trying EXCEPT !.socket = i], m, {i})
  <2>1. PICK i \in Fds : /\ Lowest(i) /\ Open(i, d)
                         /\ Admit(d, [trying EXCEPT !.socket = i], m, {i})
    BY <1>5
  <2> DEFINE t == [trying EXCEPT !.socket = i]
  <2>2. t \in Descriptors /\ t.state = trying.state /\ t.socket = i
    BY <1>1, DescriptorFields
  <2> HIDE DEF t
  <2>3. PICK r \in Descriptors : /\ Describe(d, r) /\ r.state = t.state
                                 /\ t.state # "done" => r.socket = t.socket /\ r.mails # <<>>
    BY <2>1, <2>2, AdmitEffect DEF t
  <2>4. QED
    BY <1>1, <1>2, <2>1, <2>2, <2>3 DEF Opened
<1>6. QED
  BY <1>3, <1>4, <1>5

\* A letter is admitted.  A domain connects when it is new, has no letter or is
\* in its first state.
LEMMA register_Effect ==
  ASSUME WorkOK, NEW m \in Mails, register_new_email(m)
  PROVE  /\ misbegun \subseteq misbegun'
         /\ \E d \in Domains, r \in Descriptors :
              \/ Failed(d, r) \/ Queued(d, r)
              \/ \E i \in Fds, st \in ClientStates :
                   /\ Opened(d, i, r, st)
                   /\ \/ st \in Fresh \/ d \in misbegun'
                      \/ /\ st = descriptors[d].state
                         /\ descriptors[d].mails = <<>> \/ st = "init"
<1> DEFINE d == DomainOf[m]
           c == descriptors[d]
<1>1. d \in Domains /\ c \in Descriptors
  BY WorkerAssumption DEF WorkOK
<1>0. misbegun \subseteq misbegun'
  <2>1. misbegun' = misbegun \/ \E st \in Uninit :
          misbegun' = misbegun \cup IF st \in Fresh THEN {} ELSE {d}
    BY Zenon DEF register_new_email
  <2>2. QED
    BY <2>1
<1>2. \/ \E st \in Uninit :
           /\ misbegun' = misbegun \cup IF st \in Fresh THEN {} ELSE {d}
           /\ init_mail_domain_conn_settings(d, [c EXCEPT !.state = st], m)
      \/ (c.mails = <<>> \/ c.state = "init") /\ init_mail_domain_conn_settings(d, c, m)
      \/ /\ c.state # "init" /\ Admit(d, c, m, {}) /\ UNCHANGED socketVars
  BY Zenon DEF register_new_email
<1>3. c.state \in ClientStates
  BY <1>1, DescriptorFields
<1>4. c = descriptors[d]
  OBVIOUS
<1> HIDE DEF d, c
<1>5. CASE \E st \in Uninit :
             /\ misbegun' = misbegun \cup IF st \in Fresh THEN {} ELSE {d}
             /\ init_mail_domain_conn_settings(d, [c EXCEPT !.state = st], m)
  <2>1. PICK st \in Uninit :
             /\ misbegun' = misbegun \cup IF st \in Fresh THEN {} ELSE {d}
             /\ init_mail_domain_conn_settings(d, [c EXCEPT !.state = st], m)
    BY <1>5
  <2>0. st \in Fresh \/ d \in misbegun'
    BY <2>1
  <2>2. st \in ClientStates
    BY WorkerAssumption
  <2>3. [c EXCEPT !.state = st] \in Descriptors /\ [c EXCEPT !.state = st].state = st
    BY <1>1, <2>2, DescriptorFields
  <2>4. \E r \in Descriptors : Failed(d, r) \/ \E i \in Fds : Opened(d, i, r, st)
    BY <1>1, <2>1, <2>3, init_Effect
  <2>5. QED
    BY <1>0, <1>1, <2>0, <2>2, <2>4
<1>6. CASE (c.mails = <<>> \/ c.state = "init") /\ init_mail_domain_conn_settings(d, c, m)
  <2>1. \E r \in Descriptors : Failed(d, r) \/ \E i \in Fds : Opened(d, i, r, c.state)
    BY <1>1, <1>6, init_Effect
  <2>2. QED
    BY <1>0, <1>1, <1>3, <1>4, <1>6, <2>1, Zenon
<1>7. CASE c.state # "init" /\ Admit(d, c, m, {}) /\ UNCHANGED socketVars
  <2>1. PICK r \in Descriptors :
           /\ Describe(d, r) /\ r.state = c.state
           /\ c.state = "done" => r.socket = NoSocket
           /\ c.state # "done" => r.socket = c.socket /\ r.mails # <<>>
    BY <1>1, <1>7, AdmitEffect
  <2>2. Failed(d, r) \/ Queued(d, r)
    BY <1>4, <1>7, <2>1 DEF Failed, Queued
  <2>3. QED
    BY <1>0, <1>1, <2>2
<1>8. QED
  BY <1>2, <1>5, <1>6, <1>7
\* c is served on descriptor i: a command is sent to a server, goes to a
\* connection the server left, or fails, and the socket is closed.
Sent(i, command, letter) ==
  /\ conn[i] = "open"
  /\ wants' = [wants EXCEPT ![i] = Append(@, command)]
  /\ draft' = [draft EXCEPT ![i] = letter]
  /\ UNCHANGED <<conn, reply, granted, opener>>
  /\ write_fds' = write_fds \ {i}

Lost(i) ==
  /\ conn[i] = "fin" /\ conn' \in {conn, [conn EXCEPT ![i] = "rst"]}
  /\ UNCHANGED <<wants, draft, reply, granted, opener>>

NotSent(i) == Lost(i) \/ Close(i) \/ UNCHANGED socketVars

LEMMA TransmitEffect ==
  ASSUME NEW i \in Fds, NEW command, NEW letter, Transmit(i, command, letter)
  PROVE  \/ Sent(i, command, letter)
         \/ command = "BODY" /\ Sent(i, command, [letter EXCEPT !.body.line = 4])
         \/ (NotSent(i) /\ write_fds' \subseteq write_fds)
<1>1. CASE /\ conn[i] \in {"open", "fin"}
           /\ UNCHANGED <<reply, granted, opener>>
           /\ write_fds' = write_fds \ {i}
           /\ IF conn[i] = "open"
              THEN Deliver(i, command, letter) /\ UNCHANGED conn
              ELSE /\ conn' \in {conn, [conn EXCEPT ![i] = "rst"]}
                   /\ UNCHANGED <<wants, draft>>
  <2>1. CASE conn[i] = "fin"
    BY <1>1, <2>1, Zenon DEF NotSent, Lost
  <2>2. CASE conn[i] = "open"
    <3>1. Deliver(i, command, letter) /\ UNCHANGED <<conn, reply, granted, opener>>
      BY <1>1, <2>2
    <3>2. CASE UNCHANGED <<wants, draft>>
      BY <1>1, <3>1, <3>2 DEF NotSent, socketVars
    <3>3. ASSUME NEW got, wants' = [wants EXCEPT ![i] = Append(@, command)],
                 draft' = [draft EXCEPT ![i] = got]
          PROVE  Sent(i, command, got)
      BY <1>1, <2>2, <3>1, <3>3 DEF Sent
    <3>4. \/ UNCHANGED <<wants, draft>>
          \/ \E got \in {letter} \cup IF command = "BODY" THEN {[letter EXCEPT !.body.line = 4]}
                                        ELSE {} :
               wants' = [wants EXCEPT ![i] = Append(@, command)]
               /\ draft' = [draft EXCEPT ![i] = got]
      BY <3>1, Zenon DEF Deliver
    <3>5. QED
      BY <3>2, <3>3, <3>4, Zenon
  <2>3. QED
    BY <1>1, <2>1, <2>2
<1>2. CASE Close(i) /\ UNCHANGED <<read_fds, write_fds, proc>>
  BY <1>2 DEF NotSent
<1>3. CASE UNCHANGED <<read_fds, write_fds, socketVars>>
  BY <1>3 DEF NotSent
<1>4. QED
  BY <1>1, <1>2, <1>3 DEF Transmit
\* The command a domain has a server answer in each state.
Asks ==
  [init |-> "greeting", connect |-> "greeting", send_helo |-> "HELO",
   send_mail_from |-> "MAIL", send_rcpt_to |-> "RCPT", send_data |-> "DATA",
   send_body |-> "BODY", send_quit |-> "QUIT"]
Sending == DOMAIN Asks \ {"init", "connect"}

LEMMA AsksOf ==
  /\ DOMAIN Asks = {"init", "connect", "send_helo", "send_mail_from", "send_rcpt_to",
                    "send_data", "send_body", "send_quit"}
  /\ Sending = {"send_helo", "send_mail_from", "send_rcpt_to", "send_data", "send_body",
                "send_quit"}
  /\ Asks["init"] = "greeting" /\ Asks["connect"] = "greeting"
  /\ Asks["send_helo"] = "HELO" /\ Asks["send_mail_from"] = "MAIL"
  /\ Asks["send_rcpt_to"] = "RCPT" /\ Asks["send_data"] = "DATA"
  /\ Asks["send_body"] = "BODY" /\ Asks["send_quit"] = "QUIT"
BY DEF Asks, Sending

\* The write half of a visit.  The text moves on, to a letter of new/ or within
\* the one it is in, and what is sent of it is where it was.
Moves(command, letter) ==
  \/ /\ command \in {"HELO", "DATA", "QUIT"} /\ UNCHANGED <<text, files>>
  \/ /\ command = "MAIL"
     /\ \E m \in Mails : /\ files' = [files EXCEPT ![m] = "cur"]
                         /\ \/ text' = Past(text)
                            \/ files[m] = "new" /\ text' = [mail |-> m, line |-> 2]
  \/ command = "RCPT" /\ text' = Past(text) /\ UNCHANGED files
  \/ /\ command = "BODY" /\ letter.body \in {text, [text EXCEPT !.line = 4]}
     /\ letter \in Letters /\ text' = [text EXCEPT !.line = 4] /\ UNCHANGED files

LEMMA send_mail_from_Effect ==
  ASSUME WorkOK, NEW d \in Domains, NEW i \in Fds, descriptors[d].socket = i,
         send_mail_from(d, descriptors[d])
  PROVE  /\ \E letter : Transmit(i, "MAIL", letter) /\ Moves("MAIL", letter)
         /\ \E b \in Mails \cup {NoMail} : Describe(d, [descriptors[d] EXCEPT !.buffer = b])
<1> DEFINE c    == descriptors[d]
           m    == Head(c.mails)
           read == files[m] = "new"
           from == IF read THEN [mail |-> m, line |-> 1] ELSE text
<1>1. c \in Descriptors /\ c.mails # <<>>
  BY DEF WorkOK, send_mail_from
<1>2. c.mails \in Seq(Mails)
  BY <1>1, DescriptorFields
<1>3. m \in Mails
  BY <1>1, <1>2
<1>4. /\ text' = Past(from) /\ files' = [files EXCEPT ![m] = "cur"]
      /\ Describe(d, [c EXCEPT !.buffer = IF read THEN m ELSE NoMail])
      /\ Transmit(i, "MAIL", [NoLetter EXCEPT !.sender = from])
  BY DEF send_mail_from, Renamed
<1>5. Past([mail |-> m, line |-> 1]) = [mail |-> m, line |-> 2]
  BY DEF Past
<1> HIDE DEF c, m, from
<1>6. (IF read THEN m ELSE NoMail) \in Mails \cup {NoMail}
  BY <1>3
<1>7. \/ text' = Past(text)
      \/ files[m] = "new" /\ text' = [mail |-> m, line |-> 2]
  BY <1>4, <1>5 DEF from
<1>8. Moves("MAIL", [NoLetter EXCEPT !.sender = from])
  BY <1>3, <1>4, <1>7 DEF Moves
<1>9. QED
  BY <1>4, <1>6, <1>8 DEF c

LEMMA write_Effect ==
  ASSUME WorkOK, SocketOK, NEW d \in Domains, NEW i \in Fds, descriptors[d].socket = i,
         handle_write_socket(d)
  PROVE  /\ \/ /\ descriptors[d].state \in Sending
               /\ \E letter : /\ Transmit(i, Asks[descriptors[d].state], letter)
                              /\ Moves(Asks[descriptors[d].state], letter)
            \/ UNCHANGED <<socketVars, text, files>> /\ write_fds' \subseteq write_fds
         /\ \E b \in Mails \cup {NoMail} : Describe(d, [descriptors[d] EXCEPT !.buffer = b])
<1> DEFINE c == descriptors[d]
<1>1. c \in Descriptors
  BY DEF WorkOK
<1>2. c.socket = i /\ c = descriptors[d]
  OBVIOUS
<1> HIDE DEF c
<1>3. ASSUME UNCHANGED descriptors
      PROVE  \E b \in Mails \cup {NoMail} : Describe(d, [descriptors[d] EXCEPT !.buffer = b])
  <2>1. c.buffer \in Mails \cup {NoMail} /\ [c EXCEPT !.buffer = c.buffer] = c
    BY <1>1 DEF Descriptors
  <2>2. descriptors' = [descriptors EXCEPT ![d] = c]
    BY <1>2, <1>3 DEF WorkOK
  <2>3. QED
    BY <1>2, <2>1, <2>2 DEF Describe
<1>4. CASE send_mail_from(d, c)
  <2>1. c.state = "send_mail_from"
    BY <1>4 DEF send_mail_from
  <2>2. QED
    BY <1>2, <1>4, <2>1, AsksOf, send_mail_from_Effect
<1>5. CASE send_word(c, "send_helo", "HELO")
  <2>1. /\ c.state = "send_helo" /\ UNCHANGED <<text, files, descriptors>>
        /\ Transmit(i, "HELO", Draft(i))
    BY <1>2, <1>5 DEF send_word
  <2>2. Moves("HELO", Draft(i))
    BY <2>1 DEF Moves
  <2>3. QED
    BY <1>2, <1>3, <2>1, <2>2, AsksOf
<1>6. CASE send_word(c, "send_data", "DATA")
  <2>1. /\ c.state = "send_data" /\ UNCHANGED <<text, files, descriptors>>
        /\ Transmit(i, "DATA", Draft(i))
    BY <1>2, <1>6 DEF send_word
  <2>2. Moves("DATA", Draft(i))
    BY <2>1 DEF Moves
  <2>3. QED
    BY <1>2, <1>3, <2>1, <2>2, AsksOf
<1>7. CASE send_word(c, "send_quit", "QUIT")
  <2>1. /\ c.state = "send_quit" /\ UNCHANGED <<text, files, descriptors>>
        /\ Transmit(i, "QUIT", Draft(i))
    BY <1>2, <1>7 DEF send_word
  <2>2. Moves("QUIT", Draft(i))
    BY <2>1 DEF Moves
  <2>3. QED
    BY <1>2, <1>3, <2>1, <2>2, AsksOf
<1>8. CASE send_rcpt_to(c)
  <2>1. /\ c.state = "send_rcpt_to" /\ UNCHANGED <<files, descriptors>>
        /\ text' = Past(text) /\ Transmit(i, "RCPT", [Draft(i) EXCEPT !.rcpt = text])
    BY <1>2, <1>8 DEF send_rcpt_to
  <2>2. Moves("RCPT", [Draft(i) EXCEPT !.rcpt = text])
    BY <2>1 DEF Moves
  <2>3. QED
    BY <1>2, <1>3, <2>1, <2>2, AsksOf
<1>9. CASE send_msg_body(c)
  <2> DEFINE letter == [Draft(i) EXCEPT !.body = text]
  <2>1. /\ c.state = "send_body" /\ UNCHANGED <<files, descriptors>>
        /\ text' = [text EXCEPT !.line = 4] /\ Transmit(i, "BODY", letter)
    BY <1>2, <1>9 DEF send_msg_body
  <2>2. letter \in Letters /\ letter.body = text
    BY Constants DEF Draft, SocketOK, WorkOK, Letters
  <2> HIDE DEF letter
  <2>3. Moves("BODY", letter)
    BY <2>1, <2>2 DEF Moves
  <2>4. QED
    BY <1>2, <1>3, <2>1, <2>3, AsksOf
<1>10. CASE send_nothing(c) \/ no_token(c)
  <2>1. UNCHANGED <<socketVars, text, files, descriptors>> /\ write_fds' \subseteq write_fds
    BY <1>10 DEF send_nothing, no_token
  <2>2. QED
    BY <1>3, <2>1
<1>11. QED
  BY <1>4, <1>5, <1>6, <1>7, <1>8, <1>9, <1>10 DEF handle_write_socket, c
\* What of a command gets to the server.
LEMMA GotOrNot ==
  ASSUME NEW i \in Fds, NEW command, NEW letter, Transmit(i, command, letter),
         Moves(command, letter)
  PROVE  \/ \E got : Sent(i, command, got) /\ Moves(command, got)
         \/ NotSent(i) /\ write_fds' \subseteq write_fds
<1> DEFINE got == [letter EXCEPT !.body.line = 4]
<1>1. CASE command = "BODY" /\ Sent(i, command, got)
  <2>1. /\ letter.body \in {text, [text EXCEPT !.line = 4]} /\ letter \in Letters
        /\ text' = [text EXCEPT !.line = 4] /\ UNCHANGED files
    BY <1>1 DEF Moves
  <2>2. got \in Letters /\ got.body = [letter.body EXCEPT !.line = 4]
    BY <2>1 DEF Letters, Texts
  <2> HIDE DEF got
  <2>3. letter.body \in Texts
    BY <2>1 DEF Letters
  <2>4. [letter.body EXCEPT !.line = 4] = [text EXCEPT !.line = 4]
    BY <2>1, <2>3 DEF Texts
  <2>5. Moves(command, got)
    BY <1>1, <2>1, <2>2, <2>4 DEF Moves
  <2>6. QED
    BY <1>1, <2>5
<1>2. QED
  BY <1>1, TransmitEffect

\* The read half of a visit.
Read(d, i, r) ==
  LET c  == descriptors[d]
      ev == check_server_code(Response(i))
  IN  /\ Response(i) # Null
      /\ Describe(d, r) /\ r.socket = i
      /\ r.state = Stepped(c, ev) /\ r.state # "invalid"
      /\ r.mails = IF Mailed(c, ev) /\ c.mails # <<>> THEN Tail(c.mails) ELSE c.mails
      /\ Turn(r) /\ text' \in {text, Freed}

LEMMA read_Effect ==
  ASSUME WorkOK, NEW d \in Domains, NEW i \in Fds, descriptors[d].socket = i,
         handle_read_socket(d)
  PROVE  \E r \in Descriptors : Read(d, i, r)
<1> DEFINE c  == descriptors[d]
           ev == check_server_code(Response(c.socket))
           r  == [c EXCEPT !.state = Stepped(c, ev),
                           !.mails = IF Mailed(c, ev) /\ @ # <<>> THEN Tail(@) ELSE @]
<1>1. c \in Descriptors
  BY DEF WorkOK
<1>2. /\ Response(c.socket) # Null /\ Stepped(c, ev) # "invalid" /\ Describe(d, r)
      /\ text' \in {text, Freed} /\ Turn(r)
  BY DEF handle_read_socket
<1>3. /\ r \in Descriptors /\ r.socket = c.socket /\ r.state = Stepped(c, ev)
      /\ r.mails = IF Mailed(c, ev) /\ c.mails # <<>> THEN Tail(c.mails) ELSE c.mails
  BY <1>1, SteppedType
<1>4. c.socket = i
  OBVIOUS
<1> HIDE DEF r
<1>5. QED
  BY <1>2, <1>3, <1>4 DEF Read
-----------------------------------------------------------------------------
(* The list of letters. *)

\* A connection that is no more.
Gone(i) == conn[i] \in {"free", "leaked"}

\* A domain that was connected for a letter has it until the letter is sent.
HasMail(d) ==
  descriptors[d].state \in (Sending \ {"send_quit"}) \cup {"connect"}
    => descriptors[d].mails # <<>>

\* A session that is back in its first state without a letter has closed its
\* connection: no reply can step it again.
Over(d, i) ==
  Holds(d, i) /\ descriptors[d].state = "init" /\ descriptors[d].mails = <<>> => Gone(i)

\* Nothing comes in on a connection that is no more.
Silent(i) == Gone(i) => wants[i] = <<>> /\ reply[i] = ""

Attended ==
  /\ \A d \in Domains : HasMail(d)
  /\ \A d \in Domains, i \in Fds : Over(d, i)
  /\ \A i \in Fds : Silent(i)
\* A step that leaves the records what they are, but for the letter in memory,
\* and frees descriptors at most.
LEMMA AttendedKept ==
  ASSUME Attended, opener' = opener,
         \A d \in Domains : /\ descriptors'[d].state = descriptors[d].state
                            /\ descriptors'[d].mails = descriptors[d].mails
                            /\ descriptors'[d].socket = descriptors[d].socket,
         \A i \in Fds : Gone(i) => Gone(i)',
         \A i \in Fds : Silent(i)'
  PROVE  Attended'
<1>1. \A d \in Domains : HasMail(d)'
  BY DEF Attended, HasMail
<1>2. ASSUME NEW d \in Domains, NEW i \in Fds
      PROVE  Over(d, i)'
  <2>1. Holds(d, i)' => Holds(d, i)
    BY DEF Holds
  <2>2. QED
    BY <2>1 DEF Attended, Over
<1>3. QED
  BY <1>1, <1>2 DEF Attended

LEMMA SameRecords ==
  ASSUME WorkOK, NEW d \in Domains, NEW b \in Mails \cup {NoMail},
         Describe(d, [descriptors[d] EXCEPT !.buffer = b])
  PROVE  \A e \in Domains : /\ descriptors'[e].state = descriptors[e].state
                            /\ descriptors'[e].mails = descriptors[e].mails
                            /\ descriptors'[e].socket = descriptors[e].socket
<1> DEFINE r == [descriptors[d] EXCEPT !.buffer = b]
<1>1. descriptors[d] \in Descriptors
  BY DEF WorkOK
<1>2. /\ r.state = descriptors[d].state /\ r.mails = descriptors[d].mails
      /\ r.socket = descriptors[d].socket
  BY <1>1, DescriptorFields
<1>3. Others(d, r)
  BY Described
<1> HIDE DEF r
<1>4. QED
  BY <1>2, <1>3 DEF Others

\* A closed descriptor, field by field.
LEMMA ClosedFields ==
  ASSUME SocketOK, NEW i \in Fds, Close(i)
  PROVE  /\ conn'[i] = "free" /\ wants'[i] = <<>> /\ reply'[i] = ""
         /\ \A j \in Fds : j # i => /\ conn'[j] = conn[j] /\ wants'[j] = wants[j]
                                    /\ reply'[j] = reply[j]
         /\ opener' = opener /\ granted' = granted /\ draft' = draft
BY DEF SocketOK, Close

LEMMA OpenedFields ==
  ASSUME SocketOK, NEW i \in Fds, NEW d, Open(i, d)
  PROVE  /\ conn'[i] = "open" /\ wants'[i] = <<"greeting">> /\ opener'[i] = d
         /\ \A j \in Fds : j # i => /\ conn'[j] = conn[j] /\ wants'[j] = wants[j]
                                    /\ opener'[j] = opener[j] /\ granted'[j] = granted[j]
                                    /\ draft'[j] = draft[j]
         /\ reply' = reply
BY DEF SocketOK, Open

LEMMA register_Attended ==
  ASSUME WorkOK, SocketOK, Attended, NEW m \in Mails, register_new_email(m)
  PROVE  Attended'
<1>1. PICK d \in Domains, r \in Descriptors :
         Failed(d, r) \/ Queued(d, r) \/ \E i \in Fds, st \in ClientStates : Opened(d, i, r, st)
  BY register_Effect, Zenon
<1>2. Others(d, r)
  BY <1>1, Described DEF Failed, Queued, Opened
<1>3. \A e \in Domains : e # d => HasMail(e)'
  BY <1>2 DEF Attended, HasMail, Others
<1>4. CASE Failed(d, r)
  <2>1. /\ opener' = opener /\ wants' = wants /\ reply' = reply
        /\ \A i \in Fds : Gone(i)' <=> Gone(i)
    BY <1>4 DEF Failed, Leak, Lowest, Gone, socketVars, SocketOK
  <2>2. \A i \in Fds : Silent(i)'
    BY <2>1 DEF Attended, Silent
  <2>3. HasMail(d)'
    BY <1>2, <1>4, AsksOf DEF Failed, Others, HasMail
  <2>4. ASSUME NEW e \in Domains, NEW i \in Fds
        PROVE  Over(e, i)'
    <3>1. CASE e = d
      BY <1>2, <1>4, <3>1 DEF Failed, Others, Over
    <3>2. CASE e # d
      BY <1>2, <2>1, <3>2 DEF Attended, Others, Over, Holds
    <3>3. QED
      BY <3>1, <3>2
  <2>5. QED
    BY <1>3, <2>2, <2>3, <2>4 DEF Attended
<1>5. CASE Queued(d, r)
  <2>1. /\ opener' = opener /\ wants' = wants /\ reply' = reply /\ conn' = conn
    BY <1>5 DEF Queued, socketVars
  <2>2. \A i \in Fds : Silent(i)'
    BY <2>1 DEF Attended, Silent, Gone
  <2>3. HasMail(d)'
    BY <1>2, <1>5 DEF Queued, Others, HasMail
  <2>4. ASSUME NEW e \in Domains, NEW i \in Fds
        PROVE  Over(e, i)'
    <3>1. CASE e = d
      BY <1>2, <1>5, <3>1 DEF Queued, Others, Over
    <3>2. CASE e # d
      BY <1>2, <2>1, <3>2 DEF Attended, Others, Over, Holds, Gone
    <3>3. QED
      BY <3>1, <3>2
  <2>5. QED
    BY <1>3, <2>2, <2>3, <2>4 DEF Attended
<1>6. CASE \E i \in Fds, st \in ClientStates : Opened(d, i, r, st)
  <2>1. PICK i \in Fds : /\ Lowest(i) /\ Open(i, d) /\ r.socket = i /\ r.mails # <<>>
    BY <1>6 DEF Opened
  <2>2. /\ conn'[i] = "open" /\ opener'[i] = d /\ reply' = reply
        /\ \A j \in Fds : j # i => conn'[j] = conn[j] /\ wants'[j] = wants[j]
                                   /\ opener'[j] = opener[j]
    BY <2>1, OpenedFields
  <2>3. \A j \in Fds : Silent(j)'
    BY <2>2 DEF Attended, Silent, Gone
  <2>4. HasMail(d)'
    BY <1>2, <2>1 DEF Others, HasMail
  <2>5. ASSUME NEW e \in Domains, NEW j \in Fds
        PROVE  Over(e, j)'
    <3>1. CASE e = d
      BY <1>2, <2>1, <3>1 DEF Others, Over
    <3>2. CASE e # d /\ j = i
      BY <2>2, <3>2 DEF Over, Holds
    <3>3. CASE e # d /\ j # i
      BY <1>2, <2>2, <3>3 DEF Attended, Others, Over, Holds, Gone
    <3>4. QED
      BY <3>1, <3>2, <3>3
  <2>6. QED
    BY <1>3, <2>3, <2>4, <2>5 DEF Attended
<1>7. QED
  BY <1>1, <1>4, <1>5, <1>6
\* The table, for what handle_read_socket() makes of a reply.
LEMMA SteppedTo ==
  ASSUME NEW c \in Descriptors, NEW ev \in {"OK", "ERROR", "COMMAND_NOT_IMPLEMENTED"},
         Stepped(c, ev) # "invalid"
  PROVE  \/ c.state \in {"done", "invalid"} /\ Stepped(c, ev) = "init"
         \/ c.state \in DOMAIN Advance /\ ev = "ERROR" /\ Stepped(c, ev) = "done"
         \/ c.state \in DOMAIN Advance /\ ev = "OK" /\ Stepped(c, ev) = Advance[c.state]
         \/ /\ c.state = "send_body" /\ Stepped(c, ev) = "send_mail_from"
            /\ Mailed(c, ev) /\ Len(c.mails) > 1
<1> DEFINE several == Mailed(c, ev) /\ Len(c.mails) > 1
<1>1. several => c.state = "send_body" /\ Stepped(c, ev) = client_fsm_step("send_body", "MULTIPLE_EMAILS")
  BY DEF Stepped, Mailed
<1>2. ~several => Stepped(c, ev) = client_fsm_step(c.state, ev)
  BY DEF Stepped
<1>3. client_fsm_step("send_body", "MULTIPLE_EMAILS") = "send_mail_from"
  BY AdvanceOf DEF client_fsm_step
<1> HIDE DEF several
<1>4. CASE several
  BY <1>1, <1>3, <1>4 DEF several
<1>5. CASE ~several
  <2>1. c.state \in ClientStates
    BY DescriptorFields
  <2>2. Stepped(c, ev) = client_fsm_step(c.state, ev)
    BY <1>2, <1>5
  <2>3. \A st \in ClientStates : 
          \/ st \in {"done", "invalid"} /\ client_fsm_step(st, ev) = "init"
          \/ st \in DOMAIN Advance /\ ev = "ERROR" /\ client_fsm_step(st, ev) = "done"
          \/ st \in DOMAIN Advance /\ ev = "OK" /\ client_fsm_step(st, ev) = Advance[st]
          \/ client_fsm_step(st, ev) = "invalid"
    <3>1. CASE ev = "OK"
      BY <3>1, AdvanceOf DEF client_fsm_step, ClientStates
    <3>2. CASE ev = "ERROR"
      <4>1. \A st \in {"done", "invalid"} : client_fsm_step(st, ev) = "init"
        BY <3>2 DEF client_fsm_step
      <4>2. \A st \in ClientStates \ {"done", "invalid"} : client_fsm_step(st, ev) = "done"
        BY <3>2, Zenon DEF client_fsm_step
      <4>3. \A st \in ClientStates : st \in {"done", "invalid"} \/ st \in DOMAIN Advance
        BY AdvanceOf DEF ClientStates
      <4>4. QED
        BY <3>2, <4>1, <4>2, <4>3
    <3>3. CASE ev = "COMMAND_NOT_IMPLEMENTED"
      BY <3>3, AdvanceOf DEF client_fsm_step, ClientStates
    <3>4. QED
      BY <3>1, <3>2, <3>3
  <2>4. QED
    BY <2>1, <2>2, <2>3
<1>6. QED
  BY <1>4, <1>5

LEMMA EventIs ==
  \A response : check_server_code(response) \in {"OK", "ERROR", "COMMAND_NOT_IMPLEMENTED"}
BY DEF check_server_code

LEMMA TailLeft ==
  ASSUME NEW S, NEW l \in Seq(S), Len(l) > 1
  PROVE  l # <<>> /\ Tail(l) # <<>>
<1>1. Len(<<>>) = 0 /\ l # <<>>
  OBVIOUS
<1>2. Tail(l) \in Seq(S) /\ Len(Tail(l)) = Len(l) - 1
  BY <1>1
<1>3. Len(Tail(l)) # 0
  BY <1>2
<1>4. QED
  BY <1>1, <1>3

LEMMA MailsLeft ==
  ASSUME NEW d \in Domains, NEW i \in Fds, WorkOK, NEW r \in Descriptors, Read(d, i, r),
         HasMail(d), descriptors[d].state = "init" => descriptors[d].mails # <<>>
  PROVE  r.state \in (Sending \ {"send_quit"}) \cup {"connect"} => r.mails # <<>>
<1> DEFINE c  == descriptors[d]
           ev == check_server_code(Response(i))
<1>1. c \in Descriptors /\ ev \in {"OK", "ERROR", "COMMAND_NOT_IMPLEMENTED"}
  BY EventIs DEF WorkOK
<1>2. /\ r.state = Stepped(c, ev) /\ r.state # "invalid"
      /\ r.mails = IF Mailed(c, ev) /\ c.mails # <<>> THEN Tail(c.mails) ELSE c.mails
  BY DEF Read
<1>3. c.state \in (Sending \ {"send_quit"}) \cup {"connect"} => c.mails # <<>>
  BY DEF HasMail
<1>4. c.state = "init" => c.mails # <<>>
  OBVIOUS
<1> HIDE DEF c, ev
<1>5. CASE c.state \in {"done", "invalid"} /\ r.state = "init"
  BY <1>5, AsksOf
<1>6. CASE r.state = "done"
  BY <1>6, AsksOf
<1>7. CASE c.state \in DOMAIN Advance /\ r.state = Advance[c.state]
  <2>1. CASE c.state \in {"send_body", "send_quit"}
    BY <1>7, <2>1, AdvanceOf, AsksOf
  <2>2. CASE c.state \notin {"send_body", "send_quit"}
    <3>1. ~Mailed(c, ev)
      BY <2>2 DEF Mailed
    <3>2. c.state = "init" \/ c.state \in (Sending \ {"send_quit"}) \cup {"connect"}
      BY <1>7, <2>2, AdvanceOf, AsksOf
    <3>3. QED
      BY <1>2, <1>3, <1>4, <3>1, <3>2
  <2>3. QED
    BY <2>1, <2>2
<1>8. CASE Mailed(c, ev) /\ Len(c.mails) > 1
  <2>1. c.mails \in Seq(Mails)
    BY <1>1, DescriptorFields
  <2>2. c.mails # <<>> /\ Tail(c.mails) # <<>>
    BY <1>8, <2>1, TailLeft
  <2>3. QED
    BY <1>2, <1>8, <2>2
<1>9. QED
  BY <1>1, <1>2, <1>5, <1>6, <1>7, <1>8, SteppedTo

LEMMA TurnEffect ==
  ASSUME SocketOK, NEW i \in Fds, NEW r, r.socket = i, Turn(r)
  PROVE  /\ opener' = opener /\ granted' = granted /\ draft' = draft
         /\ reply'[i] = ""
         /\ \A j \in Fds : j # i => /\ conn'[j] = conn[j] /\ wants'[j] = wants[j]
                                    /\ reply'[j] = reply[j]
         /\ \/ r.state = "init" /\ conn'[i] = "free" /\ wants'[i] = <<>>
               /\ write_fds' = write_fds \ {i}
            \/ r.state # "init" /\ conn'[i] = conn[i] /\ wants'[i] = wants[i]
               /\ write_fds' = write_fds \cup {i}
<1>1. CASE r.state = "init" /\ Close(i) /\ write_fds' = write_fds \ {i}
  BY <1>1, ClosedFields
<1>2. CASE /\ r.state # "init" /\ write_fds' = write_fds \cup {i}
           /\ reply' = [reply EXCEPT ![i] = ""]
           /\ UNCHANGED <<conn, wants, draft, granted, opener>>
  BY <1>2 DEF SocketOK
<1>3. QED
  BY <1>1, <1>2 DEF Turn

LEMMA Read_Attended ==
  ASSUME WorkOK, SocketOK, Attended, NEW d \in Domains, NEW i \in Fds, Holds(d, i),
         NEW r \in Descriptors, Read(d, i, r)
  PROVE  Attended'
<1>1. Others(d, r) /\ r.socket = i /\ Turn(r)
  BY Described DEF Read
<1>2. ~Gone(i)
  <2>1. reply[i] # "" \/ conn[i] = "fin"
    BY ResponseFrom DEF Read
  <2>2. QED
    BY <2>1 DEF Attended, Silent, Gone
<1>3. descriptors[d].state = "init" => descriptors[d].mails # <<>>
  BY <1>2 DEF Attended, Over
<1>4. HasMail(d)'
  BY <1>1, <1>3, MailsLeft DEF Attended, HasMail, Others
<1>5. \A e \in Domains : e # d => HasMail(e)'
  BY <1>1 DEF Attended, HasMail, Others
<1>6. /\ opener' = opener /\ reply'[i] = ""
      /\ \A j \in Fds : j # i => conn'[j] = conn[j] /\ wants'[j] = wants[j]
                                 /\ reply'[j] = reply[j]
      /\ \/ r.state = "init" /\ conn'[i] = "free" /\ wants'[i] = <<>>
         \/ r.state # "init" /\ conn'[i] = conn[i] /\ wants'[i] = wants[i]
  BY <1>1, TurnEffect
<1>7. ASSUME NEW j \in Fds
      PROVE  Silent(j)'
  BY <1>6 DEF Attended, Silent, Gone
<1>8. ASSUME NEW e \in Domains, NEW j \in Fds
      PROVE  Over(e, j)'
  <2>1. CASE e = d /\ j = i
    BY <1>1, <1>6, <2>1 DEF Others, Over, Gone
  <2>2. CASE e = d /\ j # i
    BY <1>1, <2>2 DEF Others, Over, Holds
  <2>3. CASE e # d
    <3>1. Over(e, j) /\ (Holds(e, j)' => Holds(e, j))
      BY <1>1, <1>6, <2>3 DEF Attended, Others, Holds
    <3>2. Gone(j) => Gone(j)'
      BY <1>6 DEF Gone
    <3>3. QED
      BY <1>1, <2>3, <3>1, <3>2 DEF Others, Over
  <2>4. QED
    BY <2>1, <2>2, <2>3
<1>9. QED
  BY <1>4, <1>5, <1>7, <1>8 DEF Attended

LEMMA SentFields ==
  ASSUME SocketOK, NEW i \in Fds, NEW command, NEW letter, Sent(i, command, letter)
  PROVE  /\ conn' = conn /\ reply' = reply /\ granted' = granted /\ opener' = opener
         /\ wants'[i] = Append(wants[i], command) /\ draft'[i] = letter
         /\ \A j \in Fds : j # i => wants'[j] = wants[j] /\ draft'[j] = draft[j]
BY DEF SocketOK, Sent

LEMMA NotSentFields ==
  ASSUME SocketOK, NEW i \in Fds, NotSent(i)
  PROVE  /\ opener' = opener /\ granted' = granted /\ draft' = draft
         /\ \A j \in Fds :
              \/ conn'[j] = "free" /\ wants'[j] = <<>> /\ reply'[j] = ""
              \/ /\ wants'[j] = wants[j] /\ reply'[j] = reply[j]
                 /\ conn'[j] = conn[j] \/ (conn[j] = "fin" /\ conn'[j] = "rst")
<1>1. CASE Lost(i)
  BY <1>1 DEF Lost, SocketOK
<1>2. CASE Close(i)
  BY <1>2, ClosedFields
<1>3. CASE UNCHANGED socketVars
  BY <1>3 DEF socketVars
<1>4. QED
  BY <1>1, <1>2, <1>3 DEF NotSent

LEMMA write_Attended ==
  ASSUME WorkOK, SocketOK, Attended, NEW d \in Domains, NEW i \in Fds, Holds(d, i),
         handle_write_socket(d)
  PROVE  Attended'
<1>1. descriptors[d].socket = i
  BY DEF Holds
<1>2. /\ \/ \E command, letter : Sent(i, command, letter)
         \/ NotSent(i)
      /\ \E b \in Mails \cup {NoMail} : Describe(d, [descriptors[d] EXCEPT !.buffer = b])
  BY <1>1, write_Effect, TransmitEffect DEF NotSent
<1>3. \A e \in Domains : /\ descriptors'[e].state = descriptors[e].state
                         /\ descriptors'[e].mails = descriptors[e].mails
                         /\ descriptors'[e].socket = descriptors[e].socket
  BY <1>2, SameRecords
<1>4. CASE \E command, letter : Sent(i, command, letter)
  <2>1. PICK command, letter : Sent(i, command, letter)
    BY <1>4
  <2>2. conn[i] = "open" /\ conn' = conn /\ reply' = reply /\ opener' = opener
        /\ \A j \in Fds : j # i => wants'[j] = wants[j]
    BY <2>1, SentFields DEF Sent
  <2>3. \A j \in Fds : Silent(j)' /\ (Gone(j) => Gone(j)')
    BY <2>2 DEF Attended, Silent, Gone
  <2>4. QED
    BY <1>3, <2>2, <2>3, AttendedKept
<1>5. CASE NotSent(i)
  <2>1. /\ opener' = opener
        /\ \A j \in Fds :
              \/ conn'[j] = "free" /\ wants'[j] = <<>> /\ reply'[j] = ""
              \/ /\ wants'[j] = wants[j] /\ reply'[j] = reply[j]
                 /\ conn'[j] = conn[j] \/ (conn[j] = "fin" /\ conn'[j] = "rst")
    BY <1>5, NotSentFields
  <2>2. \A j \in Fds : Silent(j)' /\ (Gone(j) => Gone(j)')
    BY <2>1 DEF Attended, Silent, Gone
  <2>3. QED
    BY <1>3, <2>1, <2>2, AttendedKept
<1>6. QED
  BY <1>2, <1>4, <1>5

LEMMA server_Attended ==
  ASSUME SocketOK, Attended, NEW i \in Fds, server_replies(i) \/ server_hangs_up(i)
  PROVE  Attended'
<1>1. /\ descriptors' = descriptors /\ opener' = opener
      /\ conn[i] \in {"open", "fin"}
      /\ conn'[i] \notin {"free", "leaked"}
      /\ \A j \in Fds : j # i => /\ conn'[j] = conn[j] /\ wants'[j] = wants[j]
                                 /\ reply'[j] = reply[j]
  BY DEF server_replies, server_hangs_up, SocketOK, workVars
<1>2. \A j \in Fds : Silent(j)' /\ (Gone(j) => Gone(j)')
  BY <1>1 DEF Attended, Silent, Gone
<1>3. QED
  BY <1>1, <1>2, AttendedKept
\* Steps that leave the sessions and the connections alone.
Idle == UNCHANGED <<descriptors, text, files, socketVars, write_fds, accepted, misbegun>>

\* A step of the process serves the domain that holds the descriptor, or it
\* takes a letter; the others are a server's, or leave the sessions alone.
LEMMA StepIs ==
  ASSUME TypeOK, Found, [Next]_vars, ~mixed'
  PROVE  /\ ~mixed
         /\ \/ Idle
            \/ \E m \in Mails : /\ register_new_email(m)
                                /\ UNCHANGED <<files, write_fds, accepted>>
            \/ \E d \in Domains, i \in Fds, r \in Descriptors :
                 Holds(d, i) /\ Read(d, i, r) /\ UNCHANGED <<files, accepted, misbegun>>
            \/ \E d \in Domains, i \in Fds :
                 /\ Holds(d, i) /\ i \in write_fds /\ handle_write_socket(d)
                 /\ UNCHANGED <<accepted, misbegun>>
            \/ \E i \in Fds : server_replies(i) /\ UNCHANGED misbegun
            \/ \E i \in Fds : server_hangs_up(i) /\ UNCHANGED <<accepted, misbegun>>
<1>1. CASE take_message
  <2>1. ~mixed /\ UNCHANGED accepted
    BY <1>1 DEF take_message, otherVars
  <2>2. CASE mq = <<>>
    BY <1>1, <2>1, <2>2 DEF take_message, Idle, workVars, setVars
  <2>3. CASE mq # <<>>
    <3>1. Head(mq) \in Mails
      BY <2>3, TypeParts DEF QueueOK
    <3>2. QED
      BY <1>1, <2>1, <2>3, <3>1 DEF take_message
  <2>4. QED
    BY <2>2, <2>3
<1>2. CASE select_fails \/ select_returns \/ next_iteration
  BY <1>2 DEF select_fails, select_returns, next_iteration, Idle, workVars, setVars, otherVars
<1>3. ASSUME NEW m \in Mails, master_sends(m)
      PROVE  ~mixed /\ Idle
  BY <1>3 DEF master_sends, Idle, workVars, setVars
<1>4. ASSUME NEW i \in Fds, visit_read(i)
      PROVE  /\ ~mixed
             /\ \/ Idle
                \/ \E d \in Domains, r \in Descriptors :
                     Holds(d, i) /\ Read(d, i, r) /\ UNCHANGED <<files, accepted, misbegun>>
  <2>1. /\ ~mixed /\ UNCHANGED <<files, accepted, misbegun>> /\ (i \in read_fds => Holds(Owner(i), i))
        /\ \/ UNCHANGED <<descriptors, text, setVars, socketVars>>
           \/ i \in read_fds /\ handle_read_socket(Owner(i))
    BY <1>4 DEF visit_read
  <2>2. CASE UNCHANGED <<descriptors, text, setVars, socketVars>>
    BY <2>1, <2>2 DEF Idle, setVars
  <2>3. CASE i \in read_fds /\ handle_read_socket(Owner(i))
    <3>1. Holds(Owner(i), i) /\ Owner(i) \in Domains /\ descriptors[Owner(i)].socket = i
      BY <2>1, <2>3 DEF Holds
    <3>2. WorkOK
      BY TypeParts
    <3>3. \E r \in Descriptors : Read(Owner(i), i, r)
      BY <2>3, <3>1, <3>2, read_Effect
    <3>4. QED
      BY <2>1, <3>1, <3>3
  <2>4. QED
    BY <2>1, <2>2, <2>3
<1>5. ASSUME NEW i \in Fds, visit_write(i)
      PROVE  /\ ~mixed
             /\ \/ Idle
                \/ \E d \in Domains : /\ Holds(d, i) /\ i \in write_fds
                                      /\ handle_write_socket(d)
                                      /\ UNCHANGED <<accepted, misbegun>>
  <2>1. /\ ~mixed /\ UNCHANGED <<accepted, misbegun>> /\ (i \in write_fds => Holds(cur_mail_domain, i))
        /\ IF i \in write_fds THEN handle_write_socket(cur_mail_domain)
           ELSE UNCHANGED <<proc, text, files, descriptors, setVars, socketVars>>
    BY <1>5 DEF visit_write
  <2>2. CASE i \in write_fds
    BY <2>1, <2>2 DEF Holds
  <2>3. CASE i \notin write_fds
    BY <2>1, <2>3 DEF Idle, setVars
  <2>4. QED
    BY <2>2, <2>3
<1>6. ASSUME NEW i \in Fds, server_replies(i) \/ server_hangs_up(i)
      PROVE  /\ ~mixed
             /\ UNCHANGED misbegun
             /\ server_replies(i) \/ (server_hangs_up(i) /\ UNCHANGED accepted)
  <2>1. CASE server_replies(i)
    BY <2>1, Zenon DEF server_replies, workVars
  <2>2. CASE server_hangs_up(i)
    BY <2>2 DEF server_hangs_up, otherVars, workVars
  <2>3. QED
    BY <1>6, <2>1, <2>2
<1>7. CASE UNCHANGED vars
  BY <1>7 DEF vars, workVars, setVars, otherVars, Idle
<1>8. CASE Next
  BY <1>1, <1>2, <1>3, <1>4, <1>5, <1>6, <1>8, Zenon DEF Next, worker, servers
<1>9. QED
  BY <1>7, <1>8

LEMMA NextAttended ==
  ASSUME TypeOK, Found, ~mixed => Attended, [Next]_vars, ~mixed'
  PROVE  Attended'
<1>1. WorkOK /\ SocketOK /\ Attended
  BY StepIs, TypeParts
<1>2. CASE Idle
  <2>1. /\ opener' = opener /\ descriptors' = descriptors /\ conn' = conn /\ wants' = wants
        /\ reply' = reply
    BY <1>2 DEF Idle, socketVars
  <2>2. \A i \in Fds : Silent(i)' /\ (Gone(i) => Gone(i)')
    BY <1>1, <2>1 DEF Attended, Silent, Gone
  <2>3. QED
    BY <1>1, <2>1, <2>2, AttendedKept
<1>3. CASE \E m \in Mails : register_new_email(m)
  BY <1>1, <1>3, register_Attended
<1>4. CASE \E d \in Domains, i \in Fds, r \in Descriptors : Holds(d, i) /\ Read(d, i, r)
  BY <1>1, <1>4, Read_Attended
<1>5. CASE \E d \in Domains, i \in Fds : Holds(d, i) /\ handle_write_socket(d)
  BY <1>1, <1>5, write_Attended
<1>6. CASE \E i \in Fds : server_replies(i) \/ server_hangs_up(i)
  BY <1>1, <1>6, server_Attended
<1>7. QED
  BY <1>2, <1>3, <1>4, <1>5, <1>6, StepIs

LEMMA InitAttended == Init => Attended
<1> SUFFICES ASSUME Init
             PROVE  Attended
  OBVIOUS
<1>1. \A d \in Domains : HasMail(d)
  BY AsksOf DEF Init, HasMail, NoDescriptor
<1>2. /\ \A d \in Domains, i \in Fds : Over(d, i)
      /\ \A i \in Fds : Silent(i)
  BY DEF Init, Over, Silent, Gone
<1>3. QED
  BY <1>1, <1>2 DEF Attended

\* The list of a domain holds a letter from the connection on, until the reply
\* to the body: send_msg_to_server() and handle_read_socket() take a head that
\* is there, whatever the servers refuse, close, reset or never answer.
THEOREM ListHoldsLetter == Spec => []HeadPresent
<1>1. Init => TypeOK /\ Found /\ (~mixed => Attended)
  BY InitType, InitAttended
<1>2. TypeOK /\ Found /\ (~mixed => Attended) /\ [Next]_vars
        => TypeOK' /\ Found' /\ (~mixed => Attended)'
  BY NextType, NextAttended
<1>3. (~mixed => Attended) => HeadPresent
  BY AsksOf DEF Attended, HasMail, HeadPresent
<1>4. QED
  BY <1>1, <1>2, <1>3, PTL DEF Spec
-----------------------------------------------------------------------------
(* The dialogue.  What a session is waiting for follows from its state, for   *)
(* the domains whose sessions do not start in the middle of a dialogue.      *)

LEMMA FreshAwaits == \A st \in Fresh : client_fsm_step(st, "OK") \in {"init", "connect"}
BY AdvanceOf DEF client_fsm_step, Fresh

\* A server owes the answer to what the state sent, or the answer has come, or
\* it was read and the next command may be sent.  While an answer is due the
\* descriptor may be in write_fds only in the states that send nothing.
Due(i, st) ==
  /\ st \in DOMAIN Asks
  /\ i \in write_fds => st \notin Sending

Asking(i, st)   == Due(i, st) /\ wants[i] = <<Asks[st]>> /\ reply[i] = ""
Answered(i, st) ==
  /\ Due(i, st) /\ wants[i] = <<>> /\ reply[i] # ""
  /\ reply[i] = "positive" => granted[i] = Asks[st]
  /\ reply[i] = "not implemented" => granted[i] = "not implemented"
Free(i, st) ==
  /\ wants[i] = <<>> /\ reply[i] = ""
  /\ st \in Sending => Asks[st] \in Follows(granted[i])

InStep(d, i) ==
  d \notin misbegun /\ Holds(d, i) /\ conn[i] = "open" =>
    LET st == descriptors[d].state
    IN  Asking(i, st) \/ Answered(i, st) \/ Free(i, st)

OneAsked(i) == opener[i] \notin misbegun => Len(wants[i]) <= 1

Stepwise ==
  /\ \A d \in Domains, i \in Fds : InStep(d, i)
  /\ \A i \in Fds : OneAsked(i)

\* A session that is as it was stays in step, if nothing new is to be written.
LEMMA InStepKept ==
  ASSUME NEW d \in Domains, NEW i \in Fds, InStep(d, i), opener'[i] = opener[i],
         descriptors'[d].state = descriptors[d].state,
         descriptors'[d].socket = descriptors[d].socket,
         wants'[i] = wants[i], reply'[i] = reply[i], granted'[i] = granted[i],
         conn'[i] = "open" => conn[i] = "open",
         i \in write_fds' => i \in write_fds, misbegun \subseteq misbegun'
  PROVE  InStep(d, i)'
<1> DEFINE st == descriptors[d].state
<1>1. SUFFICES ASSUME d \notin misbegun', Holds(d, i)', conn'[i] = "open"
               PROVE  Asking(i, st)' \/ Answered(i, st)' \/ Free(i, st)'
  BY DEF InStep
<1>2. Asking(i, st) \/ Answered(i, st) \/ Free(i, st)
  BY <1>1 DEF Holds, InStep
<1>3. QED
  BY <1>2 DEF Asking, Answered, Free, Due
LEMMA register_Stepwise ==
  ASSUME WorkOK, SocketOK, Attended, Stepwise,
         NEW m \in Mails, register_new_email(m), write_fds' = write_fds
  PROVE  Stepwise'
<1>0. misbegun \subseteq misbegun'
  BY register_Effect
<1>1. PICK d \in Domains, r \in Descriptors :
         \/ Failed(d, r) \/ Queued(d, r)
         \/ \E i \in Fds, st \in ClientStates :
              /\ Opened(d, i, r, st)
              /\ \/ st \in Fresh \/ d \in misbegun'
                 \/ st = descriptors[d].state /\ (descriptors[d].mails = <<>> \/ st = "init")
  BY register_Effect, Zenon
<1>2. Others(d, r)
  BY <1>1, Described DEF Failed, Queued, Opened
<1>3. CASE Failed(d, r)
  <2>1. /\ opener' = opener /\ wants' = wants /\ reply' = reply /\ granted' = granted
        /\ \A i \in Fds : conn'[i] = "open" => conn[i] = "open"
    BY <1>3 DEF Failed, Leak, Lowest, socketVars, SocketOK
  <2>2. ASSUME NEW e \in Domains, NEW i \in Fds
        PROVE  InStep(e, i)'
    <3>1. CASE e = d
      <4>1. ~Holds(e, i)'
        BY <1>2, <1>3, <3>1, Constants DEF Failed, Others, Holds
      <4>2. QED
        BY <4>1 DEF InStep
    <3>2. CASE e # d
      <4>1. descriptors'[e] = descriptors[e] /\ InStep(e, i)
        BY <1>2, <3>2 DEF Others, Stepwise
      <4>2. QED
        BY <1>0, <2>1, <4>1, InStepKept
    <3>3. QED
      BY <3>1, <3>2
  <2>3. QED
    BY <1>0, <2>1, <2>2 DEF Stepwise, OneAsked
<1>4. CASE Queued(d, r)
  <2>1. /\ opener' = opener /\ wants' = wants /\ reply' = reply /\ conn' = conn
        /\ granted' = granted
    BY <1>4 DEF Queued, socketVars
  <2>2. ASSUME NEW e \in Domains, NEW i \in Fds
        PROVE  InStep(e, i)'
    <3>1. /\ descriptors'[e].state = descriptors[e].state
          /\ descriptors'[e].socket = descriptors[e].socket /\ InStep(e, i)
      BY <1>2, <1>4 DEF Others, Queued, Stepwise
    <3>2. QED
      BY <1>0, <2>1, <3>1, InStepKept
  <2>3. QED
    BY <1>0, <2>1, <2>2 DEF Stepwise, OneAsked
<1>5. CASE \E i \in Fds, st \in ClientStates :
             /\ Opened(d, i, r, st)
             /\ \/ st \in Fresh \/ d \in misbegun'
                \/ st = descriptors[d].state /\ (descriptors[d].mails = <<>> \/ st = "init")
  <2>1. PICK i \in Fds, st \in ClientStates :
             /\ Opened(d, i, r, st)
             /\ \/ st \in Fresh \/ d \in misbegun'
                \/ st = descriptors[d].state /\ (descriptors[d].mails = <<>> \/ st = "init")
    BY <1>5
  <2>2. /\ Lowest(i) /\ Open(i, d) /\ r.socket = i /\ r.state = client_fsm_step(st, "OK")
    BY <2>1 DEF Opened
  <2>3. st \in Fresh \/ d \in misbegun'
    <3>1. CASE st = descriptors[d].state /\ descriptors[d].mails = <<>>
      <4>1. st \notin (Sending \ {"send_quit"}) \cup {"connect"}
        BY <3>1 DEF Attended, HasMail
      <4>2. QED
        BY <4>1, AsksOf DEF Fresh, ClientStates
    <3>2. QED
      BY <2>1, <3>1 DEF Fresh
  <2>4. d \notin misbegun' => r.state \in {"init", "connect"}
    BY <2>2, <2>3, FreshAwaits
  <2>5. /\ conn'[i] = "open" /\ opener'[i] = d /\ reply' = reply
        /\ wants'[i] = <<"greeting">>
        /\ \A j \in Fds : j # i => conn'[j] = conn[j] /\ wants'[j] = wants[j]
                                   /\ opener'[j] = opener[j] /\ granted'[j] = granted[j]
    BY <2>2, OpenedFields
  <2>6. reply'[i] = ""
    BY <2>2, <2>5 DEF Attended, Silent, Gone, Lowest
  <2>7. d \notin misbegun' => Asking(i, r.state)'
    <3> SUFFICES ASSUME d \notin misbegun'
                 PROVE  Asking(i, r.state)'
      OBVIOUS
    <3>1. r.state \in DOMAIN Asks /\ Asks[r.state] = "greeting" /\ r.state \notin Sending
      BY <2>4, AsksOf
    <3>2. wants'[i] = <<Asks[r.state]>>
      BY <2>5, <3>1
    <3>3. QED
      BY <2>6, <3>1, <3>2 DEF Asking, Due
  <2>8. ASSUME NEW e \in Domains, NEW j \in Fds
        PROVE  InStep(e, j)'
    <3>1. CASE e = d /\ j = i
      <4>1. descriptors'[e].state = r.state
        BY <1>2, <3>1 DEF Others
      <4>2. QED
        BY <2>7, <3>1, <4>1 DEF InStep, Asking, Due
    <3>2. CASE (e = d /\ j # i) \/ (e # d /\ j = i)
      <4>1. ~Holds(e, j)'
        BY <1>2, <2>2, <2>5, <3>2 DEF Others, Holds
      <4>2. QED
        BY <4>1 DEF InStep
    <3>3. CASE e # d /\ j # i
      <4>1. descriptors'[e] = descriptors[e] /\ InStep(e, j)
        BY <1>2, <3>3 DEF Others, Stepwise
      <4>2. QED
        BY <1>0, <2>5, <3>3, <4>1, InStepKept
    <3>4. QED
      BY <3>1, <3>2, <3>3
  <2>9. ASSUME NEW j \in Fds
        PROVE  OneAsked(j)'
    <3>1. Len(<<"greeting">>) <= 1
      OBVIOUS
    <3>2. QED
      BY <1>0, <2>5, <3>1 DEF Stepwise, OneAsked
  <2>10. QED
    BY <2>8, <2>9 DEF Stepwise
<1>6. QED
  BY <1>1, <1>3, <1>4, <1>5
LEMMA CodeIs ==
  \A response : /\ check_server_code(response) = "OK" => response = "positive"
                /\ check_server_code(response) = "COMMAND_NOT_IMPLEMENTED"
                     => response = "not implemented"
BY DEF check_server_code

\* What the state machine has sent next is what SMTP has follow.
LEMMA NextFollows ==
  /\ \A st \in DOMAIN Asks : Advance[st] \in Sending => Asks[Advance[st]] \in Follows(Asks[st])
  /\ Asks["send_mail_from"] \in Follows(Asks["send_body"])
  /\ Asks["send_mail_from"] \in Follows("not implemented")
<1>1. /\ "HELO" \in Follows("greeting") /\ "MAIL" \in Follows("HELO")
      /\ "RCPT" \in Follows("MAIL") /\ "DATA" \in Follows("RCPT")
      /\ "BODY" \in Follows("DATA") /\ "QUIT" \in Follows("BODY")
      /\ "MAIL" \in Follows("BODY") /\ "MAIL" \in Follows("not implemented")
  BY DEF Follows
<1>2. ASSUME NEW st \in DOMAIN Asks
      PROVE  \/ Advance[st] \notin Sending
             \/ st = "connect" /\ Advance[st] = "send_helo"
             \/ st = "send_helo" /\ Advance[st] = "send_mail_from"
             \/ st = "send_mail_from" /\ Advance[st] = "send_rcpt_to"
             \/ st = "send_rcpt_to" /\ Advance[st] = "send_data"
             \/ st = "send_data" /\ Advance[st] = "send_body"
             \/ st = "send_body" /\ Advance[st] = "send_quit"
  BY AdvanceOf, AsksOf
<1>3. QED
  BY <1>1, <1>2, AsksOf

LEMMA ReadAnswer ==
  ASSUME WorkOK, NEW d \in Domains, NEW i \in Fds, conn[i] = "open",
         Answered(i, descriptors[d].state),
         NEW r \in Descriptors, Read(d, i, r), r.state \in Sending
  PROVE  Asks[r.state] \in Follows(granted[i])
<1> DEFINE c  == descriptors[d]
           ev == check_server_code(Response(i))
<1>1. c \in Descriptors /\ ev \in {"OK", "ERROR", "COMMAND_NOT_IMPLEMENTED"}
  BY EventIs DEF WorkOK
<1>2. Response(i) = reply[i]
  BY DEF Answered, Response, Read, Null
<1>3. /\ c.state \in DOMAIN Asks
      /\ reply[i] = "positive" => granted[i] = Asks[c.state]
      /\ reply[i] = "not implemented" => granted[i] = "not implemented"
  BY DEF Answered, Due
<1>4. r.state = Stepped(c, ev) /\ r.state # "invalid"
  BY DEF Read
<1>5. ev = "OK" => granted[i] = Asks[c.state]
  BY <1>2, <1>3, CodeIs
<1>6. ev = "COMMAND_NOT_IMPLEMENTED" => granted[i] = "not implemented"
  BY <1>2, <1>3, CodeIs
<1> HIDE DEF c, ev
<1>7. r.state \notin {"init", "done"}
  BY AsksOf
<1>8. CASE ev = "OK" /\ r.state = Advance[c.state]
  BY <1>3, <1>5, <1>8, NextFollows
<1>9. CASE c.state = "send_body" /\ r.state = "send_mail_from" /\ Mailed(c, ev)
  <2>1. ev \in {"OK", "COMMAND_NOT_IMPLEMENTED"}
    BY <1>1, <1>9 DEF Mailed
  <2>2. QED
    BY <1>5, <1>6, <1>9, <2>1, NextFollows
<1>10. QED
  BY <1>1, <1>4, <1>7, <1>8, <1>9, SteppedTo

LEMMA Read_Stepwise ==
  ASSUME WorkOK, SocketOK, Attended, Stepwise, NEW d \in Domains, NEW i \in Fds, Holds(d, i),
         NEW r \in Descriptors, Read(d, i, r), misbegun' = misbegun
  PROVE  Stepwise'
<1>1. Others(d, r) /\ r.socket = i /\ Turn(r)
  BY Described DEF Read
<1>2. /\ opener' = opener /\ granted' = granted /\ reply'[i] = ""
      /\ \A j \in Fds : j # i => conn'[j] = conn[j] /\ wants'[j] = wants[j]
                                 /\ reply'[j] = reply[j]
      /\ \/ r.state = "init" /\ conn'[i] = "free" /\ wants'[i] = <<>>
            /\ write_fds' = write_fds \ {i}
         \/ r.state # "init" /\ conn'[i] = conn[i] /\ wants'[i] = wants[i]
            /\ write_fds' = write_fds \cup {i}
  BY <1>1, TurnEffect
<1>3. conn'[i] = "open" /\ d \notin misbegun => Free(i, r.state)'
  <2> SUFFICES ASSUME conn'[i] = "open", d \notin misbegun
               PROVE  Free(i, r.state)'
    OBVIOUS
  <2>1. conn[i] = "open" /\ wants'[i] = wants[i]
    BY <1>2
  <2>2. reply[i] # ""
    BY <2>1, ResponseFrom DEF Read
  <2>3. Answered(i, descriptors[d].state)
    BY <2>1, <2>2 DEF Stepwise, InStep, Asking, Free
  <2>4. r.state \in Sending => Asks[r.state] \in Follows(granted[i])
    BY <2>1, <2>3, ReadAnswer
  <2>5. wants'[i] = <<>> /\ reply'[i] = "" /\ granted'[i] = granted[i]
    BY <1>2, <2>1, <2>3 DEF Answered
  <2>6. QED
    BY <2>4, <2>5 DEF Free
<1>4. ASSUME NEW e \in Domains, NEW j \in Fds
      PROVE  InStep(e, j)'
  <2>1. CASE e = d /\ j = i
    <3>1. descriptors'[e].state = r.state
      BY <1>1, <2>1 DEF Others
    <3>2. QED
      BY <1>3, <2>1, <3>1 DEF InStep, Free
  <2>2. CASE (e = d /\ j # i) \/ (e # d /\ j = i)
    <3>1. ~Holds(e, j)'
      BY <1>1, <1>2, <2>2 DEF Others, Holds
    <3>2. QED
      BY <3>1 DEF InStep
  <2>3. CASE e # d /\ j # i
    <3>1. descriptors'[e] = descriptors[e] /\ InStep(e, j)
      BY <1>1, <2>3 DEF Others, Stepwise
    <3>2. QED
      BY <1>2, <2>3, <3>1, InStepKept
  <2>4. QED
    BY <2>1, <2>2, <2>3
<1>5. ASSUME NEW j \in Fds
      PROVE  OneAsked(j)'
  <2>1. Len(<<>>) <= 1
    OBVIOUS
  <2>2. wants'[j] = wants[j] \/ wants'[j] = <<>>
    BY <1>2
  <2>3. QED
    BY <1>2, <2>1, <2>2 DEF Stepwise, OneAsked
<1>6. QED
  BY <1>4, <1>5 DEF Stepwise
LEMMA Singletons ==
  /\ \A x : Head(<<x>>) = x /\ Tail(<<x>>) = <<>> /\ Append(<<>>, x) = <<x>>
  /\ \A S : \A l \in Seq(S) : l # <<>> /\ Len(l) <= 1 => Tail(l) = <<>>
<1>1. \A x : Head(<<x>>) = x /\ Tail(<<x>>) = <<>>
  OBVIOUS
<1>2. \A x : Append(<<>>, x) = <<x>>
  OBVIOUS
<1>3. ASSUME NEW S, NEW l \in Seq(S), l # <<>>, Len(l) <= 1
      PROVE  Tail(l) = <<>>
  <2>1. Tail(l) \in Seq(S) /\ Len(Tail(l)) = Len(l) - 1
    BY <1>3
  <2>2. Len(l) \in Nat /\ Len(Tail(l)) \in Nat
    BY <1>3, <2>1
  <2>3. Len(Tail(l)) = 0
    BY <1>3, <2>1, <2>2
  <2>4. QED
    BY <2>1, <2>3, EmptySeq
<1>4. QED
  BY <1>1, <1>2, <1>3

\* A command is sent when the one before was answered, and follows it.
LEMMA MaySend ==
  ASSUME Stepwise, NEW d \in Domains, NEW i \in Fds, Holds(d, i), i \in write_fds,
         conn[i] = "open", d \notin misbegun, descriptors[d].state \in Sending
  PROVE  Free(i, descriptors[d].state)
BY DEF Stepwise, InStep, Asking, Answered, Due

LEMMA write_Stepwise ==
  ASSUME WorkOK, SocketOK, Stepwise, NEW d \in Domains, NEW i \in Fds, Holds(d, i),
         i \in write_fds, handle_write_socket(d), misbegun' = misbegun
  PROVE  Stepwise'
<1> DEFINE st == descriptors[d].state
<1>1. descriptors[d].socket = i /\ opener[i] = d
  BY DEF Holds
<1>2. /\ \/ st \in Sending /\ \E letter : Sent(i, Asks[st], letter)
         \/ NotSent(i) /\ write_fds' \subseteq write_fds
      /\ \E b \in Mails \cup {NoMail} : Describe(d, [descriptors[d] EXCEPT !.buffer = b])
  <2>1. /\ \/ /\ st \in Sending
              /\ \E letter : Transmit(i, Asks[st], letter) /\ Moves(Asks[st], letter)
           \/ UNCHANGED socketVars /\ write_fds' \subseteq write_fds
        /\ \E b \in Mails \cup {NoMail} : Describe(d, [descriptors[d] EXCEPT !.buffer = b])
    BY <1>1, write_Effect
  <2>2. QED
    BY <2>1, GotOrNot DEF NotSent
<1>3. \A e \in Domains : /\ descriptors'[e].state = descriptors[e].state
                         /\ descriptors'[e].mails = descriptors[e].mails
                         /\ descriptors'[e].socket = descriptors[e].socket
  BY <1>2, SameRecords
<1>4. CASE st \in Sending /\ \E letter : Sent(i, Asks[st], letter)
  <2>1. PICK letter : Sent(i, Asks[st], letter)
    BY <1>4
  <2>2. /\ conn[i] = "open" /\ write_fds' = write_fds \ {i}
        /\ conn' = conn /\ reply' = reply /\ granted' = granted /\ opener' = opener
        /\ wants'[i] = Append(wants[i], Asks[st])
        /\ \A j \in Fds : j # i => wants'[j] = wants[j]
    BY <2>1, SentFields DEF Sent
  <2>3. d \notin misbegun => wants[i] = <<>> /\ reply[i] = ""
    BY <1>4, <2>2, MaySend DEF Free
  <2>4. d \notin misbegun => wants'[i] = <<Asks[st]>> /\ reply'[i] = "" /\ i \notin write_fds'
    BY <2>2, <2>3, Singletons
  <2>5. ASSUME NEW e \in Domains, NEW j \in Fds
        PROVE  InStep(e, j)'
    <3>1. CASE e = d /\ j = i
      <4>1. st \in DOMAIN Asks
        BY <1>4, AsksOf
      <4>2. descriptors'[e].state = st
        BY <1>3, <3>1
      <4>3. QED
        BY <2>4, <3>1, <4>1, <4>2 DEF InStep, Asking, Due
    <3>2. CASE e # d /\ j = i
      <4>1. ~Holds(e, j)'
        BY <1>1, <2>2, <3>2 DEF Holds
      <4>2. QED
        BY <4>1 DEF InStep
    <3>3. CASE j # i
      <4>1. InStep(e, j)
        BY DEF Stepwise
      <4>2. QED
        BY <1>3, <2>2, <3>3, <4>1, InStepKept
    <3>4. QED
      BY <3>1, <3>2, <3>3
  <2>6. ASSUME NEW j \in Fds
        PROVE  OneAsked(j)'
    <3>1. Len(<<Asks[st]>>) <= 1
      OBVIOUS
    <3>2. QED
      BY <1>1, <2>2, <2>4, <3>1 DEF Stepwise, OneAsked
  <2>7. QED
    BY <2>5, <2>6 DEF Stepwise
<1>5. CASE NotSent(i) /\ write_fds' \subseteq write_fds
  <2>1. /\ opener' = opener /\ granted' = granted
        /\ \A j \in Fds :
              \/ conn'[j] = "free" /\ wants'[j] = <<>> /\ reply'[j] = ""
              \/ /\ wants'[j] = wants[j] /\ reply'[j] = reply[j]
                 /\ conn'[j] = conn[j] \/ (conn[j] = "fin" /\ conn'[j] = "rst")
    BY <1>5, NotSentFields
  <2>2. ASSUME NEW e \in Domains, NEW j \in Fds
        PROVE  InStep(e, j)'
    <3>1. CASE conn'[j] = "free"
      BY <3>1 DEF InStep
    <3>2. CASE conn'[j] # "free"
      <4>1. /\ wants'[j] = wants[j] /\ reply'[j] = reply[j]
            /\ conn'[j] = "open" => conn[j] = "open"
        BY <2>1, <3>2
      <4>2. InStep(e, j)
        BY DEF Stepwise
      <4>3. QED
        BY <1>3, <1>5, <2>1, <4>1, <4>2, InStepKept
    <3>3. QED
      BY <3>1, <3>2
  <2>3. ASSUME NEW j \in Fds
        PROVE  OneAsked(j)'
    <3>1. Len(<<>>) <= 1
      OBVIOUS
    <3>2. wants'[j] = wants[j] \/ wants'[j] = <<>>
      BY <2>1
    <3>3. QED
      BY <2>1, <3>1, <3>2 DEF Stepwise, OneAsked
  <2>4. QED
    BY <2>2, <2>3 DEF Stepwise
<1>6. QED
  BY <1>2, <1>4, <1>5

LEMMA server_replies_Stepwise ==
  ASSUME WorkOK, SocketOK, Stepwise, NEW i \in Fds, server_replies(i)
  PROVE  Stepwise'
<1>1. /\ conn[i] = "open" /\ wants[i] # <<>> /\ reply[i] = ""
      /\ wants' = [wants EXCEPT ![i] = Tail(@)]
      /\ UNCHANGED <<descriptors, write_fds, conn, opener, misbegun>>
  BY DEF server_replies, workVars, setVars
<1>2. PICK outcome \in Outcomes :
        /\ reply' = [reply EXCEPT ![i] = outcome]
        /\ granted' = [granted EXCEPT ![i] = IF outcome \in Agreed
                                             THEN Head(wants[i]) ELSE outcome]
  BY DEF server_replies
<1>3. /\ reply'[i] = outcome
      /\ outcome = "positive" => granted'[i] = Head(wants[i])
      /\ outcome = "not implemented" => granted'[i] = "not implemented"
      /\ wants'[i] = Tail(wants[i])
      /\ \A j \in Fds : j # i => wants'[j] = wants[j] /\ reply'[j] = reply[j]
                                 /\ granted'[j] = granted[j]
  BY <1>1, <1>2 DEF SocketOK, Agreed
<1>4. outcome # ""
  BY DEF Outcomes
<1>5. wants[i] \in Seq(Commands) /\ (opener[i] \notin misbegun => Len(wants[i]) <= 1)
  BY DEF SocketOK, Stepwise, OneAsked
<1>6. opener[i] \notin misbegun => Tail(wants[i]) = <<>>
  BY <1>1, <1>5, Singletons, Zenon
<1>7. ASSUME NEW e \in Domains, NEW j \in Fds
      PROVE  InStep(e, j)'
  <2> DEFINE st == descriptors[e].state
  <2>1. CASE j = i
    <3> SUFFICES ASSUME Holds(e, i), e \notin misbegun
                 PROVE  Answered(i, st)'
      BY <1>1, <2>1 DEF InStep, Holds
    <3>1. Asking(i, st)
      BY <1>1 DEF Stepwise, InStep, Answered, Free
    <3>2. Head(wants[i]) = Asks[st] /\ Due(i, st)
      BY <3>1, Singletons DEF Asking
    <3>3. opener[i] \notin misbegun
      BY DEF Holds
    <3>4. Due(i, st)'
      BY <1>1, <3>2 DEF Due
    <3>5. QED
      BY <1>1, <1>3, <1>4, <1>6, <3>2, <3>3, <3>4 DEF Answered
  <2>2. CASE j # i
    <3>1. InStep(e, j)
      BY DEF Stepwise
    <3>2. QED
      BY <1>1, <1>3, <2>2, <3>1, InStepKept
  <2>3. QED
    BY <2>1, <2>2
<1>8. ASSUME NEW j \in Fds
      PROVE  OneAsked(j)'
  <2>1. Len(<<>>) <= 1
    OBVIOUS
  <2>2. opener[j] \notin misbegun => wants'[j] = wants[j] \/ wants'[j] = <<>>
    BY <1>3, <1>6
  <2>3. QED
    BY <1>1, <2>1, <2>2 DEF Stepwise, OneAsked
<1>9. QED
  BY <1>7, <1>8 DEF Stepwise

LEMMA server_hangs_up_Stepwise ==
  ASSUME SocketOK, Stepwise, NEW i \in Fds, server_hangs_up(i)
  PROVE  Stepwise'
<1>1. /\ conn'[i] # "open" /\ wants'[i] = <<>>
      /\ \A j \in Fds : j # i => conn'[j] = conn[j] /\ wants'[j] = wants[j]
      /\ UNCHANGED <<descriptors, write_fds, reply, granted, opener, misbegun>>
  BY DEF server_hangs_up, SocketOK, workVars, setVars
<1>2. ASSUME NEW e \in Domains, NEW j \in Fds
      PROVE  InStep(e, j)'
  <2>1. CASE j = i
    BY <1>1, <2>1 DEF InStep
  <2>2. CASE j # i
    BY <1>1, <2>2, InStepKept DEF Stepwise
  <2>3. QED
    BY <2>1, <2>2
<1>3. ASSUME NEW j \in Fds
      PROVE  OneAsked(j)'
  <2>1. Len(<<>>) <= 1
    OBVIOUS
  <2>2. wants'[j] = wants[j] \/ wants'[j] = <<>>
    BY <1>1
  <2>3. QED
    BY <1>1, <2>1, <2>2 DEF Stepwise, OneAsked
<1>4. QED
  BY <1>2, <1>3 DEF Stepwise
LEMMA NextStepwise ==
  ASSUME TypeOK, Found, ~mixed => Attended /\ Stepwise, [Next]_vars,
         ~mixed'
  PROVE  Stepwise'
<1>1. WorkOK /\ SocketOK /\ Attended /\ Stepwise
  BY StepIs, TypeParts
<1>2. CASE Idle
  <2>1. /\ opener' = opener /\ descriptors' = descriptors /\ conn' = conn /\ wants' = wants
        /\ reply' = reply /\ granted' = granted /\ write_fds' = write_fds
        /\ misbegun' = misbegun
    BY <1>2 DEF Idle, socketVars
  <2>2. \A d \in Domains, i \in Fds : InStep(d, i)'
    BY <1>1, <2>1, InStepKept DEF Stepwise
  <2>3. QED
    BY <1>1, <2>1, <2>2 DEF Stepwise, OneAsked
<1>3. CASE \E m \in Mails : register_new_email(m) /\ write_fds' = write_fds
  BY <1>1, <1>3, register_Stepwise
<1>4. CASE \E d \in Domains, i \in Fds, r \in Descriptors :
             Holds(d, i) /\ Read(d, i, r) /\ UNCHANGED misbegun
  BY <1>1, <1>4, Read_Stepwise
<1>5. CASE \E d \in Domains, i \in Fds :
             Holds(d, i) /\ i \in write_fds /\ handle_write_socket(d) /\ UNCHANGED misbegun
  BY <1>1, <1>5, write_Stepwise
<1>6. CASE \E i \in Fds : server_replies(i) \/ server_hangs_up(i)
  BY <1>1, <1>6, server_replies_Stepwise, server_hangs_up_Stepwise
<1>7. QED
  BY <1>2, <1>3, <1>4, <1>5, <1>6, StepIs

LEMMA InitStepwise == Init => Stepwise
<1> SUFFICES ASSUME Init
             PROVE  Stepwise
  OBVIOUS
<1>1. \A d \in Domains, i \in Fds : InStep(d, i)
  BY DEF Init, InStep
<1>2. Len(<<>>) <= 1
  OBVIOUS
<1>3. QED
  BY <1>1, <1>2 DEF Init, Stepwise, OneAsked

\* The action of InOrder.
Ordered ==
  \A i \in Fds :
    conn[i] = "open" /\ Len(wants'[i]) > Len(wants[i]) /\ ~mixed'
      /\ opener[i] \notin misbegun =>
      wants[i] = <<>> /\ reply[i] = "" /\ Last(wants'[i]) \in Follows(granted[i])

LEMMA StepOrdered ==
  ASSUME TypeOK, Found, ~mixed => Attended /\ Stepwise, [Next]_vars
  PROVE  Ordered
<1> SUFFICES ASSUME NEW i \in Fds, conn[i] = "open", Len(wants'[i]) > Len(wants[i]), ~mixed',
                    opener[i] \notin misbegun
             PROVE  wants[i] = <<>> /\ reply[i] = "" /\ Last(wants'[i]) \in Follows(granted[i])
  BY DEF Ordered
<1>1. WorkOK /\ SocketOK /\ Stepwise /\ ~mixed
  BY StepIs, TypeParts
<1>2. wants'[i] # wants[i] /\ ~(Len(wants'[i]) = 0)
  <2>1. wants[i] \in Seq(Commands)
    BY <1>1 DEF SocketOK
  <2>2. Len(wants[i]) \in Nat
    BY <2>1
  <2>3. QED
    BY <2>2
<1>3. wants'[i] # <<>>
  BY <1>2
<1>4. ~Idle
  BY <1>2 DEF Idle, socketVars
<1>5. CASE \E m \in Mails : register_new_email(m)
  <2>1. PICK d \in Domains, r \in Descriptors :
           Failed(d, r) \/ Queued(d, r) \/ \E j \in Fds, st \in ClientStates : Opened(d, j, r, st)
    BY <1>1, <1>5, register_Effect, Zenon
  <2>2. CASE Failed(d, r) \/ Queued(d, r)
    BY <1>2, <2>2 DEF Failed, Queued, Leak, socketVars
  <2>3. CASE \E j \in Fds, st \in ClientStates : Opened(d, j, r, st)
    <3>1. PICK j \in Fds : Lowest(j) /\ Open(j, d)
      BY <2>3 DEF Opened
    <3>2. j # i
      BY <3>1 DEF Lowest
    <3>3. QED
      BY <1>1, <1>2, <3>1, <3>2, OpenedFields
  <2>4. QED
    BY <2>1, <2>2, <2>3
<1>6. ASSUME NEW d \in Domains, NEW j \in Fds, NEW r \in Descriptors, Read(d, j, r)
      PROVE  FALSE
  <2>1. r.socket = j /\ Turn(r)
    BY <1>6 DEF Read
  <2>2. wants'[i] = wants[i] \/ wants'[i] = <<>>
    BY <1>1, <2>1, TurnEffect
  <2>3. QED
    BY <1>2, <1>3, <2>2
<1>7. ASSUME NEW d \in Domains, NEW j \in Fds, Holds(d, j), j \in write_fds,
             handle_write_socket(d)
      PROVE  wants[i] = <<>> /\ reply[i] = "" /\ Last(wants'[i]) \in Follows(granted[i])
  <2> DEFINE st == descriptors[d].state
  <2>1. descriptors[d].socket = j
    BY <1>7 DEF Holds
  <2>2. \/ /\ st \in Sending /\ \E letter : Sent(j, Asks[st], letter)
        \/ NotSent(j)
    <3>1. \/ /\ st \in Sending
             /\ \E letter : Transmit(j, Asks[st], letter) /\ Moves(Asks[st], letter)
          \/ UNCHANGED socketVars
      BY <1>1, <1>7, <2>1, write_Effect
    <3>2. QED
      BY <3>1, GotOrNot DEF NotSent
  <2>3. CASE NotSent(j)
    BY <1>1, <1>2, <1>3, <2>3, NotSentFields
  <2>4. CASE st \in Sending /\ \E letter : Sent(j, Asks[st], letter)
    <3>1. PICK letter : Sent(j, Asks[st], letter)
      BY <2>4
    <3>2. /\ wants'[j] = Append(wants[j], Asks[st])
          /\ \A k \in Fds : k # j => wants'[k] = wants[k]
      BY <1>1, <3>1, SentFields
    <3>3. j = i
      BY <1>2, <3>2
    <3>4. Free(i, st)
      <4>1. d \notin misbegun
        BY <1>7, <3>3 DEF Holds
      <4>2. QED
        BY <1>1, <1>7, <2>4, <3>1, <3>3, <4>1, MaySend DEF Sent
    <3>5. wants'[i] = <<Asks[st]>>
      BY <3>2, <3>3, <3>4, Singletons DEF Free
    <3>6. Last(<<Asks[st]>>) = Asks[st]
      BY DEF Last
    <3>7. QED
      BY <2>4, <3>4, <3>5, <3>6 DEF Free
  <2>5. QED
    BY <2>2, <2>3, <2>4
<1>8. ASSUME NEW j \in Fds, server_replies(j)
      PROVE  FALSE
  <2>1. wants' = [wants EXCEPT ![j] = Tail(@)] /\ wants[j] # <<>>
    BY <1>8 DEF server_replies
  <2>2. wants[j] \in Seq(Commands) /\ (j = i => Len(wants[j]) <= 1)
    BY <1>1 DEF SocketOK, Stepwise, OneAsked
  <2>3. j = i => Tail(wants[j]) = <<>>
    BY <2>1, <2>2, Singletons, Zenon
  <2>4. wants'[i] = wants[i] \/ wants'[i] = <<>>
    BY <1>1, <2>1, <2>3 DEF SocketOK
  <2>5. QED
    BY <1>2, <1>3, <2>4
<1>9. ASSUME NEW j \in Fds, server_hangs_up(j)
      PROVE  FALSE
  <2>1. wants'[i] = wants[i] \/ wants'[i] = <<>>
    BY <1>1, <1>9 DEF server_hangs_up, SocketOK
  <2>2. QED
    BY <1>2, <1>3, <2>1
<1>10. QED
  BY <1>4, <1>5, <1>6, <1>7, <1>8, <1>9, StepIs

\* On every connection a command is sent when the one before was answered, and
\* only one SMTP lets follow it, or the next letter after a body the server does
\* not implement: until a descriptor is served for a domain it is not open for,
\* and but for domains whose descriptor held a state from the middle of a
\* dialogue.  Whatever the memory held, the sessions of the others are in order.
THEOREM CommandsInOrder == Spec => InOrder
<1>1. Init => TypeOK /\ Found /\ (~mixed => Attended /\ Stepwise)
  BY InitType, InitAttended, InitStepwise
<1>2. TypeOK /\ Found /\ (~mixed => Attended /\ Stepwise) /\ [Next]_vars
        => TypeOK' /\ Found' /\ (~mixed => Attended /\ Stepwise)'
  BY NextType, NextAttended, NextStepwise
<1>3. TypeOK /\ Found /\ (~mixed => Attended /\ Stepwise) /\ [Next]_vars => Ordered
  BY StepOrdered
<1>4. QED
  BY <1>1, <1>2, <1>3, PTL DEF Spec, InOrder, Ordered
-----------------------------------------------------------------------------
(* The letters.  The text of a letter is in one place at a time: in its file  *)
(* in new/, in the memory strtok() is in, in what a server was given and has  *)
(* not answered, or in what a server took.                                    *)

InText(m) == text.mail = m /\ text.line < 4
InDraft(i, m) ==
  wants[i] = <<"BODY">> /\ draft[i].body.mail = m /\ draft[i].body.line < 4
Taken(m) == \E k \in DOMAIN accepted : accepted[k].body.mail = m /\ accepted[k].body.line < 4

OneCopy(m) ==
  /\ InText(m) \/ Taken(m) \/ (\E i \in Fds : InDraft(i, m))
       => m \in Mails /\ files[m] # "new"
  /\ \A i, j \in Fds : InDraft(i, m) /\ InDraft(j, m) => i = j
  /\ \A i \in Fds : InDraft(i, m) => ~Taken(m) /\ ~InText(m)
  /\ InText(m) => ~Taken(m)

AnyMail == Mails \cup {NoMail}

NotTwice ==
  \A j, k \in DOMAIN accepted :
    j # k /\ accepted[j].body.line < 4 /\ accepted[k].body.line < 4
      => accepted[j].body.mail # accepted[k].body.mail

Once == NotTwice /\ \A m \in AnyMail : OneCopy(m)

\* A text that goes nowhere else.
LEMMA CopyKept ==
  ASSUME NEW m, OneCopy(m), InText(m)' => InText(m),
         \A i \in Fds : InDraft(i, m)' => InDraft(i, m),
         accepted' = accepted, m \in Mails /\ files[m] # "new" => files'[m] # "new"
  PROVE  OneCopy(m)'
<1>1. Taken(m)' <=> Taken(m)
  BY DEF Taken
<1>2. QED
  BY <1>1 DEF OneCopy

LEMMA SameAccepted == ASSUME NotTwice, accepted' = accepted
                      PROVE  NotTwice'
BY DEF NotTwice

LEMMA NoBody ==
  /\ <<>> # <<"BODY">> /\ <<"greeting">> # <<"BODY">>
  /\ \A command : <<command>> = <<"BODY">> => command = "BODY"
<1>1. Len(<<>>) # Len(<<"BODY">>)
  OBVIOUS
<1>2. <<"greeting">>[1] # <<"BODY">>[1]
  OBVIOUS
<1>3. \A command : <<command>>[1] = command
  OBVIOUS
<1>4. QED
  BY <1>1, <1>2, <1>3

LEMMA DraftsKept ==
  ASSUME NEW m,
         \A i \in Fds : \/ wants'[i] = wants[i] /\ draft'[i] = draft[i]
                        \/ wants'[i] # <<"BODY">>
  PROVE  \A i \in Fds : InDraft(i, m)' => InDraft(i, m)
BY DEF InDraft

LEMMA PastLetter ==
  ASSUME text \in Texts, NEW m,
         text' \in {text, Freed, Past(text), [text EXCEPT !.line = 4]}
  PROVE  InText(m)' => InText(m)
<1>1. text.line \in 1 .. 4
  BY DEF Texts
<1>2. /\ Past(text).mail = text.mail
      /\ text.line = 4 => Past(text).line = 4
  BY DEF Past, Texts
<1>3. [text EXCEPT !.line = 4].line = 4 /\ Freed.line = 4
  BY DEF Texts, Freed
<1>4. text' = text \/ text' = Past(text) \/ text'.line = 4
  BY <1>3
<1>5. CASE text'.line = 4
  BY <1>5 DEF InText
<1>6. CASE text' = text
  BY <1>6 DEF InText
<1>7. CASE text' = Past(text)
  <2>1. CASE text.line = 4
    <3>1. text'.line = 4
      BY <1>2, <1>7, <2>1
    <3>2. QED
      BY <3>1 DEF InText
  <2>2. CASE text.line # 4
    <3>1. text.line < 4
      BY <1>1, <2>2
    <3>2. QED
      BY <1>2, <1>7, <3>1 DEF InText
  <2>3. QED
    BY <2>1, <2>2
<1>8. QED
  BY <1>4, <1>5, <1>6, <1>7

LEMMA register_Once ==
  ASSUME WorkOK, SocketOK, Once, NEW m \in Mails, register_new_email(m),
         UNCHANGED <<files, accepted>>
  PROVE  Once'
<1>1. PICK d \in Domains, r \in Descriptors :
         Failed(d, r) \/ Queued(d, r) \/ \E i \in Fds, st \in ClientStates : Opened(d, i, r, st)
  BY register_Effect, Zenon
<1>2. \A i \in Fds : \/ wants'[i] = wants[i] /\ draft'[i] = draft[i]
                     \/ wants'[i] # <<"BODY">>
  <2>1. CASE Failed(d, r) \/ Queued(d, r)
    BY <2>1 DEF Failed, Queued, Leak, socketVars
  <2>2. CASE \E j \in Fds, st \in ClientStates : Opened(d, j, r, st)
    <3>1. PICK j \in Fds : Open(j, d)
      BY <2>2 DEF Opened
    <3>2. wants'[j] = <<"greeting">>
          /\ \A i \in Fds : i # j => wants'[i] = wants[i] /\ draft'[i] = draft[i]
      BY <3>1, OpenedFields
    <3>3. QED
      BY <3>2, NoBody
  <2>3. QED
    BY <1>1, <2>1, <2>2
<1>3. text' = Freed
  BY DEF register_new_email
<1>4. ASSUME NEW n \in AnyMail
      PROVE  OneCopy(n)'
  <2>1. InText(n)' => InText(n)
    BY <1>3, PastLetter DEF WorkOK
  <2>2. QED
    BY <1>2, <2>1, DraftsKept, CopyKept DEF Once
<1>5. QED
  BY <1>4, SameAccepted DEF Once

LEMMA Read_Once ==
  ASSUME WorkOK, SocketOK, Once, NEW d \in Domains, NEW i \in Fds,
         NEW r \in Descriptors, Read(d, i, r), UNCHANGED <<files, accepted>>
  PROVE  Once'
<1>1. r.socket = i /\ Turn(r) /\ text' \in {text, Freed}
  BY DEF Read
<1>2. \A j \in Fds : \/ wants'[j] = wants[j] /\ draft'[j] = draft[j]
                     \/ wants'[j] # <<"BODY">>
  <2>1. draft' = draft /\ \A j \in Fds : wants'[j] = wants[j] \/ wants'[j] = <<>>
    BY <1>1, TurnEffect
  <2>2. QED
    BY <2>1, NoBody
<1>3. ASSUME NEW n \in AnyMail
      PROVE  OneCopy(n)'
  <2>1. InText(n)' => InText(n)
    BY <1>1, PastLetter DEF WorkOK
  <2>2. QED
    BY <1>2, <2>1, DraftsKept, CopyKept DEF Once
<1>4. QED
  BY <1>3, SameAccepted DEF Once
\* A command that is no text, or a text that is lost: nothing is copied.
LEMMA MovesKept ==
  ASSUME WorkOK, QueueOK, NEW m \in AnyMail, OneCopy(m), NEW command, NEW letter,
         Moves(command, letter), accepted' = accepted,
         \A j \in Fds : InDraft(j, m)' => InDraft(j, m)
  PROVE  OneCopy(m)'
<1>1. CASE UNCHANGED <<text, files>>
  BY <1>1, CopyKept DEF InText
<1>2. CASE text' \in {Past(text), [text EXCEPT !.line = 4]} /\ UNCHANGED files
  <2>1. InText(m)' => InText(m)
    BY <1>2, PastLetter DEF WorkOK
  <2>2. QED
    BY <1>2, <2>1, CopyKept
<1>3. CASE \E n \in Mails : /\ files' = [files EXCEPT ![n] = "cur"]
                            /\ \/ text' = Past(text)
                               \/ files[n] = "new" /\ text' = [mail |-> n, line |-> 2]
  <2>1. PICK n \in Mails : /\ files' = [files EXCEPT ![n] = "cur"]
                           /\ \/ text' = Past(text)
                              \/ files[n] = "new" /\ text' = [mail |-> n, line |-> 2]
    BY <1>3
  <2>2. m \in Mails => files'[m] = (IF m = n THEN "cur" ELSE files[m])
    BY <2>1 DEF QueueOK
  <2>3. CASE text' = Past(text) \/ m # n
    <3>1. InText(m)' => InText(m)
      <4>1. CASE text' = Past(text)
        BY <4>1, PastLetter DEF WorkOK
      <4>2. CASE text' = [mail |-> n, line |-> 2] /\ m # n
        BY <4>2 DEF InText
      <4>3. QED
        BY <2>1, <2>3, <4>1, <4>2
    <3>2. m \in Mails /\ files[m] # "new" => files'[m] # "new"
      BY <2>2
    <3>3. QED
      BY <3>1, <3>2, CopyKept
  <2>4. CASE files[n] = "new" /\ m = n
    <3>1. ~InText(m) /\ ~Taken(m) /\ \A j \in Fds : ~InDraft(j, m)
      BY <2>4 DEF OneCopy
    <3>2. ~Taken(m)' /\ \A j \in Fds : ~InDraft(j, m)'
      BY <3>1 DEF Taken
    <3>3. files'[m] # "new" /\ m \in Mails
      BY <2>2, <2>4
    <3>4. QED
      BY <3>2, <3>3 DEF OneCopy
  <2>5. QED
    BY <2>1, <2>3, <2>4
<1>4. QED
  BY <1>1, <1>2, <1>3 DEF Moves

\* The text is given to a server: it is in memory no more.
LEMMA BodySent ==
  ASSUME WorkOK, NEW m \in AnyMail, OneCopy(m), NEW i \in Fds, accepted' = accepted,
         files' = files, text' = [text EXCEPT !.line = 4],
         wants'[i] = <<"BODY">>, draft'[i].body \in {text, [text EXCEPT !.line = 4]},
         \A j \in Fds : j # i => wants'[j] = wants[j] /\ draft'[j] = draft[j],
         ~InDraft(i, m)
  PROVE  OneCopy(m)'
<1>1. text'.line = 4 /\ [text EXCEPT !.line = 4].line = 4
  BY DEF WorkOK, Texts
<1>2. ~InText(m)'
  BY <1>1 DEF InText
<1>3. InDraft(i, m)' => InText(m)
  <2>1. CASE draft'[i].body = text
    BY <2>1 DEF InDraft, InText
  <2>2. CASE draft'[i].body = [text EXCEPT !.line = 4]
    <3>1. draft'[i].body.line = 4
      BY <1>1, <2>2
    <3>2. ~(draft'[i].body.line < 4)
      BY <3>1
    <3>3. QED
      BY <3>2, Zenon DEF InDraft
  <2>3. QED
    BY <2>1, <2>2
<1>4. \A j \in Fds : j # i => (InDraft(j, m)' <=> InDraft(j, m))
  BY DEF InDraft
<1>5. Taken(m)' <=> Taken(m)
  BY DEF Taken
<1>6. CASE InText(m)
  <2>1. \A j \in Fds : ~InDraft(j, m)
    BY <1>6 DEF OneCopy
  <2>2. QED
    BY <1>2, <1>3, <1>4, <1>5, <1>6, <2>1 DEF OneCopy
<1>7. CASE ~InText(m)
  <2>1. \A j \in Fds : InDraft(j, m)' => InDraft(j, m)
    BY <1>3, <1>4, <1>7
  <2>2. QED
    BY <1>2, <2>1, CopyKept
<1>8. QED
  BY <1>6, <1>7

LEMMA write_Once ==
  ASSUME WorkOK, SocketOK, QueueOK, Stepwise, misbegun = {}, Once, NEW d \in Domains,
         NEW i \in Fds, Holds(d, i), i \in write_fds, handle_write_socket(d), accepted' = accepted
  PROVE  Once'
<1> DEFINE st == descriptors[d].state
<1>1. descriptors[d].socket = i
  BY DEF Holds
<1>2. \/ /\ st \in Sending
         /\ \E letter : (Sent(i, Asks[st], letter) \/ NotSent(i)) /\ Moves(Asks[st], letter)
      \/ UNCHANGED <<socketVars, text, files>>
  <2>1. \/ /\ st \in Sending
           /\ \E letter : Transmit(i, Asks[st], letter) /\ Moves(Asks[st], letter)
        \/ UNCHANGED <<socketVars, text, files>>
    BY <1>1, write_Effect
  <2>2. QED
    BY <2>1, GotOrNot
<1>3. CASE UNCHANGED <<socketVars, text, files>>
  <2>1. ASSUME NEW m \in AnyMail
        PROVE  OneCopy(m)'
    <3>1. /\ InText(m)' => InText(m)
          /\ \A j \in Fds : InDraft(j, m)' => InDraft(j, m)
      BY <1>3 DEF InText, InDraft, socketVars
    <3>2. QED
      BY <1>3, <3>1, CopyKept DEF Once
  <2>2. QED
    BY <2>1, SameAccepted DEF Once
<1>4. ASSUME NEW letter, st \in Sending, NotSent(i), Moves(Asks[st], letter)
      PROVE  Once'
  <2>1. draft' = draft /\ \A j \in Fds : wants'[j] = wants[j] \/ wants'[j] = <<>>
    BY <1>4, NotSentFields
  <2>2. \A j \in Fds : \/ wants'[j] = wants[j] /\ draft'[j] = draft[j]
                       \/ wants'[j] # <<"BODY">>
    BY <2>1, NoBody
  <2>3. \A m \in AnyMail : OneCopy(m)'
    BY <1>4, <2>2, DraftsKept, MovesKept DEF Once
  <2>4. QED
    BY <2>3, SameAccepted DEF Once
<1>5. ASSUME NEW letter, st \in Sending, Sent(i, Asks[st], letter), Moves(Asks[st], letter)
      PROVE  Once'
  <2>1. /\ conn[i] = "open" /\ wants'[i] = Append(wants[i], Asks[st]) /\ draft'[i] = letter
        /\ \A j \in Fds : j # i => wants'[j] = wants[j] /\ draft'[j] = draft[j]
    BY <1>5, SentFields DEF Sent
  <2>2. wants[i] = <<>>
    BY <1>5, <2>1, MaySend DEF Free
  <2>3. wants'[i] = <<Asks[st]>>
    BY <2>1, <2>2, Singletons
  <2>4. CASE Asks[st] # "BODY"
    <3>1. \A j \in Fds : \/ wants'[j] = wants[j] /\ draft'[j] = draft[j]
                         \/ wants'[j] # <<"BODY">>
      BY <2>1, <2>3, <2>4, NoBody
    <3>2. \A m \in AnyMail : OneCopy(m)'
      BY <1>5, <3>1, DraftsKept, MovesKept DEF Once
    <3>3. QED
      BY <3>2, SameAccepted DEF Once
  <2>5. CASE Asks[st] = "BODY"
    <3>1. /\ letter.body \in {text, [text EXCEPT !.line = 4]}
          /\ text' = [text EXCEPT !.line = 4] /\ files' = files
      BY <1>5, <2>5 DEF Moves
    <3>2. \A m \in AnyMail : ~InDraft(i, m)
      BY <2>2, NoBody DEF InDraft
    <3>3. wants'[i] = <<"BODY">> /\ draft'[i].body \in {text, [text EXCEPT !.line = 4]}
      BY <2>1, <2>3, <2>5, <3>1
    <3>4. \A m \in AnyMail : OneCopy(m)'
      BY <2>1, <3>1, <3>2, <3>3, BodySent DEF Once
    <3>5. QED
      BY <3>4, SameAccepted DEF Once
  <2>6. QED
    BY <2>4, <2>5
<1>6. QED
  BY <1>2, <1>3, <1>4, <1>5

LEMMA SingleIs ==
  ASSUME NEW S, NEW l \in Seq(S), l # <<>>, Len(l) <= 1
  PROVE  l = <<Head(l)>>
<1>1. Len(l) = 1
  <2>1. Len(l) \in Nat \ {0}
    BY EmptySeq, Zenon
  <2>2. QED
    BY <2>1
<1>2. l = [k \in 1 .. 1 |-> l[k]] /\ Head(l) = l[1]
  BY <1>1
<1>3. QED
  BY <1>1, <1>2

\* What a server takes is what it was given.
LEMMA TakenMore ==
  ASSUME NEW l, NEW n \in Nat, DOMAIN accepted' = 1 .. n + 1, DOMAIN accepted = 1 .. n,
         accepted'[n + 1] = l, \A k \in 1 .. n : accepted'[k] = accepted[k]
  PROVE  \A m : Taken(m)' <=> Taken(m) \/ (l.body.mail = m /\ l.body.line < 4)
<1>1. \A k : k \in 1 .. n + 1 <=> k \in 1 .. n \/ k = n + 1
  OBVIOUS
<1>2. QED
  BY <1>1 DEF Taken

LEMMA server_replies_Once ==
  ASSUME WorkOK, SocketOK, Stepwise, misbegun = {}, Once, accepted \in Seq(Letters),
         NEW i \in Fds, server_replies(i)
  PROVE  Once'
<1>1. /\ wants[i] # <<>> /\ wants' = [wants EXCEPT ![i] = Tail(@)]
      /\ UNCHANGED <<text, files, draft>>
      /\ accepted' = accepted \/ (Head(wants[i]) = "BODY" /\ accepted' = Append(accepted, draft[i]))
  <2>1. UNCHANGED <<text, files, draft>>
    BY DEF server_replies, workVars
  <2>2. QED
    BY <2>1, Zenon DEF server_replies
<1>2. wants[i] \in Seq(Commands) /\ Len(wants[i]) <= 1
  BY DEF SocketOK, Stepwise, OneAsked
<1>3. Tail(wants[i]) = <<>>
  BY <1>1, <1>2, Singletons, Zenon
<1>4. wants'[i] = <<>> /\ \A j \in Fds : j # i => wants'[j] = wants[j]
  BY <1>1, <1>3 DEF SocketOK
<1>5. \A j \in Fds : \/ wants'[j] = wants[j] /\ draft'[j] = draft[j]
                     \/ wants'[j] # <<"BODY">>
  BY <1>1, <1>4, NoBody
<1>6. CASE accepted' = accepted
  <2>1. ASSUME NEW m \in AnyMail
        PROVE  OneCopy(m)'
    BY <1>1, <1>5, <1>6, DraftsKept, CopyKept DEF Once, InText
  <2>2. QED
    BY <1>6, <2>1, SameAccepted DEF Once
<1>7. CASE Head(wants[i]) = "BODY" /\ accepted' = Append(accepted, draft[i])
  <2> DEFINE b == draft[i].body
  <2>1. draft[i] \in Letters /\ b \in Texts /\ b.mail \in AnyMail
    BY DEF SocketOK, Letters, Texts, AnyMail
  <2>2. wants[i] = <<"BODY">>
    BY <1>1, <1>2, <1>7, SingleIs
  <2>3. /\ Len(accepted') = Len(accepted) + 1 /\ Len(accepted) \in Nat
        /\ DOMAIN accepted' = 1 .. Len(accepted) + 1 /\ DOMAIN accepted = 1 .. Len(accepted)
        /\ accepted'[Len(accepted) + 1] = draft[i]
        /\ \A k \in 1 .. Len(accepted) : accepted'[k] = accepted[k]
    BY <1>7, <2>1
  <2> HIDE DEF b
  <2>4. \A m : InDraft(i, m) <=> b.mail = m /\ b.line < 4
    BY <2>2 DEF InDraft, b
  <2>5. \A m : Taken(m)' <=> Taken(m) \/ InDraft(i, m)
    BY <2>3, <2>4, TakenMore DEF b
  <2>6. ASSUME NEW m \in AnyMail
        PROVE  OneCopy(m)'
    <3>1. OneCopy(m)
      BY DEF Once
    <3>2. ~InDraft(i, m)' /\ \A j \in Fds : InDraft(j, m)' => InDraft(j, m) /\ j # i
      BY <1>1, <1>4, NoBody DEF InDraft
    <3>3. InText(m)' <=> InText(m)
      BY <1>1 DEF InText
    <3>4. CASE InDraft(i, m)
      <4>1. /\ ~InText(m)' /\ m \in Mails /\ files'[m] # "new"
            /\ \A j \in Fds : ~InDraft(j, m)'
        BY <1>1, <3>1, <3>2, <3>3, <3>4 DEF OneCopy
      <4>2. QED
        BY <4>1 DEF OneCopy
    <3>5. CASE ~InDraft(i, m)
      <4>1. Taken(m)' <=> Taken(m)
        BY <2>5, <3>5
      <4>2. files' = files
        BY <1>1
      <4>3. QED
        BY <3>1, <3>2, <3>3, <4>1, <4>2 DEF OneCopy
    <3>6. QED
      BY <3>4, <3>5
  <2>7. NotTwice'
    <3>1. b.line < 4 => ~Taken(b.mail)
      BY <2>1, <2>4 DEF Once, OneCopy
    <3>2. SUFFICES ASSUME NEW j \in 1 .. Len(accepted) + 1, NEW k \in 1 .. Len(accepted) + 1,
                          j # k, accepted'[j].body.line < 4, accepted'[k].body.line < 4,
                          accepted'[j].body.mail = accepted'[k].body.mail
                   PROVE  FALSE
      BY <2>3 DEF NotTwice
    <3>3. CASE j \in 1 .. Len(accepted) /\ k \in 1 .. Len(accepted)
      BY <2>3, <3>2, <3>3 DEF Once, NotTwice
    <3>4. CASE j = Len(accepted) + 1 /\ k \in 1 .. Len(accepted)
      BY <2>3, <3>1, <3>2, <3>4 DEF Taken, b
    <3>5. CASE k = Len(accepted) + 1 /\ j \in 1 .. Len(accepted)
      BY <2>3, <3>1, <3>2, <3>5 DEF Taken, b
    <3>6. QED
      BY <2>3, <3>2, <3>3, <3>4, <3>5
  <2>8. QED
    BY <2>6, <2>7 DEF Once
<1>8. QED
  BY <1>1, <1>6, <1>7
LEMMA server_hangs_up_Once ==
  ASSUME SocketOK, Once, NEW i \in Fds, server_hangs_up(i), accepted' = accepted
  PROVE  Once'
<1>1. /\ wants' = [wants EXCEPT ![i] = <<>>] /\ UNCHANGED <<text, files, draft>>
  BY DEF server_hangs_up, workVars
<1>2. \A j \in Fds : \/ wants'[j] = wants[j] /\ draft'[j] = draft[j]
                     \/ wants'[j] # <<"BODY">>
  BY <1>1, NoBody DEF SocketOK
<1>3. ASSUME NEW m \in AnyMail
      PROVE  OneCopy(m)'
  BY <1>1, <1>2, DraftsKept, CopyKept DEF Once, InText
<1>4. QED
  BY <1>3, SameAccepted DEF Once

LEMMA NextOnce ==
  ASSUME TypeOK, Found, ~mixed => Attended /\ Stepwise /\ (misbegun = {} => Once),
         [Next]_vars, ~mixed', misbegun' = {}
  PROVE  Once'
<1>0. misbegun = {}
  <2>1. \A m \in Mails : register_new_email(m) => misbegun \subseteq misbegun'
    BY TypeParts, register_Effect
  <2>2. misbegun \subseteq misbegun'
    BY <2>1, StepIs DEF Idle, server_replies, server_hangs_up, workVars
  <2>3. QED
    BY <2>2
<1>1. WorkOK /\ SocketOK /\ QueueOK /\ Stepwise /\ Once /\ accepted \in Seq(Letters)
  BY <1>0, StepIs, TypeParts
<1>2. CASE Idle
  <2>1. \A j \in Fds : wants'[j] = wants[j] /\ draft'[j] = draft[j]
    BY <1>2 DEF Idle, socketVars
  <2>2. ASSUME NEW m \in AnyMail
        PROVE  OneCopy(m)'
    BY <1>1, <1>2, <2>1, DraftsKept, CopyKept DEF Once, InText, Idle
  <2>3. QED
    BY <1>1, <1>2, <2>2, SameAccepted DEF Once, Idle
<1>3. CASE \E m \in Mails : register_new_email(m) /\ UNCHANGED <<files, accepted>>
  BY <1>1, <1>3, register_Once
<1>4. CASE \E d \in Domains, i \in Fds, r \in Descriptors :
             Read(d, i, r) /\ UNCHANGED <<files, accepted>>
  BY <1>1, <1>4, Read_Once
<1>5. CASE \E d \in Domains, i \in Fds :
             Holds(d, i) /\ i \in write_fds /\ handle_write_socket(d) /\ UNCHANGED accepted
  BY <1>0, <1>1, <1>5, write_Once
<1>6. CASE \E i \in Fds : server_replies(i) \/ (server_hangs_up(i) /\ UNCHANGED accepted)
  BY <1>0, <1>1, <1>6, server_replies_Once, server_hangs_up_Once
<1>7. QED
  BY <1>2, <1>3, <1>4, <1>5, <1>6, StepIs

LEMMA InitOnce == Init => Once
<1> SUFFICES ASSUME Init
             PROVE  Once
  OBVIOUS
<1>1. DOMAIN accepted = {}
  <2>1. Len(<<>>) = 0 /\ DOMAIN <<>> = 1 .. 0
    OBVIOUS
  <2>2. 1 .. 0 = {}
    OBVIOUS
  <2>3. accepted = <<>>
    BY DEF Init
  <2>4. QED
    BY <2>1, <2>2, <2>3, Zenon
<1>2. NotTwice /\ \A m : ~Taken(m)
  BY <1>1 DEF NotTwice, Taken
<1>3. \A m : ~InText(m) /\ \A i \in Fds : ~InDraft(i, m)
  <2>1. text.line = 4 /\ \A i \in Fds : wants[i] = <<>>
    BY DEF Init, Freed
  <2>2. ~(text.line < 4)
    BY <2>1
  <2>3. \A m : ~InText(m)
    BY <2>2, Zenon DEF InText
  <2>4. \A m : \A i \in Fds : ~InDraft(i, m)
    BY <2>1, NoBody, Zenon DEF InDraft
  <2>5. QED
    BY <2>3, <2>4
<1>4. QED
  BY <1>2, <1>3 DEF Once, OneCopy

\* Until a descriptor is served for a domain it is not open for, and as long as
\* every domain begins at the beginning, the text of a letter goes into one
\* letter at most that a server accepts: not twice when it is queued twice or
\* sent again after a refusal, and not into the letter of another session
\* through strtok().
THEOREM TextAcceptedOnce == Spec => []AcceptedOnce
<1> DEFINE Inv == TypeOK /\ Found
                  /\ (~mixed => Attended /\ Stepwise /\ (misbegun = {} => Once))
<1>1. Init => Inv
  BY InitType, InitAttended, InitStepwise, InitOnce
<1>2. Inv /\ [Next]_vars => Inv'
  BY NextType, NextAttended, NextStepwise, NextOnce
<1>3. Inv => AcceptedOnce
  BY DEF Once, NotTwice, AcceptedOnce
<1>4. QED
  BY <1>1, <1>2, <1>3, PTL DEF Spec
=============================================================================
