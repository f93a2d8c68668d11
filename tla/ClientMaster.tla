----------------------------- MODULE ClientMaster -----------------------------
(***************************************************************************)
(* The master process of the client: it forks the children, makes their IPC *)
(* queues, reads new/ again and again and sends each letter it finds to the *)
(* child that works for its domain (run_client() and                        *)
(* master_process_worker_start() of scheduler.c, get_domains_mails() of     *)
(* domain_proc.c).  What a child does with a letter is in ClientWorker;     *)
(* here it takes the letter from its queue and moves it to cur/.            *)
(***************************************************************************)
EXTENDS Integers, Sequences, FiniteSets

CONSTANTS Domains, Mails, DomainOf,
          proc_num,    \* conf.proc_cnt
          MaxQueue,    \* letters an IPC queue holds before msgsnd() fails
          Uninit       \* what the mails_count of a new domain may hold:
                       \* "zero", "negative" or "large"

ASSUME MasterAssumption ==
  /\ DomainOf \in [Mails -> Domains]
  /\ proc_num \in Nat \ {0}
  /\ MaxQueue \in Nat
  /\ Uninit \subseteq {"zero", "negative", "large"}

Procs  == 0 .. proc_num - 1
NoProc == -1

VARIABLES
  proc,           \* the master: "running" or "crashed"
  phase,          \* "create" (of queues), "scan" or "dispatch"
  next,           \* the loop counter i of creating and of dispatching
  unread,         \* the entries of new/ the scan has yet to visit
  files,          \* a letter is "absent", in "new" or in "cur"
  domains_mails,  \* the domains of domains_mails[], in their order
  mails_paths,    \* their letters that were found and not yet sent
  domains,        \* the domains of mail_procs[]
  target,         \* the process that gets the letters of the domain at hand
  queues,         \* the IPC queues of the processes
  child,          \* a child: "forked", "listening", or "deaf" when its
                  \* msgget() came before that of the master
  received        \* the letters a child took from its queue

masterVars == <<proc, phase, next, unread, domains_mails, mails_paths, domains, target>>
childVars  == <<child, received>>
vars       == <<masterVars, childVars, files, queues>>

Init ==
  /\ proc = "running" /\ phase = "create" /\ next = 0 /\ unread = {}
  /\ files = [m \in Mails |-> "absent"]
  /\ domains_mails = <<>>
  /\ mails_paths = [d \in Domains |-> <<>>]
  /\ domains = [j \in Procs |-> {}]
  /\ target = NoProc
  /\ queues = [j \in Procs |-> <<>>]
  /\ child = [j \in Procs |-> "forked"]
  /\ received = [j \in Procs |-> {}]

Known(d) == \E k \in DOMAIN domains_mails : domains_mails[k] = d
Found(m) == \E k \in DOMAIN mails_paths[DomainOf[m]] : mails_paths[DomainOf[m]][k] = m
-----------------------------------------------------------------------------
(* The master. *)

\* The queues are made after the children were forked.
create_queue ==
  /\ proc = "running" /\ phase = "create"
  /\ IF next + 1 < proc_num THEN next' = next + 1 /\ UNCHANGED <<phase, unread>>
     ELSE phase' = "scan" /\ next' = 0 /\ unread' = Mails
  /\ UNCHANGED <<proc, domains_mails, mails_paths, domains, target, childVars, files, queues>>

\* One entry of get_domains_mails(), in the order readdir() likes.  For a new
\* domain line 53 resets a count out of the array, so mails_count starts from
\* what was on the stack: a negative one hides the letter until the count is
\* reset, a large one lets the loops run over paths that are not there.
get_domains_mails(m) ==
  LET d == DomainOf[m]
  IN  /\ proc = "running" /\ phase = "scan" /\ m \in unread
      /\ unread' = unread \ {m}
      /\ \/ /\ files[m] # "new" \/ (Known(d) /\ Found(m))
            /\ UNCHANGED <<proc, domains_mails, mails_paths>>
         \/ /\ files[m] = "new" /\ Known(d) /\ ~Found(m)
            /\ mails_paths' = [mails_paths EXCEPT ![d] = Append(@, m)]
            /\ UNCHANGED <<proc, domains_mails>>
         \/ /\ files[m] = "new" /\ ~Known(d)
            /\ domains_mails' = Append(domains_mails, d)
            /\ \E mails_count \in Uninit :
                 /\ mails_paths' = IF mails_count = "zero"
                                   THEN [mails_paths EXCEPT ![d] = <<m>>] ELSE mails_paths
                 /\ proc' = IF mails_count = "large" THEN "crashed" ELSE proc
      /\ UNCHANGED <<phase, next, domains, target, childVars, files, queues>>

end_scan ==
  /\ proc = "running" /\ phase = "scan" /\ unread = {}
  /\ phase' = "dispatch" /\ next' = 1
  /\ UNCHANGED <<proc, unread, domains_mails, mails_paths, domains, target,
                 childVars, files, queues>>

Least(j) ==
  /\ \A k \in Procs : Cardinality(domains[j]) <= Cardinality(domains[k])
  /\ \A k \in Procs : Cardinality(domains[k]) = Cardinality(domains[j]) => j <= k

\* Mutated forms of Chosen: a domain without a process goes to the first one;
\* a domain goes to the process with the fewest, even when another has it.
Chosen_first(d, j) == IF \E k \in Procs : d \in domains[k] THEN d \in domains[j] ELSE j = 0
Chosen_least(d, j) == Least(j)

\* The process that has the domain, or else the first with the fewest domains.
Chosen(d, j) == IF \E k \in Procs : d \in domains[k] THEN d \in domains[j] ELSE Least(j)

\* The domain at index next gets a process, whether it has letters or not.
get_mail_proc_idx ==
  /\ proc = "running" /\ phase = "dispatch" /\ target = NoProc
  /\ next \in DOMAIN domains_mails
  /\ \E j \in Procs :
       /\ Chosen(domains_mails[next], j)
       /\ domains' = [domains EXCEPT ![j] = @ \cup {domains_mails[next]}]
       /\ target' = j
  /\ UNCHANGED <<proc, phase, next, unread, domains_mails, mails_paths, childVars, files, queues>>

\* msgsnd(IPC_NOWAIT): a queue that is full stays as it is, and nobody asks.
Queued(m) == IF Len(queues[target]) < MaxQueue THEN Append(queues[target], m)
             ELSE queues[target]

msgsnd ==
  /\ proc = "running" /\ phase = "dispatch" /\ target # NoProc
  /\ LET d == domains_mails[next]
     IN  /\ mails_paths[d] # <<>>
         /\ queues' = [queues EXCEPT ![target] = Queued(Head(mails_paths[d]))]
         /\ mails_paths' = [mails_paths EXCEPT ![d] = Tail(@)]
  /\ UNCHANGED <<proc, phase, next, unread, domains_mails, domains, target, childVars, files>>

\* Mutated form: the process of this domain is kept for the next.
next_domain_keeps_target ==
  /\ proc = "running" /\ phase = "dispatch" /\ target # NoProc
  /\ next \in DOMAIN domains_mails /\ mails_paths[domains_mails[next]] = <<>>
  /\ next' = next + 1
  /\ UNCHANGED <<proc, phase, unread, domains_mails, mails_paths, domains, target,
                 childVars, files, queues>>

next_domain ==
  /\ proc = "running" /\ phase = "dispatch" /\ target # NoProc
  /\ mails_paths[domains_mails[next]] = <<>>
  /\ target' = NoProc /\ next' = next + 1
  /\ UNCHANGED <<proc, phase, unread, domains_mails, mails_paths, domains,
                 childVars, files, queues>>

\* Mutated form: the directory stream stays at its end.
wait_for_no_rewind ==
  /\ proc = "running" /\ phase = "dispatch" /\ target = NoProc
  /\ next \notin DOMAIN domains_mails
  /\ phase' = "scan" /\ next' = 0
  /\ UNCHANGED <<proc, unread, domains_mails, mails_paths, domains, target,
                 childVars, files, queues>>

\* RETRY_DIR_READ_TIME seconds later.
wait_for ==
  /\ proc = "running" /\ phase = "dispatch" /\ target = NoProc
  /\ next \notin DOMAIN domains_mails
  /\ phase' = "scan" /\ next' = 0 /\ unread' = Mails
  /\ UNCHANGED <<proc, domains_mails, mails_paths, domains, target, childVars, files, queues>>

master ==
  \/ create_queue \/ end_scan \/ get_mail_proc_idx \/ msgsnd \/ next_domain \/ wait_for
  \/ \E m \in Mails : get_domains_mails(m)
-----------------------------------------------------------------------------
(* The children, and the server that writes new letters. *)

\* msgget() without IPC_CREAT, once, when the child starts.
msgget(j) ==
  /\ child[j] = "forked"
  /\ child' = [child EXCEPT ![j] = IF phase = "create" /\ j >= next
                                   THEN "deaf" ELSE "listening"]
  /\ UNCHANGED <<masterVars, received, files, queues>>

msgrcv(j) ==
  /\ child[j] = "listening" /\ queues[j] # <<>>
  /\ received' = [received EXCEPT ![j] = @ \cup {Head(queues[j])}]
  /\ queues' = [queues EXCEPT ![j] = Tail(@)]
  /\ UNCHANGED <<masterVars, child, files>>

\* The child starts to send a letter it received.
rename(j) ==
  /\ \E m \in received[j] : files[m] = "new" /\ files' = [files EXCEPT ![m] = "cur"]
  /\ UNCHANGED <<masterVars, childVars, queues>>

arrive(m) ==
  /\ files[m] = "absent" /\ files' = [files EXCEPT ![m] = "new"]
  /\ UNCHANGED <<masterVars, childVars, queues>>

children == \E j \in Procs : msgget(j) \/ msgrcv(j) \/ rename(j)

Next == master \/ children \/ \E m \in Mails : arrive(m)

Spec == Init /\ [][Next]_vars

\* The loops have no end and wait for a fixed time only; a child goes on with
\* the letters it has (what keeps it from that is in ClientWorker).
FairSpec ==
  /\ Spec /\ WF_vars(master)
  /\ \A j \in Procs : WF_vars(msgget(j)) /\ WF_vars(msgrcv(j)) /\ WF_vars(rename(j))
-----------------------------------------------------------------------------
(* Properties. *)

\* Every variable keeps to its type, and a process is chosen only while a
\* domain of domains_mails[] is at hand.
TypeOK ==
  /\ proc \in {"running", "crashed"}
  /\ phase \in {"create", "scan", "dispatch"}
  /\ next \in Nat
  /\ unread \subseteq Mails
  /\ files \in [Mails -> {"absent", "new", "cur"}]
  /\ domains_mails \in Seq(Domains)
  /\ mails_paths \in [Domains -> Seq(Mails)]
  /\ domains \in [Procs -> SUBSET Domains]
  /\ target \in Procs \cup {NoProc}
  /\ queues \in [Procs -> Seq(Mails)]
  /\ child \in [Procs -> {"forked", "listening", "deaf"}]
  /\ received \in [Procs -> SUBSET Mails]
  /\ target # NoProc => phase = "dispatch" /\ next \in DOMAIN domains_mails

Holds(j, m) == m \in received[j] \/ \E k \in DOMAIN queues[j] : queues[j][k] = m

\* However often a letter is found and sent again, and however the scans and
\* the children interleave: no two processes are ever given letters of the
\* same domain, so no two open sessions with its server.
DomainsApart ==
  \A j, k \in Procs, m, n \in Mails :
    Holds(j, m) /\ Holds(k, n) /\ DomainOf[m] = DomainOf[n] => j = k

\* The domains are spread evenly: no process has two domains more than another.
Balanced ==
  \A j, k \in Procs : Cardinality(domains[j]) <= Cardinality(domains[k]) + 1

\* A letter in new/ reaches a child, although a scan may miss it, a queue may
\* be full and msgsnd() does not wait: the file stays where the next scan
\* finds it.  Only a crash, or a child that does not listen, ends this.
NewIsReceived ==
  \A m \in Mails :
    files[m] = "new" ~> \/ \E j \in Procs : m \in received[j]
                        \/ proc = "crashed"
                        \/ \E j \in Procs : child[j] = "deaf"
=============================================================================
