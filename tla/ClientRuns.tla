------------------------------ MODULE ClientRuns ------------------------------
(***************************************************************************)
(* The client, started again and again.  main() of client.c forks the log   *)
(* process and reads the configuration, run_client() forks the children and *)
(* goes on as the master.  None of these processes installs a handler for a *)
(* signal or looks for the others, so each may end and leave the rest; and  *)
(* their System V queues belong to the kernel and outlive all of them.      *)
(*                                                                          *)
(* What a master does in one run is in ClientMaster in more detail, and     *)
(* what a child does with a letter in ClientWorker.                         *)
(***************************************************************************)
EXTENDS Integers, Sequences, FiniteSets

CONSTANTS Runs,        \* the times the operator starts the program, numbered
          Domains, Mails, DomainOf,
          proc_num,    \* conf.proc_cnt
          LogKey,      \* the number ftok() makes the key of the log queue from: 33
          MaxQueue,    \* messages a queue holds before msgsnd() fails
          LogMsg,      \* a message of the log, one for each run
          NoMail,      \* no letter
          Logged       \* bound of the model: the runs whose log is followed

ASSUME RunsAssumption == Runs \subseteq Int /\ Logged \subseteq Runs
ASSUME MailsAssumption ==
  /\ DomainOf \in [Mails -> Domains] /\ NoMail \notin Mails
  /\ \A r \in Runs : LogMsg[r] \notin Mails
ASSUME ProcAssumption == proc_num \in Nat /\ MaxQueue \in Nat /\ LogKey \in Nat

Procs == 0 .. proc_num - 1
\* Nothing limits proc_cnt: a child may have the key of the log.
Keys  == Procs \cup {LogKey}

LogMessages == {LogMsg[r] : r \in Runs}

\* "usage": no arguments.  The other refusals are ignored by main(), and differ
\* in what client_parse_config() had stored by then: all that is needed,
\* everything but mail_dir, or nothing, proc_cnt included.
Refused == {"complete", "no_mail_dir", "nothing"}

VARIABLES
  main,       \* main() of a run: "none", "config", "fork", "create", "serve", "ended"
  conf,       \* "unread", "read", "usage" or what a refused configuration left
  next,       \* the loop counter i of forking and of creating
  domains,    \* mail_procs[].domains
  found,      \* the letters of domains_mails[]
  logger,     \* a log process: "none", "starting", "reads", "deaf" or "ended"
  child,      \* a child: the same, or "failed" when fork() gave none
  received,   \* the letters in the lists of a child
  reading,    \* the letter a child has read and is about to rename
  made,       \* the keys whose queue exists
  queues,     \* the messages in them
  files,      \* a letter is "absent", in "new" or in "cur"
  sent,       \* how often a child went on to send a letter; ghost, up to 2
  clean       \* no run began while an earlier one was alive or its letters
              \* were queued; ghost

mainVars   == <<main, conf, next, domains, found>>
childVars  == <<child, received, reading>>
kernelVars == <<made, queues>>
ghosts     == <<sent, clean>>
vars       == <<mainVars, logger, childVars, kernelVars, files, ghosts>>

Lives(state) == state \in {"starting", "reads", "deaf"}
MainLives(r) == main[r] \notin {"none", "ended"}
\* The log process is not counted: it has nothing to do with letters.
Leftover(r) == MainLives(r) \/ \E j \in Procs : Lives(child[r][j])

Init ==
  /\ main = [r \in Runs |-> "none"]
  /\ conf = [r \in Runs |-> "unread"]
  /\ next = [r \in Runs |-> 0]
  /\ domains = [r \in Runs |-> [j \in Procs |-> {}]]
  /\ found = [r \in Runs |-> {}]
  /\ logger = [r \in Runs |-> "none"]
  /\ child = [r \in Runs |-> [j \in Procs |-> "none"]]
  /\ received = [r \in Runs |-> [j \in Procs |-> {}]]
  /\ reading = [r \in Runs |-> [j \in Procs |-> NoMail]]
  /\ made = {} /\ queues = [k \in Keys |-> <<>>]
  /\ files = [m \in Mails |-> "absent"]
  /\ sent = [m \in Mails |-> 0]
  /\ clean = TRUE
-----------------------------------------------------------------------------
(* System V queues. *)

\* ftok("/tmp", proc_idx)
Key(j) == j

\* Mutated form of Sent: a queue has no limit.
Sent_unlimited(k, m) == [queues EXCEPT ![k] = Append(@, m)]

\* msgsnd(IPC_NOWAIT), whose result nobody reads.
Sent(k, m) == [queues EXCEPT ![k] = IF Len(@) < MaxQueue THEN Append(@, m) ELSE @]

\* The sender makes the queue if need be.
LOG(r) == made' = made \cup {LogKey} /\ queues' = Sent(LogKey, LogMsg[r])

\* In any process of a run, between any two steps.
send_log_message(r) ==
  /\ r \in Logged /\ Leftover(r) /\ LOG(r)
  /\ UNCHANGED <<mainVars, logger, childVars, files, ghosts>>
-----------------------------------------------------------------------------
(* main() and the master. *)

\* Nothing in the code keeps two masters apart; here the operator does.
begin(r) ==
  /\ main[r] = "none" /\ \A q \in Runs : q < r => main[q] = "ended"
  /\ main' = [main EXCEPT ![r] = "config"]
  \* fork() may fail; nobody looks.
  /\ logger' \in {logger, [logger EXCEPT ![r] = IF r \in Logged THEN "starting" ELSE "none"]}
  /\ clean' = (clean /\ \A q \in Runs : ~Leftover(q)
                     /\ \A j \in Procs : queues[Key(j)] = <<>>)
  /\ UNCHANGED <<conf, next, domains, found, childVars, kernelVars, files, sent>>

\* Without arguments main() logs CLIENT_USAGE and returns.
usage(r) ==
  /\ main[r] = "config"
  /\ main' = [main EXCEPT ![r] = "ended"]
  /\ conf' = [conf EXCEPT ![r] = "usage"]
  /\ IF r \in Logged THEN LOG(r) ELSE UNCHANGED kernelVars
  /\ UNCHANGED <<next, domains, found, logger, childVars, files, ghosts>>

\* main() does not look at what read_config() returns.
read_config(r) ==
  /\ main[r] = "config"
  /\ main' = [main EXCEPT ![r] = "fork"]
  /\ \E result \in {"read"} \cup Refused : conf' = [conf EXCEPT ![r] = result]
  /\ UNCHANGED <<next, domains, found, logger, childVars, kernelVars, files, ghosts>>

proc_cnt(r) == IF conf[r] = "nothing" THEN 0 ELSE proc_num

\* A child that was not forked is not looked for later.
fork_child(r) ==
  /\ main[r] = "fork" /\ next[r] < proc_cnt(r)
  /\ next' = [next EXCEPT ![r] = @ + 1]
  /\ \E state \in {"starting", "failed"} : child' = [child EXCEPT ![r][next[r]] = state]
  /\ UNCHANGED <<main, conf, domains, found, logger, received, reading, kernelVars, files, ghosts>>

master_process_worker_start(r) ==
  /\ main[r] = "fork" /\ next[r] = proc_cnt(r)
  /\ main' = [main EXCEPT ![r] = "create"]
  /\ next' = [next EXCEPT ![r] = 0]
  /\ UNCHANGED <<conf, domains, found, logger, childVars, kernelVars, files, ghosts>>

\* msgget(IPC_CREAT) finds the queue of an earlier run as that run left it.
create_queue(r) ==
  /\ main[r] = "create" /\ next[r] < proc_cnt(r)
  /\ made' = made \cup {Key(next[r])}
  /\ next' = [next EXCEPT ![r] = @ + 1]
  /\ UNCHANGED <<main, conf, domains, found, logger, childVars, queues, files, ghosts>>

queues_created(r) ==
  /\ main[r] = "create" /\ next[r] = proc_cnt(r)
  /\ main' = [main EXCEPT ![r] = "serve"]
  /\ next' = [next EXCEPT ![r] = 0]
  /\ UNCHANGED <<conf, domains, found, logger, childVars, kernelVars, files, ghosts>>

HasMailDir(r) == conf[r] \in {"read", "complete"}

\* readdir() of what opendir(NULL) returned.
readdir_crashes(r) ==
  /\ main[r] = "serve" /\ ~HasMailDir(r)
  /\ main' = [main EXCEPT ![r] = "ended"]
  /\ conf' = [conf EXCEPT ![r] = "unread"]
  /\ UNCHANGED <<next, domains, found, logger, childVars, kernelVars, files, ghosts>>

get_domains_mails(r, m) ==
  /\ main[r] = "serve" /\ HasMailDir(r)
  /\ files[m] = "new" /\ m \notin found[r]
  /\ found' = [found EXCEPT ![r] = @ \cup {m}]
  /\ UNCHANGED <<main, conf, next, domains, logger, childVars, kernelVars, files, ghosts>>

\* Mutated form of get_mail_proc_idx: whoever has the fewest domains now.
get_mail_proc_idx_least(r, d, j) ==
  \A k \in Procs : Cardinality(domains[r][j]) <= Cardinality(domains[r][k])

\* The process that has the domain, or else one with the fewest domains.
get_mail_proc_idx(r, d, j) ==
  IF \E k \in Procs : d \in domains[r][k] THEN d \in domains[r][j]
  ELSE \A k \in Procs : Cardinality(domains[r][j]) <= Cardinality(domains[r][k])

msgsnd(r, m) ==
  /\ main[r] = "serve" /\ m \in found[r]
  /\ found' = [found EXCEPT ![r] = @ \ {m}]
  /\ \E j \in Procs :
       /\ get_mail_proc_idx(r, DomainOf[m], j)
       /\ domains' = [domains EXCEPT ![r][j] = @ \cup {DomainOf[m]}]
       /\ queues' = Sent(Key(j), m)
  /\ UNCHANGED <<main, conf, next, logger, childVars, made, files, ghosts>>

master(r) ==
  \/ read_config(r) \/ fork_child(r) \/ master_process_worker_start(r)
  \/ create_queue(r) \/ queues_created(r) \/ readdir_crashes(r)
  \/ \E m \in Mails : get_domains_mails(r, m) \/ msgsnd(r, m)
-----------------------------------------------------------------------------
(* The log process. *)

\* msgget() without IPC_CREAT, once.
start_logger(r) ==
  /\ logger[r] = "starting"
  /\ logger' = [logger EXCEPT ![r] = IF LogKey \in made THEN "reads" ELSE "deaf"]
  /\ UNCHANGED <<mainVars, childVars, kernelVars, files, ghosts>>

\* Mutated form of save_log: the message is only looked at.
save_log_peeks(r) ==
  /\ logger[r] = "reads" /\ queues[LogKey] # <<>>
  /\ logger' = IF conf[r] = "usage" THEN [logger EXCEPT ![r] = "ended"] ELSE logger
  /\ UNCHANGED <<mainVars, childVars, kernelVars, files, ghosts>>

\* msgrcv() and save_log(), a path that came by a shared queue included.  Without
\* arguments argv[2] is beyond the array, and its use as a directory may crash.
save_log(r) ==
  /\ logger[r] = "reads" /\ queues[LogKey] # <<>>
  /\ queues' = [queues EXCEPT ![LogKey] = Tail(@)]
  /\ \/ UNCHANGED logger
     \/ conf[r] = "usage" /\ logger' = [logger EXCEPT ![r] = "ended"]
  /\ UNCHANGED <<mainVars, childVars, made, files, ghosts>>
-----------------------------------------------------------------------------
(* A child. *)

\* msgget() without IPC_CREAT, once.
msgget(r, j) ==
  /\ child[r][j] = "starting"
  /\ child' = [child EXCEPT ![r][j] = IF Key(j) \in made THEN "reads" ELSE "deaf"]
  /\ UNCHANGED <<mainVars, logger, received, reading, kernelVars, files, ghosts>>

msgrcv(r, j) ==
  /\ child[r][j] = "reads" /\ reading[r][j] = NoMail
  /\ queues[Key(j)] # <<>> /\ Head(queues[Key(j)]) \in Mails
  /\ received' = [received EXCEPT ![r][j] = @ \cup {Head(queues[Key(j)])}]
  /\ queues' = [queues EXCEPT ![Key(j)] = Tail(@)]
  /\ UNCHANGED <<mainVars, logger, child, reading, made, files, ghosts>>

\* A text of the log is taken for a path: it has no letter and no domain, which
\* the child survives or not (child_ends).
msgrcv_log(r, j) ==
  /\ child[r][j] = "reads" /\ reading[r][j] = NoMail
  /\ queues[Key(j)] # <<>> /\ Head(queues[Key(j)]) \notin Mails
  /\ queues' = [queues EXCEPT ![Key(j)] = Tail(@)]
  /\ UNCHANGED <<mainVars, logger, childVars, made, files, ghosts>>

\* A path whose file has gone leaves nothing to send.
read_msg_file(r, j, m) ==
  /\ child[r][j] = "reads" /\ reading[r][j] = NoMail
  /\ m \in received[r][j]
  /\ received' = [received EXCEPT ![r][j] = @ \ {m}]
  /\ reading' = IF files[m] = "new" THEN [reading EXCEPT ![r][j] = m] ELSE reading
  /\ UNCHANGED <<mainVars, logger, child, kernelVars, files, ghosts>>

\* Mutated form of rename: the file stays.
rename_not(r, j) ==
  /\ reading[r][j] # NoMail
  /\ sent' = [sent EXCEPT ![reading[r][j]] = IF @ < 2 THEN @ + 1 ELSE @]
  /\ reading' = [reading EXCEPT ![r][j] = NoMail]
  /\ UNCHANGED <<mainVars, logger, child, received, kernelVars, files, clean>>

\* MAIL FROM follows, whether rename() found the file or not.
rename(r, j) ==
  /\ reading[r][j] # NoMail
  /\ files' = [files EXCEPT ![reading[r][j]] = "cur"]
  /\ sent' = [sent EXCEPT ![reading[r][j]] = IF @ < 2 THEN @ + 1 ELSE @]
  /\ reading' = [reading EXCEPT ![r][j] = NoMail]
  /\ UNCHANGED <<mainVars, logger, child, received, kernelVars, clean>>

works(r, j) ==
  msgget(r, j) \/ msgrcv(r, j) \/ msgrcv_log(r, j) \/ rename(r, j) \/ \E m \in Mails : read_msg_file(r, j, m)
-----------------------------------------------------------------------------
(* Ends, and the server that writes letters. *)

\* A signal or a crash ends one process, and its memory is gone.
main_ends(r) ==
  /\ MainLives(r)
  /\ main' = [main EXCEPT ![r] = "ended"]
  /\ next' = [next EXCEPT ![r] = 0]
  /\ domains' = [domains EXCEPT ![r] = [j \in Procs |-> {}]]
  /\ found' = [found EXCEPT ![r] = {}]
  /\ conf' = [conf EXCEPT ![r] = "unread"]
  /\ UNCHANGED <<logger, childVars, kernelVars, files, ghosts>>

child_ends(r, j) ==
  /\ Lives(child[r][j])
  /\ child' = [child EXCEPT ![r][j] = "ended"]
  /\ received' = [received EXCEPT ![r][j] = {}]
  /\ reading' = [reading EXCEPT ![r][j] = NoMail]
  /\ UNCHANGED <<mainVars, logger, kernelVars, files, ghosts>>

logger_ends(r) ==
  /\ Lives(logger[r])
  /\ logger' = [logger EXCEPT ![r] = "ended"]
  /\ UNCHANGED <<mainVars, childVars, kernelVars, files, ghosts>>

arrive(m) ==
  /\ files[m] = "absent" /\ files' = [files EXCEPT ![m] = "new"]
  /\ UNCHANGED <<mainVars, logger, childVars, kernelVars, ghosts>>

Next ==
  \/ \E r \in Runs :
       \/ begin(r) \/ usage(r) \/ master(r) \/ send_log_message(r)
       \/ start_logger(r) \/ save_log(r)
       \/ main_ends(r) \/ logger_ends(r)
       \/ \E j \in Procs : works(r, j) \/ child_ends(r, j)
  \/ \E m \in Mails : arrive(m)

Spec == Init /\ [][Next]_vars

\* The loops of the master and of a child have no end and wait for a fixed time
\* only; a child goes on with the letters it has (what keeps it from that is in
\* ClientWorker).
FairSpec ==
  /\ Spec
  /\ \A r \in Runs :
       /\ WF_vars(start_logger(r)) /\ WF_vars(save_log(r))
       /\ \A m \in Mails : WF_vars(get_domains_mails(r, m)) /\ WF_vars(msgsnd(r, m))
       /\ \A j \in Procs :
            /\ WF_vars(msgget(r, j)) /\ WF_vars(rename(r, j))
            /\ WF_vars(msgrcv(r, j)) /\ WF_vars(msgrcv_log(r, j))
            /\ \A m \in Mails : WF_vars(read_msg_file(r, j, m))
-----------------------------------------------------------------------------
(* Properties. *)

\* Every variable keeps to its type, and no queue is longer than the kernel lets it.
TypeOK ==
  /\ main \in [Runs -> {"none", "config", "fork", "create", "serve", "ended"}]
  /\ conf \in [Runs -> {"unread", "read", "usage"} \cup Refused]
  /\ next \in [Runs -> 0 .. proc_num]
  /\ domains \in [Runs -> [Procs -> SUBSET Domains]]
  /\ found \in [Runs -> SUBSET Mails]
  /\ logger \in [Runs -> {"none", "starting", "reads", "deaf", "ended"}]
  /\ child \in [Runs -> [Procs -> {"none", "failed", "starting", "reads", "deaf", "ended"}]]
  /\ received \in [Runs -> [Procs -> SUBSET Mails]]
  /\ reading \in [Runs -> [Procs -> Mails \cup {NoMail}]]
  /\ made \in SUBSET Keys
  /\ queues \in [Keys -> Seq(Mails \cup LogMessages)]
  /\ \A k \in Keys : Len(queues[k]) <= MaxQueue
  /\ files \in [Mails -> {"absent", "new", "cur"}]
  /\ sent \in [Mails -> 0 .. 2]
  /\ clean \in BOOLEAN

\* The letters a child will still send: in its queue, its lists or its hands.
Holds(r, j, m) ==
  /\ Lives(child[r][j])
  /\ m \in received[r][j] \/ m = reading[r][j]

\* "If one of the processes already handles this domain, the letter goes to it"
OneProcess ==
  \A q, r \in Runs : \A i, j \in Procs : \A m, n \in Mails :
    Holds(q, i, m) /\ Holds(r, j, n) /\ DomainOf[m] = DomainOf[n] => q = r /\ i = j

\* When each run finds nobody left of the earlier ones and no letter queued, no
\* domain is worked for by two children, whatever was killed in between.
OneProcessIfClean == clean => OneProcess

\* Then no letter is sent twice either, although each scan of each run queues
\* it, and a child may be killed when it has read it.
SentOnceIfClean == clean => \A m \in Mails : sent[m] <= 1

\* A letter in new/ is sent on once a run has its master and all its children,
\* whoever was killed before, whatever is left in the queues and whoever of an
\* earlier run still takes paths from them, unless its domain was given to the
\* child whose queue is the log's.
Whole(r) == /\ main[r] = "serve" /\ HasMailDir(r)
            /\ \A j \in Procs : child[r][j] = "reads"
WithTheLog(r, m) == \E j \in Procs : Key(j) = LogKey /\ DomainOf[m] \in domains[r][j]
NewIsSent ==
  \A r \in Runs : \A m \in Mails :
    files[m] = "new" ~> (files[m] = "cur" \/ ~Whole(r) \/ WithTheLog(r, m))

\* What a run that is over left in the log queue is read, by any log process that
\* found the queue when it was forked, although other runs go on filling it.
Over(r) == main[r] = "ended" /\ ~Leftover(r)
InLog(r) == \E i \in DOMAIN queues[LogKey] : queues[LogKey][i] = LogMsg[r]
LeftLogIsRead ==
  \A q, r \in Runs :
    (/\ logger[r] = "reads" \/ (logger[r] = "starting" /\ LogKey \in made)
     /\ Over(q) /\ InLog(q))
      ~> (~InLog(q) \/ ~Lives(logger[r]))
=============================================================================
