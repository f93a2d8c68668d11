--------------------------- MODULE ServerProcesses ---------------------------
(* The processes of the server: main() forks the log process, conn_accept()  *)
(* binds the port and preforks the workers, SIGINT ends them, and every      *)
(* failure on the way ends in DESTRUCT.  The operator may start the server   *)
(* again while processes of an earlier start are left.  The queue of the log *)
(* is a System V queue: it belongs to no start and outlives them all.        *)
(*                                                                           *)
(* One start is one process group.  A signal that is pending is taken before *)
(* the next step of its process (the kernel also restarts a fork() then).    *)
EXTENDS Integers, FiniteSets

CONSTANTS Starts,       \* the times the operator runs the program, numbered
          worker_count, \* opts.process_count
          QueueSize,    \* messages the log queue holds
          MaxMessages   \* bound of the model: messages that enter the queue

ASSUME StartAssumption == Starts \subseteq Int /\ IsFiniteSet(Starts)
ASSUME WorkerCountAssumption == worker_count \in Nat
ASSUME QueueAssumption == QueueSize \in Nat \ {0} /\ MaxMessages \in Nat

Logger == -1
Master == 0
Workers == 1..worker_count
Processes == Starts \X ({Logger, Master} \cup Workers)

\* "told": the process ended on a path that signals the others;
\* "over": it ended by SIGINT or by exit(), and signalled nobody.
Lives == {"none", "main", "listen", "prefork", "starting", "up", "cut_off", "told", "over"}
\* What the master knows of its children.  A pid is an int: 0 and -1 are
\* process groups for kill(), and malloc() leaves whatever was there.
Pids == {"zero", "failed", "garbage", "child"}

VARIABLES life,        \* of each process
          pending,     \* processes with a SIGINT not yet delivered
          log_pid,     \* of each master
          worker_pids, \* of each master; "zero" while the array is NULL
          bound,       \* starts whose listener was bound
          outsider,    \* a process of somebody else was signalled
          queued,      \* messages in the queue
          hand,        \* the message a logger took from the queue and has to write
          accepted, written   \* messages that entered the queue, that are in a log

server == <<log_pid, worker_pids, bound>>
log == <<queued, hand, accepted, written>>
vars == <<life, pending, server, outsider, log>>

TypeOK ==
    /\ life \in [Processes -> Lives]
    /\ pending \in SUBSET Processes
    /\ log_pid \in [Starts -> Pids]
    /\ worker_pids \in [Starts -> [Workers -> Pids]]
    /\ bound \in SUBSET Starts
    /\ outsider \in BOOLEAN
    /\ queued \in 0..QueueSize
    /\ hand \in [Starts -> 0..1]
    /\ accepted \in 0..MaxMessages /\ written \in 0..MaxMessages

Alive(p) == life[p] \notin {"none", "told", "over"}
Of(s) == {p \in Processes : p[1] = s}
Group(s) == {p \in Of(s) : Alive(p)}
Running(p) == Alive(p) /\ p \notin pending

Init ==
    /\ life = [p \in Processes |-> "none"]
    /\ pending = {}
    /\ log_pid = [s \in Starts |-> "zero"]
    /\ worker_pids = [s \in Starts |-> [i \in Workers |-> "zero"]]
    /\ bound = {}
    /\ outsider = FALSE
    /\ queued = 0 /\ hand = [s \in Starts |-> 0]
    /\ accepted = 0 /\ written = 0

-----------------------------------------------------------------------------
(* kill(): the processes of the server each pid stands for.                  *)

Everyone(self) == {p \in Processes : Alive(p)} \ {self}

Hits(self, child, pid) ==
    CASE pid = "child"   -> {child}
      [] pid = "zero"    -> Group(self[1])
      [] pid = "failed"  -> Everyone(self)
      [] pid = "garbage" -> {}

\* Garbage is 0 or -1 or the pid of anybody or of nobody.
Wild(self) == {{}, Group(self[1]), Everyone(self)}

\* Mutated form of Named: the loop over worker_pids begins at 1.
Named_from_one(s, workers) ==
    Hits(<<s, Master>>, <<s, Logger>>, log_pid[s])
        \cup UNION {Hits(<<s, Master>>, <<s, i>>, worker_pids[s][i]) : i \in workers \ {1}}

\* The processes that log_pid and worker_pids of a master name.
Named(s, workers) ==
    Hits(<<s, Master>>, <<s, Logger>>, log_pid[s])
        \cup UNION {Hits(<<s, Master>>, <<s, i>>, worker_pids[s][i]) : i \in workers}

\* kill(log_pid, SIGINT) and the loop over worker_pids.
KillAll(s, workers) ==
    LET known == {log_pid[s]} \cup {worker_pids[s][i] : i \in workers}
    IN /\ \E wild \in (IF "garbage" \in known THEN Wild(<<s, Master>>) ELSE {{}}) :
            pending' = (pending \cup {p \in Named(s, workers) \cup wild : Alive(p)})
                          \ {<<s, Master>>}
       /\ outsider' \in (IF "failed" \in known THEN {TRUE}
                         ELSE IF "garbage" \in known THEN {outsider, TRUE} ELSE {outsider})

\* DESTRUCT of main(): worker_pids is NULL until the log process is forked.
Destruct(s) ==
    /\ life' = [life EXCEPT ![<<s, Master>>] = "told"]
    /\ KillAll(s, IF life[<<s, Master>>] = "main" THEN {} ELSE Workers)

\* No handler is installed then: a SIGINT between two kill() ends the master
\* before it has signalled the workers from some i on.
destruct_cut(s, workers) ==
    \E i \in workers :
        /\ life' = [life EXCEPT ![<<s, Master>>] = "over"]
        /\ KillAll(s, 1 .. i - 1)

-----------------------------------------------------------------------------
(* The log queue.  log_message() does not wait and nobody reads its result.  *)

\* Mutated form of log_message: without IPC_NOWAIT and its limit.
log_message_unbounded ==
    /\ queued' = queued + 1 /\ accepted' = accepted + 1
    /\ UNCHANGED <<hand, written>>

log_message ==
    LET m == IF queued < QueueSize /\ accepted < MaxMessages THEN 1 ELSE 0
    IN /\ queued' = queued + m
       /\ accepted' = accepted + m
       /\ UNCHANGED <<hand, written>>

-----------------------------------------------------------------------------
(* The master.                                                               *)

main(s) ==
    /\ life[<<s, Master>>] = "none"
    /\ \A t \in Starts : t < s => life[<<t, Master>>] # "none"
    /\ life' = [life EXCEPT ![<<s, Master>>] = "main"]
    /\ UNCHANGED <<pending, server, outsider, log>>

\* Usage, configuration, set_id(), protocol_init() or maildir_init(): log_pid is 0.
main_fails(s) ==
    /\ life[<<s, Master>>] = "main" /\ Running(<<s, Master>>)
    /\ Destruct(s)
    /\ UNCHANGED <<server, log>>

fork_logger(s) ==
    /\ life[<<s, Master>>] = "main" /\ Running(<<s, Master>>)
    /\ life' = [life EXCEPT ![<<s, Master>>] = "listen", ![<<s, Logger>>] = "starting"]
    /\ log_pid' = [log_pid EXCEPT ![s] = "child"]
    /\ worker_pids' = [worker_pids EXCEPT ![s] = [i \in Workers |-> "garbage"]]
    /\ log_message                 \* "SMTP server booted"
    /\ UNCHANGED <<pending, bound, outsider>>

\* fork() is -1 and so is log_pid.
fork_logger_fails(s) ==
    /\ life[<<s, Master>>] = "main" /\ Running(<<s, Master>>)
    /\ log_pid' = [log_pid EXCEPT ![s] = "failed"]
    /\ life' = [life EXCEPT ![<<s, Master>>] = "told"]
    /\ pending' = pending \cup Everyone(<<s, Master>>)
    /\ outsider' = TRUE
    /\ UNCHANGED <<worker_pids, bound, log>>

\* Every process forked after listen() holds the listener, until it ends.
Held(s) == s \in bound /\ \E p \in Group(s) : p[2] # Logger

conn_accept(s) ==
    /\ life[<<s, Master>>] = "listen" /\ Running(<<s, Master>>)
    /\ \A t \in Starts : ~Held(t)
    /\ bound' = bound \cup {s}
    /\ life' = [life EXCEPT ![<<s, Master>>] = "prefork"]
    /\ log_message                 \* "SMTP server listen on ..."
    /\ UNCHANGED <<pending, log_pid, worker_pids, outsider>>

\* socket(), bind() or listen(): the port is held, or not allowed.
conn_accept_fails(s) ==
    /\ life[<<s, Master>>] = "listen" /\ Running(<<s, Master>>)
    /\ Destruct(s) \/ destruct_cut(s, Workers)
    /\ UNCHANGED <<server, log>>

Unforked(s) == {i \in Workers : life[<<s, i>>] = "none"}
IsNext(s, i) == i \in Unforked(s) /\ \A j \in Unforked(s) : i <= j

fork_worker(s, i) ==
    /\ life[<<s, Master>>] = "prefork" /\ Running(<<s, Master>>)
    /\ IsNext(s, i)
    /\ life' = [life EXCEPT ![<<s, i>>] = "starting"]
    /\ worker_pids' = [worker_pids EXCEPT ![s][i] = "child"]
    /\ UNCHANGED <<pending, log_pid, bound, outsider, log>>

\* worker_pids[i] is -1, and the entries after it were never written.
fork_worker_fails(s, i) ==
    /\ life[<<s, Master>>] = "prefork" /\ Running(<<s, Master>>)
    /\ IsNext(s, i)
    /\ worker_pids' = [worker_pids EXCEPT ![s][i] = "failed"]
    /\ \/ /\ life' = [life EXCEPT ![<<s, Master>>] = "told"]
          /\ pending' = pending \cup Everyone(<<s, Master>>)
          /\ outsider' = TRUE
       \/ destruct_cut(s, 1 .. i)
    /\ UNCHANGED <<log_pid, bound, log>>

\* Mutated form of prefork: the handler is installed before the last fork().
prefork_early(s) ==
    /\ life[<<s, Master>>] = "prefork" /\ Running(<<s, Master>>)
    /\ life' = [life EXCEPT ![<<s, Master>>] = "up"]
    /\ UNCHANGED <<pending, server, outsider, log>>

\* The last lines of prefork(): handle_signal_master is installed.
prefork(s) ==
    /\ life[<<s, Master>>] = "prefork" /\ Running(<<s, Master>>)
    /\ Unforked(s) = {}
    /\ life' = [life EXCEPT ![<<s, Master>>] = "up"]
    /\ UNCHANGED <<pending, server, outsider, log>>

\* sigaction() fails in prefork(), in the master or in a worker: each then calls
\* the handler of a worker, which ends itself and signals nobody.
prefork_fails(p) ==
    /\ \/ p[2] = Master /\ life[p] = "prefork" /\ Unforked(p[1]) = {}
       \/ p[2] \in Workers /\ life[p] = "starting"
    /\ Running(p)
    /\ life' = [life EXCEPT ![p] = "over"]
    /\ UNCHANGED <<pending, server, outsider, log>>

-----------------------------------------------------------------------------
(* The log process.                                                          *)

logger_start(s) ==
    /\ life[<<s, Logger>>] = "starting" /\ Running(<<s, Logger>>)
    /\ life' = [life EXCEPT ![<<s, Logger>>] = "up"]
    /\ UNCHANGED <<pending, server, outsider, log>>

\* logger_start() returned into main(), where case 0 goes on to DESTRUCT with
\* the log_pid of the child: 0.
logger_falls_through(s) ==
    /\ life[<<s, Logger>>] \in {"starting", "cut_off"} /\ Running(<<s, Logger>>)
    /\ hand[s] = 0
    /\ life' = [life EXCEPT ![<<s, Logger>>] = "told"]
    /\ pending' = pending \cup (Group(s) \ {<<s, Logger>>})
    /\ UNCHANGED <<server, outsider, log>>

\* Mutated form of msgrcv: before the last message is written.
msgrcv_early(s) ==
    /\ life[<<s, Logger>>] = "up" /\ Running(<<s, Logger>>)
    /\ queued > 0
    /\ queued' = queued - 1
    /\ hand' = [hand EXCEPT ![s] = 1]
    /\ UNCHANGED <<life, pending, server, outsider, accepted, written>>

msgrcv(s) ==
    /\ life[<<s, Logger>>] = "up" /\ Running(<<s, Logger>>)
    /\ hand[s] = 0 /\ queued > 0
    /\ queued' = queued - 1
    /\ hand' = [hand EXCEPT ![s] = 1]
    /\ UNCHANGED <<life, pending, server, outsider, accepted, written>>

\* The file is not buffered: after fwrite() the message is in it.
save_message(s) ==
    /\ life[<<s, Logger>>] \in {"up", "cut_off"} /\ Running(<<s, Logger>>)
    /\ hand[s] = 1
    /\ hand' = [hand EXCEPT ![s] = 0]
    /\ written' = written + 1
    /\ UNCHANGED <<life, pending, server, outsider, queued, accepted>>

logger(s) == logger_start(s) \/ logger_falls_through(s) \/ msgrcv(s) \/ save_message(s)

-----------------------------------------------------------------------------
(* Workers and the serving master.                                           *)

worker_ready(s, i) ==
    /\ life[<<s, i>>] = "starting" /\ Running(<<s, i>>)
    /\ life' = [life EXCEPT ![<<s, i>>] = "up"]
    /\ UNCHANGED <<pending, server, outsider, log>>

\* Accepting a connection and sending a reply write to the log.
serve(p) ==
    /\ p[2] # Logger /\ life[p] = "up" /\ Running(p)
    /\ log_message
    /\ UNCHANGED <<life, pending, server, outsider>>

\* ServerLoop: a command out of order, SIGPIPE.  Nobody is told.
exits(p) ==
    /\ p[2] # Logger /\ life[p] = "up" /\ Running(p)
    /\ life' = [life EXCEPT ![p] = "over"]
    /\ UNCHANGED <<pending, server, outsider, log>>

-----------------------------------------------------------------------------
(* SIGINT.                                                                   *)

handle_signal_master(s) ==
    /\ life[<<s, Master>>] = "up" /\ <<s, Master>> \in pending
    /\ life' = [life EXCEPT ![<<s, Master>>] = "told"]
    /\ KillAll(s, Workers)
    /\ UNCHANGED <<server, log>>

\* Mutated form of handle_signal: lost in a process without its handler.
handle_signal_ready_only(p) ==
    /\ p \in pending /\ Alive(p)
    /\ ~(p[2] = Master /\ life[p] = "up")
    /\ life' = IF life[p] = "starting" THEN life ELSE [life EXCEPT ![p] = "over"]
    /\ pending' = pending \ {p}
    /\ UNCHANGED <<server, outsider, log>>

\* handle_signal(), log_handle_signal(), or the default action of a process
\* that has not called sigaction() yet: all end the process.
handle_signal(p) ==
    /\ p \in pending /\ Alive(p)
    /\ ~(p[2] = Master /\ life[p] = "up")
    /\ life' = [life EXCEPT ![p] = "over"]
    /\ pending' = pending \ {p}
    /\ UNCHANGED <<server, outsider, log>>

deliver(p) == handle_signal(p) \/ (p[2] = Master /\ handle_signal_master(p[1]))

-----------------------------------------------------------------------------
(* The operator.                                                             *)

kill_master(s) ==
    /\ Running(<<s, Master>>)
    /\ pending' = pending \cup {<<s, Master>>}
    /\ UNCHANGED <<life, server, outsider, log>>

\* Ctrl-C: the terminal signals the group.
interrupt(s) ==
    /\ Group(s) \ pending # {}
    /\ pending' = pending \cup Group(s)
    /\ UNCHANGED <<life, server, outsider, log>>

\* The queue is removed: every msgrcv() with its number fails, the next
\* log_message() makes another one.  Its messages count as never sent.  A log
\* process that is starting may have found it already.
ipcrm ==
    /\ \E s \in Starts : life[<<s, Logger>>] \in {"starting", "up"}
    /\ \E early \in SUBSET {s \in Starts : life[<<s, Logger>>] = "starting"} :
         life' = [p \in Processes |->
                    IF p[2] = Logger /\ (life[p] = "up" \/ p[1] \in early)
                    THEN "cut_off" ELSE life[p]]
    /\ queued' = 0 /\ accepted' = accepted - queued
    /\ UNCHANGED <<pending, server, outsider, hand, written>>

master(s) ==
    \/ main(s) \/ main_fails(s)
    \/ fork_logger(s) \/ fork_logger_fails(s)
    \/ conn_accept(s) \/ conn_accept_fails(s)
    \/ \E i \in Workers : fork_worker(s, i) \/ fork_worker_fails(s, i)
    \/ prefork(s)

Next ==
    \/ \E s \in Starts : \/ master(s) \/ logger(s)
                         \/ \E i \in Workers : worker_ready(s, i)
                         \/ kill_master(s) \/ interrupt(s)
    \/ \E p \in Processes : prefork_fails(p) \/ serve(p) \/ exits(p) \/ deliver(p)
    \/ ipcrm

Spec == Init /\ [][Next]_vars

\* The kernel delivers a pending signal: no process blocks SIGINT for longer
\* than its handler.
FairSpec == Spec /\ \A p \in Processes : WF_vars(deliver(p))

-----------------------------------------------------------------------------
(* Properties.                                                               *)

\* When a master ended on a path that signals its children (handler or
\* DESTRUCT of main()), or a log process fell through to DESTRUCT, whatever
\* was forked by then and whatever is forked at that moment ends as well.
\* A master that a SIGINT ends in the middle of DESTRUCT is "over", not "told":
\* its workers stay, README.md, section 6.
EndsTogether ==
    \A s \in Starts :
        (\E r \in {Logger, Master} : life[<<s, r>>] = "told") => Group(s) \subseteq pending

\* The handler of the master signals processes of its own start only: when it
\* is installed, no entry of worker_pids is left as malloc() returned it.
ShutdownStaysInside ==
    [][\A s \in Starts : life[<<s, Master>>] = "up" /\ life'[<<s, Master>>] = "told"
          => pending' \subseteq pending \cup Of(s) /\ outsider' = outsider]_vars

\* A log message that entered the queue is in a log, in the queue, or in the
\* hand of one log process, which writes it unless it is ended: the queue
\* outlives a start, and an ended log process costs one message at most.
OneLost == accepted = written + queued + Cardinality({s \in Starts : hand[s] = 1})

\* SIGINT to a serving master ends every process of its start, the ones that
\* have not installed their handlers included.
SigintEndsAll ==
    \A s \in Starts :
        (life[<<s, Master>>] = "up" /\ <<s, Master>> \in pending) ~> (Group(s) = {})
=============================================================================
