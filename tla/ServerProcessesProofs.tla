----------------------- MODULE ServerProcessesProofs -----------------------
(***************************************************************************)
(* What the processes of the server keep to for any number of starts and    *)
(* workers and any size of the log queue: their types, the account of log   *)
(* messages, that a start ends as a whole once one of its processes told    *)
(* the others, and that the handler of the master signals nobody else.      *)
(***************************************************************************)
EXTENDS ServerProcesses, FiniteSetTheorems, TLAPS

\* The master is forked from first and forks last: what there is before its
\* log process, and before its first worker.
OrderAt(s) ==
  /\ life[<<s, Master>>] \in {"none", "main"} => life[<<s, Logger>>] = "none"
  /\ life[<<s, Master>>] \in {"none", "main", "listen"} =>
       \A i \in Workers : life[<<s, i>>] = "none"

\* A master knows the pid of what it forked, and has forked all when it is up.
KnownAt(s) ==
  /\ life[<<s, Master>>] \in {"listen", "prefork", "up"} => log_pid[s] = "child"
  /\ \A i \in Workers : life[<<s, i>>] # "none" => worker_pids[s][i] = "child"
  /\ life[<<s, Master>>] = "up" => \A i \in Workers : life[<<s, i>>] # "none"

Forked == \A s \in Starts : OrderAt(s) /\ KnownAt(s)

\* The part of TypeOK that the processes need, and the part of the log.
ProcsOK ==
  /\ life \in [Processes -> Lives]
  /\ pending \in SUBSET Processes
  /\ log_pid \in [Starts -> Pids]
  /\ worker_pids \in [Starts -> [Workers -> Pids]]
  /\ bound \in SUBSET Starts
  /\ outsider \in BOOLEAN

LogOK ==
  /\ queued \in 0..QueueSize
  /\ hand \in [Starts -> 0..1]
  /\ accepted \in 0..MaxMessages /\ written \in 0..MaxMessages
  /\ OneLost

Inv == ProcsOK /\ Forked /\ EndsTogether

\* The processes of a start, by name.
LEMMA Members ==
  ASSUME NEW s \in Starts
  PROVE  /\ <<s, Master>> \in Processes /\ <<s, Logger>> \in Processes
         /\ \A i \in Workers : <<s, i>> \in Processes
         /\ Master # Logger /\ Master \notin Workers /\ Logger \notin Workers
  BY WorkerCountAssumption DEF Processes, Master, Logger, Workers

\* A process is one of a start.
LEMMA Parts ==
  ASSUME NEW p \in Processes
  PROVE  \E s \in Starts : p[1] = s /\ \/ p = <<s, Master>> \/ p = <<s, Logger>>
                                       \/ \E i \in Workers : p = <<s, i>>
  BY WorkerCountAssumption DEF Processes, Master, Logger, Workers

-----------------------------------------------------------------------------
(* kill(). *)

\* What a pid stands for.
LEMMA HitsAre ==
  ASSUME NEW self \in Processes, NEW child \in Processes, NEW pid \in Pids
  PROVE  Hits(self, child, pid) \subseteq Processes
<1>1. Group(self[1]) \subseteq Processes /\ Everyone(self) \subseteq Processes
  BY DEF Group, Of, Everyone
<1>2. QED
  BY <1>1, Zenon DEF Hits, Pids

\* The pid of a child stands for the child.
LEMMA HitsChild ==
  ASSUME NEW self, NEW child
  PROVE  Hits(self, child, "child") = {child}
  BY Zenon DEF Hits

\* kill() marks processes only.
LEMMA KillOK ==
  ASSUME ProcsOK, NEW s \in Starts, NEW W \in SUBSET Workers, KillAll(s, W)
  PROVE  pending' \in SUBSET Processes /\ outsider' \in BOOLEAN
<1> DEFINE self == <<s, Master>>
<1>1. PICK wild \in Wild(self) \cup {{}} :
        pending' = (pending \cup {p \in Named(s, W) \cup wild : Alive(p)}) \ {self}
  BY Zenon DEF KillAll
<1>2. outsider' \in {TRUE, outsider}
  BY Zenon DEF KillAll
<1>3. wild \subseteq Processes
  BY DEF Wild, Group, Of, Everyone
<1>4. Named(s, W) \subseteq Processes
  <2>1. log_pid[s] \in Pids /\ \A i \in W : worker_pids[s][i] \in Pids
    BY DEF ProcsOK
  <2>2. Hits(self, <<s, Logger>>, log_pid[s]) \subseteq Processes
    BY <2>1, HitsAre, Members
  <2>3. \A i \in W : Hits(self, <<s, i>>, worker_pids[s][i]) \subseteq Processes
    BY <2>1, HitsAre, Members
  <2>4. QED
    BY <2>2, <2>3, Zenon DEF Named
<1>5. QED
  BY <1>1, <1>2, <1>3, <1>4 DEF ProcsOK

\* When every pid is the pid of a child, kill() reaches all of these children
\* that live, and nobody outside the start.
LEMMA KillChildren ==
  ASSUME ProcsOK, NEW s \in Starts, NEW W \in SUBSET Workers, KillAll(s, W),
         log_pid[s] = "child", \A i \in W : worker_pids[s][i] = "child"
  PROVE  /\ outsider' = outsider
         /\ pending' = (pending \cup {p \in {<<s, Logger>>} \cup {<<s, i>> : i \in W} : Alive(p)})
                          \ {<<s, Master>>}
<1> DEFINE self == <<s, Master>>
           known == {log_pid[s]} \cup {worker_pids[s][i] : i \in W}
<1>1. known = {"child"}
  OBVIOUS
<1>2. "garbage" \notin known /\ "failed" \notin known
  BY <1>1
<1>3. \E wild \in {{}} :
        pending' = (pending \cup {p \in Named(s, W) \cup wild : Alive(p)}) \ {self}
  BY <1>2, Zenon DEF KillAll
<1>4. outsider' = outsider
  BY <1>2, Zenon DEF KillAll
<1>5. Named(s, W) = {<<s, Logger>>} \cup {<<s, i>> : i \in W}
  <2>1. Hits(self, <<s, Logger>>, log_pid[s]) = {<<s, Logger>>}
    BY HitsChild
  <2> DEFINE H(i) == Hits(self, <<s, i>>, worker_pids[s][i])
  <2>2. \A i \in W : H(i) = {<<s, i>>}
    BY HitsChild
  <2>3. UNION {H(i) : i \in W} = {<<s, i>> : i \in W}
    <3> HIDE DEF H
    <3>1. QED
      BY <2>2
  <2>4. QED
    BY <2>1, <2>3, Zenon DEF Named
<1>6. QED
  BY <1>3, <1>4, <1>5

\* kill() reaches the log process when its pid is known, whatever the others are.
LEMMA KillLogger ==
  ASSUME NEW s \in Starts, NEW W \in SUBSET Workers, KillAll(s, W), log_pid[s] = "child",
         Alive(<<s, Logger>>)
  PROVE  <<s, Logger>> \in pending'
<1>1. PICK X : pending' = (pending \cup {p \in Named(s, W) \cup X : Alive(p)}) \ {<<s, Master>>}
  BY Zenon DEF KillAll
<1>2. <<s, Logger>> \in Named(s, W)
  <2>1. <<s, Logger>> \in Hits(<<s, Master>>, <<s, Logger>>, log_pid[s])
    BY HitsChild
  <2>2. QED
    BY <2>1, Zenon DEF Named
<1>3. <<s, Logger>> # <<s, Master>>
  BY Members
<1>4. QED
  BY <1>1, <1>2, <1>3

\* kill() takes nobody but the caller out of pending.
LEMMA KillAdds ==
  ASSUME NEW s \in Starts, NEW W, KillAll(s, W)
  PROVE  pending \ {<<s, Master>>} \subseteq pending'
<1>1. \E X : pending' = (pending \cup X) \ {<<s, Master>>}
  BY Zenon DEF KillAll
<1>2. QED
  BY <1>1

\* DESTRUCT that a SIGINT cuts off ends the master, and has signalled processes.
LEMMA CutIs ==
  ASSUME ProcsOK, NEW s \in Starts, NEW W \in SUBSET Workers, destruct_cut(s, W)
  PROVE  /\ life' = [life EXCEPT ![<<s, Master>>] = "over"]
         /\ pending' \in SUBSET Processes /\ outsider' \in BOOLEAN
         /\ pending \ {<<s, Master>>} \subseteq pending'
<1>1. PICK i \in W : life' = [life EXCEPT ![<<s, Master>>] = "over"] /\ KillAll(s, 1 .. i - 1)
  BY Zenon DEF destruct_cut
<1>2. 1 .. i - 1 \in SUBSET Workers
  BY WorkerCountAssumption DEF Workers
<1>3. pending' \in SUBSET Processes /\ outsider' \in BOOLEAN
  BY <1>1, <1>2, KillOK
<1>4. pending \ {<<s, Master>>} \subseteq pending'
  BY <1>1, KillAdds
<1>5. QED
  BY <1>1, <1>3, <1>4

-----------------------------------------------------------------------------
(* Types, and the account of the log. *)

\* The server is not running.
LEMMA InitHolds == Init => Inv /\ LogOK
<1> SUFFICES ASSUME Init PROVE Inv /\ LogOK
  OBVIOUS
<1>1. ProcsOK
  BY DEF Init, ProcsOK, Lives, Pids
<1>2. Forked /\ EndsTogether
  BY Members DEF Init, Forked, OrderAt, KnownAt, EndsTogether
<1>3. OneLost
  <2>1. {s \in Starts : hand[s] = 1} = {}
    BY DEF Init
  <2>2. QED
    BY <2>1, FS_EmptySet DEF Init, OneLost
<1>4. LogOK
  BY <1>3, QueueAssumption DEF Init, LogOK
<1>5. QED
  BY <1>1, <1>2, <1>4 DEF Inv

\* Whatever a process does, its types are kept.
LEMMA ProcsStep == ProcsOK /\ [Next]_vars => ProcsOK'
<1> SUFFICES ASSUME ProcsOK, [Next]_vars PROVE ProcsOK'
  OBVIOUS
<1> USE DEF ProcsOK
<1>1. ASSUME NEW s \in Starts, main(s) PROVE ProcsOK'
  BY <1>1 DEF main, Lives, server
<1>2. ASSUME NEW s \in Starts, main_fails(s) \/ conn_accept_fails(s) PROVE ProcsOK'
  <2>1. CASE Destruct(s)
    <3>1. \E W \in SUBSET Workers : KillAll(s, W)
      BY <2>1, Zenon DEF Destruct
    <3>2. pending' \in SUBSET Processes /\ outsider' \in BOOLEAN
      BY <3>1, KillOK
    <3>3. life' = [life EXCEPT ![<<s, Master>>] = "told"] /\ UNCHANGED server
      BY <1>2, <2>1 DEF main_fails, conn_accept_fails, Destruct
    <3>4. QED
      BY <3>2, <3>3 DEF Lives, server
  <2>2. CASE destruct_cut(s, Workers)
    <3>1. UNCHANGED server
      BY <1>2 DEF main_fails, conn_accept_fails
    <3>2. QED
      BY <2>2, <3>1, CutIs DEF Lives, server
  <2>3. QED
    BY <1>2, <2>1, <2>2 DEF main_fails, conn_accept_fails
<1>3. ASSUME NEW s \in Starts, fork_logger(s) PROVE ProcsOK'
  BY <1>3 DEF fork_logger, Lives, Pids
<1>4. ASSUME NEW s \in Starts, fork_logger_fails(s) PROVE ProcsOK'
  BY <1>4 DEF fork_logger_fails, Lives, Pids, Everyone
<1>5. ASSUME NEW s \in Starts, conn_accept(s) PROVE ProcsOK'
  BY <1>5 DEF conn_accept, Lives
<1>6. ASSUME NEW s \in Starts, NEW i \in Workers, fork_worker(s, i) PROVE ProcsOK'
  BY <1>6 DEF fork_worker, Lives, Pids
<1>7. ASSUME NEW s \in Starts, NEW i \in Workers, fork_worker_fails(s, i) PROVE ProcsOK'
  <2>1. /\ worker_pids' = [worker_pids EXCEPT ![s][i] = "failed"]
        /\ UNCHANGED <<log_pid, bound>>
    BY <1>7 DEF fork_worker_fails
  <2>2. CASE destruct_cut(s, 1 .. i)
    <3>1. 1 .. i \in SUBSET Workers
      BY WorkerCountAssumption DEF Workers
    <3>2. QED
      BY <2>1, <2>2, <3>1, CutIs DEF Lives, Pids
  <2>3. CASE ~destruct_cut(s, 1 .. i)
    BY <1>7, <2>3 DEF fork_worker_fails, Lives, Pids, Everyone
  <2>4. QED
    BY <2>2, <2>3
<1>8. ASSUME NEW s \in Starts, prefork(s) PROVE ProcsOK'
  BY <1>8 DEF prefork, Lives, server
<1>9. ASSUME NEW s \in Starts, logger(s) PROVE ProcsOK'
  BY <1>9 DEF logger, logger_start, logger_falls_through, msgrcv, save_message, Lives, server,
              Group, Of
<1>10. ASSUME NEW s \in Starts, NEW i \in Workers, worker_ready(s, i) PROVE ProcsOK'
  BY <1>10 DEF worker_ready, Lives, server
<1>11. ASSUME NEW s \in Starts, kill_master(s) \/ interrupt(s) PROVE ProcsOK'
  BY <1>11, Members DEF kill_master, interrupt, server, Group, Of
<1>12. ASSUME NEW p \in Processes, serve(p) \/ exits(p) \/ prefork_fails(p) PROVE ProcsOK'
  BY <1>12 DEF serve, exits, prefork_fails, server, Lives
<1>13. ASSUME NEW p \in Processes, handle_signal(p) PROVE ProcsOK'
  BY <1>13 DEF handle_signal, server, Lives
<1>14. ASSUME NEW s \in Starts, handle_signal_master(s) PROVE ProcsOK'
  <2>1. KillAll(s, Workers)
    BY <1>14 DEF handle_signal_master
  <2>2. pending' \in SUBSET Processes /\ outsider' \in BOOLEAN
    BY <2>1, KillOK
  <2>3. QED
    BY <1>14, <2>2 DEF handle_signal_master, Lives, server
<1>15. CASE ipcrm
  BY <1>15 DEF ipcrm, server, Lives
<1>16. CASE UNCHANGED vars
  BY <1>16 DEF vars, server
<1>17. QED
  BY <1>1, <1>2, <1>3, <1>4, <1>5, <1>6, <1>7, <1>8, <1>9, <1>10, <1>11, <1>12, <1>13,
     <1>14, <1>15, <1>16, Parts DEF Next, master, deliver

\* The loggers that hold a message are finitely many, and one more or less when
\* a logger takes or writes one.
LEMMA HandsCount ==
  ASSUME NEW s \in Starts, hand \in [Starts -> 0..1], NEW h \in 0..1, hand[s] # h,
         hand' = [hand EXCEPT ![s] = h]
  PROVE  /\ Cardinality({t \in Starts : hand[t] = 1}) \in Nat
         /\ h = 1 => Cardinality({t \in Starts : hand'[t] = 1})
                       = Cardinality({t \in Starts : hand[t] = 1}) + 1
         /\ h = 0 => Cardinality({t \in Starts : hand'[t] = 1})
                       = Cardinality({t \in Starts : hand[t] = 1}) - 1
<1> DEFINE H == {t \in Starts : hand[t] = 1}
           G == {t \in Starts : hand'[t] = 1}
<1>1. IsFiniteSet(H)
  BY StartAssumption, FS_Subset
<1>2. Cardinality(H) \in Nat
  BY <1>1, FS_CardinalityType
<1>3. CASE h = 1
  <2>1. s \notin H /\ G = H \cup {s}
    BY <1>3
  <2>2. Cardinality(G) = Cardinality(H) + 1
    <3> HIDE DEF G, H
    <3>1. QED
      BY <1>1, <2>1, FS_AddElement
  <2>3. QED
    BY <1>2, <1>3, <2>2
<1>4. CASE h = 0
  <2>1. s \in H /\ G = H \ {s}
    BY <1>4
  <2>2. Cardinality(G) = Cardinality(H) - 1
    <3> HIDE DEF G, H
    <3>1. QED
      BY <1>1, <2>1, FS_RemoveElement
  <2>3. QED
    BY <1>2, <1>4, <2>2
<1>5. QED
  BY <1>2, <1>3, <1>4

\* Between two steps a message is nowhere but in the queue, in a hand, in a log.
LEMMA LogStep == LogOK /\ [Next]_vars => LogOK'
<1> SUFFICES ASSUME LogOK, [Next]_vars PROVE LogOK'
  OBVIOUS
<1> DEFINE Hands == Cardinality({t \in Starts : hand[t] = 1})
<1>1. CASE UNCHANGED log
  BY <1>1 DEF log, LogOK, OneLost
<1>2. CASE log_message
  <2>1. UNCHANGED <<hand, written>>
    BY <1>2 DEF log_message
  <2>2. Hands' = Hands
    BY <2>1
  <2>3. \E m \in 0..1 : /\ queued' = queued + m /\ accepted' = accepted + m
                        /\ m = 1 => queued < QueueSize /\ accepted < MaxMessages
    BY <1>2 DEF log_message
  <2>4. /\ queued \in 0..QueueSize /\ accepted \in 0..MaxMessages /\ written \in 0..MaxMessages
        /\ accepted = written + queued + Hands
    BY DEF LogOK, OneLost
  <2>5. Hands \in Int
    <3>1. IsFiniteSet({t \in Starts : hand[t] = 1})
      BY StartAssumption, FS_Subset
    <3>2. QED
      BY <3>1, FS_CardinalityType
  <2>6. queued' \in 0..QueueSize /\ accepted' \in 0..MaxMessages
    BY <2>3, <2>4, QueueAssumption
  <2>7. accepted' = written' + queued' + Hands'
    <3> HIDE DEF Hands
    <3>1. QED
      BY <2>1, <2>2, <2>3, <2>4, <2>5
  <2>8. QED
    BY <2>1, <2>6, <2>7 DEF LogOK, OneLost
<1>3. ASSUME NEW s \in Starts, msgrcv(s) PROVE LogOK'
  <2>1. /\ queued' = queued - 1 /\ queued > 0 /\ hand[s] # 1 /\ UNCHANGED <<accepted, written>>
        /\ hand' = [hand EXCEPT ![s] = 1]
    BY <1>3 DEF msgrcv
  <2>2. Hands \in Nat /\ Hands' = Hands + 1
    <3>1. hand \in [Starts -> 0..1] /\ 0 \in 0..1 /\ 1 \in 0..1
      BY DEF LogOK
    <3>2. QED
      BY <2>1, <3>1, HandsCount, Zenon
  <2>3. /\ queued \in 0..QueueSize /\ accepted \in 0..MaxMessages /\ written \in 0..MaxMessages
        /\ accepted = written + queued + Hands
    BY DEF LogOK, OneLost
  <2>4. accepted' = written' + queued' + Hands' /\ queued' \in 0..QueueSize
    <3> HIDE DEF Hands
    <3>1. QED
      BY <2>1, <2>2, <2>3, QueueAssumption
  <2>5. hand' \in [Starts -> 0..1]
    BY <2>1 DEF LogOK
  <2>6. QED
    BY <2>1, <2>3, <2>4, <2>5 DEF LogOK, OneLost
<1>4. ASSUME NEW s \in Starts, save_message(s) PROVE LogOK'
  <2>1. /\ written' = written + 1 /\ hand[s] # 0 /\ UNCHANGED <<accepted, queued>>
        /\ hand' = [hand EXCEPT ![s] = 0]
    BY <1>4 DEF save_message
  <2>2. Hands \in Nat /\ Hands' = Hands - 1
    <3>1. hand \in [Starts -> 0..1] /\ 0 \in 0..1 /\ 1 \in 0..1
      BY DEF LogOK
    <3>2. QED
      BY <2>1, <3>1, HandsCount, Zenon
  <2>3. /\ queued \in 0..QueueSize /\ accepted \in 0..MaxMessages /\ written \in 0..MaxMessages
        /\ accepted = written + queued + Hands
    BY DEF LogOK, OneLost
  <2>4. Hands' \in Nat
    <3>1. IsFiniteSet({t \in Starts : hand'[t] = 1})
      BY StartAssumption, FS_Subset
    <3>2. QED
      BY <3>1, FS_CardinalityType
  <2>5. accepted' = written' + queued' + Hands' /\ written' \in 0..MaxMessages
    <3> HIDE DEF Hands
    <3>1. QED
      BY <2>1, <2>2, <2>3, <2>4, QueueAssumption
  <2>6. hand' \in [Starts -> 0..1]
    BY <2>1 DEF LogOK
  <2>7. QED
    BY <2>1, <2>3, <2>5, <2>6 DEF LogOK, OneLost
<1>5. CASE ipcrm
  <2>1. queued' = 0 /\ accepted' = accepted - queued /\ UNCHANGED <<hand, written>>
    BY <1>5 DEF ipcrm
  <2>2. Hands' = Hands
    BY <2>1
  <2>3. /\ queued \in 0..QueueSize /\ accepted \in 0..MaxMessages /\ written \in 0..MaxMessages
        /\ accepted = written + queued + Hands
    BY DEF LogOK, OneLost
  <2>4. Hands \in Nat
    <3>1. IsFiniteSet({t \in Starts : hand[t] = 1})
      BY StartAssumption, FS_Subset
    <3>2. QED
      BY <3>1, FS_CardinalityType
  <2>5. /\ accepted' = written' + queued' + Hands'
        /\ queued' \in 0..QueueSize /\ accepted' \in 0..MaxMessages
    <3> HIDE DEF Hands
    <3>1. QED
      BY <2>1, <2>2, <2>3, <2>4, QueueAssumption
  <2>6. QED
    BY <2>1, <2>3, <2>5 DEF LogOK, OneLost
<1>6. ASSUME NEW s \in Starts, master(s)
      PROVE  UNCHANGED log \/ log_message
  BY <1>6 DEF master, main, main_fails, fork_logger, fork_logger_fails, conn_accept,
              conn_accept_fails, fork_worker, fork_worker_fails, prefork
<1>7. ASSUME NEW s \in Starts, logger(s)
      PROVE  UNCHANGED log \/ msgrcv(s) \/ save_message(s)
  BY <1>7 DEF logger, logger_start, logger_falls_through
<1>8. ASSUME NEW s \in Starts, NEW i \in Workers, worker_ready(s, i)
      PROVE  UNCHANGED log
  BY <1>8 DEF worker_ready
<1>9. ASSUME NEW s \in Starts, kill_master(s) \/ interrupt(s)
      PROVE  UNCHANGED log
  BY <1>9 DEF kill_master, interrupt
<1>10. ASSUME NEW p \in Processes, serve(p) \/ exits(p) \/ prefork_fails(p) \/ deliver(p)
       PROVE  UNCHANGED log \/ log_message
  BY <1>10 DEF serve, exits, prefork_fails, deliver, handle_signal, handle_signal_master
<1>11. CASE UNCHANGED vars
  BY <1>11, <1>1 DEF vars
<1>12. QED
  BY <1>1, <1>2, <1>3, <1>4, <1>5, <1>6, <1>7, <1>8, <1>9, <1>10, <1>11 DEF Next

-----------------------------------------------------------------------------
(* What forking keeps to. *)

\* A step by which the processes p in Q go to states other than "none" changes
\* nothing in the order of the forks, unless a master goes to "main", "listen",
\* "prefork" or "up".
Moves(Q) ==
  /\ life' \in [Processes -> Lives]
  /\ \A p \in Processes \ Q : life'[p] = life[p]
  /\ \A p \in Q : /\ life[p] # "none" /\ life'[p] # "none"
                  /\ p[2] = Master => life'[p] \in {"told", "over"}
  /\ UNCHANGED <<log_pid, worker_pids>>

LEMMA MovesKeep ==
  ASSUME ProcsOK, Forked, NEW Q \in SUBSET Processes, Moves(Q)
  PROVE  Forked'
<1> SUFFICES ASSUME NEW s \in Starts PROVE OrderAt(s)' /\ KnownAt(s)'
  BY DEF Forked
<1>1. OrderAt(s) /\ KnownAt(s)
  BY DEF Forked
<1>2. /\ life'[<<s, Master>>] \in {"told", "over"} \/ life'[<<s, Master>>] = life[<<s, Master>>]
      /\ life'[<<s, Logger>>] = "none" <=> life[<<s, Logger>>] = "none"
      /\ \A i \in Workers : life'[<<s, i>>] = "none" <=> life[<<s, i>>] = "none"
      /\ log_pid' = log_pid /\ worker_pids' = worker_pids
  <2>1. <<s, Master>>[2] = Master
    OBVIOUS
  <2>2. QED
    BY <2>1, Members DEF Moves
<1>3. OrderAt(s)'
  BY <1>1, <1>2 DEF OrderAt
<1>4. KnownAt(s)'
  BY <1>1, <1>2 DEF KnownAt
<1>5. QED
  BY <1>3, <1>4

\* A step of the master s itself changes nothing of another start.
LEMMA OthersKeep ==
  ASSUME Forked, NEW s \in Starts, OrderAt(s)' /\ KnownAt(s)',
         \A t \in Starts \ {s} : /\ \A i \in {Logger, Master} \cup Workers : life'[<<t, i>>] = life[<<t, i>>]
                                 /\ log_pid'[t] = log_pid[t] /\ worker_pids'[t] = worker_pids[t]
  PROVE  Forked'
<1> SUFFICES ASSUME NEW t \in Starts \ {s} PROVE OrderAt(t)' /\ KnownAt(t)'
  BY DEF Forked
<1>1. OrderAt(t) /\ KnownAt(t)
  BY DEF Forked
<1>2. QED
  BY <1>1 DEF OrderAt, KnownAt

\* The state of a master changes.
LEMMA MasterGoes ==
  ASSUME ProcsOK, NEW s \in Starts, NEW v, life' = [life EXCEPT ![<<s, Master>>] = v]
  PROVE  /\ life'[<<s, Master>>] = v /\ life'[<<s, Logger>>] = life[<<s, Logger>>]
         /\ \A i \in Workers : life'[<<s, i>>] = life[<<s, i>>]
         /\ \A t \in Starts \ {s}, i \in {Logger, Master} \cup Workers : life'[<<t, i>>] = life[<<t, i>>]
  BY Members DEF ProcsOK

\* A master forks in order, and remembers what it forked.
LEMMA ForkedStep == ProcsOK /\ Forked /\ [Next]_vars => Forked'
<1> SUFFICES ASSUME ProcsOK, Forked, [Next]_vars PROVE Forked'
  OBVIOUS
<1>0. ProcsOK' /\ \A s \in Starts : OrderAt(s) /\ KnownAt(s)
  BY ProcsStep DEF Forked
<1>1. ASSUME NEW s \in Starts, main(s) PROVE Forked'
  <2>1. /\ life' = [life EXCEPT ![<<s, Master>>] = "main"] /\ life[<<s, Master>>] = "none"
        /\ UNCHANGED <<log_pid, worker_pids>>
    BY <1>1 DEF main, server
  <2>2. OrderAt(s)' /\ KnownAt(s)'
    <3>1. /\ life'[<<s, Master>>] = "main" /\ life'[<<s, Logger>>] = life[<<s, Logger>>]
          /\ \A i \in Workers : life'[<<s, i>>] = life[<<s, i>>]
      BY <2>1, MasterGoes
    <3>2. OrderAt(s) /\ KnownAt(s)
      BY <1>0
    <3>3. OrderAt(s)'
      BY <2>1, <3>1, <3>2 DEF OrderAt
    <3>4. KnownAt(s)'
      BY <2>1, <3>1, <3>2 DEF KnownAt, OrderAt
    <3>5. QED
      BY <3>3, <3>4
  <2>3. QED
    BY <2>1, <2>2, OthersKeep, MasterGoes DEF ProcsOK
<1>2. ASSUME NEW s \in Starts, main_fails(s) \/ conn_accept_fails(s) PROVE Forked'
  <2>1. /\ \E v \in {"told", "over"} : life' = [life EXCEPT ![<<s, Master>>] = v]
        /\ life[<<s, Master>>] # "none" /\ UNCHANGED <<log_pid, worker_pids>>
    BY <1>2 DEF main_fails, conn_accept_fails, Destruct, destruct_cut, server
  <2>2. Moves({<<s, Master>>})
    BY <2>1, <1>0, Members DEF Moves, ProcsOK
  <2>3. QED
    BY <2>2, MovesKeep, Members
<1>3. ASSUME NEW s \in Starts, fork_logger(s) PROVE Forked'
  <2>1. /\ life' = [life EXCEPT ![<<s, Master>>] = "listen", ![<<s, Logger>>] = "starting"]
        /\ life[<<s, Master>>] = "main"
        /\ log_pid' = [log_pid EXCEPT ![s] = "child"]
        /\ worker_pids' = [worker_pids EXCEPT ![s] = [i \in Workers |-> "garbage"]]
    BY <1>3 DEF fork_logger
  <2>2. OrderAt(s)' /\ KnownAt(s)'
    BY <2>1, <1>0, Members DEF OrderAt, KnownAt, ProcsOK
  <2>3. QED
    BY <2>1, <2>2, OthersKeep, Members DEF ProcsOK
<1>4. ASSUME NEW s \in Starts, fork_logger_fails(s) PROVE Forked'
  <2>1. /\ life' = [life EXCEPT ![<<s, Master>>] = "told"]
        /\ log_pid' = [log_pid EXCEPT ![s] = "failed"] /\ UNCHANGED worker_pids
    BY <1>4 DEF fork_logger_fails
  <2>2. OrderAt(s)' /\ KnownAt(s)'
    <3>1. /\ life'[<<s, Master>>] = "told" /\ life'[<<s, Logger>>] = life[<<s, Logger>>]
          /\ \A i \in Workers : life'[<<s, i>>] = life[<<s, i>>]
      BY <2>1, MasterGoes
    <3>2. OrderAt(s) /\ KnownAt(s)
      BY <1>0
    <3>3. OrderAt(s)'
      BY <2>1, <3>1, <3>2 DEF OrderAt
    <3>4. KnownAt(s)'
      BY <2>1, <3>1, <3>2 DEF KnownAt, OrderAt
    <3>5. QED
      BY <3>3, <3>4
  <2>3. QED
    BY <2>1, <2>2, OthersKeep, MasterGoes DEF ProcsOK
<1>5. ASSUME NEW s \in Starts, conn_accept(s) PROVE Forked'
  <2>1. /\ life' = [life EXCEPT ![<<s, Master>>] = "prefork"] /\ life[<<s, Master>>] = "listen"
        /\ UNCHANGED <<log_pid, worker_pids>>
    BY <1>5 DEF conn_accept
  <2>2. OrderAt(s)' /\ KnownAt(s)'
    <3>1. /\ life'[<<s, Master>>] = "prefork" /\ life'[<<s, Logger>>] = life[<<s, Logger>>]
          /\ \A i \in Workers : life'[<<s, i>>] = life[<<s, i>>]
      BY <2>1, MasterGoes
    <3>2. OrderAt(s) /\ KnownAt(s)
      BY <1>0
    <3>3. OrderAt(s)'
      BY <2>1, <3>1, <3>2 DEF OrderAt
    <3>4. KnownAt(s)'
      BY <2>1, <3>1, <3>2 DEF KnownAt, OrderAt
    <3>5. QED
      BY <3>3, <3>4
  <2>3. QED
    BY <2>1, <2>2, OthersKeep, MasterGoes DEF ProcsOK
<1>6. ASSUME NEW s \in Starts, NEW i \in Workers, fork_worker(s, i) PROVE Forked'
  <2>1. /\ life' = [life EXCEPT ![<<s, i>>] = "starting"] /\ life[<<s, Master>>] = "prefork"
        /\ worker_pids' = [worker_pids EXCEPT ![s][i] = "child"] /\ UNCHANGED log_pid
    BY <1>6 DEF fork_worker
  <2>2. OrderAt(s)' /\ KnownAt(s)'
    BY <2>1, <1>0, Members DEF OrderAt, KnownAt, ProcsOK
  <2>3. QED
    BY <2>1, <2>2, OthersKeep, Members DEF ProcsOK
<1>7. ASSUME NEW s \in Starts, NEW i \in Workers, fork_worker_fails(s, i) PROVE Forked'
  <2>1. /\ \E v \in {"told", "over"} : life' = [life EXCEPT ![<<s, Master>>] = v]
        /\ life[<<s, i>>] = "none"
        /\ worker_pids' = [worker_pids EXCEPT ![s][i] = "failed"] /\ UNCHANGED log_pid
    BY <1>7 DEF fork_worker_fails, destruct_cut, IsNext, Unforked
  <2>2. OrderAt(s)' /\ KnownAt(s)'
    <3>1. /\ life'[<<s, Master>>] \in {"told", "over"} /\ life'[<<s, Logger>>] = life[<<s, Logger>>]
          /\ \A j \in Workers : life'[<<s, j>>] = life[<<s, j>>]
      BY <2>1, MasterGoes
    <3>2. OrderAt(s) /\ KnownAt(s)
      BY <1>0
    <3>3. OrderAt(s)'
      BY <2>1, <3>1, <3>2 DEF OrderAt
    <3>4. KnownAt(s)'
      BY <2>1, <3>1, <3>2 DEF KnownAt, OrderAt
    <3>5. QED
      BY <3>3, <3>4
  <2>3. QED
    BY <2>1, <2>2, OthersKeep, MasterGoes DEF ProcsOK
<1>8. ASSUME NEW s \in Starts, prefork(s) PROVE Forked'
  <2>1. /\ life' = [life EXCEPT ![<<s, Master>>] = "up"] /\ life[<<s, Master>>] = "prefork"
        /\ \A i \in Workers : life[<<s, i>>] # "none"
        /\ UNCHANGED <<log_pid, worker_pids>>
    BY <1>8 DEF prefork, server, Unforked
  <2>2. OrderAt(s)' /\ KnownAt(s)'
    <3>1. /\ life'[<<s, Master>>] = "up" /\ life'[<<s, Logger>>] = life[<<s, Logger>>]
          /\ \A i \in Workers : life'[<<s, i>>] = life[<<s, i>>]
      BY <2>1, MasterGoes
    <3>2. OrderAt(s) /\ KnownAt(s)
      BY <1>0
    <3>3. OrderAt(s)'
      BY <2>1, <3>1, <3>2 DEF OrderAt
    <3>4. KnownAt(s)'
      BY <2>1, <3>1, <3>2 DEF KnownAt, OrderAt
    <3>5. QED
      BY <3>3, <3>4
  <2>3. QED
    BY <2>1, <2>2, OthersKeep, MasterGoes DEF ProcsOK
<1>9. ASSUME NEW s \in Starts, logger(s) PROVE Forked'
  <2>1. Moves({<<s, Logger>>}) \/ Moves({})
    BY <1>9, <1>0, Members
    DEF logger, logger_start, logger_falls_through, msgrcv, save_message, Moves, server, ProcsOK
  <2>2. QED
    BY <2>1, MovesKeep, Members
<1>10. ASSUME NEW s \in Starts, NEW i \in Workers, worker_ready(s, i) PROVE Forked'
  <2>1. <<s, i>> \in Processes /\ <<s, i>>[2] # Master
    BY Members
  <2>2. /\ life' = [life EXCEPT ![<<s, i>>] = "up"] /\ life[<<s, i>>] = "starting"
        /\ UNCHANGED <<log_pid, worker_pids>>
    BY <1>10 DEF worker_ready, server
  <2>3. Moves({<<s, i>>})
    BY <1>0, <2>1, <2>2 DEF Moves, ProcsOK
  <2>4. QED
    BY <2>1, <2>3, MovesKeep
<1>11. CASE UNCHANGED <<life, log_pid, worker_pids>>
  <2>1. ASSUME NEW s \in Starts PROVE OrderAt(s)' /\ KnownAt(s)'
    <3>1. OrderAt(s) /\ KnownAt(s)
      BY <1>0
    <3>2. OrderAt(s)'
      BY <1>11, <3>1 DEF OrderAt
    <3>3. KnownAt(s)'
      BY <1>11, <3>1 DEF KnownAt
    <3>4. QED
      BY <3>2, <3>3
  <2>2. QED
    BY <2>1 DEF Forked
<1>12. ASSUME NEW s \in Starts, kill_master(s) \/ interrupt(s) PROVE Forked'
  BY <1>11, <1>12 DEF kill_master, interrupt, server
<1>13. ASSUME NEW p \in Processes, serve(p) PROVE Forked'
  BY <1>11, <1>13 DEF serve, server
<1>14. ASSUME NEW p \in Processes, exits(p) \/ prefork_fails(p) \/ handle_signal(p) PROVE Forked'
  <2>1. Moves({p})
    BY <1>14, <1>0 DEF exits, prefork_fails, handle_signal, Alive, Moves, server, ProcsOK
  <2>2. QED
    BY <2>1, MovesKeep
<1>15. ASSUME NEW s \in Starts, handle_signal_master(s) PROVE Forked'
  <2>1. Moves({<<s, Master>>})
    BY <1>15, <1>0, Members DEF handle_signal_master, Moves, server, ProcsOK
  <2>2. QED
    BY <2>1, MovesKeep, Members
<1>16. CASE ipcrm
  <2>1. PICK early \in SUBSET {s \in Starts : life[<<s, Logger>>] = "starting"} :
          life' = [p \in Processes |->
                     IF p[2] = Logger /\ (life[p] = "up" \/ p[1] \in early)
                     THEN "cut_off" ELSE life[p]]
    BY <1>16, Zenon DEF ipcrm
  <2> DEFINE Q == {p \in Processes : p[2] = Logger /\ (life[p] = "up" \/ p[1] \in early)}
  <2>2. \A p \in Q : life[p] \in {"starting", "up"}
    <3>1. ASSUME NEW p \in Q PROVE p = <<p[1], Logger>>
      BY Parts, Members
    <3>2. QED
      BY <3>1
  <2>3. Moves(Q)
    BY <2>1, <2>2, <1>16, <1>0, Members DEF ipcrm, Moves, server, ProcsOK
  <2>4. QED
    BY <2>3, MovesKeep
<1>17. CASE UNCHANGED vars
  BY <1>11, <1>17 DEF vars, server
<1>18. QED
  BY <1>1, <1>2, <1>3, <1>4, <1>5, <1>6, <1>7, <1>8, <1>9, <1>10, <1>12, <1>13,
     <1>14, <1>15, <1>16, <1>17, Parts DEF Next, master, deliver

-----------------------------------------------------------------------------
(* Who has to end. *)

\* A process told the others of start s.
Told(s) == \E r \in {Logger, Master} : life[<<s, r>>] = "told"

EndsAt(s) == Told(s) => Group(s) \subseteq pending

LEMMA EndsParts == EndsTogether <=> \A s \in Starts : EndsAt(s)
  BY DEF EndsTogether, EndsAt, Told

\* Nothing is lost when nobody comes to life, nobody is told by a new process,
\* and what is pending stays pending or ends.
LEMMA NobodyWakes ==
  ASSUME EndsTogether,
         \A t \in Starts : Told(t)' => Told(t),
         \A p \in Processes : /\ ~Alive(p) => ~Alive(p)'
                              /\ p \in pending => p \in pending' \/ ~Alive(p)'
  PROVE  EndsTogether'
<1> SUFFICES ASSUME NEW t \in Starts, Told(t)', NEW p \in Group(t)' PROVE p \in pending'
  BY DEF EndsTogether, Told
<1>1. p \in Processes /\ p \in Of(t) /\ Alive(p)'
  BY DEF Group, Of
<1>2. p \in Group(t)
  BY <1>1 DEF Group
<1>3. EndsAt(t)
  BY EndsParts
<1>4. QED
  BY <1>1, <1>2, <1>3 DEF EndsAt

\* A start in which nobody was told may fork.
LEMMA MayFork ==
  ASSUME EndsTogether, NEW s \in Starts, ~Told(s)', pending' = pending,
         \A p \in Processes \ Of(s) : life'[p] = life[p]
  PROVE  EndsTogether'
<1> SUFFICES ASSUME NEW t \in Starts, Told(t)', NEW p \in Group(t)' PROVE p \in pending'
  BY DEF EndsTogether, Told
<1>1. t # s /\ p \in Processes /\ p[1] = t /\ Alive(p)'
  BY DEF Group, Of
<1>2. \A q \in Processes : q[1] = t => life'[q] = life[q]
  BY <1>1 DEF Of
<1>3. Told(t) /\ p \in Group(t)
  BY <1>1, <1>2, Members DEF Told, Group, Of, Alive
<1>4. EndsAt(t)
  BY EndsParts
<1>5. QED
  BY <1>3, <1>4 DEF EndsAt

\* The master or the log process ends, and all the others of its start that
\* live are pending.
LEMMA RoleEnds ==
  ASSUME ProcsOK, EndsTogether, NEW s \in Starts, NEW r \in {Logger, Master},
         life' = [life EXCEPT ![<<s, r>>] = "told"],
         pending \ {<<s, r>>} \subseteq pending',
         Group(s) \ {<<s, r>>} \subseteq pending'
  PROVE  EndsTogether'
<1> SUFFICES ASSUME NEW t \in Starts, Told(t)', NEW p \in Group(t)' PROVE p \in pending'
  BY DEF EndsTogether, Told
<1>1. <<s, r>> \in Processes
  BY Members
<1>2. p \in Processes /\ p[1] = t /\ Alive(p)'
  BY DEF Group, Of
<1>3. p # <<s, r>> /\ p \in Group(t)
  BY <1>1, <1>2 DEF ProcsOK, Alive, Group, Of
<1>4. CASE t = s
  BY <1>3, <1>4
<1>5. CASE t # s
  <2>1. Told(t)
    BY <1>1, <1>5, Members DEF Told, ProcsOK
  <2>2. p \in pending
    BY <1>3, <2>1, EndsParts DEF EndsAt
  <2>3. QED
    BY <1>3, <2>2
<1>6. QED
  BY <1>4, <1>5

\* A master that runs was not told to end.
LEMMA NotTold ==
  ASSUME EndsTogether, NEW s \in Starts, Running(<<s, Master>>)
  PROVE  ~Told(s)
<1>1. <<s, Master>> \in Group(s)
  BY Members DEF Running, Group, Of
<1>2. QED
  BY <1>1, EndsParts DEF Running, EndsAt

\* A process ends, whatever it signalled before.
LEMMA OneOver ==
  ASSUME ProcsOK, EndsTogether, NEW p \in Processes, life' = [life EXCEPT ![p] = "over"],
         pending \ {p} \subseteq pending'
  PROVE  EndsTogether'
  BY NobodyWakes, Members DEF Told, Alive, ProcsOK

\* Once a process told the others of its start, they all end.
LEMMA EndsStep == ProcsOK /\ Forked /\ EndsTogether /\ [Next]_vars => EndsTogether'
<1> SUFFICES ASSUME ProcsOK, Forked, EndsTogether, [Next]_vars PROVE EndsTogether'
  OBVIOUS
<1>0. \A s \in Starts : OrderAt(s) /\ KnownAt(s)
  BY DEF Forked
<1>1. ASSUME NEW s \in Starts, main(s) PROVE EndsTogether'
  <2>1. /\ life' = [life EXCEPT ![<<s, Master>>] = "main"] /\ life[<<s, Master>>] = "none"
        /\ UNCHANGED pending
    BY <1>1 DEF main
  <2>2. life[<<s, Logger>>] = "none"
    BY <2>1, <1>0 DEF OrderAt
  <2>3. ~Told(s)'
    BY <2>1, <2>2, MasterGoes DEF Told
  <2>4. QED
    BY <2>1, <2>3, MayFork, Members DEF Of, ProcsOK
<1>2. ASSUME NEW s \in Starts, main_fails(s) PROVE EndsTogether'
  <2>1. /\ life' = [life EXCEPT ![<<s, Master>>] = "told"] /\ life[<<s, Master>>] = "main"
        /\ \E W \in SUBSET Workers : KillAll(s, W)
    BY <1>2, Zenon DEF main_fails, Destruct
  <2>2. pending \ {<<s, Master>>} \subseteq pending'
    BY <2>1, KillAdds
  <2>3. Group(s) \ {<<s, Master>>} = {}
    <3>1. OrderAt(s)
      BY <1>0
    <3>2. life[<<s, Logger>>] = "none" /\ \A i \in Workers : life[<<s, i>>] = "none"
      BY <2>1, <3>1 DEF OrderAt
    <3>3. ASSUME NEW p \in Processes, p[1] = s, p # <<s, Master>> PROVE life[p] = "none"
      BY <3>2, <3>3, Parts
    <3>4. QED
      BY <3>3 DEF Group, Of, Alive
  <2>4. QED
    BY <2>1, <2>2, <2>3, RoleEnds
<1>3. ASSUME NEW s \in Starts, conn_accept_fails(s) PROVE EndsTogether'
  <2>0. CASE destruct_cut(s, Workers)
    BY <2>0, CutIs, OneOver, Members
  <2> SUFFICES ASSUME Destruct(s) PROVE EndsTogether'
    BY <1>3, <2>0 DEF conn_accept_fails
  <2>1. /\ life' = [life EXCEPT ![<<s, Master>>] = "told"] /\ life[<<s, Master>>] = "listen"
        /\ \E W \in SUBSET Workers : KillAll(s, W)
    BY <1>3, Zenon DEF conn_accept_fails, Destruct
  <2>2. pending \ {<<s, Master>>} \subseteq pending'
    BY <2>1, KillAdds
  <2>3. /\ log_pid[s] = "child"
        /\ \A i \in Workers : life[<<s, i>>] = "none"
    BY <1>0, <2>1 DEF OrderAt, KnownAt
  <2>4. Alive(<<s, Logger>>) => <<s, Logger>> \in pending'
    BY <2>1, <2>3, KillLogger
  <2>5. ASSUME NEW p \in Group(s) \ {<<s, Master>>} PROVE p \in pending'
    <3>1. p \in Processes /\ p[1] = s /\ Alive(p)
      BY DEF Group, Of
    <3>2. p = <<s, Logger>>
      BY <3>1, <2>3, Parts DEF Alive
    <3>3. QED
      BY <2>4, <3>1, <3>2
  <2>6. QED
    BY <2>1, <2>2, <2>5, RoleEnds
<1>4. ASSUME NEW s \in Starts, fork_logger(s) PROVE EndsTogether'
  <2>1. /\ life' = [life EXCEPT ![<<s, Master>>] = "listen", ![<<s, Logger>>] = "starting"]
        /\ UNCHANGED pending
    BY <1>4 DEF fork_logger
  <2>2. ~Told(s)'
    BY <2>1, Members DEF Told, ProcsOK
  <2>3. QED
    BY <2>1, <2>2, MayFork, Members DEF Of, ProcsOK
<1>5. ASSUME NEW s \in Starts, fork_logger_fails(s) PROVE EndsTogether'
  <2>1. /\ life' = [life EXCEPT ![<<s, Master>>] = "told"]
        /\ pending' = pending \cup Everyone(<<s, Master>>)
    BY <1>5 DEF fork_logger_fails
  <2>2. Group(s) \ {<<s, Master>>} \subseteq Everyone(<<s, Master>>)
    BY DEF Group, Of, Everyone
  <2>3. QED
    BY <2>1, <2>2, RoleEnds
<1>6. ASSUME NEW s \in Starts, conn_accept(s) \/ prefork(s) PROVE EndsTogether'
  <2>1. /\ \E v \in {"prefork", "up"} : life' = [life EXCEPT ![<<s, Master>>] = v]
        /\ Running(<<s, Master>>) /\ UNCHANGED pending
    BY <1>6 DEF conn_accept, prefork
  <2>2. ~Told(s)
    BY <2>1, NotTold
  <2>3. ~Told(s)'
    BY <2>1, <2>2, MasterGoes DEF Told
  <2>4. QED
    BY <2>1, <2>3, MayFork, Members DEF Of, ProcsOK
<1>7. ASSUME NEW s \in Starts, NEW i \in Workers, fork_worker(s, i) PROVE EndsTogether'
  <2>1. /\ life' = [life EXCEPT ![<<s, i>>] = "starting"]
        /\ Running(<<s, Master>>) /\ UNCHANGED pending
    BY <1>7 DEF fork_worker
  <2>2. ~Told(s)
    BY <2>1, NotTold
  <2>3. ~Told(s)'
    BY <2>1, <2>2, Members DEF Told, ProcsOK
  <2>4. QED
    BY <2>1, <2>3, MayFork, Members DEF Of, ProcsOK
<1>8. ASSUME NEW s \in Starts, NEW i \in Workers, fork_worker_fails(s, i) PROVE EndsTogether'
  <2>0. CASE destruct_cut(s, 1 .. i)
    <3>1. 1 .. i \in SUBSET Workers
      BY WorkerCountAssumption DEF Workers
    <3>2. QED
      BY <2>0, <3>1, CutIs, OneOver, Members
  <2> SUFFICES ASSUME ~destruct_cut(s, 1 .. i) PROVE EndsTogether'
    BY <2>0
  <2>1. /\ life' = [life EXCEPT ![<<s, Master>>] = "told"]
        /\ pending' = pending \cup Everyone(<<s, Master>>)
    BY <1>8 DEF fork_worker_fails
  <2>2. Group(s) \ {<<s, Master>>} \subseteq Everyone(<<s, Master>>)
    BY DEF Group, Of, Everyone
  <2>3. QED
    BY <2>1, <2>2, RoleEnds
<1>9. ASSUME NEW s \in Starts, logger_start(s) \/ msgrcv(s) \/ save_message(s) PROVE EndsTogether'
  <2>1. /\ life' = life \/ (life' = [life EXCEPT ![<<s, Logger>>] = "up"] /\ life[<<s, Logger>>] = "starting")
        /\ UNCHANGED pending
    BY <1>9 DEF logger_start, msgrcv, save_message
  <2>2. QED
    BY <2>1, NobodyWakes, Members DEF Told, Alive, ProcsOK
<1>10. ASSUME NEW s \in Starts, logger_falls_through(s) PROVE EndsTogether'
  <2>1. /\ life' = [life EXCEPT ![<<s, Logger>>] = "told"]
        /\ pending' = pending \cup (Group(s) \ {<<s, Logger>>})
    BY <1>10 DEF logger_falls_through
  <2>2. QED
    BY <2>1, RoleEnds
<1>11. ASSUME NEW s \in Starts, NEW i \in Workers, worker_ready(s, i) PROVE EndsTogether'
  <2>1. life' = [life EXCEPT ![<<s, i>>] = "up"] /\ life[<<s, i>>] = "starting" /\ UNCHANGED pending
    BY <1>11 DEF worker_ready
  <2>2. QED
    BY <2>1, NobodyWakes, Members DEF Told, Alive, ProcsOK
<1>12. ASSUME life' = life, pending \subseteq pending' PROVE EndsTogether'
  BY <1>12, NobodyWakes DEF Told, Alive
<1>13. ASSUME NEW s \in Starts, kill_master(s) \/ interrupt(s) PROVE EndsTogether'
  BY <1>12, <1>13 DEF kill_master, interrupt
<1>14. ASSUME NEW p \in Processes, serve(p) PROVE EndsTogether'
  BY <1>12, <1>14 DEF serve
<1>15. ASSUME NEW p \in Processes, exits(p) \/ prefork_fails(p) \/ handle_signal(p)
       PROVE  EndsTogether'
  <2>1. /\ life' = [life EXCEPT ![p] = "over"]
        /\ pending' = pending \/ pending' = pending \ {p}
    BY <1>15 DEF exits, prefork_fails, handle_signal
  <2>2. QED
    BY <2>1, OneOver
<1>16. ASSUME NEW s \in Starts, handle_signal_master(s) PROVE EndsTogether'
  <2>1. /\ life' = [life EXCEPT ![<<s, Master>>] = "told"] /\ life[<<s, Master>>] = "up"
        /\ KillAll(s, Workers)
    BY <1>16 DEF handle_signal_master
  <2>2. log_pid[s] = "child" /\ \A i \in Workers : worker_pids[s][i] = "child"
    BY <1>0, <2>1 DEF KnownAt
  <2>3. pending' = (pending \cup {p \in {<<s, Logger>>} \cup {<<s, i>> : i \in Workers} : Alive(p)})
                      \ {<<s, Master>>}
    BY <2>1, <2>2, KillChildren
  <2>4. Group(s) \ {<<s, Master>>} \subseteq {<<s, Logger>>} \cup {<<s, i>> : i \in Workers}
    <3>1. ASSUME NEW p \in Processes, p[1] = s, p # <<s, Master>>
          PROVE p \in {<<s, Logger>>} \cup {<<s, i>> : i \in Workers}
      BY <3>1, Parts
    <3>2. QED
      BY <3>1 DEF Group, Of
  <2>5. Group(s) \ {<<s, Master>>} \subseteq pending'
    BY <2>3, <2>4 DEF Group
  <2>6. QED
    BY <2>1, <2>3, <2>5, RoleEnds
<1>17. CASE ipcrm
  <2>1. PICK early \in SUBSET {s \in Starts : life[<<s, Logger>>] = "starting"} :
          /\ life' = [p \in Processes |->
                        IF p[2] = Logger /\ (life[p] = "up" \/ p[1] \in early)
                        THEN "cut_off" ELSE life[p]]
          /\ UNCHANGED pending
    BY <1>17, Zenon DEF ipcrm
  <2>2. \A p \in Processes : life'[p] = life[p] \/ (life'[p] = "cut_off" /\ Alive(p))
    <3>1. ASSUME NEW p \in Processes, p[2] = Logger PROVE p = <<p[1], Logger>>
      BY <3>1, Parts, Members
    <3>2. QED
      BY <2>1, <3>1 DEF Alive
  <2>3. QED
    BY <2>1, <2>2, NobodyWakes, Members DEF Told, Alive
<1>18. CASE UNCHANGED vars
  BY <1>12, <1>18 DEF vars
<1>19. QED
  BY <1>1, <1>2, <1>3, <1>4, <1>5, <1>6, <1>7, <1>8, <1>9, <1>10, <1>11, <1>13,
     <1>14, <1>15, <1>16, <1>17, <1>18, Parts DEF Next, master, logger, deliver

-----------------------------------------------------------------------------
(* The handler of the master. *)

\* A serving master tells the others in its handler only.
LEMMA OnlyTheHandler ==
  ASSUME ProcsOK, Next, NEW s \in Starts,
         life[<<s, Master>>] = "up", life'[<<s, Master>>] = "told"
  PROVE  handle_signal_master(s)
<1> DEFINE M == <<s, Master>>
<1>1. ASSUME NEW q \in Processes, NEW v, life' = [life EXCEPT ![q] = v] PROVE q = M /\ v = "told"
  BY <1>1, Members DEF ProcsOK
<1>2. ASSUME NEW t \in Starts, main(t) PROVE FALSE
  BY <1>1, <1>2, Members DEF main
<1>3. ASSUME NEW t \in Starts, main_fails(t) \/ conn_accept_fails(t) \/ fork_logger_fails(t) PROVE FALSE
  <2>1. /\ \E v \in {"told", "over"} : life' = [life EXCEPT ![<<t, Master>>] = v]
        /\ life[<<t, Master>>] \in {"main", "listen"}
    BY <1>3 DEF main_fails, conn_accept_fails, fork_logger_fails, Destruct, destruct_cut
  <2>2. QED
    BY <1>1, <2>1, Members
<1>4. ASSUME NEW t \in Starts, fork_logger(t) PROVE FALSE
  BY <1>4, Members DEF fork_logger, ProcsOK
<1>5. ASSUME NEW t \in Starts, conn_accept(t) \/ prefork(t) PROVE FALSE
  <2>1. \E v \in {"prefork", "up"} : life' = [life EXCEPT ![<<t, Master>>] = v]
    BY <1>5 DEF conn_accept, prefork
  <2>2. QED
    BY <1>1, <2>1, Members
<1>6. ASSUME NEW t \in Starts, NEW i \in Workers, fork_worker(t, i) PROVE FALSE
  BY <1>1, <1>6, Members DEF fork_worker
<1>7. ASSUME NEW t \in Starts, NEW i \in Workers, fork_worker_fails(t, i) PROVE FALSE
  <2>1. /\ \E v \in {"told", "over"} : life' = [life EXCEPT ![<<t, Master>>] = v]
        /\ life[<<t, Master>>] = "prefork"
    BY <1>7 DEF fork_worker_fails, destruct_cut
  <2>2. QED
    BY <1>1, <2>1, Members
<1>8. ASSUME NEW t \in Starts, logger(t) PROVE FALSE
  <2>1. life' = life \/ \E v : life' = [life EXCEPT ![<<t, Logger>>] = v]
    BY <1>8 DEF logger, logger_start, logger_falls_through, msgrcv, save_message
  <2>2. QED
    BY <1>1, <2>1, Members
<1>9. ASSUME NEW t \in Starts, NEW i \in Workers, worker_ready(t, i) PROVE FALSE
  BY <1>1, <1>9, Members DEF worker_ready
<1>10. ASSUME life' = life PROVE FALSE
  BY <1>10
<1>11. ASSUME NEW t \in Starts, kill_master(t) \/ interrupt(t) PROVE FALSE
  BY <1>10, <1>11 DEF kill_master, interrupt
<1>12. ASSUME NEW p \in Processes, serve(p) \/ exits(p) \/ prefork_fails(p) \/ handle_signal(p)
       PROVE  FALSE
  BY <1>1, <1>10, <1>12 DEF serve, exits, prefork_fails, handle_signal
<1>13. ASSUME NEW t \in Starts, handle_signal_master(t) PROVE handle_signal_master(s)
  <2>1. <<t, Master>> = <<s, Master>>
    BY <1>1, <1>13, Members DEF handle_signal_master
  <2>2. QED
    BY <1>13, <2>1
<1>14. ASSUME ipcrm PROVE FALSE
  BY <1>14, Members DEF ipcrm
<1>15. QED
  BY <1>2, <1>3, <1>4, <1>5, <1>6, <1>7, <1>8, <1>9, <1>11, <1>12, <1>13, <1>14, Parts
  DEF Next, master, deliver

-----------------------------------------------------------------------------
(* The theorems. *)

\* Every step keeps the invariant.
LEMMA InvStep == Inv /\ [Next]_vars => Inv'
  BY ProcsStep, ForkedStep, EndsStep DEF Inv

\* Every variable of every process of every start keeps its type.
THEOREM TypesOK == Spec => []TypeOK
<1>1. Inv /\ LogOK => TypeOK
  BY DEF Inv, ProcsOK, LogOK, TypeOK
<1>2. QED
  BY InitHolds, InvStep, LogStep, <1>1, PTL DEF Spec

\* A log message that entered the queue is not lost but in the hand of a log
\* process that was ended.
THEOREM MessagesCounted == Spec => []OneLost
<1>1. LogOK => OneLost
  BY DEF LogOK
<1>2. QED
  BY InitHolds, LogStep, <1>1, PTL DEF Spec

\* Once the master or the log process ended on a path that tells the others,
\* every process of the start that lives has a SIGINT to take.
THEOREM StartsEnd == Spec => []EndsTogether
<1>1. Inv => EndsTogether
  BY DEF Inv
<1>2. QED
  BY InitHolds, InvStep, <1>1, PTL DEF Spec

\* The handler of a serving master reaches its own start only.
THEOREM ShutdownInside == Spec => ShutdownStaysInside
<1> DEFINE Inside == \A s \in Starts : life[<<s, Master>>] = "up" /\ life'[<<s, Master>>] = "told"
                       => pending' \subseteq pending \cup Of(s) /\ outsider' = outsider
<1>1. Inv /\ [Next]_vars => [Inside]_vars
  <2> SUFFICES ASSUME Inv, Next, NEW s \in Starts,
                      life[<<s, Master>>] = "up", life'[<<s, Master>>] = "told"
               PROVE  pending' \subseteq pending \cup Of(s) /\ outsider' = outsider
    OBVIOUS
  <2>1. handle_signal_master(s)
    BY OnlyTheHandler DEF Inv
  <2>2. KillAll(s, Workers) /\ KnownAt(s) /\ ProcsOK
    BY <2>1 DEF handle_signal_master, Inv, Forked
  <2>3. log_pid[s] = "child" /\ \A i \in Workers : worker_pids[s][i] = "child"
    BY <2>2 DEF KnownAt
  <2>4. /\ outsider' = outsider
        /\ pending' = (pending \cup {p \in {<<s, Logger>>} \cup {<<s, i>> : i \in Workers} : Alive(p)})
                         \ {<<s, Master>>}
    BY <2>2, <2>3, KillChildren
  <2>5. {<<s, Logger>>} \cup {<<s, i>> : i \in Workers} \subseteq Of(s)
    <3>1. <<s, Logger>>[1] = s /\ \A i \in Workers : <<s, i>>[1] = s
      OBVIOUS
    <3>2. <<s, Logger>> \in Of(s) /\ \A i \in Workers : <<s, i>> \in Of(s)
      BY <3>1, Members DEF Of
    <3>3. QED
      BY <3>2
  <2>6. QED
    BY <2>4, <2>5
<1>2. QED
  BY InitHolds, InvStep, <1>1, PTL DEF Spec, ShutdownStaysInside
=============================================================================
