--------------------------- MODULE ClientRunsProofs ---------------------------
(***************************************************************************)
(* Proofs about ClientRuns: when each run of the client begins with nothing *)
(* left of the earlier ones, one child works for a domain and a letter is   *)
(* sent once, whatever is killed and however many children there are.       *)
(***************************************************************************)
EXTENDS ClientRuns, TLAPS

\* Each process has a queue of its own; one of them may be the log's.
LEMMA KeysApart ==
  /\ \A j \in Procs : Key(j) \in Keys
  /\ LogKey \in Keys
  /\ \A i, j \in Procs : Key(i) = Key(j) => i = j
BY DEF Key, Keys

\* What the queues hold: TypeOK of them.
QueuesOK ==
  /\ queues \in [Keys -> Seq(Mails \cup LogMessages)]
  /\ \A k \in Keys : Len(queues[k]) <= MaxQueue

\* A message in its own queue, or dropped.
LEMMA SentOK ==
  ASSUME NEW k \in Keys, NEW m \in Mails \cup LogMessages, QueuesOK, queues' = Sent(k, m)
  PROVE  /\ QueuesOK'
         /\ \A l \in Keys \ {k} : queues'[l] = queues[l]
         /\ \A i \in DOMAIN queues'[k] :
              (i \in DOMAIN queues[k] /\ queues'[k][i] = queues[k][i]) \/ queues'[k][i] = m
<1> DEFINE q == queues[k]
<1>1. q \in Seq(Mails \cup LogMessages) /\ Len(q) \in Nat /\ Len(q) <= MaxQueue
  BY DEF QueuesOK
<1>2. CASE Len(q) < MaxQueue
  <2>1. queues' = [queues EXCEPT ![k] = Append(q, m)]
    BY <1>2 DEF Sent
  <2>2. /\ Append(q, m) \in Seq(Mails \cup LogMessages) /\ Len(Append(q, m)) = Len(q) + 1
        /\ \A i \in DOMAIN Append(q, m) :
             (i \in DOMAIN q /\ Append(q, m)[i] = q[i]) \/ Append(q, m)[i] = m
    BY <1>1
  <2>3. \A l \in Keys : queues'[l] = IF l = k THEN Append(q, m) ELSE queues[l]
    BY <2>1 DEF QueuesOK
  <2>4. Len(q) + 1 <= MaxQueue
    BY <1>1, <1>2, ProcAssumption
  <2>5. queues' \in [Keys -> Seq(Mails \cup LogMessages)]
    BY <2>1, <2>2 DEF QueuesOK
  <2>6. \A l \in Keys : Len(queues'[l]) <= MaxQueue
    BY <2>2, <2>3, <2>4 DEF QueuesOK
  <2>7. QED
    BY <2>2, <2>3, <2>5, <2>6 DEF QueuesOK
<1>3. CASE ~(Len(q) < MaxQueue)
  <2>1. queues' = queues
    BY <1>3 DEF Sent, QueuesOK
  <2>2. QED
    BY <2>1 DEF QueuesOK
<1>4. QED
  BY <1>2, <1>3

\* The first message is taken.
LEMMA TakenOK ==
  ASSUME NEW k \in Keys, QueuesOK, queues[k] # <<>>,
         queues' = [queues EXCEPT ![k] = Tail(@)]
  PROVE  /\ QueuesOK'
         /\ 1 \in DOMAIN queues[k] /\ Head(queues[k]) = queues[k][1]
         /\ \A l \in Keys : \A i \in DOMAIN queues'[l] :
              \E n \in DOMAIN queues[l] : queues[l][n] = queues'[l][i]
<1> DEFINE q == queues[k]
<1>1. q \in Seq(Mails \cup LogMessages) /\ q # <<>> /\ Len(q) \in Nat /\ Len(q) <= MaxQueue
  BY DEF QueuesOK
<1>2. /\ Tail(q) \in Seq(Mails \cup LogMessages) /\ Len(Tail(q)) = Len(q) - 1
      /\ \A i \in DOMAIN Tail(q) : i + 1 \in DOMAIN q /\ Tail(q)[i] = q[i + 1]
      /\ 1 \in DOMAIN q /\ Head(q) = q[1]
  BY <1>1
<1>3. \A l \in Keys : queues'[l] = IF l = k THEN Tail(q) ELSE queues[l]
  BY DEF QueuesOK
<1>4. Len(q) - 1 <= MaxQueue
  BY <1>1, ProcAssumption
<1>5. queues' \in [Keys -> Seq(Mails \cup LogMessages)]
  BY <1>2 DEF QueuesOK
<1>6. \A l \in Keys : Len(queues'[l]) <= MaxQueue
  BY <1>2, <1>3, <1>4 DEF QueuesOK
<1>7. \A l \in Keys : \A i \in DOMAIN queues'[l] :
        \E n \in DOMAIN queues[l] : queues[l][n] = queues'[l][i]
  BY <1>2, <1>3
<1>8. QED
  BY <1>2, <1>5, <1>6, <1>7 DEF QueuesOK
-----------------------------------------------------------------------------
(* Types. *)

\* TypeOK without the queues, which SentOK and TakenOK are about.
MainOK ==
  /\ main \in [Runs -> {"none", "config", "fork", "create", "serve", "ended"}]
  /\ conf \in [Runs -> {"unread", "read", "usage"} \cup Refused]
  /\ next \in [Runs -> 0 .. proc_num]
  /\ domains \in [Runs -> [Procs -> SUBSET Domains]]
  /\ found \in [Runs -> SUBSET Mails]
  /\ logger \in [Runs -> {"none", "starting", "reads", "deaf", "ended"}]
ChildOK ==
  /\ child \in [Runs -> [Procs -> {"none", "failed", "starting", "reads", "deaf", "ended"}]]
  /\ received \in [Runs -> [Procs -> SUBSET Mails]]
  /\ reading \in [Runs -> [Procs -> Mails \cup {NoMail}]]
RestOK ==
  /\ made \in SUBSET Keys
  /\ files \in [Mails -> {"absent", "new", "cur"}]
  /\ sent \in [Mails -> 0 .. 2]
  /\ clean \in BOOLEAN
Typed == MainOK /\ ChildOK /\ RestOK /\ QueuesOK

LEMMA TypedIs == Typed <=> TypeOK
BY DEF Typed, MainOK, ChildOK, RestOK, QueuesOK, TypeOK

LEMMA TypedInit == Init => Typed
<1> SUFFICES ASSUME Init PROVE Typed
  OBVIOUS
<1>1. MainOK /\ ChildOK /\ RestOK
  BY ProcAssumption DEF Init, MainOK, ChildOK, RestOK
<1>2. QueuesOK
  BY ProcAssumption DEF Init, QueuesOK
<1>3. QED
  BY <1>1, <1>2 DEF Typed

LEMMA TypedNext == Typed /\ [Next]_vars => Typed'
<1> SUFFICES ASSUME Typed, [Next]_vars PROVE Typed'
  OBVIOUS
<1> USE DEF mainVars, childVars, kernelVars, ghosts
<1>0. /\ MainOK /\ ChildOK /\ RestOK /\ QueuesOK
  BY DEF Typed
<1>1. ASSUME NEW r \in Runs, begin(r) PROVE Typed'
  <2>1. QueuesOK'
    BY <1>0, <1>1 DEF begin, QueuesOK
  <2>2. QED
    BY <2>1, <1>0, <1>1 DEF begin, Typed, MainOK, ChildOK, RestOK
<1>2. ASSUME NEW r \in Runs, usage(r) PROVE Typed'
  <2>1. QueuesOK'
    BY <1>0, <1>2, SentOK, KeysApart DEF usage, LOG, LogMessages, QueuesOK
  <2>2. MainOK' /\ ChildOK'
    BY <1>0, <1>2 DEF usage, MainOK, ChildOK
  <2>3. RestOK'
    BY <1>0, <1>2, KeysApart DEF usage, LOG, RestOK
  <2>4. QED
    BY <2>1, <2>2, <2>3 DEF Typed
<1>3. ASSUME NEW r \in Runs, send_log_message(r) PROVE Typed'
  <2>1. QueuesOK'
    BY <1>0, <1>3, SentOK, KeysApart DEF send_log_message, LOG, LogMessages
  <2>2. QED
    BY <2>1, <1>0, <1>3, KeysApart DEF send_log_message, LOG, Typed, MainOK, ChildOK, RestOK
<1>4. ASSUME NEW r \in Runs, read_config(r) PROVE Typed'
  <2>1. QueuesOK'
    BY <1>0, <1>4 DEF read_config, QueuesOK
  <2>2. QED
    BY <2>1, <1>0, <1>4 DEF read_config, Typed, MainOK, ChildOK, RestOK
<1>5. ASSUME NEW r \in Runs, fork_child(r) PROVE Typed'
  <2>1. QueuesOK'
    BY <1>0, <1>5 DEF fork_child, QueuesOK
  <2>2. next[r] \in Procs /\ next[r] + 1 \in 0 .. proc_num
    BY <1>0, <1>5, ProcAssumption DEF fork_child, MainOK, proc_cnt, Procs
  <2>3. MainOK' /\ RestOK'
    BY <2>2, <1>0, <1>5 DEF fork_child, MainOK, RestOK
  <2>4. ChildOK'
    BY <2>2, <1>0, <1>5 DEF fork_child, ChildOK
  <2>5. QED
    BY <2>1, <2>3, <2>4 DEF Typed
<1>6. ASSUME NEW r \in Runs, master_process_worker_start(r) PROVE Typed'
  <2>1. QueuesOK'
    BY <1>0, <1>6 DEF master_process_worker_start, QueuesOK
  <2>2. QED
    BY <2>1, <1>0, <1>6, ProcAssumption
       DEF master_process_worker_start, Typed, MainOK, ChildOK, RestOK
<1>7. ASSUME NEW r \in Runs, create_queue(r) PROVE Typed'
  <2>1. QueuesOK'
    BY <1>0, <1>7 DEF create_queue, QueuesOK
  <2>2. next[r] \in Procs /\ next[r] + 1 \in 0 .. proc_num
    BY <1>0, <1>7, ProcAssumption DEF create_queue, MainOK, proc_cnt, Procs
  <2>3. MainOK' /\ ChildOK'
    BY <2>2, <1>0, <1>7 DEF create_queue, MainOK, ChildOK
  <2>4. RestOK'
    BY <2>2, <1>0, <1>7, KeysApart DEF create_queue, RestOK
  <2>5. QED
    BY <2>1, <2>3, <2>4 DEF Typed
<1>8. ASSUME NEW r \in Runs, queues_created(r) PROVE Typed'
  <2>1. QueuesOK'
    BY <1>0, <1>8 DEF queues_created, QueuesOK
  <2>2. QED
    BY <2>1, <1>0, <1>8, ProcAssumption DEF queues_created, Typed, MainOK, ChildOK, RestOK
<1>9. ASSUME NEW r \in Runs, readdir_crashes(r) PROVE Typed'
  <2>1. QueuesOK'
    BY <1>0, <1>9 DEF readdir_crashes, QueuesOK
  <2>2. QED
    BY <2>1, <1>0, <1>9 DEF readdir_crashes, Typed, MainOK, ChildOK, RestOK
<1>10. ASSUME NEW r \in Runs, NEW m \in Mails, get_domains_mails(r, m) PROVE Typed'
  <2>1. QueuesOK'
    BY <1>0, <1>10 DEF get_domains_mails, QueuesOK
  <2>2. QED
    BY <2>1, <1>0, <1>10 DEF get_domains_mails, Typed, MainOK, ChildOK, RestOK
<1>11. ASSUME NEW r \in Runs, NEW m \in Mails, msgsnd(r, m) PROVE Typed'
  <2>1. PICK j \in Procs : /\ domains' = [domains EXCEPT ![r][j] = @ \cup {DomainOf[m]}]
                           /\ queues' = Sent(Key(j), m)
    BY <1>11 DEF msgsnd
  <2>2. QueuesOK'
    BY <2>1, <1>0, SentOK, KeysApart
  <2>3. domains' \in [Runs -> [Procs -> SUBSET Domains]]
    BY <2>1, <1>0, MailsAssumption DEF MainOK
  <2>4. MainOK' /\ ChildOK' /\ RestOK'
    BY <2>3, <1>0, <1>11 DEF msgsnd, MainOK, ChildOK, RestOK
  <2>5. QED
    BY <2>2, <2>4 DEF Typed
<1>12. ASSUME NEW r \in Runs, start_logger(r) PROVE Typed'
  <2>1. QueuesOK'
    BY <1>0, <1>12 DEF start_logger, QueuesOK
  <2>2. QED
    BY <2>1, <1>0, <1>12 DEF start_logger, Typed, MainOK, ChildOK, RestOK
<1>13. ASSUME NEW r \in Runs, save_log(r) PROVE Typed'
  <2>1. QueuesOK'
    BY <1>0, <1>13, TakenOK, KeysApart DEF save_log
  <2>2. QED
    BY <2>1, <1>0, <1>13 DEF save_log, Typed, MainOK, ChildOK, RestOK
<1>14. ASSUME NEW r \in Runs, NEW j \in Procs, msgget(r, j) PROVE Typed'
  <2>1. QueuesOK'
    BY <1>0, <1>14 DEF msgget, QueuesOK
  <2>2. ChildOK'
    BY <1>0, <1>14 DEF msgget, ChildOK
  <2>3. QED
    BY <2>1, <2>2, <1>0, <1>14 DEF msgget, Typed, MainOK, RestOK
<1>15. ASSUME NEW r \in Runs, NEW j \in Procs, msgrcv(r, j) PROVE Typed'
  <2>1. QueuesOK' /\ Head(queues[Key(j)]) \in Mails
    BY <1>0, <1>15, TakenOK, KeysApart DEF msgrcv
  <2>2. ChildOK'
    BY <2>1, <1>0, <1>15 DEF msgrcv, ChildOK
  <2>3. QED
    BY <2>1, <2>2, <1>0, <1>15 DEF msgrcv, Typed, MainOK, RestOK
<1>24. ASSUME NEW r \in Runs, NEW j \in Procs, msgrcv_log(r, j) PROVE Typed'
  <2>1. QueuesOK'
    BY <1>0, <1>24, TakenOK, KeysApart DEF msgrcv_log
  <2>2. QED
    BY <2>1, <1>0, <1>24 DEF msgrcv_log, Typed, MainOK, ChildOK, RestOK
<1>16. ASSUME NEW r \in Runs, NEW j \in Procs, NEW m \in Mails, read_msg_file(r, j, m)
       PROVE  Typed'
  <2>1. QueuesOK'
    BY <1>0, <1>16 DEF read_msg_file, QueuesOK
  <2>2. ChildOK'
    BY <1>0, <1>16 DEF read_msg_file, ChildOK
  <2>3. QED
    BY <2>1, <2>2, <1>0, <1>16 DEF read_msg_file, Typed, MainOK, RestOK
<1>17. ASSUME NEW r \in Runs, NEW j \in Procs, rename(r, j) PROVE Typed'
  <2>1. QueuesOK'
    BY <1>0, <1>17 DEF rename, QueuesOK
  <2>2. ChildOK' /\ reading[r][j] \in Mails
    BY <1>0, <1>17 DEF rename, ChildOK
  <2>3. RestOK'
    BY <2>2, <1>0, <1>17 DEF rename, RestOK
  <2>4. QED
    BY <2>1, <2>2, <2>3, <1>0, <1>17 DEF rename, Typed, MainOK
<1>18. ASSUME NEW r \in Runs, main_ends(r) PROVE Typed'
  <2>1. QueuesOK'
    BY <1>0, <1>18 DEF main_ends, QueuesOK
  <2>2. MainOK'
    BY <1>0, <1>18, ProcAssumption DEF main_ends, MainOK
  <2>3. QED
    BY <2>1, <2>2, <1>0, <1>18 DEF main_ends, Typed, ChildOK, RestOK
<1>19. ASSUME NEW r \in Runs, NEW j \in Procs, child_ends(r, j) PROVE Typed'
  <2>1. QueuesOK'
    BY <1>0, <1>19 DEF child_ends, QueuesOK
  <2>2. ChildOK'
    BY <1>0, <1>19 DEF child_ends, ChildOK
  <2>3. QED
    BY <2>1, <2>2, <1>0, <1>19 DEF child_ends, Typed, MainOK, RestOK
<1>20. ASSUME NEW r \in Runs, logger_ends(r) PROVE Typed'
  <2>1. QueuesOK'
    BY <1>0, <1>20 DEF logger_ends, QueuesOK
  <2>2. QED
    BY <2>1, <1>0, <1>20 DEF logger_ends, Typed, MainOK, ChildOK, RestOK
<1>21. ASSUME NEW m \in Mails, arrive(m) PROVE Typed'
  <2>1. QueuesOK'
    BY <1>0, <1>21 DEF arrive, QueuesOK
  <2>2. QED
    BY <2>1, <1>0, <1>21 DEF arrive, Typed, MainOK, ChildOK, RestOK
<1>22. CASE UNCHANGED vars
  <2>1. QueuesOK'
    BY <1>0, <1>22 DEF vars, QueuesOK
  <2>2. QED
    BY <2>1, <1>0, <1>22 DEF vars, Typed, MainOK, ChildOK, RestOK
<1>23. QED
  BY <1>1, <1>2, <1>3, <1>4, <1>5, <1>6, <1>7, <1>8, <1>9, <1>10, <1>11, <1>12, <1>13,
     <1>14, <1>15, <1>16, <1>17, <1>18, <1>19, <1>20, <1>21, <1>22, <1>24
  DEF Next, master, works

LEMMA TypedAlways == Spec => []Typed
BY TypedInit, TypedNext, PTL DEF Spec

\* The state of every process of every run, the queues and the letters keep
\* their types, also when a child and the log share a queue; none overflows.
THEOREM TypesOK == Spec => []TypeOK
BY TypedAlways, TypedIs, PTL
-----------------------------------------------------------------------------
(* One process for a domain. *)

\* What a child holds it got from its queue, so a child that has not found its
\* queue, or has ended, holds nothing.
Idle ==
  \A r \in Runs : \A j \in Procs :
    child[r][j] # "reads" => received[r][j] = {} /\ reading[r][j] = NoMail

\* No child is there before its fork().
Unforked ==
  \A r \in Runs :
    /\ main[r] \in {"none", "config"} => next[r] = 0 /\ \A j \in Procs : child[r][j] = "none"
    /\ main[r] = "fork" => \A j \in Procs : next[r] <= j => child[r][j] = "none"

\* A master gives no domain to two processes.
Distinct ==
  \A r \in Runs : \A i, j \in Procs : \A d \in Domains :
    d \in domains[r][i] /\ d \in domains[r][j] => i = j

Waits(j, m) == \E i \in DOMAIN queues[Key(j)] : queues[Key(j)][i] = m
\* Some child with this number has the letter, or will take it.
HeldBy(j, m) == Waits(j, m) \/ \E r \in Runs : Holds(r, j, m)

OneRun == \A q, r \in Runs : Leftover(q) /\ Leftover(r) => q = r
\* A living master knows the domain of every letter a child has or will take.
Assigned ==
  \A r \in Runs : MainLives(r) =>
    \A j \in Procs : \A m \in Mails : HeldBy(j, m) => DomainOf[m] \in domains[r][j]
\* Letters of one domain are held by children with one number.
Apart ==
  \A i, j \in Procs : \A m, n \in Mails :
    HeldBy(i, m) /\ HeldBy(j, n) /\ DomainOf[m] = DomainOf[n] => i = j

Base    == Typed /\ Idle /\ Unforked /\ Distinct
Running == OneRun /\ Assigned /\ Apart

LEMMA ApartIsOneProcess == Base /\ Running => OneProcess
<1> SUFFICES ASSUME Base, Running,
                    NEW q \in Runs, NEW r \in Runs, NEW i \in Procs, NEW j \in Procs,
                    NEW m \in Mails, NEW n \in Mails,
                    Holds(q, i, m), Holds(r, j, n), DomainOf[m] = DomainOf[n]
             PROVE  q = r /\ i = j
  BY DEF OneProcess
<1>1. i = j
  BY DEF Running, Apart, HeldBy
<1>2. Leftover(q) /\ Leftover(r)
  BY DEF Holds, Leftover
<1>3. QED
  BY <1>1, <1>2 DEF Running, OneRun

\* One entry of an array for each run and process is written.
LEMMA Written ==
  ASSUME NEW S, NEW f \in [Runs -> [Procs -> S]], NEW r \in Runs, NEW j \in Procs, NEW v
  PROVE  \A q \in Runs : \A i \in Procs :
           [f EXCEPT ![r][j] = v][q][i] = IF q = r /\ i = j THEN v ELSE f[q][i]
OBVIOUS

LEMMA BaseInit == Init => Base
<1> SUFFICES ASSUME Init PROVE Base
  OBVIOUS
<1>1. Idle /\ Unforked /\ Distinct
  BY DEF Init, Idle, Unforked, Distinct
<1>2. QED
  BY <1>1, TypedInit DEF Base

LEMMA IdleNext == Base /\ [Next]_vars => Idle' /\ Unforked'
<1> SUFFICES ASSUME Base, [Next]_vars PROVE Idle' /\ Unforked'
  OBVIOUS
<1> USE DEF mainVars, childVars, kernelVars, ghosts
<1>0. MainOK /\ ChildOK /\ Idle /\ Unforked
  BY DEF Base, Typed
<1>1. ASSUME NEW r \in Runs,
             begin(r) \/ usage(r) \/ read_config(r) \/ master_process_worker_start(r)
               \/ queues_created(r) \/ readdir_crashes(r) \/ main_ends(r)
      PROVE  Idle' /\ Unforked'
  <2>1. UNCHANGED childVars
    BY <1>1 DEF begin, usage, read_config, master_process_worker_start, queues_created,
                readdir_crashes, main_ends
  <2>2. Idle'
    BY <2>1, <1>0 DEF Idle
  <2>3. CASE begin(r) \/ read_config(r)
    <3>1. /\ main[r] \in {"none", "config"} /\ UNCHANGED next
          /\ \E p \in {"config", "fork"} : main' = [main EXCEPT ![r] = p]
      BY <2>3 DEF begin, read_config
    <3>2. QED
      BY <3>1, <2>1, <2>2, <1>0 DEF Unforked, MainOK
  <2>4. CASE ~(begin(r) \/ read_config(r))
    <3>1. /\ next' = next \/ next' = [next EXCEPT ![r] = 0]
          /\ \E p \in {"create", "serve", "ended"} : main' = [main EXCEPT ![r] = p]
      BY <1>1, <2>4 DEF usage, master_process_worker_start, queues_created,
                        readdir_crashes, main_ends
    <3>2. QED
      BY <3>1, <2>1, <2>2, <1>0 DEF Unforked, MainOK
  <2>5. QED
    BY <2>3, <2>4
<1>2. ASSUME NEW r \in Runs, fork_child(r) PROVE Idle' /\ Unforked'
  <2>1. PICK state \in {"starting", "failed"} : child' = [child EXCEPT ![r][next[r]] = state]
    BY <1>2 DEF fork_child
  <2>2. next[r] \in Procs
    BY <1>0, <1>2, ProcAssumption DEF fork_child, MainOK, proc_cnt, Procs
  <2>3. child[r][next[r]] = "none"
    BY <2>2, <1>0, <1>2, ProcAssumption DEF fork_child, Unforked, Procs
  <2>4. Idle'
    BY <2>1, <2>2, <2>3, <1>0, <1>2 DEF fork_child, Idle, ChildOK
  <2>5. /\ next'[r] = next[r] + 1 /\ main' = main /\ next[r] \in Int
        /\ \A q \in Runs \ {r} : next'[q] = next[q] /\ child'[q] = child[q]
        /\ \A j \in Procs : j # next[r] => child'[r][j] = child[r][j]
    BY <2>1, <1>0, <1>2 DEF fork_child, MainOK, ChildOK
  <2>6. \A j \in Procs : next'[r] <= j => child'[r][j] = "none"
    BY <2>5, <1>0, <1>2 DEF fork_child, Unforked, Procs
  <2>7. Unforked'
    BY <2>5, <2>6, <1>0, <1>2 DEF fork_child, Unforked
  <2>8. QED
    BY <2>4, <2>7
<1>3. ASSUME NEW r \in Runs, create_queue(r) PROVE Idle' /\ Unforked'
  BY <1>0, <1>3 DEF create_queue, Idle, Unforked, MainOK
<1>4. ASSUME NEW r \in Runs, NEW j \in Procs,
             msgget(r, j) \/ child_ends(r, j) \/ msgrcv(r, j) \/ rename(r, j)
               \/ \E m \in Mails : read_msg_file(r, j, m)
      PROVE  Idle' /\ Unforked'
  <2>1. /\ UNCHANGED mainVars /\ child[r][j] # "none"
        /\ \/ UNCHANGED child
           \/ \E state \in {"reads", "deaf", "ended"} : child' = [child EXCEPT ![r][j] = state]
    BY <1>0, <1>4 DEF msgget, child_ends, msgrcv, rename, read_msg_file, Lives, Idle
  <2>2. Unforked'
    <3>1. \A q \in Runs : \A i \in Procs : child[q][i] = "none" => child'[q][i] = "none"
      BY <2>1, <1>0, Written DEF ChildOK
    <3>2. QED
      BY <3>1, <2>1, <1>0 DEF Unforked
  <2>3. CASE msgget(r, j)
    BY <2>2, <2>3, <1>0, Written DEF msgget, Idle, ChildOK
  <2>4. CASE child_ends(r, j)
    BY <2>2, <2>4, <1>0, Written DEF child_ends, Idle, ChildOK
  <2>5. CASE msgrcv(r, j) \/ rename(r, j) \/ \E m \in Mails : read_msg_file(r, j, m)
    <3>1. /\ UNCHANGED child /\ child[r][j] = "reads"
          /\ \/ received' = received
             \/ \E s : received' = [received EXCEPT ![r][j] = s]
          /\ \/ reading' = reading
             \/ \E s : reading' = [reading EXCEPT ![r][j] = s]
      BY <2>5, <1>0 DEF msgrcv, rename, read_msg_file, Idle
    <3>2. QED
      BY <3>1, <2>2, <1>0 DEF Idle, ChildOK
  <2>6. QED
    BY <2>2, <2>3, <2>4, <2>5, <1>4
<1>5. ASSUME UNCHANGED <<childVars, main, next>> PROVE Idle' /\ Unforked'
  BY <1>0, <1>5 DEF Idle, Unforked
<1>6. ASSUME NEW r \in Runs,
             \/ send_log_message(r) \/ start_logger(r) \/ save_log(r) \/ logger_ends(r)
             \/ \E m \in Mails : get_domains_mails(r, m) \/ msgsnd(r, m)
             \/ \E j \in Procs : msgrcv_log(r, j)
      PROVE  UNCHANGED <<childVars, main, next>>
  BY <1>6 DEF send_log_message, start_logger, save_log, logger_ends, get_domains_mails, msgsnd,
              msgrcv_log
<1>7. ASSUME NEW m \in Mails, arrive(m) PROVE UNCHANGED <<childVars, main, next>>
  BY <1>7 DEF arrive
<1>8. ASSUME UNCHANGED vars PROVE UNCHANGED <<childVars, main, next>>
  BY <1>8 DEF vars
<1>9. QED
  BY <1>1, <1>2, <1>3, <1>4, <1>5, <1>6, <1>7, <1>8 DEF Next, master, works

LEMMA DistinctNext == Base /\ [Next]_vars => Distinct'
<1> SUFFICES ASSUME Base, [Next]_vars PROVE Distinct'
  OBVIOUS
<1> USE DEF mainVars, childVars, kernelVars, ghosts
<1>0. MainOK /\ Distinct
  BY DEF Base, Typed
<1>1. ASSUME NEW r \in Runs, NEW m \in Mails, msgsnd(r, m) PROVE Distinct'
  <2>1. PICK j \in Procs : /\ get_mail_proc_idx(r, DomainOf[m], j)
                           /\ domains' = [domains EXCEPT ![r][j] = @ \cup {DomainOf[m]}]
    BY <1>1 DEF msgsnd
  <2>2. \A i \in Procs : DomainOf[m] \in domains[r][i] => i = j
    BY <2>1, <1>0, MailsAssumption DEF get_mail_proc_idx, Distinct
  <2>3. \A q \in Runs : \A i \in Procs :
          domains'[q][i] = IF q = r /\ i = j THEN domains[q][i] \cup {DomainOf[m]} ELSE domains[q][i]
    BY <2>1, <1>0 DEF MainOK
  <2>4. SUFFICES ASSUME NEW q \in Runs, NEW i \in Procs, NEW k \in Procs, NEW d \in Domains,
                        d \in domains'[q][i], d \in domains'[q][k]
                 PROVE  i = k
    BY DEF Distinct
  <2>5. CASE q = r /\ d = DomainOf[m]
    BY <2>2, <2>3, <2>4, <2>5
  <2>6. CASE ~(q = r /\ d = DomainOf[m])
    <3>1. d \in domains[q][i] /\ d \in domains[q][k]
      BY <2>3, <2>4, <2>6
    <3>2. QED
      BY <3>1, <1>0 DEF Distinct
  <2>7. QED
    BY <2>5, <2>6
<1>2. ASSUME NEW r \in Runs, main_ends(r) PROVE Distinct'
  BY <1>0, <1>2 DEF main_ends, Distinct, MainOK
<1>3. ASSUME UNCHANGED domains PROVE Distinct'
  BY <1>0, <1>3 DEF Distinct
<1>4. ASSUME NEW r \in Runs,
             \/ begin(r) \/ usage(r) \/ send_log_message(r) \/ start_logger(r) \/ save_log(r)
             \/ logger_ends(r) \/ read_config(r) \/ fork_child(r)
             \/ master_process_worker_start(r) \/ create_queue(r) \/ queues_created(r)
             \/ readdir_crashes(r) \/ \E m \in Mails : get_domains_mails(r, m)
             \/ \E j \in Procs : works(r, j) \/ child_ends(r, j)
      PROVE  UNCHANGED domains
  BY <1>4 DEF begin, usage, send_log_message, start_logger, save_log, logger_ends, read_config,
              fork_child, master_process_worker_start, create_queue, queues_created,
              readdir_crashes, get_domains_mails, works, msgget, msgrcv, msgrcv_log, rename, read_msg_file,
              child_ends
<1>5. ASSUME NEW m \in Mails, arrive(m) PROVE UNCHANGED domains
  BY <1>5 DEF arrive
<1>6. ASSUME UNCHANGED vars PROVE UNCHANGED domains
  BY <1>6 DEF vars
<1>7. QED
  BY <1>1, <1>2, <1>3, <1>4, <1>5, <1>6 DEF Next, master

LEMMA BaseNext == Base /\ [Next]_vars => Base'
BY TypedNext, IdleNext, DistinctNext DEF Base

\* Nothing but the start of a run makes a run alive.
LEMMA LeftoverNext ==
  ASSUME Base, [Next]_vars, ~\E r \in Runs : begin(r)
  PROVE  /\ \A q \in Runs : (MainLives(q)' => MainLives(q)) /\ (Leftover(q)' => Leftover(q))
         /\ clean' = clean
<1> USE DEF mainVars, childVars, kernelVars, ghosts
<1> DEFINE Kept == /\ \A q \in Runs : (MainLives(q)' => MainLives(q)) /\ (Leftover(q)' => Leftover(q))
                   /\ clean' = clean
<1>0. MainOK /\ ChildOK
  BY DEF Base, Typed
<1>1. ASSUME NEW r \in Runs,
             usage(r) \/ read_config(r) \/ master_process_worker_start(r)
               \/ queues_created(r) \/ readdir_crashes(r) \/ main_ends(r)
      PROVE  Kept
  <2>1. /\ UNCHANGED <<childVars, clean>> /\ MainLives(r)
        /\ \E p : main' = [main EXCEPT ![r] = p]
    BY <1>1 DEF usage, read_config, master_process_worker_start, queues_created,
                readdir_crashes, main_ends, MainLives
  <2>2. QED
    BY <2>1, <1>0 DEF MainLives, Leftover, MainOK
<1>2. ASSUME NEW r \in Runs, fork_child(r) PROVE Kept
  <2>1. /\ UNCHANGED <<main, clean>> /\ MainLives(r)
        /\ \A q \in Runs \ {r} : child'[q] = child[q]
    BY <1>0, <1>2 DEF fork_child, MainLives, ChildOK
  <2>2. QED
    BY <2>1 DEF MainLives, Leftover
<1>3. ASSUME NEW r \in Runs, NEW j \in Procs, works(r, j) \/ child_ends(r, j) PROVE Kept
  <2>1. /\ UNCHANGED <<main, clean>>
        /\ \/ UNCHANGED child
           \/ /\ Lives(child[r][j])
              /\ \E state \in {"reads", "deaf", "ended"} : child' = [child EXCEPT ![r][j] = state]
    BY <1>3 DEF works, msgget, child_ends, msgrcv, msgrcv_log, rename, read_msg_file, Lives
  <2>2. \A q \in Runs : \A i \in Procs : Lives(child'[q][i]) => Lives(child[q][i])
    BY <2>1, <1>0, Written DEF ChildOK
  <2>3. QED
    BY <2>1, <2>2 DEF MainLives, Leftover
<1>4. ASSUME UNCHANGED <<main, child, clean>> PROVE Kept
  BY <1>4 DEF MainLives, Leftover
<1>5. ASSUME NEW r \in Runs,
             \/ send_log_message(r) \/ start_logger(r) \/ save_log(r) \/ logger_ends(r)
             \/ create_queue(r) \/ \E m \in Mails : get_domains_mails(r, m) \/ msgsnd(r, m)
      PROVE  UNCHANGED <<main, child, clean>>
  BY <1>5 DEF send_log_message, start_logger, save_log, logger_ends, create_queue,
              get_domains_mails, msgsnd
<1>6. ASSUME NEW m \in Mails, arrive(m) PROVE UNCHANGED <<main, child, clean>>
  BY <1>6 DEF arrive
<1>7. ASSUME UNCHANGED vars PROVE UNCHANGED <<main, child, clean>>
  BY <1>7 DEF vars
<1>8. QED
  BY <1>1, <1>2, <1>3, <1>4, <1>5, <1>6, <1>7 DEF Next, master

\* The master of a run gives the letter to process j.
Gives(r, j, m) ==
  /\ main[r] = "serve" /\ UNCHANGED main
  /\ get_mail_proc_idx(r, DomainOf[m], j)
  /\ domains' = [domains EXCEPT ![r][j] = @ \cup {DomainOf[m]}]

\* A child gets a letter only when a master gives it, and passes it on to nobody.
LEMMA HeldNext ==
  ASSUME Base, [Next]_vars
  PROVE  \A j \in Procs : \A m \in Mails :
           HeldBy(j, m)' => HeldBy(j, m) \/ \E r \in Runs : Gives(r, j, m)
<1> USE DEF mainVars, childVars, kernelVars, ghosts
<1> DEFINE Kept == \A j \in Procs : \A m \in Mails :
                     HeldBy(j, m)' => HeldBy(j, m) \/ \E r \in Runs : Gives(r, j, m)
           HoldsKept == \A r \in Runs : \A j \in Procs : \A m \in Mails :
                          Holds(r, j, m)' => Holds(r, j, m)
           WaitsKept == \A j \in Procs : \A m \in Mails : Waits(j, m)' => Waits(j, m)
<1>0. MainOK /\ ChildOK /\ QueuesOK /\ Idle /\ Unforked
  BY DEF Base, Typed
<1>a. HoldsKept /\ WaitsKept => Kept
  BY DEF HeldBy
<1>b. UNCHANGED childVars => HoldsKept
  BY DEF Holds
<1>c. UNCHANGED queues => WaitsKept
  BY DEF Waits
\* A message of the log is no letter, wherever it is put.
<1>1. ASSUME NEW r \in Runs, usage(r) \/ send_log_message(r) PROVE Kept
  <2>1. /\ UNCHANGED childVars /\ (queues' = queues \/ queues' = Sent(LogKey, LogMsg[r]))
        /\ LogMsg[r] \in LogMessages /\ LogMsg[r] \notin Mails
    BY <1>1, MailsAssumption DEF usage, send_log_message, LOG, LogMessages
  <2>2. CASE queues' = Sent(LogKey, LogMsg[r])
    <3>1. /\ \A l \in Keys \ {LogKey} : queues'[l] = queues[l]
          /\ \A i \in DOMAIN queues'[LogKey] :
               \/ i \in DOMAIN queues[LogKey] /\ queues'[LogKey][i] = queues[LogKey][i]
               \/ queues'[LogKey][i] = LogMsg[r]
      BY <2>1, <2>2, <1>0, SentOK, KeysApart
    <3>2. WaitsKept
      BY <2>1, <3>1, KeysApart DEF Waits
    <3>3. QED
      BY <2>1, <3>2, <1>a, <1>b
  <2>3. QED
    BY <2>1, <2>2, <1>a, <1>b, <1>c
<1>2. ASSUME NEW r \in Runs, save_log(r) \/ \E j \in Procs : msgrcv_log(r, j) PROVE Kept
  <2>1. PICK k \in Keys : queues[k] # <<>> /\ queues' = [queues EXCEPT ![k] = Tail(@)]
    BY <1>2, KeysApart DEF save_log, msgrcv_log
  <2>2. WaitsKept
    <3>1. \A l \in Keys : \A i \in DOMAIN queues'[l] :
            \E n \in DOMAIN queues[l] : queues[l][n] = queues'[l][i]
      BY <2>1, <1>0, TakenOK
    <3>2. QED
      BY <3>1, KeysApart DEF Waits
  <2>3. UNCHANGED childVars
    BY <1>2 DEF save_log, msgrcv_log
  <2>4. QED
    BY <2>2, <2>3, <1>a, <1>b
<1>3. ASSUME NEW r \in Runs, NEW m \in Mails, msgsnd(r, m) PROVE Kept
  <2>1. PICK j \in Procs : /\ get_mail_proc_idx(r, DomainOf[m], j)
                           /\ domains' = [domains EXCEPT ![r][j] = @ \cup {DomainOf[m]}]
                           /\ queues' = Sent(Key(j), m)
    BY <1>3 DEF msgsnd
  <2>2. Gives(r, j, m) /\ UNCHANGED childVars
    BY <2>1, <1>3 DEF Gives, msgsnd
  <2>3. \A l \in Keys \ {Key(j)} : queues'[l] = queues[l]
    BY <2>1, <1>0, SentOK, KeysApart
  <2>4. \A k \in DOMAIN queues'[Key(j)] :
          \/ k \in DOMAIN queues[Key(j)] /\ queues'[Key(j)][k] = queues[Key(j)][k]
          \/ queues'[Key(j)][k] = m
    BY <2>1, <1>0, SentOK, KeysApart
  <2>5. \A i \in Procs : \A n \in Mails : Waits(i, n)' => Waits(i, n) \/ (i = j /\ n = m)
    BY <2>3, <2>4, KeysApart DEF Waits
  <2>6. QED
    BY <2>2, <2>5, <1>b DEF HeldBy
<1>4. ASSUME NEW r \in Runs, fork_child(r) PROVE Kept
  <2>1. PICK state \in {"starting", "failed"} : child' = [child EXCEPT ![r][next[r]] = state]
    BY <1>4 DEF fork_child
  <2>2. next[r] \in Procs
    BY <1>0, <1>4, ProcAssumption DEF fork_child, MainOK, proc_cnt, Procs
  <2>3. received[r][next[r]] = {} /\ reading[r][next[r]] = NoMail
    BY <2>2, <1>0, <1>4, ProcAssumption DEF fork_child, Unforked, Idle, Procs
  <2>4. UNCHANGED <<received, reading, queues>>
    BY <1>4 DEF fork_child
  <2>5. HoldsKept
    BY <2>1, <2>2, <2>3, <2>4, <1>0, Written, MailsAssumption DEF Holds, ChildOK
  <2>6. QED
    BY <2>4, <2>5, <1>a, <1>c
<1>5. ASSUME NEW r \in Runs, NEW j \in Procs, msgget(r, j) PROVE Kept
  <2>1. \A q \in Runs : \A i \in Procs : Lives(child'[q][i]) => Lives(child[q][i])
    BY <1>0, <1>5, Written DEF msgget, ChildOK, Lives
  <2>2. UNCHANGED <<received, reading, queues>>
    BY <1>5 DEF msgget
  <2>3. HoldsKept
    BY <2>1, <2>2 DEF Holds
  <2>4. QED
    BY <2>2, <2>3, <1>a, <1>c
<1>6. ASSUME NEW r \in Runs, NEW j \in Procs, msgrcv(r, j) PROVE Kept
  <2> DEFINE q == queues[Key(j)]
  <2>1. Key(j) \in Keys /\ q # <<>> /\ queues' = [queues EXCEPT ![Key(j)] = Tail(@)]
    BY <1>6, KeysApart DEF msgrcv
  <2>2. 1 \in DOMAIN q /\ Head(q) = q[1]
    BY <2>1, <1>0, TakenOK
  <2>4. WaitsKept
    <3>1. \A l \in Keys : \A i \in DOMAIN queues'[l] :
            \E n \in DOMAIN queues[l] : queues[l][n] = queues'[l][i]
      BY <2>1, <1>0, TakenOK
    <3>2. QED
      BY <3>1, KeysApart DEF Waits
  <2>5. Waits(j, Head(q))
    BY <2>2 DEF Waits
  <2>6. \A p \in Runs : \A i \in Procs :
          received'[p][i] = IF p = r /\ i = j THEN received[r][j] \cup {Head(q)} ELSE received[p][i]
    BY <1>0, <1>6, Written DEF msgrcv, ChildOK
  <2>7. UNCHANGED <<child, reading>>
    BY <1>6 DEF msgrcv
  <2>8. \A p \in Runs : \A i \in Procs : \A m \in Mails :
          Holds(p, i, m)' => Holds(p, i, m) \/ (i = j /\ m = Head(q))
    BY <2>6, <2>7 DEF Holds
  <2>9. QED
    BY <2>4, <2>5, <2>8 DEF HeldBy
<1>7. ASSUME NEW r \in Runs, NEW j \in Procs, NEW n \in Mails, read_msg_file(r, j, n) PROVE Kept
  <2>1. \A p \in Runs : \A i \in Procs : received'[p][i] \subseteq received[p][i]
    <3>1. received' = [received EXCEPT ![r][j] = received[r][j] \ {n}]
      BY <1>7 DEF read_msg_file
    <3>2. \A p \in Runs : \A i \in Procs :
            received'[p][i] = IF p = r /\ i = j THEN received[r][j] \ {n} ELSE received[p][i]
      BY <3>1, <1>0, Written DEF ChildOK
    <3>3. QED
      BY <3>2
  <2>2. \A p \in Runs : \A i \in Procs :
          reading'[p][i] = reading[p][i] \/ (p = r /\ i = j /\ reading'[p][i] = n)
    BY <1>0, <1>7, Written DEF read_msg_file, ChildOK
  <2>3. n \in received[r][j] /\ UNCHANGED <<child, queues>>
    BY <1>7 DEF read_msg_file
  <2>4. HoldsKept
    BY <2>1, <2>2, <2>3 DEF Holds
  <2>5. QED
    BY <2>3, <2>4, <1>a, <1>c
<1>8. ASSUME NEW r \in Runs, NEW j \in Procs, rename(r, j) \/ child_ends(r, j) PROVE Kept
  <2>1. \A p \in Runs : \A i \in Procs :
          /\ received'[p][i] \subseteq received[p][i]
          /\ reading'[p][i] = reading[p][i] \/ reading'[p][i] = NoMail
          /\ Lives(child'[p][i]) => Lives(child[p][i])
    <3>1. CASE rename(r, j)
      BY <1>0, <3>1, Written DEF rename, ChildOK
    <3>2. CASE child_ends(r, j)
      BY <1>0, <3>2, Written DEF child_ends, ChildOK, Lives
    <3>3. QED
      BY <3>1, <3>2, <1>8
  <2>2. HoldsKept
    BY <2>1, MailsAssumption DEF Holds
  <2>3. UNCHANGED queues
    BY <1>8 DEF rename, child_ends
  <2>4. QED
    BY <2>2, <2>3, <1>a, <1>c
<1>9. ASSUME UNCHANGED <<childVars, queues>> PROVE Kept
  BY <1>9, <1>a, <1>b, <1>c
<1>10. ASSUME NEW r \in Runs,
              \/ begin(r) \/ read_config(r) \/ master_process_worker_start(r) \/ create_queue(r)
              \/ queues_created(r) \/ readdir_crashes(r) \/ main_ends(r)
              \/ start_logger(r) \/ logger_ends(r)
              \/ \E m \in Mails : get_domains_mails(r, m)
       PROVE  UNCHANGED <<childVars, queues>>
  BY <1>10 DEF begin, read_config, master_process_worker_start, create_queue, queues_created,
               readdir_crashes, main_ends, start_logger, logger_ends, get_domains_mails
<1>11. ASSUME NEW m \in Mails, arrive(m) PROVE UNCHANGED <<childVars, queues>>
  BY <1>11 DEF arrive
<1>12. ASSUME UNCHANGED vars PROVE UNCHANGED <<childVars, queues>>
  BY <1>12 DEF vars
<1>13. QED
  BY <1>1, <1>2, <1>3, <1>4, <1>5, <1>6, <1>7, <1>8, <1>9, <1>10, <1>11, <1>12
     DEF Next, master, works

LEMMA DomainsGrow ==
  ASSUME Base, [Next]_vars, NEW r \in Runs, MainLives(r)'
  PROVE  \A j \in Procs : domains[r][j] \subseteq domains'[r][j]
<1> USE DEF mainVars, childVars, kernelVars, ghosts
<1>0. MainOK
  BY DEF Base, Typed
<1>1. ASSUME NEW q \in Runs, NEW m \in Mails, msgsnd(q, m)
      PROVE  \A j \in Procs : domains[r][j] \subseteq domains'[r][j]
  <2>1. PICK i \in Procs : domains' = [domains EXCEPT ![q][i] = domains[q][i] \cup {DomainOf[m]}]
    BY <1>1 DEF msgsnd
  <2>2. \A j \in Procs : domains'[r][j] = IF r = q /\ j = i THEN domains[q][i] \cup {DomainOf[m]}
                                          ELSE domains[r][j]
    BY <2>1, <1>0, Written DEF MainOK
  <2>3. QED
    BY <2>2
<1>2. ASSUME NEW q \in Runs, main_ends(q)
      PROVE  \A j \in Procs : domains[r][j] \subseteq domains'[r][j]
  BY <1>0, <1>2 DEF main_ends, MainLives, MainOK
<1>3. ASSUME NEW q \in Runs,
             \/ begin(q) \/ usage(q) \/ send_log_message(q) \/ start_logger(q) \/ save_log(q)
             \/ logger_ends(q) \/ read_config(q) \/ fork_child(q)
             \/ master_process_worker_start(q) \/ create_queue(q) \/ queues_created(q)
             \/ readdir_crashes(q) \/ \E m \in Mails : get_domains_mails(q, m)
             \/ \E j \in Procs : works(q, j) \/ child_ends(q, j)
      PROVE  UNCHANGED domains
  BY <1>3 DEF begin, usage, send_log_message, start_logger, save_log, logger_ends, read_config,
              fork_child, master_process_worker_start, create_queue, queues_created,
              readdir_crashes, get_domains_mails, works, msgget, msgrcv, msgrcv_log, rename, read_msg_file,
              child_ends
<1>4. ASSUME NEW m \in Mails, arrive(m) PROVE UNCHANGED domains
  BY <1>4 DEF arrive
<1>5. ASSUME UNCHANGED vars PROVE UNCHANGED domains
  BY <1>5 DEF vars
<1>6. QED
  BY <1>1, <1>2, <1>3, <1>4, <1>5 DEF Next, master

LEMMA RunningNext ==
  ASSUME Base, clean => Running, [Next]_vars, clean'
  PROVE  clean /\ Running'
<1>0. MainOK /\ ChildOK /\ RestOK /\ Distinct
  BY DEF Base, Typed
<1>1. CASE \E r \in Runs : begin(r)
  <2>1. PICK r \in Runs : begin(r)
    BY <1>1
  <2>2. /\ clean /\ \A q \in Runs : ~Leftover(q)
        /\ \A j \in Procs : queues[Key(j)] = <<>>
    BY <2>1 DEF begin
  <2>3. \A j \in Procs : \A m \in Mails : ~HeldBy(j, m)'
    <3>1. \A j \in Procs : \A m \in Mails : ~HeldBy(j, m)
      BY <2>2 DEF HeldBy, Waits, Holds, Leftover
    <3>2. \A q \in Runs : \A j \in Procs : \A m \in Mails : ~Gives(q, j, m)
      BY <2>2 DEF Gives, Leftover, MainLives
    <3>3. QED
      BY <3>1, <3>2, HeldNext
  <2>4. \A q \in Runs : Leftover(q)' => q = r
    BY <2>1, <2>2, <1>0 DEF begin, Leftover, MainLives, MainOK, childVars
  <2>5. OneRun'
    BY <2>4 DEF OneRun
  <2>6. Assigned'
    BY <2>3 DEF Assigned
  <2>7. Apart'
    BY <2>3 DEF Apart
  <2>8. QED
    BY <2>2, <2>5, <2>6, <2>7 DEF Running
<1>2. CASE ~\E r \in Runs : begin(r)
  <2>1. /\ clean /\ OneRun /\ Assigned /\ Apart
        /\ \A q \in Runs : (MainLives(q)' => MainLives(q)) /\ (Leftover(q)' => Leftover(q))
    BY <1>2, LeftoverNext DEF Running
  <2>2. OneRun'
    BY <2>1 DEF OneRun
  <2>3. \A q, r \in Runs : MainLives(q) /\ MainLives(r) => q = r
    BY <2>1 DEF OneRun, Leftover
  <2>4. \A r \in Runs : \A j \in Procs : \A m \in Mails : Gives(r, j, m) =>
          MainLives(r) /\ DomainOf[m] \in domains'[r][j]
    BY <1>0 DEF Gives, MainLives, MainOK
  \* A master that knows the domain gives the letter to the process that has it.
  <2>5. \A r \in Runs : \A i, j \in Procs : \A m, n \in Mails :
          Gives(r, i, m) /\ HeldBy(j, n) /\ DomainOf[m] = DomainOf[n] => i = j
    <3>1. SUFFICES ASSUME NEW r \in Runs, NEW i \in Procs, NEW j \in Procs,
                          NEW m \in Mails, NEW n \in Mails,
                          Gives(r, i, m), HeldBy(j, n), DomainOf[m] = DomainOf[n]
                   PROVE  i = j
      OBVIOUS
    <3>2. DomainOf[m] \in domains[r][j]
      BY <2>1, <2>4, <3>1 DEF Assigned
    <3>3. DomainOf[m] \in domains[r][i]
      BY <3>1, <3>2 DEF Gives, get_mail_proc_idx
    <3>4. QED
      BY <3>2, <3>3, <1>0, MailsAssumption DEF Distinct
  \* One step gives letters to one process.
  <2>6. \A r \in Runs : \A i, j \in Procs : \A m, n \in Mails :
          Gives(r, i, m) /\ Gives(r, j, n) /\ DomainOf[m] = DomainOf[n] => i = j
    <3>1. SUFFICES ASSUME NEW r \in Runs, NEW i \in Procs, NEW j \in Procs,
                          NEW m \in Mails, NEW n \in Mails,
                          Gives(r, i, m), Gives(r, j, n), DomainOf[m] = DomainOf[n], i # j
                   PROVE  FALSE
      OBVIOUS
    <3>2. domains'[r][j] = domains[r][j]
      <4>1. domains' = [domains EXCEPT ![r][i] = @ \cup {DomainOf[m]}]
        BY <3>1 DEF Gives
      <4>2. QED
        BY <4>1, <3>1, <1>0 DEF MainOK
    <3>3. domains'[r][i] = domains[r][i]
      <4>1. domains' = [domains EXCEPT ![r][j] = @ \cup {DomainOf[n]}]
        BY <3>1 DEF Gives
      <4>2. QED
        BY <4>1, <3>1, <1>0 DEF MainOK
    <3>4. DomainOf[m] \in domains[r][i] /\ DomainOf[m] \in domains[r][j]
      BY <2>4, <3>1, <3>2, <3>3
    <3>5. QED
      BY <3>1, <3>4, <1>0, MailsAssumption DEF Distinct
  <2>7. Apart'
    <3>1. SUFFICES ASSUME NEW i \in Procs, NEW j \in Procs, NEW m \in Mails, NEW n \in Mails,
                          HeldBy(i, m)', HeldBy(j, n)', DomainOf[m] = DomainOf[n]
                   PROVE  i = j
      BY DEF Apart
    <3>2. /\ HeldBy(i, m) \/ \E r \in Runs : Gives(r, i, m)
          /\ HeldBy(j, n) \/ \E r \in Runs : Gives(r, j, n)
      BY <3>1, HeldNext
    <3>3. CASE HeldBy(i, m) /\ HeldBy(j, n)
      BY <2>1, <3>1, <3>3 DEF Apart
    <3>4. CASE HeldBy(i, m) /\ \E r \in Runs : Gives(r, j, n)
      BY <2>5, <3>1, <3>4
    <3>5. CASE HeldBy(j, n) /\ \E r \in Runs : Gives(r, i, m)
      BY <2>5, <3>1, <3>5
    <3>6. CASE (\E r \in Runs : Gives(r, i, m)) /\ \E r \in Runs : Gives(r, j, n)
      BY <2>3, <2>4, <2>6, <3>1, <3>6
    <3>7. QED
      BY <3>2, <3>3, <3>4, <3>5, <3>6
  <2>8. Assigned'
    <3>1. SUFFICES ASSUME NEW r \in Runs, MainLives(r)', NEW j \in Procs, NEW m \in Mails,
                          HeldBy(j, m)'
                   PROVE  DomainOf[m] \in domains'[r][j]
      BY DEF Assigned
    <3>2. MainLives(r) /\ \A i \in Procs : domains[r][i] \subseteq domains'[r][i]
      BY <2>1, <3>1, DomainsGrow
    <3>3. CASE HeldBy(j, m)
      BY <2>1, <3>2, <3>3 DEF Assigned
    <3>4. CASE \E q \in Runs : Gives(q, j, m)
      BY <2>3, <2>4, <3>2, <3>4
    <3>5. QED
      BY <3>1, <3>3, <3>4, HeldNext
  <2>9. QED
    BY <2>1, <2>2, <2>7, <2>8 DEF Running
<1>3. QED
  BY <1>1, <1>2

\* While runs begin clean: letters of one domain, and the knowledge of the master.
Sound == Base /\ (clean => Running)

LEMMA SoundInit == Init => Sound
<1> SUFFICES ASSUME Init PROVE Sound
  OBVIOUS
<1>1. \A r \in Runs : ~Leftover(r)
  BY DEF Init, Leftover, MainLives, Lives
<1>2. \A j \in Procs : \A m \in Mails : ~HeldBy(j, m)
  BY KeysApart DEF Init, HeldBy, Waits, Holds, Lives
<1>3. Running
  BY <1>1, <1>2 DEF Running, OneRun, Assigned, Apart
<1>4. QED
  BY <1>3, BaseInit DEF Sound

LEMMA SoundNext == Sound /\ [Next]_vars => Sound'
BY BaseNext, RunningNext DEF Sound

\* When each run of the client finds nobody left of the earlier ones and no
\* letter queued, no domain is worked for by two children.
THEOREM OneProcessAtATime == Spec => []OneProcessIfClean
<1>1. Sound => OneProcessIfClean
  BY ApartIsOneProcess DEF Sound, OneProcessIfClean
<1>2. QED
  BY <1>1, SoundInit, SoundNext, PTL DEF Spec
-----------------------------------------------------------------------------
(* A letter is sent once. *)

\* A letter was sent if it is in cur/, and not before; what a child has read
\* and not yet renamed is in new/.
Counted ==
  /\ \A m \in Mails : sent[m] <= 1 /\ (files[m] # "cur" => sent[m] = 0)
  /\ \A r \in Runs : \A j \in Procs : reading[r][j] # NoMail => files[reading[r][j]] = "new"

LEMMA CountedNext == Sound /\ clean /\ Counted /\ [Next]_vars => Counted'
<1> SUFFICES ASSUME Sound, clean, Counted, [Next]_vars PROVE Counted'
  OBVIOUS
<1> USE DEF mainVars, childVars, kernelVars, ghosts
<1>0. ChildOK /\ RestOK /\ Idle /\ OneProcess
  BY ApartIsOneProcess DEF Sound, Base, Typed
<1>1. ASSUME NEW r \in Runs, NEW j \in Procs, rename(r, j) PROVE Counted'
  <2> DEFINE m == reading[r][j]
  <2>1. m \in Mails /\ m # NoMail /\ files[m] = "new" /\ sent[m] = 0
    BY <1>0, <1>1 DEF rename, ChildOK, Counted
  <2>2. /\ files' = [files EXCEPT ![m] = "cur"] /\ sent' = [sent EXCEPT ![m] = 1]
        /\ reading' = [reading EXCEPT ![r][j] = NoMail]
    BY <2>1, <1>1, <1>0 DEF rename, RestOK
  <2>3. \A n \in Mails : sent'[n] <= 1 /\ (files'[n] # "cur" => sent'[n] = 0)
    BY <2>1, <2>2, <1>0 DEF RestOK, Counted
  <2>4. \A q \in Runs : \A i \in Procs :
          reading'[q][i] = IF q = r /\ i = j THEN NoMail ELSE reading[q][i]
    BY <2>2, <1>0, Written DEF ChildOK
  <2>5. \A q \in Runs : \A i \in Procs : reading[q][i] = m => q = r /\ i = j
    <3>1. \A q \in Runs : \A i \in Procs : reading[q][i] = m => Holds(q, i, m)
      BY <2>1, <1>0 DEF Holds, Idle, Lives
    <3>2. QED
      BY <3>1, <2>1, <1>0 DEF OneProcess
  <2>6. \A q \in Runs : \A i \in Procs :
          reading'[q][i] # NoMail => files'[reading'[q][i]] = "new"
    <3>1. SUFFICES ASSUME NEW q \in Runs, NEW i \in Procs, reading'[q][i] # NoMail
                   PROVE  files'[reading'[q][i]] = "new"
      OBVIOUS
    <3>2. reading'[q][i] = reading[q][i] /\ reading[q][i] # m /\ reading[q][i] \in Mails
      BY <3>1, <2>4, <2>5, <1>0 DEF ChildOK
    <3>3. files[reading[q][i]] = "new"
      BY <3>1, <3>2 DEF Counted
    <3>4. QED
      BY <3>2, <3>3, <2>1, <2>2, <1>0 DEF RestOK
  <2>7. QED
    BY <2>3, <2>6 DEF Counted
<1>2. ASSUME NEW r \in Runs, NEW j \in Procs, NEW m \in Mails, read_msg_file(r, j, m)
      PROVE  Counted'
  <2>1. \A q \in Runs : \A i \in Procs :
          reading'[q][i] = reading[q][i] \/ (reading'[q][i] = m /\ files[m] = "new")
    BY <1>0, <1>2, Written DEF read_msg_file, ChildOK
  <2>2. UNCHANGED <<files, sent>>
    BY <1>2 DEF read_msg_file
  <2>3. QED
    BY <2>1, <2>2 DEF Counted
<1>3. ASSUME NEW r \in Runs, NEW j \in Procs, child_ends(r, j) PROVE Counted'
  <2>1. \A q \in Runs : \A i \in Procs :
          reading'[q][i] = reading[q][i] \/ reading'[q][i] = NoMail
    BY <1>0, <1>3, Written DEF child_ends, ChildOK
  <2>2. UNCHANGED <<files, sent>>
    BY <1>3 DEF child_ends
  <2>3. QED
    BY <2>1, <2>2 DEF Counted
<1>4. ASSUME NEW m \in Mails, arrive(m) PROVE Counted'
  BY <1>0, <1>4 DEF arrive, Counted, RestOK, ChildOK
<1>5. ASSUME UNCHANGED <<files, sent, reading>> PROVE Counted'
  BY <1>5 DEF Counted
<1>6. ASSUME NEW r \in Runs,
             \/ begin(r) \/ usage(r) \/ send_log_message(r) \/ start_logger(r) \/ save_log(r)
             \/ logger_ends(r) \/ main_ends(r) \/ master(r)
             \/ \E j \in Procs : msgget(r, j) \/ msgrcv(r, j) \/ msgrcv_log(r, j)
      PROVE  UNCHANGED <<files, sent, reading>>
  BY <1>6 DEF begin, usage, send_log_message, start_logger, save_log, logger_ends, main_ends,
              master, read_config, fork_child, master_process_worker_start, create_queue,
              queues_created, readdir_crashes, get_domains_mails, msgsnd, msgget, msgrcv,
              msgrcv_log
<1>7. ASSUME UNCHANGED vars PROVE UNCHANGED <<files, sent, reading>>
  BY <1>7 DEF vars
<1>8. QED
  BY <1>1, <1>2, <1>3, <1>4, <1>5, <1>6, <1>7 DEF Next, works

\* And then no letter is sent twice, however often scans of however many runs
\* queue it and whenever children are killed.
THEOREM SentOnce == Spec => []SentOnceIfClean
<1> DEFINE All == Sound /\ (clean => Counted)
<1>1. Init => All
  <2>1. Init => Counted
    BY DEF Init, Counted
  <2>2. QED
    BY <2>1, SoundInit
<1>2. All /\ [Next]_vars => All'
  <2>1. Sound /\ [Next]_vars /\ clean' => clean
    BY RunningNext DEF Sound
  <2>2. QED
    BY <2>1, SoundNext, CountedNext
<1>3. All => SentOnceIfClean
  BY DEF SentOnceIfClean, Counted
<1>4. QED
  BY <1>1, <1>2, <1>3, PTL DEF Spec
=============================================================================
