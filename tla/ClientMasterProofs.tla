-------------------------- MODULE ClientMasterProofs --------------------------
(***************************************************************************)
(* What the master of the client guarantees for any number of processes,    *)
(* domains and letters: the letters of a domain go to one process only, and *)
(* the domains are spread evenly.                                           *)
(***************************************************************************)
EXTENDS ClientMaster, FiniteSetTheorems, TLAPS

\* Letters wait below the domain they are for.
PathsFit == \A d \in Domains : \A k \in DOMAIN mails_paths[d] : DomainOf[mails_paths[d][k]] = d

\* No domain has two processes, the domain at hand has the one that is chosen.
Disjoint == \A j, k \in Procs : domains[j] \cap domains[k] # {} => j = k
Targeted == target # NoProc => domains_mails[next] \in domains[target]

\* A process holds only letters of its domains.
Placed == \A j \in Procs, m \in Mails : Holds(j, m) => DomainOf[m] \in domains[j]

ApartInv == TypeOK /\ PathsFit /\ Disjoint /\ Targeted /\ Placed

\* The master starts with consistent data.
LEMMA InitApart == Init => ApartInv
  BY MasterAssumption
  DEF Init, ApartInv, TypeOK, PathsFit, Disjoint, Targeted, Placed, Holds, Procs, NoProc

\* Every variable keeps to its type (find_domains, dispatch and children).
LEMMA TypeStep == TypeOK /\ [Next]_vars => TypeOK'
<1> SUFFICES ASSUME TypeOK, [Next]_vars PROVE TypeOK'
  OBVIOUS
<1> USE MasterAssumption
<1>1. CASE create_queue
  BY <1>1 DEF create_queue, TypeOK, childVars, NoProc
<1>2. ASSUME NEW m \in Mails, get_domains_mails(m) PROVE TypeOK'
  <2> DEFINE d == DomainOf[m]
  <2>1. d \in Domains /\ mails_paths[d] \in Seq(Mails) /\ domains_mails \in Seq(Domains)
    BY DEF TypeOK
  <2>2. /\ Append(mails_paths[d], m) \in Seq(Mails) /\ <<m>> \in Seq(Mails)
        /\ Append(domains_mails, d) \in Seq(Domains)
    BY <2>1
  <2>3. /\ [mails_paths EXCEPT ![d] = Append(@, m)] \in [Domains -> Seq(Mails)]
        /\ [mails_paths EXCEPT ![d] = <<m>>] \in [Domains -> Seq(Mails)]
    BY <2>1, <2>2 DEF TypeOK
  <2>4. domains_mails' \in Seq(Domains)
    BY <1>2, <2>1, <2>2 DEF get_domains_mails
  <2>5. mails_paths' \in [Domains -> Seq(Mails)]
    BY <1>2, <2>3, Zenon DEF get_domains_mails, TypeOK
  <2>6. target = NoProc
    BY <1>2 DEF get_domains_mails, TypeOK
  <2>7. proc' \in {"running", "crashed"}
    BY <1>2, Zenon DEF get_domains_mails, TypeOK
  <2> QED
    BY <1>2, <2>4, <2>5, <2>6, <2>7 DEF get_domains_mails, TypeOK, childVars
<1>3. CASE end_scan
  BY <1>3 DEF end_scan, TypeOK, childVars
<1>4. CASE get_mail_proc_idx
  <2>1. domains_mails[next] \in Domains
    BY <1>4 DEF get_mail_proc_idx, TypeOK
  <2> QED
    BY <1>4, <2>1 DEF get_mail_proc_idx, TypeOK, childVars
<1>5. CASE msgsnd
  <2>1. domains_mails[next] \in Domains /\ target \in Procs
    BY <1>5 DEF msgsnd, TypeOK
  <2>2. /\ Head(mails_paths[domains_mails[next]]) \in Mails
        /\ Tail(mails_paths[domains_mails[next]]) \in Seq(Mails)
    BY <1>5, <2>1 DEF msgsnd, TypeOK
  <2>3. queues' \in [Procs -> Seq(Mails)]
    BY <1>5, <2>1, <2>2 DEF msgsnd, Queued, TypeOK
  <2> QED
    BY <1>5, <2>1, <2>2, <2>3 DEF msgsnd, TypeOK, childVars
<1>6. CASE next_domain
  BY <1>6 DEF next_domain, TypeOK, childVars
<1>7. CASE wait_for
  BY <1>7 DEF wait_for, TypeOK, childVars
<1>8. ASSUME NEW j \in Procs, msgget(j) PROVE TypeOK'
  BY <1>8 DEF msgget, TypeOK, masterVars
<1>9. ASSUME NEW j \in Procs, msgrcv(j) PROVE TypeOK'
  <2>1. Head(queues[j]) \in Mails /\ Tail(queues[j]) \in Seq(Mails)
    BY <1>9 DEF msgrcv, TypeOK
  <2> QED
    BY <1>9, <2>1 DEF msgrcv, TypeOK, masterVars
<1>10. ASSUME NEW j \in Procs, rename(j) PROVE TypeOK'
  BY <1>10 DEF rename, TypeOK, masterVars, childVars
<1>11. ASSUME NEW m \in Mails, arrive(m) PROVE TypeOK'
  BY <1>11 DEF arrive, TypeOK, masterVars, childVars
<1>12. CASE UNCHANGED vars
  BY <1>12 DEF vars, masterVars, childVars, TypeOK
<1> QED
  BY <1>1, <1>2, <1>3, <1>4, <1>5, <1>6, <1>7, <1>8, <1>9, <1>10, <1>11, <1>12
  DEF Next, master, children

\* The domain at hand keeps its process or gets one that is the only one.
LEMMA ChosenOnce ==
  ASSUME ApartInv, get_mail_proc_idx
  PROVE  Disjoint' /\ Targeted' /\ Placed'
<1> DEFINE d == domains_mails[next]
<1>1. PICK j \in Procs : /\ Chosen(d, j)
                         /\ domains' = [domains EXCEPT ![j] = @ \cup {d}]
                         /\ target' = j
  BY DEF get_mail_proc_idx
<1>2. /\ d \in Domains /\ domains \in [Procs -> SUBSET Domains]
      /\ UNCHANGED <<domains_mails, next, queues, received>>
  BY DEF get_mail_proc_idx, ApartInv, TypeOK, childVars
<1>3. \A k \in Procs : d \in domains[k] => k = j
  BY <1>1 DEF Chosen, ApartInv, Disjoint
<1>4. Disjoint'
  BY <1>1, <1>2, <1>3 DEF ApartInv, Disjoint
<1>5. Targeted'
  BY <1>1, <1>2 DEF Targeted
<1>6. Placed'
  <2>1. \A k \in Procs, m \in Mails : Holds(k, m)' <=> Holds(k, m)
    BY <1>2 DEF Holds
  <2>2. \A k \in Procs : domains[k] \subseteq domains'[k]
    BY <1>1, <1>2
  <2> QED
    BY <2>1, <2>2 DEF Placed, ApartInv
<1> QED
  BY <1>4, <1>5, <1>6

\* A letter is queued to the process that has its domain.
LEMMA QueuedRight ==
  ASSUME ApartInv, msgsnd
  PROVE  PathsFit' /\ Placed'
<1> DEFINE d == domains_mails[next]
           m == Head(mails_paths[d])
<1>1. /\ d \in Domains /\ target \in Procs /\ mails_paths[d] \in Seq(Mails)
      /\ mails_paths[d] # <<>> /\ queues[target] \in Seq(Mails)
  BY DEF msgsnd, ApartInv, TypeOK
<1>2. m \in Mails /\ m = mails_paths[d][1] /\ 1 \in DOMAIN mails_paths[d]
  BY <1>1
<1>3. DomainOf[m] = d /\ d \in domains[target]
  BY <1>1, <1>2 DEF ApartInv, PathsFit, Targeted, msgsnd
<1>4. /\ queues' = [queues EXCEPT ![target] = Queued(m)]
      /\ mails_paths' = [mails_paths EXCEPT ![d] = Tail(@)]
      /\ UNCHANGED <<domains, received>>
  BY DEF msgsnd, childVars
<1>5. /\ queues \in [Procs -> Seq(Mails)] /\ mails_paths \in [Domains -> Seq(Mails)]
  BY DEF ApartInv, TypeOK
<1>6. PathsFit'
  <2> SUFFICES ASSUME NEW e \in Domains, NEW k \in DOMAIN mails_paths'[e]
               PROVE  DomainOf[mails_paths'[e][k]] = e
    BY DEF PathsFit
  <2>1. CASE e = d
    <3>1. mails_paths'[e] = Tail(mails_paths[d])
      BY <2>1, <1>4, <1>5, <1>1
    <3>2. k + 1 \in DOMAIN mails_paths[d] /\ mails_paths'[e][k] = mails_paths[d][k + 1]
      BY <3>1, <1>1
    <3> QED
      BY <3>2, <2>1, <1>1 DEF ApartInv, PathsFit
  <2>2. CASE e # d
    BY <2>2, <1>4, <1>5 DEF ApartInv, PathsFit
  <2> QED
    BY <2>1, <2>2
<1>7. Placed'
  <2> SUFFICES ASSUME NEW j \in Procs, NEW n \in Mails, Holds(j, n)'
               PROVE  DomainOf[n] \in domains[j]
    BY <1>4 DEF Placed
  <2>1. CASE Holds(j, n)
    BY <2>1 DEF ApartInv, Placed
  <2>2. CASE ~Holds(j, n)
    <3>1. PICK k \in DOMAIN queues'[j] : queues'[j][k] = n
      BY <2>2, <1>4 DEF Holds
    <3>2. j = target /\ queues'[j] = Queued(m)
      BY <3>1, <2>2, <1>4, <1>5 DEF Holds
    <3>3. queues'[j] = Append(queues[target], m)
      BY <3>1, <3>2, <2>2 DEF Queued, Holds
    <3>4. k \in DOMAIN queues[target] \/ n = m
      BY <3>1, <3>3, <1>1, <1>2
    <3>5. n = m
      BY <3>1, <3>2, <3>3, <3>4, <2>2, <1>1, <1>2 DEF Holds
    <3> QED
      BY <3>5, <3>2, <1>3
  <2> QED
    BY <2>1, <2>2
<1> QED
  BY <1>6, <1>7

\* Every step keeps the letters of a domain together.
LEMMA ApartStep == ApartInv /\ [Next]_vars => ApartInv'
<1> SUFFICES ASSUME ApartInv, [Next]_vars PROVE ApartInv'
  OBVIOUS
<1> USE MasterAssumption
<1>0. TypeOK /\ TypeOK'
  BY TypeStep DEF ApartInv
<1>1. CASE create_queue
  BY <1>0, <1>1 DEF create_queue, ApartInv, PathsFit, Disjoint, Targeted, Placed, Holds, childVars, TypeOK
<1>2. ASSUME NEW m \in Mails, get_domains_mails(m) PROVE ApartInv'
  <2>1. target = NoProc /\ UNCHANGED <<domains, target, queues, received>>
    BY <1>2 DEF get_domains_mails, ApartInv, TypeOK, childVars
  <2>2. Disjoint' /\ Targeted' /\ Placed'
    BY <2>1 DEF ApartInv, Disjoint, Targeted, Placed, Holds
  <2>3. mails_paths \in [Domains -> Seq(Mails)]
    BY DEF ApartInv, TypeOK
  <2>4. PathsFit'
    <3>1. CASE mails_paths' = mails_paths
      BY <3>1 DEF ApartInv, PathsFit
    <3>2. CASE mails_paths' = [mails_paths EXCEPT ![DomainOf[m]] = Append(@, m)]
      <4> SUFFICES ASSUME NEW e \in Domains, NEW k \in DOMAIN mails_paths'[e]
                   PROVE  DomainOf[mails_paths'[e][k]] = e
        BY DEF PathsFit
      <4>1. CASE e = DomainOf[m]
        <5>1. mails_paths'[e] = Append(mails_paths[e], m) /\ mails_paths[e] \in Seq(Mails)
          BY <3>2, <4>1, <2>3
        <5>2. \/ k \in DOMAIN mails_paths[e] /\ mails_paths'[e][k] = mails_paths[e][k]
              \/ mails_paths'[e][k] = m
          BY <5>1
        <5> QED
          BY <5>2, <4>1 DEF ApartInv, PathsFit
      <4>2. CASE e # DomainOf[m]
        BY <4>2, <3>2, <2>3 DEF ApartInv, PathsFit
      <4> QED
        BY <4>1, <4>2
    <3>3. CASE mails_paths' = [mails_paths EXCEPT ![DomainOf[m]] = <<m>>]
      <4> SUFFICES ASSUME NEW e \in Domains, NEW k \in DOMAIN mails_paths'[e]
                   PROVE  DomainOf[mails_paths'[e][k]] = e
        BY DEF PathsFit
      <4>1. CASE e = DomainOf[m]
        BY <4>1, <3>3, <2>3
      <4>2. CASE e # DomainOf[m]
        BY <4>2, <3>3, <2>3 DEF ApartInv, PathsFit
      <4> QED
        BY <4>1, <4>2
    <3> QED
      BY <1>2, <3>1, <3>2, <3>3 DEF get_domains_mails
  <2> QED
    BY <1>0, <2>2, <2>4 DEF ApartInv
<1>3. CASE end_scan
  BY <1>0, <1>3 DEF end_scan, ApartInv, PathsFit, Disjoint, Targeted, Placed, Holds, childVars, TypeOK
<1>4. CASE get_mail_proc_idx
  <2>1. PathsFit'
    BY <1>4 DEF get_mail_proc_idx, ApartInv, PathsFit
  <2> QED
    BY <1>0, <1>4, <2>1, ChosenOnce DEF ApartInv
<1>5. CASE msgsnd
  <2>1. Disjoint' /\ Targeted'
    BY <1>5 DEF msgsnd, ApartInv, Disjoint, Targeted
  <2> QED
    BY <1>0, <1>5, <2>1, QueuedRight DEF ApartInv
<1>6. CASE next_domain
  BY <1>0, <1>6 DEF next_domain, ApartInv, PathsFit, Disjoint, Targeted, Placed, Holds, childVars
<1>7. CASE wait_for
  BY <1>0, <1>7 DEF wait_for, ApartInv, PathsFit, Disjoint, Targeted, Placed, Holds, childVars
<1>8. ASSUME NEW j \in Procs, msgget(j) PROVE ApartInv'
  BY <1>0, <1>8 DEF msgget, ApartInv, PathsFit, Disjoint, Targeted, Placed, Holds, masterVars
<1>9. ASSUME NEW j \in Procs, msgrcv(j) PROVE ApartInv'
  <2>1. /\ queues[j] \in Seq(Mails) /\ queues[j] # <<>>
        /\ queues \in [Procs -> Seq(Mails)] /\ received \in [Procs -> SUBSET Mails]
        /\ received' = [received EXCEPT ![j] = @ \cup {Head(queues[j])}]
        /\ queues' = [queues EXCEPT ![j] = Tail(@)]
        /\ UNCHANGED domains
    BY <1>9 DEF msgrcv, ApartInv, TypeOK, masterVars
  <2>2. \A n \in Mails : Holds(j, n)' => Holds(j, n)
    <3> SUFFICES ASSUME NEW n \in Mails, Holds(j, n)' PROVE Holds(j, n)
      OBVIOUS
    <3>1. CASE n \in received'[j]
      <4>1. Head(queues[j]) = queues[j][1] /\ 1 \in DOMAIN queues[j]
        BY <2>1
      <4> QED
        BY <2>1, <3>1, <4>1 DEF Holds
    <3>2. ASSUME NEW k \in DOMAIN queues'[j], queues'[j][k] = n PROVE Holds(j, n)
      <4>1. queues'[j] = Tail(queues[j])
        BY <2>1
      <4>2. k + 1 \in DOMAIN queues[j] /\ queues[j][k + 1] = n
        BY <4>1, <3>2, <2>1
      <4> QED
        BY <4>2 DEF Holds
    <3> QED
      BY <3>1, <3>2 DEF Holds
  <2>3. \A i \in Procs, n \in Mails : Holds(i, n)' => Holds(i, n)
    <3> SUFFICES ASSUME NEW i \in Procs, NEW n \in Mails, i # j, Holds(i, n)'
                 PROVE  Holds(i, n)
      BY <2>2
    <3>1. queues'[i] = queues[i] /\ received'[i] = received[i]
      BY <2>1
    <3> QED
      BY <3>1 DEF Holds
  <2>4. Placed'
    BY <2>1, <2>3 DEF Placed, ApartInv
  <2>5. PathsFit' /\ Disjoint' /\ Targeted'
    BY <1>9 DEF msgrcv, masterVars, ApartInv, PathsFit, Disjoint, Targeted
  <2> QED
    BY <1>0, <2>4, <2>5 DEF ApartInv
<1>10. ASSUME NEW j \in Procs, rename(j) PROVE ApartInv'
  BY <1>0, <1>10 DEF rename, ApartInv, PathsFit, Disjoint, Targeted, Placed, Holds, masterVars, childVars
<1>11. ASSUME NEW m \in Mails, arrive(m) PROVE ApartInv'
  BY <1>0, <1>11 DEF arrive, ApartInv, PathsFit, Disjoint, Targeted, Placed, Holds, masterVars, childVars
<1>12. CASE UNCHANGED vars
  BY <1>0, <1>12 DEF vars, masterVars, childVars, ApartInv, PathsFit, Disjoint, Targeted, Placed, Holds
<1> QED
  BY <1>1, <1>2, <1>3, <1>4, <1>5, <1>6, <1>7, <1>8, <1>9, <1>10, <1>11, <1>12
  DEF Next, master, children

\* Two processes that hold letters of one domain are the same process.
LEMMA PlacedApart == ApartInv => DomainsApart
  BY MasterAssumption DEF ApartInv, Placed, Disjoint, DomainsApart

\* No two children are ever given letters of the same domain
\* (get_mail_proc_idx(), scheduler.c:70-98).
THEOREM LettersApart == Spec => []DomainsApart
<1>1. ApartInv /\ [Next]_vars => ApartInv'
  BY ApartStep
<1> QED
  BY InitApart, <1>1, PlacedApart, PTL DEF Spec

\* Every variable keeps to its type; above all, msgsnd() and the search for a
\* process never run without a domain at hand (scheduler.c:42-66).
THEOREM TypesOK == Spec => []TypeOK
<1>1. Init => TypeOK
  BY InitApart DEF ApartInv
<1>2. TypeOK /\ [Next]_vars => TypeOK'
  BY TypeStep
<1> QED
  BY <1>1, <1>2, PTL DEF Spec
-----------------------------------------------------------------------------
\* The processes have finitely many domains each, and evenly many.
EvenInv == /\ domains \in [Procs -> SUBSET Domains]
           /\ \A j \in Procs : IsFiniteSet(domains[j])
           /\ Balanced

\* A domain that gets a process keeps the spread even.
LEMMA ChosenEvenly ==
  ASSUME EvenInv, get_mail_proc_idx, domains_mails[next] \in Domains
  PROVE  EvenInv'
<1> DEFINE d == domains_mails[next]
<1>1. PICK j \in Procs : Chosen(d, j) /\ domains' = [domains EXCEPT ![j] = @ \cup {d}]
  BY DEF get_mail_proc_idx
<1>2. CASE d \in domains[j]
  <2>1. domains' = domains
    BY <1>1, <1>2 DEF EvenInv
  <2> QED
    BY <2>1 DEF EvenInv, Balanced
<1>3. CASE d \notin domains[j]
  <2>1. \A k \in Procs : Cardinality(domains[j]) <= Cardinality(domains[k])
    BY <1>1, <1>3 DEF Chosen, Least
  <2>2. \A k \in Procs : Cardinality(domains[k]) \in Nat
    BY FS_CardinalityType DEF EvenInv
  <2>3. /\ IsFiniteSet(domains[j] \cup {d})
        /\ Cardinality(domains[j] \cup {d}) = Cardinality(domains[j]) + 1
    BY <1>3, FS_AddElement DEF EvenInv
  <2>4. /\ domains'[j] = domains[j] \cup {d}
        /\ \A k \in Procs : k # j => domains'[k] = domains[k]
        /\ domains' \in [Procs -> SUBSET Domains]
    BY <1>1 DEF EvenInv
  <2>5. \A k \in Procs : IsFiniteSet(domains'[k])
    BY <2>3, <2>4 DEF EvenInv
  <2>6. ASSUME NEW k \in Procs, NEW l \in Procs
        PROVE  Cardinality(domains'[k]) <= Cardinality(domains'[l]) + 1
    <3>1. CASE k = j /\ l = j
      BY <3>1, <2>2, <2>3, <2>4
    <3>2. CASE k = j /\ l # j
      BY <3>2, <2>1, <2>2, <2>3, <2>4
    <3>3. CASE k # j /\ l = j
      BY <3>3, <2>2, <2>3, <2>4 DEF EvenInv, Balanced
    <3>4. CASE k # j /\ l # j
      BY <3>4, <2>4 DEF EvenInv, Balanced
    <3> QED
      BY <3>1, <3>2, <3>3, <3>4
  <2> QED
    BY <2>4, <2>5, <2>6 DEF EvenInv, Balanced
<1> QED
  BY <1>2, <1>3

\* Only get_mail_proc_idx() gives a process a domain.
LEMMA EvenStep == EvenInv /\ TypeOK /\ [Next]_vars => EvenInv'
<1> SUFFICES ASSUME EvenInv, TypeOK, [Next]_vars PROVE EvenInv'
  OBVIOUS
<1>1. CASE get_mail_proc_idx
  <2>1. domains_mails[next] \in Domains
    BY <1>1 DEF get_mail_proc_idx, TypeOK
  <2> QED
    BY <1>1, <2>1, ChosenEvenly
<1>2. CASE UNCHANGED domains
  BY <1>2 DEF EvenInv, Balanced
<1> QED
  BY <1>1, <1>2
  DEF Next, vars, masterVars, master, children, create_queue, get_domains_mails, end_scan,
      msgsnd, next_domain, wait_for, msgget, msgrcv, rename, arrive

\* The domains stay spread evenly over the processes, whatever letters come
\* (get_mail_proc_idx(), scheduler.c:85-97).
THEOREM SpreadEvenly == Spec => []Balanced
<1>1. Init => TypeOK /\ EvenInv
  <2>1. Init => TypeOK
    BY InitApart DEF ApartInv
  <2>2. Init => EvenInv
    <3> SUFFICES ASSUME Init PROVE EvenInv
      OBVIOUS
    <3>1. \A j \in Procs : domains[j] = {}
      BY DEF Init
    <3>2. \A j \in Procs : IsFiniteSet(domains[j]) /\ Cardinality(domains[j]) = 0
      BY <3>1, FS_EmptySet
    <3> QED
      BY <3>2 DEF Init, EvenInv, Balanced
  <2> QED
    BY <2>1, <2>2
<1>2. TypeOK /\ EvenInv /\ [Next]_vars => (TypeOK /\ EvenInv)'
  BY TypeStep, EvenStep
<1>3. EvenInv => Balanced
  BY DEF EvenInv
<1> QED
  BY <1>1, <1>2, <1>3, PTL DEF Spec
=============================================================================
