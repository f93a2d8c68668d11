----------------------------- MODULE SpoolProofs -----------------------------
(***************************************************************************)
(* What the directory shared by the server and the client keeps, for any    *)
(* number of workers, letters and write()s.                                 *)
(***************************************************************************)
EXTENDS Spool, SequenceTheorems, TLAPS

Storing(p)   == store[p] # Idle
Occurs(l, i) == \E k \in DOMAIN inodes[i] : inodes[i][k] = l

\* A worker stores a letter whose name carries its pid, and stays in one file.
OwnLetter == \A p \in Servers : Storing(p) =>
  stage[store[p].letter] = "writing" /\ name[store[p].letter].pid = p

\* No two workers write to one file, whether or not it still has a name.
OwnFile == \A p, q \in Servers :
  Storing(p) /\ Storing(q) /\ store[p].inode = store[q].inode => p = q

\* The file a worker writes to has the name the letter was opened under, or none.
OwnName == \A p \in Servers : Storing(p) => \A dir \in {new, cur} : \A n \in DOMAIN dir :
  dir[n] = store[p].inode => n = name[store[p].letter]

\* A file in new/ has one name in new/, and no other in cur/.
OneName ==
  /\ \A n, m \in DOMAIN new : new[n] = new[m] => n = m
  /\ \A n \in DOMAIN new, m \in DOMAIN cur : new[n] = cur[m] => n = m

Unwritten == \A l \in Letters : stage[l] = "fresh" =>
  lost[l] = 0 /\ \A i \in DOMAIN inodes : ~Occurs(l, i)

\* What was written of the letter at hand is the end of its file, and is in
\* no other file.
Written(p) == Parts - store[p].left - lost[store[p].letter]
AtEnd == \A p \in Servers : Storing(p) =>
  LET t == inodes[store[p].inode] IN
    /\ Written(p) >= 0 /\ Len(t) >= Written(p)
    /\ \A k \in DOMAIN t : t[k] = store[p].letter <=> k > Len(t) - Written(p)
OneFile == \A p \in Servers : Storing(p) =>
  \A i \in DOMAIN inodes : Occurs(store[p].letter, i) => i = store[p].inode

FilesInv == TypeOK /\ OwnLetter /\ OwnFile /\ OwnName /\ OneName /\ Unwritten
                   /\ AtEnd /\ OneFile /\ NotMixed

\* A letter in a file of new/ was opened under the name of the file.
FoundByName == \A l \in Letters, n \in DOMAIN new : Occurs(l, new[n]) => name[l] = n

\* A letter that was read is complete, and while its file is in new/ the child
\* is about to rename it.
ReadBefore == \A l \in Letters : reads[l] >= 1 =>
  /\ \E i \in DOMAIN inodes : Whole(inodes[i], l)
  /\ Renamable(name[l]) =>
       /\ reads[l] = 1
       /\ \A n \in DOMAIN new : Whole(inodes[new[n]], l) =>
            child.does = "renames" /\ child.path = n

ReadInv == FoundByName /\ ReadBefore

NameUsed == \A dir \in {new, cur} : \A n \in DOMAIN dir : \E l \in Letters : name[l] = n

\* File i is the file of letter l and of no other.
Holds(l, i) ==
  /\ \A k \in DOMAIN inodes[i] : inodes[i][k] = l
  /\ stage[l] = "promised" => Len(inodes[i]) = Parts - lost[l]
  /\ \A p \in Servers : Storing(p) /\ store[p].letter = l => store[p].inode = i

KeptIn(l) ==
  \/ name[l] \in DOMAIN new /\ name[l] \notin DOMAIN cur /\ Holds(l, new[name[l]])
  \/ name[l] \in DOMAIN cur /\ name[l] \notin DOMAIN new /\ Holds(l, cur[name[l]])
Kept == \A l \in Letters : stage[l] \in {"writing", "promised"} /\ ~Burst(l) => KeptIn(l)

KeptInv == NameUsed /\ Kept
-----------------------------------------------------------------------------
\* What the operators of the actions return.
LEMMA NameInNames ==
  ASSUME TypeOK, NEW p \in Servers, NEW l \in Letters
  PROVE  maildir_get_fname(p, l) \in Names /\ maildir_get_fname(p, l).pid = p
  BY DEF TypeOK, maildir_get_fname, Names, Boxes

LEMMA StoreRecord ==
  ASSUME TypeOK, NEW p \in Servers, Storing(p)
  PROVE  /\ store[p] \in [letter : Letters, inode : DOMAIN inodes, left : 0..Parts]
         /\ store[p].letter \in Letters /\ store[p].inode \in DOMAIN inodes
         /\ store[p].left \in 0..Parts
  BY DEF TypeOK, Storing

\* A file that is opened: one that is there, or a new and empty one.
LEMMA Opened ==
  ASSUME TypeOK, NEW p \in Servers, NEW l \in Letters, open_letter(p, l)
  PROVE  \E n \in Names :
         /\ n # NoName /\ n = maildir_get_fname(p, l) /\ n.pid = p
         /\ name' = [name EXCEPT ![l] = n]
         /\ stage' = [stage EXCEPT ![l] = "writing"]
         /\ store' = [store EXCEPT ![p] = [letter |-> l, inode |-> new'[n], left |-> Parts]]
         /\ \/ n \in DOMAIN new /\ new' = new /\ inodes' = inodes
            \/ /\ n \notin DOMAIN new
               /\ inodes' = Append(inodes, <<>>)
               /\ DOMAIN new' = DOMAIN new \cup {n}
               /\ new'[n] = Len(inodes) + 1
               /\ \A m \in DOMAIN new : new'[m] = new[m]
               /\ new' \in [DOMAIN new' -> DOMAIN inodes']
<1>0. PICK n : n = maildir_get_fname(p, l)
  OBVIOUS
<1>1. n \in Names /\ n # NoName /\ n.pid = p
  BY <1>0, NameInNames, NoNameAssumption
<1>2. CASE n \in DOMAIN new
  BY <1>0, <1>1, <1>2 DEF open_letter
<1>3. CASE n \notin DOMAIN new
  <2>1. inodes' = Append(inodes, <<>>) /\ new' = Linked(new, n, Len(inodes'))
    BY <1>0, <1>3 DEF open_letter
  <2>2. inodes \in Seq(Seq(Letters)) /\ new \in [DOMAIN new -> DOMAIN inodes]
    BY DEF TypeOK
  <2>3. Len(inodes') = Len(inodes) + 1 /\ DOMAIN inodes' = 1..Len(inodes) + 1
        /\ DOMAIN inodes = 1..Len(inodes)
    BY <2>1, <2>2
  <2>4. new' = [m \in DOMAIN new \cup {n} |-> IF m = n THEN Len(inodes') ELSE new[m]]
    BY <2>1 DEF Linked
  <2>5. /\ DOMAIN new' = DOMAIN new \cup {n}
        /\ new'[n] = Len(inodes) + 1
        /\ \A m \in DOMAIN new : new'[m] = new[m]
    BY <2>3, <2>4, <1>3
  <2>6. new' \in [DOMAIN new' -> DOMAIN inodes']
    BY <2>2, <2>3, <2>4, <2>5
  <2> QED
    BY <1>0, <1>1, <1>3, <2>1, <2>5, <2>6 DEF open_letter
<1> QED
  BY <1>2, <1>3

\* A letter that is renamed.
LEMMA Moved ==
  ASSUME TypeOK, child_renames, Renamable(child.path), NEW n, n = child.path
  PROVE  /\ n \in DOMAIN new
         /\ DOMAIN new' = DOMAIN new \ {n} /\ \A m \in DOMAIN new' : new'[m] = new[m]
         /\ DOMAIN cur' = DOMAIN cur \cup {n} /\ cur'[n] = new[n]
         /\ \A m \in DOMAIN cur \ {n} : cur'[m] = cur[m]
         /\ new' \in [DOMAIN new' -> DOMAIN inodes] /\ cur' \in [DOMAIN cur' -> DOMAIN inodes]
<1>1. /\ n \in DOMAIN new
      /\ cur' = Linked(cur, n, new[n])
      /\ new' = [m \in DOMAIN new \ {n} |-> new[m]]
  BY DEF child_renames, TypeOK
<1>2. cur' = [m \in DOMAIN cur \cup {n} |-> IF m = n THEN new[n] ELSE cur[m]]
  BY <1>1 DEF Linked
<1>3. new \in [DOMAIN new -> DOMAIN inodes] /\ cur \in [DOMAIN cur -> DOMAIN inodes]
  BY DEF TypeOK
<1> QED
  BY <1>1, <1>2, <1>3

-----------------------------------------------------------------------------
\* Every variable keeps to its type.
LEMMA TypeInit == Init => TypeOK
<1> SUFFICES ASSUME Init PROVE TypeOK
  OBVIOUS
<1>1. new \in [DOMAIN new -> DOMAIN inodes] /\ DOMAIN new = {}
      /\ cur \in [DOMAIN cur -> DOMAIN inodes] /\ DOMAIN cur = {}
  BY DEF Init
<1> QED
  BY <1>1, SpoolAssumption DEF Init, TypeOK, Stages

LEMMA TypeOpen ==
  ASSUME TypeOK, NEW p \in Servers, NEW l \in Letters, open_letter(p, l)
  PROVE  TypeOK'
<1>1. PICK n \in Names :
        /\ n # NoName
        /\ name' = [name EXCEPT ![l] = n]
        /\ stage' = [stage EXCEPT ![l] = "writing"]
        /\ store' = [store EXCEPT ![p] = [letter |-> l, inode |-> new'[n], left |-> Parts]]
        /\ \/ n \in DOMAIN new /\ new' = new /\ inodes' = inodes
           \/ /\ n \notin DOMAIN new
              /\ inodes' = Append(inodes, <<>>)
              /\ DOMAIN new' = DOMAIN new \cup {n}
              /\ new' \in [DOMAIN new' -> DOMAIN inodes']
  BY Opened
<1>2. /\ inodes' \in Seq(Seq(Letters)) /\ DOMAIN inodes \subseteq DOMAIN inodes'
      /\ DOMAIN new' \subseteq Names /\ DOMAIN new \subseteq DOMAIN new'
      /\ new' \in [DOMAIN new' -> DOMAIN inodes'] /\ n \in DOMAIN new'
  <2>1. CASE n \in DOMAIN new /\ new' = new /\ inodes' = inodes
    BY <2>1 DEF TypeOK
  <2>2. CASE /\ n \notin DOMAIN new
             /\ inodes' = Append(inodes, <<>>)
             /\ DOMAIN new' = DOMAIN new \cup {n}
             /\ new' \in [DOMAIN new' -> DOMAIN inodes']
    BY <2>2, <1>1 DEF TypeOK
  <2> QED
    BY <2>1, <2>2, <1>1
<1>3. store' \in [Servers -> {Idle} \cup
        [letter : Letters, inode : DOMAIN inodes', left : 0..Parts]]
  <2>1. \A q \in Servers : store'[q] \in {Idle} \cup
          [letter : Letters, inode : DOMAIN inodes', left : 0..Parts]
    BY <1>1, <1>2, PartsAssumption DEF TypeOK
  <2> QED
    BY <2>1, <1>1 DEF TypeOK
<1>4. stage' \in [Letters -> Stages]
  BY <1>1 DEF TypeOK, Stages
<1>5. /\ name' \in [Letters -> Names \cup {NoName}]
      /\ \A k \in Letters : name'[k] = NoName <=> stage'[k] \in {"fresh", "refused"}
  BY <1>1 DEF TypeOK
<1>6. clock' = clock /\ lost' = lost /\ cur' = cur /\ UNCHANGED client
  BY DEF open_letter
<1>7. cur' \in [DOMAIN cur' -> DOMAIN inodes'] /\ DOMAIN cur' \subseteq Names
  BY <1>2, <1>6 DEF TypeOK
<1> QED
  BY <1>2, <1>3, <1>4, <1>5, <1>6, <1>7 DEF TypeOK, client

LEMMA TypeWrite ==
  ASSUME TypeOK, NEW p \in Servers, write_letter(p)
  PROVE  TypeOK'
<1>1. Storing(p)
  BY DEF write_letter, Storing, Idle
<1>2. /\ store[p] \in [letter : Letters, inode : DOMAIN inodes, left : 0..Parts]
      /\ store[p].letter \in Letters /\ store[p].inode \in DOMAIN inodes
      /\ store[p].left \in 0..Parts
  BY <1>1, StoreRecord
<1>3. inodes' \in Seq(Seq(Letters)) /\ DOMAIN inodes' = DOMAIN inodes
  BY <1>2 DEF write_letter, TypeOK
<1>4. store' \in [Servers -> {Idle} \cup
        [letter : Letters, inode : DOMAIN inodes', left : 0..Parts]]
  <2>1. [store[p] EXCEPT !.left = @ - 1]
          \in [letter : Letters, inode : DOMAIN inodes, left : 0..Parts]
    BY <1>2, PartsAssumption DEF write_letter
  <2> QED
    BY <2>1, <1>3 DEF write_letter, TypeOK
<1> QED
  BY <1>3, <1>4 DEF write_letter, TypeOK, client

LEMMA TypeFail ==
  ASSUME TypeOK, NEW p \in Servers, write_fails(p)
  PROVE  TypeOK'
<1>1. Storing(p)
  BY DEF write_fails, Storing, Idle
<1>2. /\ store[p] \in [letter : Letters, inode : DOMAIN inodes, left : 0..Parts]
      /\ store[p].letter \in Letters /\ store[p].left \in 0..Parts
  BY <1>1, StoreRecord
<1>3. lost' \in [Letters -> Nat]
  BY <1>2 DEF write_fails, TypeOK
<1>4. store' \in [Servers -> {Idle} \cup
        [letter : Letters, inode : DOMAIN inodes, left : 0..Parts]]
  <2>1. [store[p] EXCEPT !.left = @ - 1]
          \in [letter : Letters, inode : DOMAIN inodes, left : 0..Parts]
    BY <1>2, PartsAssumption DEF write_fails
  <2> QED
    BY <2>1 DEF write_fails, TypeOK
<1> QED
  BY <1>3, <1>4 DEF write_fails, TypeOK, client

LEMMA TypeEnd ==
  ASSUME TypeOK, OwnLetter, NEW p \in Servers, promise(p) \/ killed(p)
  PROVE  TypeOK'
<1>1. store[p].letter \in Letters /\ stage[store[p].letter] = "writing"
  BY StoreRecord DEF promise, killed, Storing, OwnLetter
<1>2. store' = [store EXCEPT ![p] = Idle]
      /\ UNCHANGED <<clock, name, lost, inodes, new, cur, client>>
  BY DEF promise, killed
<1>3. store' \in [Servers -> {Idle} \cup
        [letter : Letters, inode : DOMAIN inodes', left : 0..Parts]]
  BY <1>2 DEF TypeOK
<1>4. /\ stage' \in [Letters -> Stages]
      /\ \A k \in Letters : name'[k] = NoName <=> stage'[k] \in {"fresh", "refused"}
  BY <1>1, <1>2 DEF promise, killed, TypeOK, Stages
<1> QED
  BY <1>2, <1>3, <1>4 DEF TypeOK, client

LEMMA TypeRename ==
  ASSUME TypeOK, child_renames
  PROVE  TypeOK'
<1>1. CASE Renamable(child.path)
  <2>1. /\ child.path \in DOMAIN new
        /\ DOMAIN new' = DOMAIN new \ {child.path}
        /\ DOMAIN cur' = DOMAIN cur \cup {child.path}
        /\ new' \in [DOMAIN new' -> DOMAIN inodes] /\ cur' \in [DOMAIN cur' -> DOMAIN inodes]
    BY <1>1, Moved
  <2> QED
    BY <2>1 DEF child_renames, TypeOK, server
<1>2. CASE ~Renamable(child.path)
  BY <1>2 DEF child_renames, TypeOK, server
<1> QED
  BY <1>1, <1>2

LEMMA TypeRead ==
  ASSUME TypeOK, child_reads
  PROVE  TypeOK'
<1>1. queue # <<>> /\ queue' = Tail(queue) /\ UNCHANGED <<clock, server, inodes, new, cur>>
  BY DEF child_reads
<1>2. Head(queue) \in Names /\ queue' \in Seq(Names) /\ Len(queue') <= QueueSize
  BY <1>1, SpoolAssumption DEF TypeOK
<1>3. /\ child' \in [does : {"receives", "renames", "exited"}, path : Names \cup {NoName}]
      /\ child'.does = "renames" => child'.path \in DOMAIN new
  BY <1>2 DEF child_reads, TypeOK
<1>4. reads' \in [Letters -> 0..2]
  BY DEF child_reads, TypeOK
<1> QED
  BY <1>1, <1>2, <1>3, <1>4 DEF TypeOK, server

LEMMA TypeStep == TypeOK /\ OwnLetter /\ [Next]_vars => TypeOK'
<1> SUFFICES ASSUME TypeOK, OwnLetter, [Next]_vars PROVE TypeOK'
  OBVIOUS
<1>1. CASE tick
  BY <1>1, SpoolAssumption DEF tick, TypeOK, server, client
<1>2. ASSUME NEW p \in Servers, process_data_end(p) PROVE TypeOK'
  <2>1. ASSUME NEW l \in Letters, open_fails(p, l) PROVE TypeOK'
    BY <2>1 DEF open_fails, TypeOK, client, Stages
  <2> QED
    BY <1>2, <2>1, TypeOpen, TypeWrite, TypeFail, TypeEnd DEF process_data_end
<1>3. ASSUME NEW n \in Names, scan(n) PROVE TypeOK'
  BY <1>3, SpoolAssumption DEF scan, TypeOK, server
<1>4. CASE children
  BY <1>4, TypeRead, TypeRename DEF children
<1>5. CASE UNCHANGED vars
  BY <1>5 DEF vars, server, client, TypeOK
<1> QED
  BY <1>1, <1>2, <1>3, <1>4, <1>5 DEF Next

-----------------------------------------------------------------------------
\* Files: who writes to which, and where a letter is in it.
\* At most an empty file is added.
LEMMA EmptyFile ==
  ASSUME TypeOK, inodes' = inodes \/ inodes' = Append(inodes, <<>>)
  PROVE  /\ DOMAIN inodes \subseteq DOMAIN inodes' /\ DOMAIN inodes = 1..Len(inodes)
         /\ \A i \in DOMAIN inodes : inodes'[i] = inodes[i]
         /\ \A i \in DOMAIN inodes' \ DOMAIN inodes : inodes'[i] = <<>>
         /\ \A k, i : i \in DOMAIN inodes' =>
              (Occurs(k, i)' <=> i \in DOMAIN inodes /\ Occurs(k, i))
<1>1. inodes \in Seq(Seq(Letters))
  BY DEF TypeOK
<1>2. /\ DOMAIN inodes \subseteq DOMAIN inodes' /\ DOMAIN inodes = 1..Len(inodes)
      /\ \A i \in DOMAIN inodes : inodes'[i] = inodes[i]
      /\ \A i \in DOMAIN inodes' \ DOMAIN inodes : inodes'[i] = <<>>
  <2>1. CASE inodes' = inodes
    BY <1>1, <2>1
  <2>2. CASE inodes' = Append(inodes, <<>>)
    <3>1. /\ DOMAIN inodes' = 1..Len(inodes) + 1 /\ DOMAIN inodes = 1..Len(inodes)
          /\ Len(inodes) \in Nat
          /\ inodes'[Len(inodes) + 1] = <<>>
      BY <1>1, <2>2
    <3>2. \A i \in DOMAIN inodes : inodes'[i] = inodes[i]
      BY <1>1, <2>2
    <3> QED
      BY <3>1, <3>2
  <2> QED
    BY <2>1, <2>2
<1> QED
  BY <1>2 DEF Occurs

LEMMA FilesOpen ==
  ASSUME FilesInv, NEW p \in Servers, NEW l \in Letters, open_letter(p, l)
  PROVE  FilesInv'
<1>0. TypeOK /\ TypeOK' /\ stage[l] = "fresh" /\ ~Storing(p) /\ cur' = cur /\ lost' = lost
  BY TypeOpen DEF FilesInv, open_letter, Storing
<1>1. PICK n \in Names :
        /\ n # NoName /\ n.pid = p
        /\ name' = [name EXCEPT ![l] = n]
        /\ stage' = [stage EXCEPT ![l] = "writing"]
        /\ store' = [store EXCEPT ![p] = [letter |-> l, inode |-> new'[n], left |-> Parts]]
        /\ \/ n \in DOMAIN new /\ new' = new /\ inodes' = inodes
           \/ /\ n \notin DOMAIN new
              /\ inodes' = Append(inodes, <<>>)
              /\ DOMAIN new' = DOMAIN new \cup {n}
              /\ new'[n] = Len(inodes) + 1
              /\ \A m \in DOMAIN new : new'[m] = new[m]
  BY <1>0, Opened
<1>2. /\ store'[p].letter = l /\ store'[p].inode = new'[n] /\ store'[p].left = Parts
      /\ Storing(p)'
      /\ \A q \in Servers \ {p} : store'[q] = store[q] /\ (Storing(q)' <=> Storing(q))
      /\ name'[l] = n /\ stage'[l] = "writing"
      /\ \A k \in Letters \ {l} : name'[k] = name[k] /\ stage'[k] = stage[k]
  <2>1. store'[p] # Idle
    <3>1. new'[n] \in DOMAIN inodes' /\ DOMAIN inodes' = 1..Len(inodes') /\ Len(inodes') \in Nat
      BY <1>0, <1>1 DEF TypeOK
    <3>2. store'[p] = [letter |-> l, inode |-> new'[n], left |-> Parts]
      BY <1>0, <1>1 DEF TypeOK
    <3>3. new'[n] # 0
      BY <3>1
    <3> QED
      BY <3>2, <3>3 DEF Idle
  <2> QED
    BY <2>1, <1>0, <1>1 DEF TypeOK, Storing
<1>3. /\ DOMAIN inodes \subseteq DOMAIN inodes' /\ DOMAIN inodes = 1..Len(inodes)
      /\ \A i \in DOMAIN inodes : inodes'[i] = inodes[i]
      /\ \A i \in DOMAIN inodes' \ DOMAIN inodes : inodes'[i] = <<>>
      /\ \A k, i : i \in DOMAIN inodes' => (Occurs(k, i)' <=> i \in DOMAIN inodes /\ Occurs(k, i))
  BY <1>0, <1>1, EmptyFile
<1>4. \A q \in Servers : Storing(q) => store[q].letter # l
  BY <1>0 DEF FilesInv, OwnLetter
<1>5. OwnLetter'
  BY <1>1, <1>2, <1>4, <1>0, StoreRecord DEF FilesInv, OwnLetter
<1>6. \A q \in Servers \ {p} : Storing(q) => store[q].inode # new'[n]
  <2> SUFFICES ASSUME NEW q \in Servers \ {p}, Storing(q), store[q].inode = new'[n] PROVE FALSE
    OBVIOUS
  <2>1. store[q].inode \in 1..Len(inodes) /\ store[q].letter \in Letters
    BY <1>0, <1>3, StoreRecord
  <2>2. n \in DOMAIN new /\ new[n] = store[q].inode
    BY <2>1, <1>1, <1>0 DEF TypeOK
  <2>3. n = name[store[q].letter]
    BY <2>2 DEF FilesInv, OwnName
  <2> QED
    BY <2>3, <1>1 DEF FilesInv, OwnLetter
<1>7. OwnFile'
  BY <1>2, <1>6 DEF FilesInv, OwnFile
<1>8. OneName'
  <2>1. CASE new' = new
    BY <2>1, <1>0 DEF FilesInv, OneName
  <2>2. CASE /\ DOMAIN new' = DOMAIN new \cup {n} /\ n \notin DOMAIN new
             /\ new'[n] = Len(inodes) + 1
             /\ \A m \in DOMAIN new : new'[m] = new[m]
    <3>1. /\ \A m \in DOMAIN new : new[m] # Len(inodes) + 1
          /\ \A m \in DOMAIN cur : cur[m] # Len(inodes) + 1
      BY <1>0 DEF TypeOK
    <3> QED
      BY <3>1, <2>2, <1>0 DEF FilesInv, OneName
  <2> QED
    BY <2>1, <2>2, <1>1
<1>9. OwnName'
  <2> SUFFICES ASSUME NEW q \in Servers, Storing(q)',
                      NEW dir \in {new', cur'}, NEW m \in DOMAIN dir, dir[m] = store'[q].inode
               PROVE  m = name'[store'[q].letter]
    BY DEF OwnName
  <2>1. CASE q = p
    <3>1. n \in DOMAIN new'
      BY <1>1
    <3>2. dir[m] = new'[n]
      BY <2>1, <1>2
    <3>3. m = n
      BY <3>1, <3>2, <1>8 DEF OneName
    <3> QED
      BY <3>3, <2>1, <1>2
  <2>2. CASE q # p
    <3>1. /\ store'[q] = store[q] /\ Storing(q) /\ store[q].letter # l
          /\ store[q].letter \in Letters /\ name'[store[q].letter] = name[store[q].letter]
          /\ store[q].inode # new'[n]
      BY <2>2, <1>0, <1>2, <1>4, <1>6, StoreRecord
    <3>2. CASE dir = cur
      BY <3>1, <3>2 DEF FilesInv, OwnName
    <3>3. CASE dir = new'
      <4>1. m # n
        BY <3>1, <3>3
      <4>2. m \in DOMAIN new /\ new[m] = new'[m]
        BY <4>1, <3>3, <1>1
      <4> QED
        BY <3>1, <3>3, <4>2 DEF FilesInv, OwnName
    <3> QED
      BY <3>2, <3>3, <1>0
  <2> QED
    BY <2>1, <2>2
<1>10. Unwritten'
  BY <1>2, <1>3, <1>0 DEF FilesInv, Unwritten, TypeOK
<1>11. AtEnd'
  <2> SUFFICES ASSUME NEW q \in Servers, Storing(q)'
               PROVE  LET t == inodes'[store'[q].inode] IN
                        /\ Written(q)' >= 0 /\ Len(t) >= Written(q)'
                        /\ \A k \in DOMAIN t : t[k] = store'[q].letter <=> k > Len(t) - Written(q)'
    BY DEF AtEnd
  <2>1. CASE q = p
    <3> DEFINE t == inodes'[store'[q].inode]
    <3>1. store'[q].inode \in DOMAIN inodes' /\ t \in Seq(Letters)
      BY <1>0, StoreRecord, <1>1, <1>2, <2>1 DEF TypeOK
    <3>2. Written(q)' = 0
      <4>1. lost'[l] = 0
        BY <1>0 DEF FilesInv, Unwritten
      <4> QED
        BY <4>1, <2>1, <1>2, PartsAssumption DEF Written
    <3>3. \A k \in DOMAIN t : t[k] # l
      BY <3>1, <1>3, <1>0 DEF FilesInv, Unwritten, Occurs
    <3> QED
      BY <3>1, <3>2, <3>3, <2>1, <1>2
  <2>2. CASE q # p
    <3>1. store'[q] = store[q] /\ Storing(q) /\ store[q].inode \in DOMAIN inodes
      BY <2>2, <1>0, <1>2, StoreRecord
    <3>2. inodes'[store[q].inode] = inodes[store[q].inode]
      BY <3>1, <1>3
    <3> QED
      BY <3>1, <3>2, <1>0 DEF FilesInv, AtEnd, Written
  <2> QED
    BY <2>1, <2>2
<1>12. OneFile'
  BY <1>0, <1>2, <1>3, StoreRecord DEF FilesInv, OneFile, Unwritten
<1>13. NotMixed'
  BY <1>3 DEF FilesInv, NotMixed
<1> QED
  BY <1>0, <1>5, <1>7, <1>8, <1>9, <1>10, <1>11, <1>12, <1>13 DEF FilesInv

\* A worker appends to its file, which nobody else has.
LEMMA Appended ==
  ASSUME FilesInv, NEW p \in Servers, write_letter(p),
         NEW l, l = store[p].letter, NEW i, i = store[p].inode
  PROVE  /\ Storing(p) /\ l \in Letters /\ i \in DOMAIN inodes /\ stage[l] = "writing"
         /\ store[p].left \in 1..Parts
         /\ store' = [store EXCEPT ![p].left = @ - 1]
         /\ DOMAIN inodes' = DOMAIN inodes
         /\ \A j \in DOMAIN inodes \ {i} : inodes'[j] = inodes[j]
         /\ inodes[i] \in Seq(Letters) /\ inodes'[i] = Append(inodes[i], l)
         /\ \A q \in Servers \ {p} : Storing(q) => store[q].letter # l /\ store[q].inode # i
<1>1. TypeOK /\ Storing(p)
  BY DEF FilesInv, write_letter, Storing, Idle
<1>2. /\ l \in Letters /\ i \in DOMAIN inodes /\ store[p].left \in 0..Parts
      /\ stage[l] = "writing"
  BY <1>1, StoreRecord DEF FilesInv, OwnLetter
<1>3. /\ inodes' = [inodes EXCEPT ![i] = Append(@, l)]
      /\ store' = [store EXCEPT ![p].left = @ - 1]
      /\ store[p].left \in 1..Parts
  BY <1>2, PartsAssumption DEF write_letter
<1>4. inodes \in Seq(Seq(Letters))
  BY <1>1 DEF TypeOK
<1>5. \A q \in Servers \ {p} : Storing(q) => store[q].letter # l /\ store[q].inode # i
  BY <1>1 DEF FilesInv, OwnLetter, OwnFile
<1> QED
  BY <1>1, <1>2, <1>3, <1>4, <1>5

LEMMA AppendedOccurs ==
  ASSUME FilesInv, NEW p \in Servers, write_letter(p)
  PROVE  \A k, j : j \in DOMAIN inodes /\ Occurs(k, j)' =>
           Occurs(k, j) \/ (k = store[p].letter /\ j = store[p].inode)
<1> SUFFICES ASSUME NEW k, NEW j \in DOMAIN inodes, NEW m \in DOMAIN inodes'[j],
                    inodes'[j][m] = k
             PROVE  Occurs(k, j) \/ (k = store[p].letter /\ j = store[p].inode)
  BY DEF Occurs
<1>1. PICK l, i : l = store[p].letter /\ i = store[p].inode
  OBVIOUS
<1>2. /\ \A f \in DOMAIN inodes \ {i} : inodes'[f] = inodes[f]
      /\ inodes[i] \in Seq(Letters) /\ inodes'[i] = Append(inodes[i], l)
  BY <1>1, Appended
<1>3. CASE j # i
  BY <1>3, <1>2 DEF Occurs
<1>4. CASE j = i /\ m \in DOMAIN inodes[i]
  BY <1>4, <1>2 DEF Occurs
<1>5. CASE j = i /\ m \notin DOMAIN inodes[i]
  BY <1>1, <1>5, <1>2
<1> QED
  BY <1>3, <1>4, <1>5

LEMMA FilesWrite ==
  ASSUME FilesInv, NEW p \in Servers, write_letter(p)
  PROVE  FilesInv'
<1>0. TypeOK /\ TypeOK' /\ UNCHANGED <<stage, name, lost, new, cur>>
  BY TypeWrite DEF FilesInv, write_letter
<1>1. PICK l, i : l = store[p].letter /\ i = store[p].inode
  OBVIOUS
<1>2. /\ Storing(p) /\ l \in Letters /\ i \in DOMAIN inodes /\ stage[l] = "writing"
      /\ store[p].left \in 1..Parts
      /\ store' = [store EXCEPT ![p].left = @ - 1]
      /\ DOMAIN inodes' = DOMAIN inodes
      /\ \A j \in DOMAIN inodes \ {i} : inodes'[j] = inodes[j]
      /\ inodes[i] \in Seq(Letters) /\ inodes'[i] = Append(inodes[i], l)
      /\ \A q \in Servers \ {p} : Storing(q) => store[q].letter # l /\ store[q].inode # i
  BY <1>1, Appended
<1>3. /\ \A q \in Servers : Storing(q)' <=> Storing(q)
      /\ \A q \in Servers : store'[q].letter = store[q].letter
                             /\ store'[q].inode = store[q].inode
      /\ store'[p].left = store[p].left - 1
      /\ \A q \in Servers \ {p} : store'[q] = store[q]
  <2>1. store'[p] = [store[p] EXCEPT !.left = @ - 1]
        /\ \A q \in Servers \ {p} : store'[q] = store[q]
    BY <1>0, <1>2 DEF TypeOK
  <2>2. store[p] \in [letter : Letters, inode : DOMAIN inodes, left : 0..Parts]
    BY <1>0, <1>2, StoreRecord
  <2>3. store[p].inode # 0
    BY <1>0, <1>1, <1>2 DEF TypeOK
  <2>4. /\ store'[p].letter = store[p].letter /\ store'[p].inode = store[p].inode
        /\ store'[p].left = store[p].left - 1
    BY <2>1, <2>2
  <2>5. store'[p] # Idle
    BY <2>3, <2>4 DEF Idle
  <2> QED
    BY <2>1, <2>4, <2>5, <1>2 DEF Storing
<1>4. \A k, j : j \in DOMAIN inodes /\ Occurs(k, j)' => Occurs(k, j) \/ (k = l /\ j = i)
  BY <1>1, AppendedOccurs
<1>5. OwnLetter' /\ OwnFile' /\ OwnName' /\ OneName'
  <2>1. OwnLetter' /\ OwnFile'
    BY <1>0, <1>3 DEF FilesInv, OwnLetter, OwnFile
  <2>2. OwnName'
    BY <1>0, <1>3 DEF FilesInv, OwnName
  <2>3. OneName'
    BY <1>0 DEF FilesInv, OneName
  <2> QED
    BY <2>1, <2>2, <2>3
<1>6. Unwritten'
  BY <1>0, <1>2, <1>4 DEF FilesInv, Unwritten
<1>7. OneFile'
  <2> SUFFICES ASSUME NEW q \in Servers, Storing(q)', NEW j \in DOMAIN inodes',
                      Occurs(store[q].letter, j)'
               PROVE  j = store'[q].inode
    BY DEF OneFile
  <2>1. Storing(q) /\ store'[q].letter = store[q].letter /\ store'[q].inode = store[q].inode
    BY <1>3
  <2>2. Occurs(store[q].letter, j) \/ (store[q].letter = l /\ j = i)
    <3>1. PICK k : k = store[q].letter
      OBVIOUS
    <3>2. Occurs(k, j)'
      BY <2>1, <3>1 DEF Occurs
    <3> QED
      BY <3>1, <3>2, <1>2, <1>4
  <2>3. CASE Occurs(store[q].letter, j)
    BY <2>1, <2>3, <1>2 DEF FilesInv, OneFile
  <2>4. CASE store[q].letter = l /\ j = i
    BY <2>1, <2>4, <1>1, <1>2
  <2> QED
    BY <2>2, <2>3, <2>4
<1> DEFINE t == inodes[i]
           w == Written(p)
<1>8. /\ Len(t) >= w /\ w \in Nat /\ Len(t) \in Nat /\ DOMAIN t = 1..Len(t)
      /\ \A k \in DOMAIN t : t[k] = l <=> k > Len(t) - w
      /\ Written(p)' = w + 1
  <2>1. lost[l] \in Nat /\ lost' = lost
    BY <1>0, <1>2 DEF TypeOK
  <2>2. /\ Len(t) >= w /\ w >= 0
        /\ \A k \in DOMAIN t : t[k] = l <=> k > Len(t) - w
    BY <1>1, <1>2 DEF FilesInv, AtEnd
  <2>3. w = Parts - store[p].left - lost[l] /\ Written(p)' = Parts - (store[p].left - 1) - lost[l]
    BY <1>1, <1>3, <2>1 DEF Written
  <2>4. store[p].left \in Nat /\ t \in Seq(Letters)
    BY <1>2, PartsAssumption
  <2>5. w \in Int /\ Written(p)' = w + 1
    BY <2>1, <2>3, <2>4, PartsAssumption
  <2>6. Len(t) \in Nat /\ DOMAIN t = 1..Len(t)
    BY <2>4
  <2> HIDE DEF w
  <2>7. w \in Nat
    BY <2>2, <2>5
  <2> QED
    BY <2>2, <2>5, <2>6, <2>7
<1>9. /\ Len(inodes'[i]) = Len(t) + 1 /\ DOMAIN inodes'[i] = 1 .. Len(t) + 1
      /\ inodes'[i][Len(t) + 1] = l
      /\ \A k \in DOMAIN t : inodes'[i][k] = t[k]
  BY <1>2
<1>10. AtEnd'
  <2> SUFFICES ASSUME NEW q \in Servers, Storing(q)'
               PROVE  LET u == inodes'[store'[q].inode] IN
                        /\ Written(q)' >= 0 /\ Len(u) >= Written(q)'
                        /\ \A k \in DOMAIN u : u[k] = store'[q].letter <=> k > Len(u) - Written(q)'
    BY DEF AtEnd
  <2>1. CASE q = p
    <3>1. store'[q].inode = i /\ store'[q].letter = l
      BY <2>1, <1>1, <1>2, <1>3
    <3>2. \A k \in 1 .. Len(t) + 1 : inodes'[i][k] = l <=> k > Len(t) + 1 - (w + 1)
      <4> SUFFICES ASSUME NEW k \in 1 .. Len(t) + 1
                   PROVE  inodes'[i][k] = l <=> k > Len(t) + 1 - (w + 1)
        OBVIOUS
      <4>1. CASE k = Len(t) + 1
        <5>1. Len(t) + 1 > Len(t) + 1 - (w + 1)
          BY <1>8
        <5> QED
          BY <4>1, <5>1, <1>9
      <4>2. CASE k \in DOMAIN t
        <5>1. Len(t) + 1 - (w + 1) = Len(t) - w
          BY <1>8
        <5>2. inodes'[i][k] = t[k] /\ (t[k] = l <=> k > Len(t) - w)
          BY <4>2, <1>8, <1>9
        <5> QED
          BY <5>1, <5>2
      <4> QED
        BY <4>1, <4>2, <1>8
    <3> QED
      BY <3>1, <3>2, <2>1, <1>8, <1>9
  <2>2. CASE q # p
    <3>1. store'[q] = store[q] /\ Storing(q) /\ store[q].inode \in DOMAIN inodes \ {i}
      <4>1. store'[q] = store[q] /\ Storing(q)
        BY <2>2, <1>3
      <4> QED
        BY <4>1, <2>2, <1>0, <1>2, StoreRecord
    <3> QED
      BY <3>1, <1>0, <1>2 DEF FilesInv, AtEnd, Written
  <2> QED
    BY <2>1, <2>2
<1>11. NotMixed'
  <2> SUFFICES ASSUME NEW f \in DOMAIN inodes', NEW j \in DOMAIN inodes'[f], NEW k \in DOMAIN inodes'[f],
                      j < k, inodes'[f][j] = inodes'[f][k], NEW m \in j..k
               PROVE  inodes'[f][m] = inodes'[f][j]
    BY DEF NotMixed
  <2>1. CASE f # i
    BY <2>1, <1>2 DEF FilesInv, NotMixed
  <2>2. CASE f = i /\ k # Len(t) + 1
    <3>1. j \in DOMAIN t /\ k \in DOMAIN t /\ m \in DOMAIN t
      <4>1. j \in 1 .. Len(t) + 1 /\ k \in 1 .. Len(t) + 1
        BY <2>2, <1>9
      <4> QED
        BY <4>1, <2>2, <1>8
    <3>2. t[m] = t[j]
      BY <2>2, <3>1, <1>2, <1>9 DEF FilesInv, NotMixed
    <3> QED
      BY <2>2, <3>1, <3>2, <1>9
  <2>3. CASE f = i /\ k = Len(t) + 1
    <3>1. inodes'[i][j] = l /\ j \in DOMAIN t
      BY <2>3, <1>8, <1>9
    <3>2. j > Len(t) - w
      BY <3>1, <1>8, <1>9
    <3>3. CASE m = Len(t) + 1
      BY <2>3, <3>1, <3>3, <1>9
    <3>4. CASE m # Len(t) + 1
      <4>1. m \in DOMAIN t /\ m > Len(t) - w
        BY <2>3, <3>1, <3>2, <3>4, <1>8
      <4> QED
        BY <2>3, <3>1, <4>1, <1>8, <1>9
    <3> QED
      BY <3>3, <3>4
  <2> QED
    BY <2>1, <2>2, <2>3
<1> QED
  BY <1>0, <1>5, <1>6, <1>7, <1>10, <1>11 DEF FilesInv

\* A part that is lost changes no file.
LEMMA FilesFail ==
  ASSUME FilesInv, NEW p \in Servers, write_fails(p)
  PROVE  FilesInv'
<1>0. TypeOK /\ TypeOK' /\ UNCHANGED <<stage, name, inodes, new, cur>>
  BY TypeFail DEF FilesInv, write_fails
<1>1. Storing(p)
  BY DEF write_fails, Storing, Idle
<1>2. PICK l : l = store[p].letter
  OBVIOUS
<1>3. /\ l \in Letters /\ stage[l] = "writing" /\ store[p].left \in 1..Parts
      /\ store' = [store EXCEPT ![p].left = @ - 1] /\ lost' = [lost EXCEPT ![l] = @ + 1]
      /\ store[p] \in [letter : Letters, inode : DOMAIN inodes, left : 0..Parts]
      /\ \A q \in Servers \ {p} : Storing(q) => store[q].letter # l
  <2>1. l \in Letters /\ store[p].left \in 0..Parts
        /\ store[p] \in [letter : Letters, inode : DOMAIN inodes, left : 0..Parts]
    BY <1>0, <1>1, <1>2, StoreRecord
  <2>2. stage[l] = "writing" /\ \A q \in Servers \ {p} : Storing(q) => store[q].letter # l
    BY <1>1, <1>2 DEF FilesInv, OwnLetter
  <2> QED
    BY <2>1, <2>2, <1>2, PartsAssumption DEF write_fails
<1>4. /\ \A q \in Servers : Storing(q)' <=> Storing(q)
      /\ \A q \in Servers : store'[q].letter = store[q].letter
                             /\ store'[q].inode = store[q].inode
      /\ store'[p].left = store[p].left - 1
      /\ \A q \in Servers \ {p} : store'[q] = store[q]
  <2>1. store'[p] = [store[p] EXCEPT !.left = @ - 1]
        /\ \A q \in Servers \ {p} : store'[q] = store[q]
    BY <1>0, <1>3 DEF TypeOK
  <2>2. store[p].inode # 0
    BY <1>0, <1>3 DEF TypeOK
  <2>3. /\ store'[p].letter = store[p].letter /\ store'[p].inode = store[p].inode
        /\ store'[p].left = store[p].left - 1
    BY <2>1, <1>3
  <2>4. store'[p] # Idle
    BY <2>2, <2>3 DEF Idle
  <2> QED
    BY <2>1, <2>3, <2>4, <1>1 DEF Storing
<1>5. OwnLetter' /\ OwnFile' /\ OwnName' /\ OneName'
  <2>1. OwnLetter' /\ OwnFile'
    BY <1>0, <1>4 DEF FilesInv, OwnLetter, OwnFile
  <2>2. OwnName'
    BY <1>0, <1>4 DEF FilesInv, OwnName
  <2>3. OneName'
    BY <1>0 DEF FilesInv, OneName
  <2> QED
    BY <2>1, <2>2, <2>3
<1>6. Unwritten'
  <2>1. \A k \in Letters : stage[k] = "fresh" => lost'[k] = lost[k]
    BY <1>0, <1>3 DEF TypeOK
  <2> QED
    BY <2>1, <1>0 DEF FilesInv, Unwritten, Occurs
<1>7. OneFile'
  BY <1>0, <1>4 DEF FilesInv, OneFile, Occurs
<1>8. \A q \in Servers : Storing(q) => Written(q)' = Written(q)
  <2> SUFFICES ASSUME NEW q \in Servers, Storing(q) PROVE Written(q)' = Written(q)
    OBVIOUS
  <2>1. CASE q = p
    <3>1. Written(q)' = Parts - (store[p].left - 1) - (lost[l] + 1)
      BY <2>1, <1>0, <1>2, <1>3, <1>4 DEF Written, TypeOK
    <3>2. Written(q) = Parts - store[p].left - lost[l] /\ lost[l] \in Nat /\ store[p].left \in Nat
      BY <2>1, <1>0, <1>2, <1>3, PartsAssumption DEF Written, TypeOK
    <3> QED
      BY <3>1, <3>2, PartsAssumption
  <2>2. CASE q # p
    <3>1. store'[q] = store[q] /\ store[q].letter # l /\ store[q].letter \in Letters
      BY <2>2, <1>0, <1>3, <1>4, StoreRecord
    <3>2. lost'[store[q].letter] = lost[store[q].letter]
      BY <3>1, <1>0, <1>3 DEF TypeOK
    <3> QED
      BY <3>1, <3>2 DEF Written
  <2> QED
    BY <2>1, <2>2
<1>9. AtEnd'
  <2> SUFFICES ASSUME NEW q \in Servers, Storing(q)'
               PROVE  LET t == inodes'[store'[q].inode] IN
                        /\ Written(q)' >= 0 /\ Len(t) >= Written(q)'
                        /\ \A k \in DOMAIN t : t[k] = store'[q].letter <=> k > Len(t) - Written(q)'
    BY DEF AtEnd
  <2>1. PICK w : w = Written(q)
    OBVIOUS
  <2>2. Storing(q) /\ store'[q].letter = store[q].letter /\ store'[q].inode = store[q].inode
        /\ Written(q)' = w
    BY <2>1, <1>4, <1>8
  <2> QED
    BY <2>1, <2>2, <1>0 DEF FilesInv, AtEnd
<1>10. NotMixed'
  BY <1>0 DEF FilesInv, NotMixed
<1> QED
  BY <1>0, <1>5, <1>6, <1>7, <1>9, <1>10 DEF FilesInv

LEMMA FilesEnd ==
  ASSUME FilesInv, NEW p \in Servers, promise(p) \/ killed(p)
  PROVE  FilesInv'
<1>1. /\ TypeOK /\ TypeOK' /\ Storing(p)
      /\ store[p].letter \in Letters /\ stage[store[p].letter] = "writing"
  BY TypeEnd, StoreRecord DEF FilesInv, promise, killed, Storing, OwnLetter
<1>2. /\ UNCHANGED <<name, lost, inodes, new, cur>>
      /\ store' = [store EXCEPT ![p] = Idle]
      /\ \A k \in Letters \ {store[p].letter} : stage'[k] = stage[k]
      /\ stage'[store[p].letter] # "fresh"
  BY <1>1 DEF promise, killed, TypeOK
<1>3. \A q \in Servers : Storing(q)' => q # p /\ Storing(q) /\ store'[q] = store[q]
  BY <1>1, <1>2 DEF TypeOK, Storing
<1>4. \A q \in Servers \ {p} : Storing(q) => store[q].letter # store[p].letter
  BY <1>1 DEF FilesInv, OwnLetter
<1>5. OwnLetter'
  <2> SUFFICES ASSUME NEW q \in Servers, Storing(q)'
               PROVE  stage'[store'[q].letter] = "writing" /\ name'[store'[q].letter].pid = q
    BY DEF OwnLetter
  <2>1. q # p /\ Storing(q) /\ store'[q] = store[q]
    BY <1>3
  <2>2. store[q].letter \in Letters \ {store[p].letter}
    BY <1>1, <1>4, <2>1, StoreRecord
  <2> QED
    BY <1>2, <2>1, <2>2 DEF FilesInv, OwnLetter
<1>6. OwnFile' /\ OwnName' /\ OneName'
  BY <1>2, <1>3 DEF FilesInv, OwnFile, OwnName, OneName
<1>7. Unwritten'
  BY <1>1, <1>2 DEF FilesInv, Unwritten, Occurs
<1>8. AtEnd'
  BY <1>2, <1>3 DEF FilesInv, AtEnd, Written
<1>9. OneFile'
  BY <1>2, <1>3 DEF FilesInv, OneFile, Occurs
<1>10. NotMixed'
  BY <1>2 DEF FilesInv, NotMixed
<1> QED
  BY <1>1, <1>5, <1>6, <1>7, <1>8, <1>9, <1>10 DEF FilesInv

LEMMA FilesRename ==
  ASSUME FilesInv, child_renames, Renamable(child.path)
  PROVE  FilesInv'
<1>1. PICK n : n = child.path
  OBVIOUS
<1>2. /\ TypeOK /\ TypeOK' /\ UNCHANGED <<stage, store, name, lost, inodes>>
  BY TypeRename DEF FilesInv, child_renames, server
<1>3. /\ n \in DOMAIN new
      /\ DOMAIN new' = DOMAIN new \ {n} /\ \A m \in DOMAIN new' : new'[m] = new[m]
      /\ DOMAIN cur' = DOMAIN cur \cup {n} /\ cur'[n] = new[n]
      /\ \A m \in DOMAIN cur \ {n} : cur'[m] = cur[m]
  BY <1>1, <1>2, Moved
<1>4. OneName'
  <2>1. \A a, b \in DOMAIN new' : new'[a] = new'[b] => a = b
    BY <1>3 DEF FilesInv, OneName
  <2>2. ASSUME NEW a \in DOMAIN new', NEW b \in DOMAIN cur', new'[a] = cur'[b] PROVE a = b
    <3>1. CASE b = n
      BY <1>3, <2>2, <3>1 DEF FilesInv, OneName
    <3>2. CASE b # n
      BY <1>3, <2>2, <3>2 DEF FilesInv, OneName
    <3> QED
      BY <3>1, <3>2
  <2> QED
    BY <2>1, <2>2 DEF OneName
<1>5. OwnName'
  <2> SUFFICES ASSUME NEW q \in Servers, Storing(q),
                      NEW dir \in {new', cur'}, NEW m \in DOMAIN dir, dir[m] = store[q].inode
               PROVE  m = name[store[q].letter]
    BY <1>2 DEF OwnName, Storing
  <2>1. CASE dir = new'
    BY <2>1, <1>3 DEF FilesInv, OwnName
  <2>2. CASE dir = cur' /\ m = n
    <3>1. new[n] = store[q].inode
      BY <2>2, <1>3
    <3> QED
      BY <2>2, <3>1, <1>3 DEF FilesInv, OwnName
  <2>3. CASE dir = cur' /\ m # n
    <3>1. m \in DOMAIN cur /\ cur[m] = store[q].inode
      BY <2>3, <1>3
    <3> QED
      BY <3>1 DEF FilesInv, OwnName
  <2> QED
    BY <2>1, <2>2, <2>3
<1>6. OwnLetter' /\ OwnFile' /\ Unwritten' /\ AtEnd' /\ OneFile' /\ NotMixed'
  BY <1>2 DEF FilesInv, OwnLetter, OwnFile, Unwritten, AtEnd, OneFile, NotMixed,
              Storing, Occurs, Written
<1> QED
  BY <1>2, <1>4, <1>5, <1>6 DEF FilesInv

\* Nothing of this changes when no worker and no directory does.
LEMMA FilesSame ==
  ASSUME FilesInv, TypeOK', UNCHANGED <<lost, store, name, inodes, new, cur>>,
         \A l \in Letters : stage'[l] # stage[l] => stage[l] = "fresh" /\ stage'[l] = "refused"
  PROVE  FilesInv'
<1>1. OwnLetter'
  <2> SUFFICES ASSUME NEW q \in Servers, Storing(q)
               PROVE  stage'[store[q].letter] = "writing" /\ name[store[q].letter].pid = q
    BY DEF OwnLetter, Storing
  <2>1. store[q].letter \in Letters
    BY StoreRecord DEF FilesInv
  <2> QED
    BY <2>1 DEF FilesInv, OwnLetter
<1>2. Unwritten'
  BY DEF FilesInv, Unwritten, Occurs
<1>3. OwnFile' /\ OwnName' /\ OneName' /\ OneFile' /\ NotMixed'
  BY DEF FilesInv, OwnFile, OwnName, OneName, OneFile, NotMixed, Storing, Occurs
<1>4. AtEnd'
  BY DEF FilesInv, AtEnd, Storing, Written
<1> QED
  BY <1>1, <1>2, <1>3, <1>4 DEF FilesInv

LEMMA FilesInit == Init => FilesInv
<1> SUFFICES ASSUME Init PROVE FilesInv
  OBVIOUS
<1>1. TypeOK /\ \A p \in Servers : ~Storing(p)
  BY TypeInit DEF Init, Storing
<1>2. DOMAIN inodes = {} /\ DOMAIN new = {} /\ DOMAIN cur = {}
  BY DEF Init
<1>3. Unwritten
  BY <1>2 DEF Init, Unwritten
<1> QED
  BY <1>1, <1>2, <1>3 DEF FilesInv, OwnLetter, OwnFile, OwnName, OneName, AtEnd, OneFile, NotMixed

LEMMA FilesStep == FilesInv /\ [Next]_vars => FilesInv'
<1> SUFFICES ASSUME FilesInv, [Next]_vars PROVE FilesInv'
  OBVIOUS
<1>1. TypeOK /\ TypeOK'
  BY TypeStep DEF FilesInv
<1>2. CASE tick
  BY <1>1, <1>2, FilesSame DEF tick, server
<1>3. ASSUME NEW p \in Servers, process_data_end(p) PROVE FilesInv'
  <2>1. ASSUME NEW l \in Letters, open_fails(p, l) PROVE FilesInv'
    <3>1. \A k \in Letters : stage'[k] # stage[k] => stage[k] = "fresh" /\ stage'[k] = "refused"
      BY <1>1, <2>1 DEF open_fails, TypeOK
    <3> QED
      BY <1>1, <2>1, <3>1, FilesSame DEF open_fails
  <2> QED
    BY <1>3, <2>1, FilesOpen, FilesWrite, FilesFail, FilesEnd DEF process_data_end
<1>4. ASSUME NEW n \in Names, scan(n) PROVE FilesInv'
  BY <1>1, <1>4, FilesSame DEF scan, server
<1>5. CASE child_reads
  BY <1>1, <1>5, FilesSame DEF child_reads, server
<1>6. CASE child_renames
  <2>1. CASE ~Renamable(child.path)
    BY <1>1, <1>6, <2>1, FilesSame DEF child_renames, server
  <2> QED
    BY <1>6, <2>1, FilesRename
<1>7. CASE UNCHANGED vars
  BY <1>1, <1>7, FilesSame DEF vars, server
<1> QED
  BY <1>2, <1>3, <1>4, <1>5, <1>6, <1>7 DEF Next, children

\* The variables keep their types, whatever the letters, workers and bounds.
THEOREM TypesOK == Spec => []TypeOK
<1>1. FilesInv => TypeOK
  BY DEF FilesInv
<1> QED
  BY FilesInit, FilesStep, <1>1, PTL DEF Spec

\* Workers that store letters at the same time never mix them in one file,
\* because the pid in the name makes the files of two workers two files
\* (maildir_get_fname(), maildir.c:54-76, and process_data_end()).
THEOREM LettersNotMixed == Spec => []NotMixed
<1>1. FilesInv => NotMixed
  BY DEF FilesInv
<1> QED
  BY FilesInit, FilesStep, <1>1, PTL DEF Spec
-----------------------------------------------------------------------------
\* Letters that were read.
LEMMA WholeOccurs ==
  ASSUME TypeOK, NEW l, NEW i \in DOMAIN inodes, Whole(inodes[i], l)
  PROVE  Occurs(l, i)
<1>1. inodes[i] \in Seq(Letters) /\ 1 \in 1..Parts
  BY PartsAssumption DEF TypeOK
<1>2. 1 \in DOMAIN inodes[i] /\ inodes[i][1] = l
  BY <1>1, PartsAssumption DEF Whole
<1> QED
  BY <1>2 DEF Occurs

\* Nothing is read while files only grow, and new/ only gets empty ones.
LEMMA ReadOpen ==
  ASSUME FilesInv, ReadInv, NEW p \in Servers, NEW l \in Letters, open_letter(p, l)
  PROVE  ReadInv'
<1>0. TypeOK /\ stage[l] = "fresh" /\ UNCHANGED <<child, reads>>
  BY DEF FilesInv, open_letter, client
<1>1. PICK n \in Names :
        /\ name' = [name EXCEPT ![l] = n]
        /\ \/ n \in DOMAIN new /\ new' = new /\ inodes' = inodes
           \/ /\ n \notin DOMAIN new
              /\ inodes' = Append(inodes, <<>>)
              /\ DOMAIN new' = DOMAIN new \cup {n}
              /\ new'[n] = Len(inodes) + 1
              /\ \A m \in DOMAIN new : new'[m] = new[m]
              /\ new' \in [DOMAIN new' -> DOMAIN inodes']
  BY <1>0, Opened
<1>2. /\ DOMAIN inodes \subseteq DOMAIN inodes' /\ DOMAIN inodes = 1..Len(inodes)
      /\ \A i \in DOMAIN inodes : inodes'[i] = inodes[i]
      /\ \A k, i : i \in DOMAIN inodes' => (Occurs(k, i)' <=> i \in DOMAIN inodes /\ Occurs(k, i))
  BY <1>0, <1>1, EmptyFile
<1>3. \A k \in Letters, i \in DOMAIN inodes : Occurs(k, i) => name'[k] = name[k]
  BY <1>0, <1>1 DEF FilesInv, Unwritten, TypeOK
<1>4. ASSUME NEW m \in DOMAIN new', new'[m] \in DOMAIN inodes
      PROVE  m \in DOMAIN new /\ new'[m] = new[m]
  <2>1. Len(inodes) + 1 \notin DOMAIN inodes
    BY <1>0 DEF TypeOK
  <2> QED
    BY <2>1, <1>1, <1>4
<1>5. \A m \in DOMAIN new' : new'[m] \in DOMAIN inodes'
  BY <1>0, <1>1 DEF TypeOK
<1>6. FoundByName'
  <2> SUFFICES ASSUME NEW k \in Letters, NEW m \in DOMAIN new', Occurs(k, new[m])'
               PROVE  name'[k] = m
    BY DEF FoundByName
  <2>1. PICK i : i = new'[m]
    OBVIOUS
  <2>2. Occurs(k, i)'
    BY <2>1 DEF Occurs
  <2>3. i \in DOMAIN inodes /\ Occurs(k, i)
    BY <2>1, <2>2, <1>2, <1>5
  <2>4. m \in DOMAIN new /\ new[m] = i
    BY <2>1, <2>3, <1>4
  <2> QED
    BY <2>3, <2>4, <1>3 DEF ReadInv, FoundByName
<1>7. ReadBefore'
  <2> SUFFICES ASSUME NEW k \in Letters, reads[k] >= 1
               PROVE  /\ \E i \in DOMAIN inodes' : Whole(inodes'[i], k)
                      /\ Renamable(name'[k]) =>
                           /\ reads[k] = 1
                           /\ \A m \in DOMAIN new' : Whole(inodes'[new'[m]], k) =>
                                child.does = "renames" /\ child.path = m
    BY <1>0 DEF ReadBefore
  <2>1. PICK i \in DOMAIN inodes : Whole(inodes[i], k)
    BY DEF ReadInv, ReadBefore
  <2>2. name'[k] = name[k]
    BY <2>1, <1>0, <1>3, WholeOccurs
  <2>3. i \in DOMAIN inodes' /\ Whole(inodes'[i], k)
    BY <2>1, <1>2
  <2>4. ASSUME NEW m \in DOMAIN new', Whole(inodes'[new'[m]], k)
        PROVE  m \in DOMAIN new /\ Whole(inodes[new[m]], k)
    <3>1. new'[m] \in DOMAIN inodes
      <4>1. CASE inodes' = inodes
        BY <1>5, <4>1
      <4>2. CASE inodes' = Append(inodes, <<>>) /\ new'[m] \notin DOMAIN inodes
        <5>1. inodes'[new'[m]] = <<>>
          BY <4>2, <1>0, <1>5 DEF TypeOK
        <5> QED
          BY <5>1, <2>4, PartsAssumption DEF Whole
      <4> QED
        BY <4>1, <4>2, <1>1
    <3> QED
      BY <3>1, <1>2, <1>4, <2>4
  <2> QED
    BY <2>2, <2>3, <2>4 DEF ReadInv, ReadBefore
<1> QED
  BY <1>6, <1>7 DEF ReadInv

LEMMA ReadWrite ==
  ASSUME FilesInv, ReadInv, NEW p \in Servers, write_letter(p)
  PROVE  ReadInv'
<1>0. TypeOK /\ UNCHANGED <<name, new, child, reads>>
  BY DEF FilesInv, write_letter, client
<1>1. PICK l, i : l = store[p].letter /\ i = store[p].inode
  OBVIOUS
<1>2. /\ Storing(p) /\ l \in Letters /\ i \in DOMAIN inodes
      /\ DOMAIN inodes' = DOMAIN inodes
      /\ \A j \in DOMAIN inodes \ {i} : inodes'[j] = inodes[j]
      /\ inodes[i] \in Seq(Letters) /\ inodes'[i] = Append(inodes[i], l)
  BY <1>1, Appended
<1>3. \A k, j : j \in DOMAIN inodes /\ Occurs(k, j)' => Occurs(k, j) \/ (k = l /\ j = i)
  BY <1>1, AppendedOccurs
<1>4. \A m \in DOMAIN new : new[m] \in DOMAIN inodes
  BY <1>0 DEF TypeOK
<1>5. FoundByName'
  <2> SUFFICES ASSUME NEW k \in Letters, NEW m \in DOMAIN new, Occurs(k, new[m])'
               PROVE  name[k] = m
    BY <1>0 DEF FoundByName
  <2>1. PICK j : j = new[m]
    OBVIOUS
  <2>2. Occurs(k, j)'
    BY <2>1, <1>0 DEF Occurs
  <2>3. CASE Occurs(k, j)
    BY <2>1, <2>3 DEF ReadInv, FoundByName
  <2>4. CASE k = l /\ j = i
    BY <2>1, <2>4, <1>1, <1>2 DEF FilesInv, OwnName
  <2> QED
    BY <2>1, <2>2, <2>3, <2>4, <1>3, <1>4
<1>6. \A k, j : j \in DOMAIN inodes /\ Whole(inodes[j], k) => Whole(inodes'[j], k)
  <2> SUFFICES ASSUME NEW k, NEW j \in DOMAIN inodes, Whole(inodes[j], k)
               PROVE  Whole(inodes'[j], k)
    OBVIOUS
  <2>1. CASE j # i
    BY <2>1, <1>2
  <2>2. CASE j = i
    <3>1. Len(inodes[i]) \in Nat /\ Len(inodes'[i]) = Len(inodes[i]) + 1
          /\ \A m \in 1..Len(inodes[i]) : inodes'[i][m] = inodes[i][m]
      BY <1>2
    <3> QED
      BY <2>2, <3>1, PartsAssumption DEF Whole
  <2> QED
    BY <2>1, <2>2
\* What becomes complete is the letter at hand.
<1>7. ASSUME NEW k, NEW j \in DOMAIN inodes, Whole(inodes'[j], k), ~Whole(inodes[j], k)
      PROVE  j = i /\ k = l
  <2>1. j = i
    BY <1>2, <1>7
  <2>2. /\ Len(inodes[i]) \in Nat /\ Len(inodes'[i]) = Len(inodes[i]) + 1
        /\ \A m \in 1..Len(inodes[i]) : inodes'[i][m] = inodes[i][m]
        /\ inodes'[i][Len(inodes[i]) + 1] = l
    BY <1>2
  <2>3. Len(inodes[i]) + 1 \in 1..Parts
    BY <2>1, <2>2, <1>7, PartsAssumption DEF Whole
  <2> QED
    BY <2>1, <2>2, <2>3, <1>7 DEF Whole
<1>8. ReadBefore'
  <2> SUFFICES ASSUME NEW k \in Letters, reads[k] >= 1
               PROVE  /\ \E j \in DOMAIN inodes : Whole(inodes'[j], k)
                      /\ Renamable(name[k]) =>
                           /\ reads[k] = 1
                           /\ \A m \in DOMAIN new : Whole(inodes'[new[m]], k) =>
                                child.does = "renames" /\ child.path = m
    BY <1>0, <1>2 DEF ReadBefore
  <2>1. PICK j \in DOMAIN inodes : Whole(inodes[j], k)
    BY DEF ReadInv, ReadBefore
  <2>2. Occurs(k, j)
    BY <1>0, <2>1, WholeOccurs
  <2>3. ASSUME NEW m \in DOMAIN new, Whole(inodes'[new[m]], k)
        PROVE  Whole(inodes[new[m]], k)
    <3> SUFFICES ASSUME ~Whole(inodes[new[m]], k) PROVE FALSE
      OBVIOUS
    <3>1. new[m] = i /\ k = l
      BY <1>4, <1>7, <2>3
    <3>2. j = i
      BY <3>1, <2>2, <1>1, <1>2 DEF FilesInv, OneFile
    <3> QED
      BY <2>1, <3>1, <3>2
  <2> QED
    BY <2>1, <2>3, <1>6 DEF ReadInv, ReadBefore
<1> QED
  BY <1>5, <1>8 DEF ReadInv

LEMMA ReadRead ==
  ASSUME FilesInv, ReadInv, child_reads
  PROVE  ReadInv'
<1>0. TypeOK /\ UNCHANGED <<name, inodes, new>> /\ child.does = "receives"
  BY DEF FilesInv, child_reads, server
<1>1. PICK h : h = Head(queue)
  OBVIOUS
<1> DEFINE text == IF h \in DOMAIN new THEN inodes[new[h]] ELSE <<>>
<1>2. /\ \A k \in Letters : reads'[k] = IF Whole(text, k) /\ reads[k] < 2
                                         THEN reads[k] + 1 ELSE reads[k]
      /\ h \in DOMAIN new /\ text # <<>> => child' = [does |-> "renames", path |-> h]
      /\ reads \in [Letters -> 0..2]
  BY <1>0, <1>1 DEF child_reads, TypeOK
<1>3. FoundByName'
  BY <1>0 DEF ReadInv, FoundByName, Occurs
<1>4. ReadBefore'
  <2> SUFFICES ASSUME NEW k \in Letters, reads'[k] >= 1
               PROVE  /\ \E i \in DOMAIN inodes : Whole(inodes[i], k)
                      /\ Renamable(name[k]) =>
                           /\ reads'[k] = 1
                           /\ \A n \in DOMAIN new : Whole(inodes[new[n]], k) =>
                                child'.does = "renames" /\ child'.path = n
    BY <1>0 DEF ReadBefore
  <2>1. CASE ~Whole(text, k)
    <3>1. reads'[k] = reads[k]
      BY <1>2, <2>1
    <3> QED
      BY <1>0, <3>1 DEF ReadInv, ReadBefore
  <2>2. CASE Whole(text, k)
    <3>1. h \in DOMAIN new /\ Whole(inodes[new[h]], k) /\ text # <<>>
      BY <2>2, PartsAssumption DEF Whole
    <3>2. new[h] \in DOMAIN inodes /\ child' = [does |-> "renames", path |-> h]
      BY <3>1, <1>0, <1>2 DEF TypeOK
    <3>3. ASSUME Renamable(name[k]) PROVE reads'[k] = 1
      <4>1. ~(reads[k] >= 1)
        BY <3>1, <3>3, <1>0 DEF ReadInv, ReadBefore
      <4> QED
        BY <4>1, <1>2, <2>2
    <3>4. ASSUME NEW n \in DOMAIN new, Whole(inodes[new[n]], k) PROVE n = h
      <4>1. new[n] \in DOMAIN inodes
        BY <1>0 DEF TypeOK
      <4>2. Occurs(k, new[n]) /\ Occurs(k, new[h])
        BY <4>1, <3>1, <3>2, <3>4, <1>0, WholeOccurs
      <4> QED
        BY <4>2, <3>1 DEF ReadInv, FoundByName
    <3> QED
      BY <3>1, <3>2, <3>3, <3>4
  <2> QED
    BY <2>1, <2>2
<1> QED
  BY <1>3, <1>4 DEF ReadInv

LEMMA ReadRename ==
  ASSUME FilesInv, ReadInv, child_renames
  PROVE  ReadInv'
<1>0. TypeOK /\ UNCHANGED <<name, inodes, reads>>
  BY DEF FilesInv, child_renames, server
<1>1. /\ DOMAIN new' \subseteq DOMAIN new /\ \A m \in DOMAIN new' : new'[m] = new[m]
      /\ Renamable(child.path) => child.path \notin DOMAIN new'
  <2>1. CASE Renamable(child.path)
    BY <2>1, <1>0, Moved
  <2>2. CASE ~Renamable(child.path)
    BY <2>2 DEF child_renames
  <2> QED
    BY <2>1, <2>2
<1>2. FoundByName'
  BY <1>0, <1>1 DEF ReadInv, FoundByName, Occurs
<1>3. ReadBefore'
  <2> SUFFICES ASSUME NEW k \in Letters, reads[k] >= 1
               PROVE  /\ \E i \in DOMAIN inodes : Whole(inodes[i], k)
                      /\ Renamable(name[k]) =>
                           /\ reads[k] = 1
                           /\ \A n \in DOMAIN new' : ~Whole(inodes[new[n]], k)
    BY <1>0, <1>1 DEF ReadBefore
  <2>1. ASSUME Renamable(name[k]), NEW n \in DOMAIN new', Whole(inodes[new[n]], k) PROVE FALSE
    <3>1. n \in DOMAIN new /\ new[n] \in DOMAIN inodes
      BY <1>0, <1>1 DEF TypeOK
    <3>2. child.path = n
      BY <3>1, <2>1 DEF ReadInv, ReadBefore
    <3>3. name[k] = n
      BY <3>1, <2>1, <1>0, WholeOccurs DEF ReadInv, FoundByName
    <3> QED
      BY <3>2, <3>3, <2>1, <1>1
  <2> QED
    BY <2>1 DEF ReadInv, ReadBefore
<1> QED
  BY <1>2, <1>3 DEF ReadInv

LEMMA ReadStep == FilesInv /\ ReadInv /\ [Next]_vars => ReadInv'
<1> SUFFICES ASSUME FilesInv, ReadInv, [Next]_vars PROVE ReadInv'
  OBVIOUS
<1>1. CASE UNCHANGED <<name, inodes, new, child, reads>>
  BY <1>1 DEF ReadInv, FoundByName, ReadBefore, Occurs
<1>2. ASSUME NEW p \in Servers, process_data_end(p) PROVE ReadInv'
  <2>1. CASE write_fails(p) \/ promise(p) \/ killed(p) \/ \E l \in Letters : open_fails(p, l)
    BY <1>1, <2>1 DEF write_fails, promise, killed, open_fails, client
  <2> QED
    BY <1>2, <2>1, ReadOpen, ReadWrite DEF process_data_end
<1> QED
  BY <1>1, <1>2, ReadRead, ReadRename DEF Next, tick, scan, children, vars, server, client

\* A letter is read in full, and so sent, once, however often the scans queue
\* its path, unless the rename fails (send_msg_to_server(), smtp_client.c:58-68).
THEOREM LettersReadOnce == Spec => []ReadOnce
<1>1. Init => ReadInv
  BY DEF Init, ReadInv, FoundByName, ReadBefore
<1>2. FilesInv /\ ReadInv => ReadOnce
  <2> SUFFICES ASSUME TypeOK, ReadBefore, NEW l \in Letters, reads[l] > 1, Renamable(name[l])
               PROVE  FALSE
    BY DEF FilesInv, ReadInv, ReadOnce
  <2>1. reads[l] \in 0..2
    BY DEF TypeOK
  <2>2. reads[l] >= 1
    BY <2>1
  <2>3. reads[l] = 1
    BY <2>2 DEF ReadBefore
  <2> QED
    BY <2>3
<1> QED
  BY FilesInit, FilesStep, ReadStep, <1>1, <1>2, PTL DEF Spec

-----------------------------------------------------------------------------
\* Letters that were promised.
LEMMA NamesUsed ==
  ASSUME TypeOK, NameUsed, [Next]_vars
  PROVE  NameUsed'
<1>1. CASE UNCHANGED <<name, new, cur>>
  BY <1>1 DEF NameUsed
<1>2. ASSUME NEW p \in Servers, NEW l \in Letters, open_letter(p, l) PROVE NameUsed'
  <2>1. PICK n \in Names :
          /\ name' = [name EXCEPT ![l] = n]
          /\ \/ n \in DOMAIN new /\ new' = new /\ inodes' = inodes
             \/ n \notin DOMAIN new /\ DOMAIN new' = DOMAIN new \cup {n}
    BY <1>2, Opened
  <2>2. name[l] = NoName /\ cur' = cur
    BY <1>2 DEF open_letter, TypeOK
  <2> SUFFICES ASSUME NEW m \in DOMAIN new \cup DOMAIN cur \cup {n}
               PROVE  \E k \in Letters : name'[k] = m
    BY <2>1, <2>2 DEF NameUsed
  <2>3. CASE m = n
    BY <2>1, <2>3 DEF TypeOK
  <2>4. CASE m \in DOMAIN new \cup DOMAIN cur
    <3>1. PICK k \in Letters : name[k] = m
      BY <2>4 DEF NameUsed
    <3>2. m # NoName
      BY <2>4, NoNameAssumption DEF TypeOK
    <3> QED
      BY <3>1, <3>2, <2>1, <2>2 DEF TypeOK
  <2> QED
    BY <2>3, <2>4
<1>3. CASE child_renames /\ Renamable(child.path)
  <2>1. /\ child.path \in DOMAIN new
        /\ DOMAIN new' = DOMAIN new \ {child.path} /\ DOMAIN cur' = DOMAIN cur \cup {child.path}
    BY <1>3, Moved
  <2> QED
    BY <1>3, <2>1 DEF NameUsed, child_renames, server
<1> QED
  BY <1>1, <1>2, <1>3
  DEF Next, process_data_end, open_fails, write_letter, write_fails, promise, killed, tick, scan, children,
      child_reads, child_renames, vars, server, client

\* Opening a letter leaves the others where they are, unless the names meet.
LEMMA KeptOpen ==
  ASSUME FilesInv, KeptInv, NEW p \in Servers, NEW l \in Letters, open_letter(p, l)
  PROVE  Kept'
<1>0. TypeOK /\ stage[l] = "fresh" /\ name[l] = NoName /\ ~Storing(p) /\ cur' = cur /\ lost' = lost
  BY DEF FilesInv, open_letter, TypeOK, Storing
<1>1. PICK n \in Names :
        /\ n # NoName /\ n.pid = p
        /\ name' = [name EXCEPT ![l] = n]
        /\ stage' = [stage EXCEPT ![l] = "writing"]
        /\ store' = [store EXCEPT ![p] = [letter |-> l, inode |-> new'[n], left |-> Parts]]
        /\ \/ n \in DOMAIN new /\ new' = new /\ inodes' = inodes
           \/ /\ n \notin DOMAIN new
              /\ inodes' = Append(inodes, <<>>)
              /\ DOMAIN new' = DOMAIN new \cup {n}
              /\ new'[n] = Len(inodes) + 1
              /\ \A m \in DOMAIN new : new'[m] = new[m]
  <2>1. TypeOK
    BY <1>0
  <2> QED
    BY <2>1, Opened
<1>2. /\ store'[p].letter = l /\ store'[p].inode = new'[n]
      /\ \A q \in Servers \ {p} : store'[q] = store[q] /\ (Storing(q)' <=> Storing(q))
      /\ name'[l] = n /\ stage'[l] = "writing"
      /\ \A k \in Letters \ {l} : name'[k] = name[k] /\ stage'[k] = stage[k]
  BY <1>0, <1>1 DEF TypeOK, Storing
<1>3. \A i \in DOMAIN inodes : inodes'[i] = inodes[i]
  BY <1>0, <1>1, EmptyFile
<1>4. \A q \in Servers : Storing(q) => store[q].letter # l
  BY <1>0 DEF FilesInv, OwnLetter
<1> SUFFICES ASSUME NEW k \in Letters, stage'[k] \in {"writing", "promised"}, ~Burst(k)'
             PROVE  KeptIn(k)'
  BY DEF Kept
<1>5. CASE k = l
  <2>1. n \notin DOMAIN new \cup DOMAIN cur
    <3> SUFFICES ASSUME n \in DOMAIN new \cup DOMAIN cur PROVE FALSE
      OBVIOUS
    <3>1. PICK j \in Letters : name[j] = n
      BY DEF KeptInv, NameUsed
    <3>2. j # l /\ name'[j] = n
      BY <3>1, <1>0, <1>1, <1>2
    <3> QED
      BY <3>2, <1>1, <1>2, <1>5 DEF Burst
  <2>2. n \in DOMAIN new' /\ inodes'[new'[n]] = <<>>
    BY <2>1, <1>0, <1>1 DEF TypeOK
  <2>3. Holds(k, new[n])'
    BY <2>2, <1>2, <1>4, <1>5, <1>0 DEF Holds
  <2> QED
    BY <2>1, <2>2, <2>3, <1>0, <1>2, <1>5 DEF KeptIn
<1>6. CASE k # l
  <2>1. name'[k] = name[k] /\ stage'[k] = stage[k]
    BY <1>2, <1>6
  <2>2. name[k] # NoName
    BY <2>1, <1>0 DEF TypeOK
  <2>3. name[k] # n
    BY <2>1, <2>2, <1>2, <1>6 DEF Burst
  <2>4. ~Burst(k)
    <3> SUFFICES ASSUME NEW j \in Letters \ {k}, name[j] = name[k] PROVE FALSE
      BY DEF Burst
    <3>1. name'[j] = name[k]
      BY <2>2, <1>0, <1>2
    <3> QED
      BY <3>1, <2>1, <2>2 DEF Burst
  <2>5. KeptIn(k)
    BY <2>1, <2>4 DEF KeptInv, Kept
  <2>6. ASSUME NEW i \in DOMAIN inodes, Holds(k, i) PROVE Holds(k, i)'
    BY <2>1, <2>6, <1>0, <1>2, <1>3, <1>6 DEF Holds
  <2>7. CASE name[k] \in DOMAIN new /\ name[k] \notin DOMAIN cur /\ Holds(k, new[name[k]])
    <3>1. new[name[k]] \in DOMAIN inodes
      BY <2>7, <1>0 DEF TypeOK
    <3>2. name[k] \in DOMAIN new' /\ new'[name[k]] = new[name[k]]
      BY <2>7, <1>1
    <3>3. Holds(k, new[name[k]])'
      <4>1. PICK i \in DOMAIN inodes : i = new[name[k]]
        BY <3>1
      <4> QED
        BY <4>1, <2>6, <2>7, <3>2, <2>1, <1>0 DEF Holds
    <3> QED
      BY <2>1, <2>7, <3>2, <3>3, <1>0 DEF KeptIn
  <2>8. CASE name[k] \in DOMAIN cur /\ name[k] \notin DOMAIN new /\ Holds(k, cur[name[k]])
    <3>1. name[k] \notin DOMAIN new'
      BY <2>3, <2>8, <1>1
    <3>2. cur[name[k]] \in DOMAIN inodes
      BY <2>8, <1>0 DEF TypeOK
    <3>3. Holds(k, cur[name[k]])'
      <4>1. PICK i \in DOMAIN inodes : i = cur[name[k]]
        BY <3>2
      <4> QED
        BY <4>1, <2>6, <2>8, <2>1, <1>0 DEF Holds
    <3> QED
      BY <2>1, <2>8, <3>1, <3>3, <1>0 DEF KeptIn
  <2> QED
    BY <2>5, <2>7, <2>8 DEF KeptIn
<1> QED
  BY <1>5, <1>6

LEMMA KeptWrite ==
  ASSUME FilesInv, KeptInv, NEW p \in Servers, write_letter(p)
  PROVE  Kept'
<1>0. TypeOK /\ UNCHANGED <<stage, name, lost, new, cur>>
  BY DEF FilesInv, write_letter
<1>1. PICK l, i : l = store[p].letter /\ i = store[p].inode
  OBVIOUS
<1>2. /\ Storing(p) /\ l \in Letters /\ i \in DOMAIN inodes /\ stage[l] = "writing"
      /\ store[p].left \in 1..Parts
      /\ store' = [store EXCEPT ![p].left = @ - 1]
      /\ DOMAIN inodes' = DOMAIN inodes
      /\ \A j \in DOMAIN inodes \ {i} : inodes'[j] = inodes[j]
      /\ inodes[i] \in Seq(Letters) /\ inodes'[i] = Append(inodes[i], l)
  BY <1>1, Appended
<1>3. \A q \in Servers : /\ Storing(q)' => Storing(q)
                         /\ store'[q].letter = store[q].letter /\ store'[q].inode = store[q].inode
  <2>1. store[p] \in [letter : Letters, inode : DOMAIN inodes, left : 0..Parts]
    BY <1>0, <1>2, StoreRecord
  <2> QED
    BY <2>1, <1>0, <1>2 DEF TypeOK, Storing
<1> SUFFICES ASSUME NEW k \in Letters, stage[k] \in {"writing", "promised"}, ~Burst(k)
             PROVE  KeptIn(k)'
  BY <1>0 DEF Kept, Burst
<1>4. KeptIn(k)
  BY DEF KeptInv, Kept
<1>5. ASSUME NEW dir \in {new, cur}, name[k] \in DOMAIN dir,
             NEW f \in DOMAIN inodes, f = dir[name[k]], Holds(k, f)
      PROVE  Holds(k, f)'
  <2>1. /\ \A m \in DOMAIN inodes'[f] : inodes'[f][m] = k
        /\ stage[k] = "promised" => Len(inodes'[f]) = Len(inodes[f])
    <3>1. CASE f # i
      BY <3>1, <1>0, <1>2, <1>5 DEF Holds, TypeOK
    <3>2. CASE f = i
      <4>1. name[l] = name[k]
        BY <3>2, <1>1, <1>2, <1>5 DEF FilesInv, OwnName
      <4>2. name[k] # NoName
        BY <1>0 DEF TypeOK
      <4>3. k = l
        BY <4>1, <4>2, <1>2 DEF Burst
      <4>4. /\ Len(inodes'[i]) = Len(inodes[i]) + 1 /\ Len(inodes[i]) \in Nat
            /\ DOMAIN inodes'[i] = 1 .. Len(inodes[i]) + 1 /\ DOMAIN inodes[i] = 1..Len(inodes[i])
            /\ inodes'[i][Len(inodes[i]) + 1] = l
            /\ \A m \in DOMAIN inodes[i] : inodes'[i][m] = inodes[i][m]
        BY <1>2
      <4>5. \A m \in DOMAIN inodes'[f] : inodes'[f][m] = k
        BY <3>2, <4>3, <4>4, <1>5 DEF Holds
      <4>6. stage[k] # "promised"
        BY <4>3, <1>2
      <4> QED
        BY <4>5, <4>6
    <3> QED
      BY <3>1, <3>2
  <2>2. stage[k] = "promised" => Len(inodes'[f]) = Parts - lost[k]
    BY <2>1, <1>5 DEF Holds
  <2> QED
    BY <2>1, <2>2, <1>0, <1>3, <1>5 DEF Holds
<1>6. CASE name[k] \in DOMAIN new /\ name[k] \notin DOMAIN cur /\ Holds(k, new[name[k]])
  <2>1. PICK f \in DOMAIN inodes : f = new[name[k]]
    BY <1>0, <1>6 DEF TypeOK
  <2>2. Holds(k, f)'
    BY <2>1, <1>5, <1>6
  <2> QED
    BY <2>1, <2>2, <1>0, <1>6 DEF KeptIn, Holds
<1>7. CASE name[k] \in DOMAIN cur /\ name[k] \notin DOMAIN new /\ Holds(k, cur[name[k]])
  <2>1. PICK f \in DOMAIN inodes : f = cur[name[k]]
    BY <1>0, <1>7 DEF TypeOK
  <2>2. Holds(k, f)'
    BY <2>1, <1>5, <1>7
  <2> QED
    BY <2>1, <2>2, <1>0, <1>7 DEF KeptIn, Holds
<1> QED
  BY <1>4, <1>6, <1>7 DEF KeptIn

\* A part of a letter that is lost is none of a letter that was promised.
LEMMA KeptFail ==
  ASSUME FilesInv, KeptInv, NEW p \in Servers, write_fails(p)
  PROVE  Kept'
<1>0. TypeOK /\ UNCHANGED <<stage, name, inodes, new, cur>>
  BY DEF FilesInv, write_fails
<1>1. Storing(p)
  BY DEF write_fails, Storing, Idle
<1>2. PICK l : l = store[p].letter
  OBVIOUS
<1>3. /\ l \in Letters /\ stage[l] = "writing"
      /\ store' = [store EXCEPT ![p].left = @ - 1] /\ lost' = [lost EXCEPT ![l] = @ + 1]
  BY <1>0, <1>1, <1>2, StoreRecord DEF FilesInv, OwnLetter, write_fails
<1>4. \A q \in Servers : /\ Storing(q)' => Storing(q)
                         /\ store'[q].letter = store[q].letter /\ store'[q].inode = store[q].inode
  <2>1. store[p] \in [letter : Letters, inode : DOMAIN inodes, left : 0..Parts]
    BY <1>0, <1>1, StoreRecord
  <2> QED
    BY <2>1, <1>0, <1>1, <1>3 DEF TypeOK, Storing
<1>5. \A k \in Letters : stage[k] = "promised" => lost'[k] = lost[k]
  BY <1>0, <1>3 DEF TypeOK
<1>6. \A k \in Letters : \A f : Holds(k, f) => Holds(k, f)'
  BY <1>0, <1>4, <1>5 DEF Holds
<1> SUFFICES ASSUME NEW k \in Letters, stage[k] \in {"writing", "promised"}, ~Burst(k)
             PROVE  KeptIn(k)'
  BY <1>0 DEF Kept, Burst
<1>7. KeptIn(k)
  BY DEF KeptInv, Kept
<1>8. PICK a, b : a = new[name[k]] /\ b = cur[name[k]]
  OBVIOUS
<1>9. (Holds(k, a) => Holds(k, a)') /\ (Holds(k, b) => Holds(k, b)')
  BY <1>6
<1> QED
  BY <1>0, <1>7, <1>8, <1>9 DEF KeptIn, Holds

\* At the end of a letter its file has all its parts but those that were lost.
LEMMA KeptEnd ==
  ASSUME FilesInv, KeptInv, NEW p \in Servers, promise(p) \/ killed(p)
  PROVE  Kept'
<1>0. /\ TypeOK /\ Storing(p) /\ UNCHANGED <<name, lost, inodes, new, cur>>
      /\ store[p].letter \in Letters /\ stage[store[p].letter] = "writing"
      /\ store' = [store EXCEPT ![p] = Idle]
  BY StoreRecord DEF FilesInv, OwnLetter, promise, killed, Storing
<1>1. \A q \in Servers : Storing(q)' => Storing(q) /\ store'[q] = store[q]
  BY <1>0 DEF TypeOK, Storing
<1> SUFFICES ASSUME NEW k \in Letters, stage'[k] \in {"writing", "promised"}, ~Burst(k)'
             PROVE  KeptIn(k)'
  BY DEF Kept
<1>2. stage[k] \in {"writing", "promised"} /\ ~Burst(k)
  BY <1>0 DEF promise, killed, TypeOK, Burst
<1>3. KeptIn(k)
  BY <1>2 DEF KeptInv, Kept
<1>4. ASSUME NEW f \in DOMAIN inodes, Holds(k, f) PROVE Holds(k, f)'
  <2>1. ASSUME stage'[k] = "promised" PROVE Len(inodes[f]) = Parts - lost[k]
    <3>1. CASE stage[k] = "promised"
      BY <3>1, <1>4 DEF Holds
    <3>2. CASE stage[k] # "promised"
      <4>1. k = store[p].letter /\ store[p].left = 0
        BY <3>2, <2>1, <1>0 DEF promise, killed, TypeOK
      <4>2. store[p].inode = f
        BY <4>1, <1>0, <1>4 DEF Holds
      <4>3. /\ inodes[f] \in Seq(Letters)
            /\ \A j \in DOMAIN inodes[f] : inodes[f][j] = k
        BY <1>0, <1>4 DEF Holds, TypeOK
      <4> DEFINE w == Parts - lost[k]
                 n == Len(inodes[f])
      <4>4. /\ w >= 0 /\ n >= w
            /\ \A j \in DOMAIN inodes[f] : j > n - w
        <5>1. Written(p) = w
          BY <4>1, <1>0, PartsAssumption DEF Written, TypeOK
        <5> QED
          BY <5>1, <4>1, <4>2, <4>3, <1>0 DEF FilesInv, AtEnd
      <4>5. w \in Int /\ n \in Nat /\ DOMAIN inodes[f] = 1..n
        BY <4>3, <1>0, <4>1, PartsAssumption DEF TypeOK
      <4>6. n = 0 \/ 1 > n - w
        BY <4>4, <4>5
      <4> QED
        BY <4>4, <4>5, <4>6
    <3> QED
      BY <3>1, <3>2
  <2> QED
    BY <2>1, <1>0, <1>1, <1>4 DEF Holds
<1>5. CASE name[k] \in DOMAIN new /\ name[k] \notin DOMAIN cur /\ Holds(k, new[name[k]])
  <2>1. PICK f \in DOMAIN inodes : f = new[name[k]]
    BY <1>0, <1>5 DEF TypeOK
  <2>2. Holds(k, f)'
    BY <2>1, <1>4, <1>5
  <2> QED
    BY <2>1, <2>2, <1>0, <1>5 DEF KeptIn, Holds
<1>6. CASE name[k] \in DOMAIN cur /\ name[k] \notin DOMAIN new /\ Holds(k, cur[name[k]])
  <2>1. PICK f \in DOMAIN inodes : f = cur[name[k]]
    BY <1>0, <1>6 DEF TypeOK
  <2>2. Holds(k, f)'
    BY <2>1, <1>4, <1>6
  <2> QED
    BY <2>1, <2>2, <1>0, <1>6 DEF KeptIn, Holds
<1> QED
  BY <1>3, <1>5, <1>6 DEF KeptIn

LEMMA KeptRename ==
  ASSUME FilesInv, KeptInv, child_renames, Renamable(child.path)
  PROVE  Kept'
<1>0. TypeOK /\ UNCHANGED <<stage, store, name, lost, inodes>>
  BY DEF FilesInv, child_renames, server
<1>1. PICK n : n = child.path
  OBVIOUS
<1>2. /\ n \in DOMAIN new
      /\ DOMAIN new' = DOMAIN new \ {n} /\ \A m \in DOMAIN new' : new'[m] = new[m]
      /\ DOMAIN cur' = DOMAIN cur \cup {n} /\ cur'[n] = new[n]
      /\ \A m \in DOMAIN cur \ {n} : cur'[m] = cur[m]
  BY <1>0, <1>1, Moved
<1> SUFFICES ASSUME NEW k \in Letters, stage[k] \in {"writing", "promised"}, ~Burst(k)
             PROVE  KeptIn(k)'
  BY <1>0 DEF Kept, Burst
<1>3. KeptIn(k)
  BY DEF KeptInv, Kept
<1>4. \A f : Holds(k, f) => Holds(k, f)'
  BY <1>0 DEF Holds, Storing
<1>5. CASE name[k] \in DOMAIN new /\ name[k] \notin DOMAIN cur /\ Holds(k, new[name[k]])
  <2>1. PICK f : f = new[name[k]]
    OBVIOUS
  <2>2. Holds(k, f)'
    BY <2>1, <1>4, <1>5
  <2>3. CASE name[k] = n
    BY <2>1, <2>2, <2>3, <1>0, <1>2, <1>5 DEF KeptIn, Holds
  <2>4. CASE name[k] # n
    BY <2>1, <2>2, <2>4, <1>0, <1>2, <1>5 DEF KeptIn, Holds
  <2> QED
    BY <2>3, <2>4
<1>6. CASE name[k] \in DOMAIN cur /\ name[k] \notin DOMAIN new /\ Holds(k, cur[name[k]])
  <2>1. PICK f : f = cur[name[k]]
    OBVIOUS
  <2>2. Holds(k, f)' /\ name[k] # n
    BY <2>1, <1>2, <1>4, <1>6
  <2> QED
    BY <2>1, <2>2, <1>0, <1>2, <1>6 DEF KeptIn, Holds
<1> QED
  BY <1>3, <1>5, <1>6 DEF KeptIn

LEMMA KeptStep == FilesInv /\ KeptInv /\ [Next]_vars => KeptInv'
<1> SUFFICES ASSUME FilesInv, KeptInv, [Next]_vars PROVE KeptInv'
  OBVIOUS
<1>0. TypeOK /\ NameUsed'
  BY NamesUsed DEF FilesInv, KeptInv
<1>1. CASE /\ UNCHANGED <<store, name, inodes, new, cur>>
           /\ lost' = lost
           /\ \A l \in Letters : stage'[l] \in {"writing", "promised"} => stage'[l] = stage[l]
  <2>1. \A k \in Letters : \A f :
          stage'[k] \in {"writing", "promised"} /\ Holds(k, f) => Holds(k, f)'
    BY <1>1 DEF Holds, Storing
  <2> SUFFICES ASSUME NEW k \in Letters, stage'[k] \in {"writing", "promised"}, ~Burst(k)'
               PROVE  KeptIn(k)'
    BY <1>0 DEF KeptInv, Kept
  <2>2. KeptIn(k)
    BY <1>1 DEF KeptInv, Kept, Burst
  <2>3. PICK a, b : a = new[name[k]] /\ b = cur[name[k]]
    OBVIOUS
  <2>4. (Holds(k, a) => Holds(k, a)') /\ (Holds(k, b) => Holds(k, b)')
    BY <2>1
  <2> QED
    BY <2>2, <2>3, <2>4, <1>1 DEF KeptIn, Holds
<1>2. ASSUME NEW p \in Servers, process_data_end(p) PROVE KeptInv'
  <2>1. ASSUME NEW l \in Letters, open_fails(p, l) PROVE KeptInv'
    BY <2>1, <1>0, <1>1 DEF open_fails, TypeOK
  <2> QED
    BY <1>2, <2>1, <1>0, KeptOpen, KeptWrite, KeptFail, KeptEnd DEF process_data_end, KeptInv
<1>3. CASE child_renames /\ Renamable(child.path)
  BY <1>0, <1>3, KeptRename DEF KeptInv
<1> QED
  BY <1>1, <1>2, <1>3
  DEF Next, tick, scan, children, child_reads, child_renames, vars, server, client

\* The file of a letter answered with "250 Mail is saved on disk" holds the parts
\* write() took and nothing else, in new/ or cur/, if no other letter got its
\* name; all parts when no write() failed (process_data_end(), protocol.c:189-209).
THEOREM PromisesKept == Spec => []TakenIsOnDisk
<1>1. Init => KeptInv
  BY DEF Init, KeptInv, NameUsed, Kept
<1>2. FilesInv /\ KeptInv => TakenIsOnDisk
  <2> SUFFICES ASSUME FilesInv, KeptInv, NEW l \in Letters, stage[l] = "promised", ~Burst(l)
               PROVE  \E dir \in {new, cur} :
                        /\ name[l] \in DOMAIN dir
                        /\ inodes[dir[name[l]]] = [k \in 1 .. Parts - lost[l] |-> l]
    BY DEF TakenIsOnDisk
  <2>1. KeptIn(l) /\ TypeOK
    BY DEF KeptInv, Kept, FilesInv
  <2>2. ASSUME NEW f \in DOMAIN inodes, Holds(l, f)
        PROVE  inodes[f] = [k \in 1 .. Parts - lost[l] |-> l]
    <3>1. inodes[f] \in Seq(Letters) /\ Len(inodes[f]) = Parts - lost[l]
      BY <2>1, <2>2 DEF TypeOK, Holds
    <3>2. DOMAIN inodes[f] = 1 .. Parts - lost[l] /\ inodes[f] = [k \in DOMAIN inodes[f] |-> inodes[f][k]]
      BY <3>1
    <3> QED
      BY <2>2, <3>2 DEF Holds
  <2>3. \A dir \in {new, cur} : name[l] \in DOMAIN dir => dir[name[l]] \in DOMAIN inodes
    BY <2>1 DEF TypeOK
  <2> QED
    BY <2>1, <2>2, <2>3 DEF KeptIn
<1> QED
  BY FilesInit, FilesStep, KeptStep, <1>1, <1>2, PTL DEF Spec
-----------------------------------------------------------------------------
(* The domain in a path.                                                    *)

\* What stands before and behind the labels of a domain, and the labels.
LEMMA Framed ==
  ASSUME NEW S, NEW before \in Seq(S), NEW domain \in Seq(S), NEW end \in Seq(S),
         Len(before) = 2, domain # <<>>, Len(end) = 1
  PROVE  /\ (before \o domain \o end)[3] = domain[1]
         /\ Len(domain) = 1 => (before \o domain \o end)[4] = end[1]
         /\ Len(domain) # 1 => (before \o domain \o end)[4] = domain[2]
<1>1. Len(domain) \in Nat /\ Len(domain) >= 1
  BY EmptySeq, LenProperties
<1>2. /\ before \o domain \in Seq(S)
      /\ Len(before \o domain) = 2 + Len(domain)
      /\ \A i \in 1 .. 2 + Len(domain) :
           (before \o domain)[i] = IF i <= 2 THEN before[i] ELSE domain[i - 2]
  <2>1. /\ before \o domain \in Seq(S)
        /\ Len(before \o domain) = Len(before) + Len(domain)
        /\ \A i \in 1 .. Len(before) + Len(domain) :
             (before \o domain)[i] = IF i <= Len(before) THEN before[i]
                                    ELSE domain[i - Len(before)]
    BY ConcatProperties, Zenon
  <2>2. QED
    BY <2>1
<1>3. end \in Seq(S) /\ Len(end) = 1
  OBVIOUS
<1> DEFINE tokens == before \o domain \o end
<1>4. \A i \in 1 .. 2 + Len(domain) + 1 :
        tokens[i] = IF i <= 2 + Len(domain) THEN (before \o domain)[i]
                    ELSE end[i - (2 + Len(domain))]
  <2>1. \A i \in 1 .. Len(before \o domain) + Len(end) :
          tokens[i] = IF i <= Len(before \o domain) THEN (before \o domain)[i]
                      ELSE end[i - Len(before \o domain)]
    BY <1>2, ConcatProperties, Zenon
  <2>2. QED
    BY <1>2, <1>3, <2>1
<1> HIDE DEF tokens
<1>5. tokens[3] = domain[1]
  BY <1>1, <1>2, <1>4
<1>6. (Len(domain) = 1 => tokens[4] = end[1]) /\ (Len(domain) # 1 => tokens[4] = domain[2])
  <2>1. CASE Len(domain) = 1
    BY <1>3, <1>4, <2>1
  <2>2. CASE Len(domain) # 1
    <3>1. 4 \in 1 .. 2 + Len(domain) + 1 /\ 4 <= 2 + Len(domain)
      <4>1. \A k \in Nat : k >= 1 /\ k # 1 => 4 \in 1 .. 2 + k + 1 /\ 4 <= 2 + k
        OBVIOUS
      <4>2. QED
        BY <1>1, <2>2, <4>1, Zenon
    <3>2. QED
      BY <1>2, <1>4, <2>2, <3>1
  <2>3. QED
    BY <2>1, <2>2
<1>7. QED
  BY <1>5, <1>6 DEF tokens

\* Both ways of splitting give the same two labels.
LEMMA SameLabels ==
  ASSUME NEW S, NEW user \in Seq(S), NEW domain \in Seq(S), Len(user) = 1, domain # <<>>,
         "pid" \in S, "ts" \in S, "mbox" \in S
  PROVE  LET name_tokens == <<"pid", "ts">> \o domain \o <<"mbox">>
             path_tokens == user \o <<"ts">> \o domain \o <<"mbox">>
         IN  /\ get_domain_name(name_tokens) = get_domain_name(path_tokens)
             /\ Len(domain) = 2 => get_domain_name(path_tokens) = domain
<1>1. <<"pid", "ts">> \in Seq(S) /\ Len(<<"pid", "ts">>) = 2
  OBVIOUS
<1>2. user \o <<"ts">> \in Seq(S) /\ Len(user \o <<"ts">>) = 2
  <2>1. <<"ts">> \in Seq(S) /\ Len(<<"ts">>) = 1
    OBVIOUS
  <2>2. user \o <<"ts">> \in Seq(S) /\ Len(user \o <<"ts">>) = Len(user) + Len(<<"ts">>)
    BY <2>1, ConcatProperties, Zenon
  <2>3. QED
    BY <2>1, <2>2
<1>3. <<"mbox">> \in Seq(S) /\ Len(<<"mbox">>) = 1 /\ <<"mbox">>[1] = "mbox"
  OBVIOUS
<1> DEFINE name_tokens == <<"pid", "ts">> \o domain \o <<"mbox">>
           path_tokens == user \o <<"ts">> \o domain \o <<"mbox">>
<1>4. /\ name_tokens[3] = domain[1]
      /\ Len(domain) = 1 => name_tokens[4] = "mbox"
      /\ Len(domain) # 1 => name_tokens[4] = domain[2]
  BY <1>1, <1>3, Framed
<1>5. /\ path_tokens[3] = domain[1]
      /\ Len(domain) = 1 => path_tokens[4] = "mbox"
      /\ Len(domain) # 1 => path_tokens[4] = domain[2]
  BY <1>2, <1>3, Framed
<1> HIDE DEF name_tokens, path_tokens
<1>6. Len(domain) = 2 => Len(domain) # 1 /\ <<domain[1], domain[2]>> = domain
  OBVIOUS
<1>7. get_domain_name(name_tokens) = get_domain_name(path_tokens)
  BY <1>4, <1>5, Zenon DEF get_domain_name
<1>8. Len(domain) = 2 => get_domain_name(path_tokens) = domain
  BY <1>5, <1>6, Zenon DEF get_domain_name
<1>9. QED
  BY <1>7, <1>8 DEF name_tokens, path_tokens

\* The master, which splits a name, and a child, which splits the whole path,
\* take the same domain from it if neither mail_dir nor the user has a dot, and
\* the whole domain if that has two labels (get_domain_name_from_email_full_path(), dir_utils.c).
THEOREM DomainsAgree == Spec => []SameDomain
<1>1. TypeOK => SameDomain
  <2> SUFFICES ASSUME TypeOK, NEW n \in DOMAIN new, Len(MailDir \o n.box.user) = 1
               PROVE  /\ MasterDomain(n) = ChildDomain(n)
                      /\ Len(n.box.domain) = 2 => ChildDomain(n) = n.box.domain
    BY DEF SameDomain
  <2>1. PICK b \in Boxes : n.box = b
    BY DEF TypeOK, Names
  <2>2. PICK S : S = ToSet(MailDir) \cup ToSet(b.user) \cup ToSet(b.domain) \cup {"pid", "ts", "mbox"}
    OBVIOUS
  <2>3. MailDir \o b.user \in Seq(S) /\ b.domain \in Seq(S) /\ b.domain # <<>>
    <3>1. MailDir \in Seq(S) /\ b.user \in Seq(S) /\ b.domain \in Seq(S) /\ b.domain # <<>>
      BY <2>2, BoxAssumption, MailDirAssumption, SeqMonotonic
    <3> QED
      BY <3>1, ConcatProperties, Zenon
  <2>4. "pid" \in S /\ "ts" \in S /\ "mbox" \in S
    BY <2>2
  <2>5. Len(MailDir \o b.user) = 1
    BY <2>1
  <2>6. QED
    BY <2>1, <2>3, <2>4, <2>5, SameLabels, Zenon
       DEF MasterDomain, ChildDomain, NameTokens, PathTokens
<1>2. QED
  BY TypesOK, <1>1, PTL
=============================================================================
