-------------------------------- MODULE Spool --------------------------------
(***************************************************************************)
(* The directory the server and the client share.  Workers of the server    *)
(* write a letter in place into <user>/new, under a name of process, time   *)
(* and domain; the client, which nobody tells that a file is complete, finds *)
(* it there, reads it and renames it to <user>/cur.  Sessions are in         *)
(* ServerLoop, the dialogue of the client is in ClientWorker.                *)
(***************************************************************************)
EXTENDS Naturals, Sequences, FiniteSets, SequencesExt

CONSTANTS Servers,    \* worker processes, by pid
          Letters,
          BoxOf,      \* [Letters -> [user, domain]], each a sequence of labels
          MailDir,    \* labels of mail_dir before its last dot
          NewLabels,  \* labels in which the letters "new" occur
          Parts,      \* write() calls stdio makes for one letter
          MaxTime,    \* bound of the clock, in ms
          QueueSize,  \* paths the queue of the child holds
          NoName      \* no path

ASSUME PartsAssumption == Parts \in Nat \ {0}
ASSUME SpoolAssumption == MaxTime \in Nat /\ QueueSize \in Nat \ {0}

ASSUME MailDirAssumption == MailDir \in Seq(ToSet(MailDir))

Boxes == {BoxOf[l] : l \in Letters}
\* PT_EMAIL (pattern.c:19) has no address without a domain; one that consists
\* of dots is left out.
ASSUME BoxAssumption ==
  \A b \in Boxes : /\ b.user \in Seq(ToSet(b.user))
                   /\ b.domain \in Seq(ToSet(b.domain)) \ {<<>>}
\* <pid>.<timestamp>.<domain>.mbox in the directory of a user.
Names  == [pid : Servers, ts : 0..MaxTime, box : Boxes]
ASSUME NoNameAssumption == NoName \notin Names

Stages == {"fresh", "writing", "promised", "refused", "abandoned"}

VARIABLES clock,   \* gettimeofday(), in ms
          stage,   \* of each letter
          store,   \* the FILE of each worker: its letter, inode, write()s left
          name,    \* the name a letter was opened under
          lost,    \* ghost: how many of its write()s failed
          inodes,  \* contents: a letter occurs once for each part written
          new, cur, \* directories: names to inodes
          queue,   \* paths on their way to the child
          child,   \* what the child does, with the path at hand
          reads    \* how often a letter was read whole, 2 for more often

server == <<stage, store, name, lost>>
client == <<queue, child, reads>>
vars == <<clock, server, inodes, new, cur, client>>

Idle   == [letter |-> "none", inode |-> 0, left |-> 0]

\* Every variable keeps to its type, an open FILE has an inode, a letter that
\* was opened has a name, and the child renames what it found.
TypeOK ==
  /\ clock \in 0..MaxTime
  /\ stage \in [Letters -> Stages]
  /\ store \in [Servers -> {Idle} \cup
       [letter : Letters, inode : DOMAIN inodes, left : 0..Parts]]
  /\ name \in [Letters -> Names \cup {NoName}]
  /\ \A l \in Letters : name[l] = NoName <=> stage[l] \in {"fresh", "refused"}
  /\ lost \in [Letters -> Nat]
  /\ inodes \in Seq(Seq(Letters))
  /\ \A dir \in {new, cur} : DOMAIN dir \subseteq Names /\ dir \in [DOMAIN dir -> DOMAIN inodes]
  /\ queue \in Seq(Names) /\ Len(queue) <= QueueSize
  /\ child \in [does : {"receives", "renames", "exited"}, path : Names \cup {NoName}]
  /\ child.does = "renames" => child.path \in DOMAIN new
  /\ reads \in [Letters -> 0..2]

Init ==
  /\ clock = 0
  /\ stage = [l \in Letters |-> "fresh"]
  /\ store = [p \in Servers |-> Idle]
  /\ name = [l \in Letters |-> NoName]
  /\ lost = [l \in Letters |-> 0]
  /\ inodes = <<>>
  /\ new = <<>> /\ cur = <<>>
  /\ queue = <<>>
  /\ child = [does |-> "receives", path |-> NoName]
  /\ reads = [l \in Letters |-> 0]

\* A directory in which name n is a link to inode i, and to no other.
Linked(dir, n, i) == [m \in DOMAIN dir \cup {n} |-> IF m = n THEN i ELSE dir[m]]

tick ==
  /\ clock < MaxTime
  /\ clock' = clock + 1
  /\ UNCHANGED <<server, inodes, new, cur, client>>

-----------------------------------------------------------------------------
(* A worker in process_data_end().                                          *)

\* Mutated form of maildir_get_fname: without the pid.
maildir_get_fname_no_pid(p, l) ==
  [pid |-> CHOOSE q \in Servers : TRUE, ts |-> clock, box |-> BoxOf[l]]

maildir_get_fname(p, l) == [pid |-> p, ts |-> clock, box |-> BoxOf[l]]

\* maildir_ensure_user() and fopen(name, "ab+"): the file is there, and empty
\* unless the name is in use.
open_letter(p, l) ==
  LET n == maildir_get_fname(p, l) IN
  /\ store[p] = Idle /\ stage[l] = "fresh"
  /\ IF n \in DOMAIN new THEN UNCHANGED <<inodes, new>>
     ELSE /\ inodes' = Append(inodes, <<>>)
          /\ new' = Linked(new, n, Len(inodes'))
  /\ store' = [store EXCEPT ![p] = [letter |-> l, inode |-> new'[n], left |-> Parts]]
  /\ stage' = [stage EXCEPT ![l] = "writing"]
  /\ name' = [name EXCEPT ![l] = n]
  /\ UNCHANGED <<clock, lost, cur, client>>

\* fopen() is NULL: "554".
open_fails(p, l) ==
  /\ store[p] = Idle /\ stage[l] = "fresh"
  /\ stage' = [stage EXCEPT ![l] = "refused"]
  /\ UNCHANGED <<clock, store, name, lost, inodes, new, cur, client>>

\* fprintf() and fclose() append what the buffer holds, wherever the file is now.
write_letter(p) ==
  /\ store[p].left > 0
  /\ inodes' = [inodes EXCEPT ![store[p].inode] = Append(@, store[p].letter)]
  /\ store' = [store EXCEPT ![p].left = @ - 1]
  /\ UNCHANGED <<clock, stage, name, lost, new, cur, client>>

\* The disk is full: the part is lost, and the next one is tried.  Nobody looks
\* at what fprintf() and fclose() return.
write_fails(p) ==
  /\ store[p].left > 0
  /\ lost' = [lost EXCEPT ![store[p].letter] = @ + 1]
  /\ store' = [store EXCEPT ![p].left = @ - 1]
  /\ UNCHANGED <<clock, stage, name, inodes, new, cur, client>>

\* Mutated form of promise: the reply before fclose().
promise_early(p) ==
  /\ store[p] # Idle
  /\ stage' = [stage EXCEPT ![store[p].letter] = "promised"]
  /\ store' = [store EXCEPT ![p] = Idle]
  /\ UNCHANGED <<clock, name, lost, inodes, new, cur, client>>

\* "250 Mail is saved on disk and will be queued for forwarding", also when a
\* write() failed.
promise(p) ==
  /\ store[p] # Idle /\ store[p].left = 0
  /\ stage' = [stage EXCEPT ![store[p].letter] = "promised"]
  /\ store' = [store EXCEPT ![p] = Idle]
  /\ UNCHANGED <<clock, name, lost, inodes, new, cur, client>>

\* The worker is killed: its FILE is lost with what it had not written.
killed(p) ==
  /\ store[p] # Idle
  /\ stage' = [stage EXCEPT ![store[p].letter] = "abandoned"]
  /\ store' = [store EXCEPT ![p] = Idle]
  /\ UNCHANGED <<clock, name, lost, inodes, new, cur, client>>

process_data_end(p) ==
  \/ \E l \in Letters : open_letter(p, l) \/ open_fails(p, l)
  \/ write_letter(p) \/ write_fails(p) \/ promise(p) \/ killed(p)

-----------------------------------------------------------------------------
(* The client.  Both of its processes take the domain from a path, by the   *)
(* dots in it.                                                              *)

\* The master splits d_name, the child the whole path.
NameTokens(n) == <<"pid", "ts">> \o n.box.domain \o <<"mbox">>
PathTokens(n) == MailDir \o n.box.user \o <<"ts">> \o n.box.domain \o <<"mbox">>

\* Mutated form of get_domain_name: one token further.
get_domain_name_next(tokens) == <<tokens[3], tokens[5]>>

\* get_domain_name_from_email_full_path()
get_domain_name(tokens) == <<tokens[3], tokens[4]>>

MasterDomain(n) == get_domain_name(NameTokens(n))
ChildDomain(n)  == get_domain_name(PathTokens(n))

\* Mutated form of scan: the queue has no limit.
scan_unlimited(n) ==
  /\ n \in DOMAIN new
  /\ queue' = Append(queue, n)
  /\ UNCHANGED <<clock, server, inodes, new, cur, child, reads>>

\* get_domains_mails() and the loop of the master, for one entry of new/: a
\* full queue drops the path.
scan(n) ==
  /\ n \in DOMAIN new
  /\ Len(queue) < QueueSize
  /\ queue' = Append(queue, n)
  /\ UNCHANGED <<clock, server, inodes, new, cur, child, reads>>

\* A letter is sent when the file begins with all of it.
Whole(text, l) == Len(text) >= Parts /\ \A k \in 1..Parts : text[k] = l

\* read_msg_file(): a missing file is NULL, an empty one ends the process.
child_reads ==
  /\ child.does = "receives" /\ queue # <<>>
  /\ LET n    == Head(queue)
         text == IF n \in DOMAIN new THEN inodes[new[n]] ELSE <<>>
     IN /\ child' = CASE n \notin DOMAIN new -> child
                      [] n \in DOMAIN new /\ text = <<>> -> [does |-> "exited", path |-> n]
                      [] OTHER -> [does |-> "renames", path |-> n]
        /\ reads' = [l \in Letters |-> IF Whole(text, l) /\ reads[l] < 2
                                       THEN reads[l] + 1 ELSE reads[l]]
  /\ queue' = Tail(queue)
  /\ UNCHANGED <<clock, server, inodes, new, cur>>

\* str_replace() replaces the first "new" of the path, which need not be the
\* name of the directory; then rename() fails and the file stays.
Renamable(n) == ToSet(n.box.user) \cap NewLabels = {}

\* Mutated form of child_renames: a link, and the old name stays.
child_renames_links ==
  /\ child.does = "renames"
  /\ cur' = Linked(cur, child.path, new[child.path])
  /\ child' = [does |-> "receives", path |-> NoName]
  /\ UNCHANGED <<clock, server, inodes, new, queue, reads>>

child_renames ==
  /\ child.does = "renames"
  /\ IF Renamable(child.path)
     THEN /\ cur' = Linked(cur, child.path, new[child.path])
          /\ new' = [n \in DOMAIN new \ {child.path} |-> new[n]]
     ELSE UNCHANGED <<new, cur>>
  /\ child' = [does |-> "receives", path |-> NoName]
  /\ UNCHANGED <<clock, server, inodes, queue, reads>>

children == child_reads \/ child_renames

-----------------------------------------------------------------------------
Next ==
  \/ tick
  \/ \E p \in Servers : process_data_end(p)
  \/ \E n \in Names : scan(n)
  \/ children

Spec == Init /\ [][Next]_vars

-----------------------------------------------------------------------------
(* Properties.                                                              *)

\* Two letters got one name: one process, one domain and user, one millisecond.
Burst(l) == \E k \in Letters \ {l} : name[k] = name[l] /\ name[l] # NoName

\* What two workers store at the same time is never mixed in one file: in
\* every file the parts of a letter follow each other.
NotMixed ==
  \A i \in DOMAIN inodes : \A j, k \in DOMAIN inodes[i] :
    j < k /\ inodes[i][j] = inodes[i][k] => \A m \in j..k : inodes[i][m] = inodes[i][j]

\* The file of a letter answered with 250 holds what write() took of it, all of
\* it unless the disk was full, and nothing else; in new/ or, once the child has
\* opened it, in cur/, where a file is replaced only by one of a burst.
TakenIsOnDisk ==
  \A l \in Letters : stage[l] = "promised" /\ ~Burst(l) =>
    \E dir \in {new, cur} :
      /\ name[l] \in DOMAIN dir
      /\ inodes[dir[name[l]]] = [k \in 1 .. Parts - lost[l] |-> l]

\* A letter is read in full once, although its path is queued by every scan
\* until it is renamed; except below a user name with "new" in it.
ReadOnce == \A l \in Letters : reads[l] > 1 => ~Renamable(name[l])

\* The master and the child see the same domain in the path of a letter, which
\* ClientMaster and ClientWorker take for granted: without a dot in mail_dir or
\* in the user; and it is the domain of the recipient, if that has two labels.
SameDomain ==
  \A n \in DOMAIN new :
    Len(MailDir \o n.box.user) = 1 =>
      /\ MasterDomain(n) = ChildDomain(n)
      /\ Len(n.box.domain) = 2 => ChildDomain(n) = n.box.domain
=============================================================================
