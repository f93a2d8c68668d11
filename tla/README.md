# TLA+ models of the SMTP server and the SMTP client

The repository holds two C programs. The *server* receives mail: several
processes share one listening socket, each runs a `select()` loop and writes the
letters it is given into a maildir. The *client* delivers mail: a master process
reads `new/` directories and sends paths through System V queues to child
processes, each of which speaks SMTP with a group of mail domains in a `select()`
loop of its own. The only thing between the two programs is the maildir.

1. Inventory
2. Modules
3. What is checked
4. What is proved
5. Assumptions, bounds and fairness
6. Where the code does not do what it says
7. What is not modelled
8. Plan

Paths below are relative to `src/smtp_proj/`.

## 1. Inventory

| part | state it keeps | operations | interacts with |
|---|---|---|---|
| server state machine, `server/proto/smtp.tpl` | none | `server_step()` | called by the handlers; a pair without a transition calls `exit()` |
| server handlers, `server/src/protocol.c` | `connections[]` (state, buffers, letter) | `protocol_update()`, `process_*` | patterns, letters, maildir |
| server loop, `server/src/conn.c` | interest sets, `connections[]`, `watches[]` | `conn_update()`, `conn_create/free/destroy()`, signals | sockets, handlers |
| letters, `server/src/letter.c` | `letter_t` | create, free | handlers |
| patterns, `server/src/pattern.c` | compiled expressions | which command a chunk is | handlers |
| mailbox files, `server/src/maildir.c` | directories | names of files | read by the client |
| start and shutdown, `server/src/server.c`, `prefork()` | pids of the children | `fork()`, `kill()`, handlers of SIGINT | all processes |
| logger of the server, `server/src/log.c` | System V queue | send, receive, save | every process of the server sends |
| start of the client, `client/src/client.c`, `run_client()` | configuration | `fork()`, `read_config()` | logger, children, master |
| logger of the client, `client/src/log.c` | System V queue | the same | every process of the client sends |
| client state machine, `client/src/client-fsm.c` | none | `client_fsm_step()` | handlers |
| client master, `client/src/scheduler.c`, `get_domains_mails()` | `domains_mails[]`, `mail_procs[]` | scan, choose a process, `msgsnd()` | `new/`, queues |
| client child, `client/src/scheduler.c`, `domain_proc.c` | descriptors of domains, sets of `select()` | `register_new_email()`, `handle_read_socket()`, `handle_write_socket()` | queue, sockets, maildir |
| client dialogue, `client/src/smtp_client.c` | position of `strtok()` | `send_*`, replies, rename to `cur/` | child |
| lists, MX lookup, strings | - | helpers | child, master |
| configuration, tests, Makefiles | - | - | - |

What is hard in it, and what correctness means:

* **Server handlers.** Nothing in `conn_t` says whether `letter` points to
  anything; only the state of the session does. Correct: in every state in which
  a handler writes through it the letter is allocated and has what it should,
  and what is stored is what was dictated.
* **Server loop.** Interest sets, sockets and slots are three views of one
  connection, changed at different places. Correct: a live connection is in
  exactly one set, each command gets one reply, none overwrites another, silent
  connections are released, one peer does not stop the others.
* **Processes of the server.** A master knows its children by pids that `fork()` may
  not have given, any process can be ended before its handler is installed, and
  the log queue outlives all of them. Correct: whoever ends on a path that tells the others
  leaves nobody behind, strangers are left alone, log messages are counted once.
* **Mailbox files.** A letter is written in place where the client looks for
  letters, and nobody tells the client that it is complete. Correct: letters of
  two workers are never mixed, what `write()` took of a letter answered with 250 is on disk, a
  letter is read once, both programs mean the same domain.
* **Bytes between the programs.** TCP cuts what `send_msg_body()` writes wherever it
  likes, the socket takes as much of it as there is room for, and the server looks for the end
  of a letter in one chunk at a time. Correct: a letter that counts as delivered is stored with
  all the text that was written of it.
* **Client master.** Letters, domains and processes are in three arrays, a scan
  can miss letters and queues can be full. Correct: one process per domain,
  every letter eventually reaches it.
* **Client child.** The results of `select()` are its next interest sets, one
  `strtok()` position serves all sessions, the state of a domain outlives its
  connection. Correct: commands follow replies in the order of SMTP, the list
  is never empty when a letter is needed, no text is delivered twice.

* **Runs of the client.** Nobody looks at the results of `fork()` and `read_config()`,
  no process has a handler for signals, children are not told that their master ended,
  and the queues stay in the kernel, where a child may share one with the log. Correct: a domain
  has one child, a letter is sent once and at last, whatever an earlier run left.

`PROJECT.json` lists every component with its status and every hazard with its
line.

## 2. Modules

**`ServerFsm`** is the transition table of `smtp.tpl`. The generated code of this
machine is not in the repository; that a missing transition ends the process is
what the same generator produced for the client (`client/src/client-fsm.c:333-337`).

**`ServerProtocol`** is `protocol.c`: one action per handler, all of them closed
by `Finish`, the part of `protocol_update()` every pass ends with (greeting, timeout,
clearing of the buffer). What a peer writes is a *chunk*, the result of one `recv()`,
known by the pattern it matches. `TEXT` matches no command and `TEXT_END` ends with
CR LF . CR LF. A `conn_t` is a record with `mem` (`null`, `live`, `freed`: the slot
still points to released memory); a letter has `mem` too (`garbage`, `live`,
`freed`). Use of a pointer that is not live is undefined behaviour and is
modelled as a choice: the process crashes or goes on unharmed.

**`ServerLoop`** is `conn.c` around it: a pass of the loop is split into `select`,
`serve` (the first loop of `conn_update()`), `flush` (the second) and `protocol`, one
step per descriptor in ascending order, so that peers, SIGINT and other processes can
act in between. The kernel is modelled as far as the code can see it: the lowest
free descriptor from `accept()`, EBADF for a closed one in an interest set, EAGAIN,
ECONNRESET once and SIGPIPE after it.

**`MailService`** is the abstract specification: sessions build letters in order,
a letter is stored once and whole, or dropped. `ServerLoop` refines it; a session is
mapped from the state and the letter of its connection.

**`ClientFsm`** is the client's table. **`ClientWorker`** is one child with its
mail servers, the master reduced to "finds a letter in `new/` again and queues it".
A letter's text has three positions (sender, recipient, rest) and `strtok()`'s
position is a variable of the process. The sockets do not block: `Deliver` is what `write()`
takes of a command, of which `send_data()` only hears the failure. Four ghosts follow the
descriptors: `opener` is the domain a descriptor was last opened for, `granted` the last command
its server agreed to or the refusal it gave, `mixed` is set when a descriptor is served for a
domain that does not hold it (`Holds`), and `misbegun` has the domains whose entry of the
uninitialised array held a state from the middle of a dialogue. **`ClientMaster`** is the master with its
queues; a child is reduced to looking for its queue, taking letters and moving them
to `cur/`. The two overlap in the queue and in the files; `ClientRuns` has both sides of it.

**`ServerProcesses`** is `server.c`, the start of `conn_accept()`, `prefork()`, the
handlers of SIGINT and `log.c`. One element of `Starts` is one run of the program by the
operator and one process group; process `<<s, r>>` is the log process, the master or a
worker of it. `log_pid` and `worker_pids` hold what `fork()` returned and what `malloc()`
left, and `Hits` is what `kill()` makes of it: 0 is the group, -1 is every process. A
pending signal is taken before the next step of its process; DESTRUCT, in which no handler is
installed, may be ended by one between two `kill()` (`destruct_cut`). The session of a worker is
left out: `exits` stands for every way in which `ServerLoop` ends.

**`Spool`** is the directory between the programs: `maildir_get_fname()`, the part
of `process_data_end()` that opens, writes and closes the file (a letter is `Parts` calls of
`write()`, each of which may fail, counted by the ghost `lost`), a worker that is killed in between, and on the other side a scan, `read_msg_file()`
and the rename. Names link to inodes, because a server that writes while the client
renames goes on in the same file. A letter is one value; a file is the sequence of the
letters its parts are from.

**`Transfer`** is one letter as bytes: the writes of `send_msg_body()`, how much of each the socket
takes (`Put`; the ghosts `taken` and `short` remember it), the places where TCP may cut them, `pattern_compute()` and the comparison in `process_data_recv()` on each
chunk, the reply, and the timeout. It is what makes a chunk `TEXT`, `TEXT_END`, `DOT` or
`QUIT` in `ServerProtocol`.

**`ClientRuns`** is the client over several starts by the operator: `main()`, `run_client()`,
master and children of each run and the log process. What lives in a process
(`domains`, `found`, `received`, `reading`) is indexed by the run and lost with it; the
queues (`made`, `queues`) and the files are shared by all runs. A key of `ftok()` is a
number, the number of the process or `LogKey`; they may be the same, since nothing limits
`proc_cnt`, and then a child and the log process take each other's messages. Every process may end at any moment. The
dialogue of a child is reduced to reading the letter and `rename()`; after it the letter
counts as sent. A log message is one value for each run. `clean` remembers whether a run ever began with something left of another.

| module | code | checked by | proofs |
|---|---|---|---|
| `ServerFsm`, `ServerProtocol`, `ServerLoop` | `smtp.tpl`, `protocol.c`, `conn.c`, `letter.c` | `MCServer` | `ServerProofs`, `ServerLoopProofs` |
| `MailService` | (abstract) | `MCServer` | `ServerProofs` |
| `ClientFsm`, `ClientWorker` | `client.def`, `client-fsm.c`, `scheduler.c`, `domain_proc.c`, `smtp_client.c`, `list.c`, `msg.c` | `MCClient` | `ClientWorkerProofs` |
| `ClientMaster` | `scheduler.c`, `domain_proc.c` | `MCMaster` | `ClientMasterProofs` |
| `ServerProcesses` | `server.c`, `conn.c`, `log.c` | itself | `ServerProcessesProofs` |
| `Spool` | `maildir.c`, `protocol.c`, `msg.c`, `str_utils.c`, `dir_utils.c`, `smtp_client.c`, `scheduler.c` | `MCSpool` | `SpoolProofs` |
| `Transfer` | `smtp_client.c`, `pattern.c`, `protocol.c`, `conn.c` | `MCTransfer` | `TransferProofs` |
| `ClientRuns` | `client.c`, `log.c`, `scheduler.c`, `domain_proc.c`, `smtp_client.c` | `MCRuns` | `ClientRunsProofs` |

Operators that end in a suffix like `Flushed_kept` are mutated forms of the operator
that follows them; they are what a plausible slip in the code would be, and serve
to see that the properties notice it.

## 3. What is checked

| run | instance | properties |
|---|---|---|
| `dialogue` | one connection, 8 chunks of every kind | `TypeOK`, `LetterLive`, `ReplyAccounting`, `SavedAsSaid`, `ImplementsMailService` |
| `loop` | two connections, close, reset, stall, silence, a second process; 1 chunk | `WatchedOnce`, `ReplyAccounting`, `NoReplyOverwritten` |
| `liveness` | two connections, stall, silence, SIGINT; fair loop | `Served`, `TimedOutIsClosed` |
| `session` | two domains, a letter each, three descriptors; refused connections and commands, closed and aborted connections, split replies, full sockets, two states in the uninitialised array | `TypeOK`, `HeadPresent`, `AcceptedOnce`, `InOrder` |
| `replies` | two domains, a letter each, that of the first queued twice, two descriptors; refused connections, late and split replies, 502 "not implemented"; fair process and servers | `AcceptedOnce`, `InOrder`, `ReplyIsRead` |
| `master` | two processes, two domains, three letters, queues of two; fair processes | `TypeOK`, `DomainsApart`, `Balanced`, `NewIsReceived` |
| `processes` | two starts, two workers each, a log queue of one; every failure, DESTRUCT cut short, SIGINT to one or to all, the queue removed; fair signals | `TypeOK`, `EndsTogether`, `OneLost`, `ShutdownStaysInside`, `SigintEndsAll` |
| `spool` | two workers, three letters of two parts, two for one mailbox, two milliseconds, a disk that may be full for one of them | `TypeOK`, `NotMixed`, `TakenIsOnDisk`, `ReadOnce`, `SameDomain` |
| `transfer` | every letter of up to two lines of seven kinds, each `write()` whole, in part or failing, cut everywhere; fair programs | `AcceptedIsStored`, `NotCutShort`, `NobodyWaits` |
| `runs` | two runs, two processes, a letter for each of two domains, queues of two, one of them also the queue of the log; every process killed at any moment; stops where a run begins with something left | `OneProcessIfClean`, `SentOnceIfClean` |
| `runs_heard` | two runs, one process, one letter, queues of two, the log of both; orphans and queues of the first run; fair processes | `TypeOK`, `NewIsSent`, `LeftLogIsRead` |

and one run that shows a disagreement of the code with its own words:

| run | violated |
|---|---|
| `shutdown` | `ShutdownNotifiesAll`: `conn_destroy()` closes "all connections with code 421" (`conn.h:42`); it looks at the sets `select()` just wrote, so only at those that were ready |

More of them are in section 6.

What the main properties say, in words:

* `LetterLive`: by the state of the session alone, the letter a handler will write
  through is allocated, has its sender, has a recipient exactly from RCPT on and no
  text before DATA.
* `SavedAsSaid`: a ghost writes down what the peer dictated, by the words of the
  dialogue and not by the server's state; what is stored is always that.
* `ReplyAccounting`: a ghost counts commands minus replies for each peer; it always
  equals what the two buffers hold.
* `WatchedOnce`, `NoReplyOverwritten`: consistency of the interest sets; no reply
  is replaced before `send()` was called with it.
* `InOrder`: on every connection of the client a command is sent only when the one before is
  answered, and only one that follows what the server agreed to last. There is one exception, which
  `Follows` names: MAIL may follow a body the server does not implement (section 6).
* `HeadPresent`: `mails_list->val` is there whenever it is used.
* `AcceptedOnce`: no server is made to accept the text of a letter twice,
  however often the letter is queued, refused or mixed with another.
* `ReplyIsRead`: a reply that comes in on a watched descriptor is read, although two
  domains share the loop, replies are late or come in two segments, and `select()` drops what
  is not ready. A descriptor that was dropped before its reply came is excepted.
* `InOrder`, `HeadPresent` and `AcceptedOnce` are about the time until a descriptor is served for a
  domain it is not open for (`mixed`); the first and the last also except a domain that began in the
  middle of a dialogue (`misbegun`). Closed descriptors in the sets, a failing `select()` and numbers
  that are given out again are part of that time; section 6 says what happens after it.
* `DomainsApart`, `Balanced`: what `get_mail_proc_idx()` is for.
* `EndsTogether`: when a master ended by its handler or through DESTRUCT, or the log
  process fell into DESTRUCT, every living process of that start has a SIGINT waiting for
  it, those that were forked a moment before included. A master that a SIGINT ends in the middle of
  DESTRUCT told nobody (section 6).
* `ShutdownStaysInside`: the handler of a serving master signals its own start and
  nobody else, although failed starts do.
* `OneLost`: a log message that entered the queue is in a log, in the queue or in the
  hand of one log process. It is counted over all starts.
* `SigintEndsAll`: one SIGINT to a serving master ends every process of its start.
* `NotMixed`: the parts of a letter follow each other in its file, whatever two workers
  store at the same time.
* `TakenIsOnDisk`: the file of a letter answered with 250 holds what `write()` took of it, and
  nothing else, in `new/` or `cur/`, unless another one got its name: the same process, user,
  domain and millisecond. It is the whole letter if no `write()` failed.
* `ReadOnce`: a letter is read in full once, although each scan queues its path.
* `SameDomain`: both processes of the client take the same domain from a path, and it is
  the one of the recipient if the domain has two labels; for a `mail_dir` and users without a dot.
* `AcceptedIsStored`, `NotCutShort`: a letter without dots and without lines that are
  commands is stored when the client counts it as accepted: all that `write()` took of it, which
  is the whole letter if no `write()` was short. Nothing of it is left to be read as a command,
  whatever was lost.
* `NobodyWaits`: the client learns of an end, the timeout of the server included.
* `OneProcessIfClean`, `SentOnceIfClean`: if no run begins while a master or a child of an
  earlier one lives or has left a letter in a queue, no two children have letters of one
  domain and no letter is sent twice: although every scan queues it again, the
  queues are never emptied at the start, and a child can be killed between reading and `rename()`.
* `NewIsSent`: a run whose master and children are all there sends what is in `new/`,
  whatever orphans of an earlier run do with its queues. Letters of a child that shares the queue
  of the log are excepted (`WithTheLog`).
* `LeftLogIsRead`: what a run that is over left in the log queue is read by any log process
  that found the queue, although the processes of another run go on filling it. It is about the
  messages and not about an empty queue, which a sender need not leave.
* `Served`, `TimedOutIsClosed`, `ReplyIsRead`, `NewIsReceived`: nothing waits for ever,
  as long as the process lives and the conditions the formula names hold.

Deadlock is not checked: every one of these processes can end (SIGINT, `exit()`, a
crash), and the model then has no step left.

## 4. What is proved

With TLAPS, for every value of the constants that satisfies the named assumptions:

* `ServerProofs!TypesOK`: `Spec => []TypeOK`. Besides the types it says that no
  connection rests in a `process_*` state. `TypeOK` is inductive; each handler has a
  lemma, and `Finish`, which ends all of them, has one that is cited in each.
* `ServerProofs!LettersLive`: `Spec => []LetterLive`. Alone it is not inductive,
  because the timeout and the greeting change the state of a connection without
  touching the letter; with `TypeOK` it is. A pass that reads the letter ends in a
  state that asks no more of the letter than the one it began in, or changed it.
* `ServerProofs!Implements`: `Spec => MS!Spec`, with the invariant above: it is
  what makes the mapped draft well formed. Every action of a handler is one step of
  one session, or leaves all drafts alone.
* `ServerLoopProofs!EachWatchedOnce`: `Spec => []WatchedOnce`. It is not inductive, because
  a descriptor is moved for having been in the results of `select()`, and `accept()` takes
  a number that was free when `select()` was called. `Sets` says what the results and the
  descriptors yet to visit have to do with the connections in each phase of the loop.
* `ServerLoopProofs!NoReplyIsOverwritten`: `Spec => NoReplyOverwritten`. `Buffers` says which
  connections have one reply, one command or neither, by the phase and by whether the descriptor was
  visited yet: one that goes to the handlers has nothing left in `send_buf`.
* `ServerLoopProofs!StoredAsSaid`: `Spec => SavedAsSaid`. By `Heard` the ghost, which listens to
  the words only, is the letter of the connection with the chunk in `recv_buf` added to it.
* `ServerLoopProofs!RepliesAccounted`: `Spec => []ReplyAccounting`, with `Accounts`: while no closed
  descriptor makes `select()` fail, what a peer is owed is what the buffers of its connection
  hold, through every handler.
* `ClientWorkerProofs!ChildTyped`: `Spec => []TypeOK`, together with `Found`: whoever wants to
  write has a domain, since `cur_mail_domain` is never reset.
* `ClientWorkerProofs!ListHoldsLetter`: `Spec => []HeadPresent`. It is not inductive:
  nothing in it keeps a session that is over from being stepped by a reply. By `Attended` a domain that is
  back in its first state without a letter has closed its connection (`Over`), and nothing
  comes in on a closed one (`Silent`).
* `ClientWorkerProofs!CommandsInOrder`: `Spec => InOrder`. By `Stepwise` the state of a session
  and the last agreement of its server go together while a command is out, answered or
  about to be sent (`Asking`, `Answered`, `Free`), and no server owes two answers.
* `ClientWorkerProofs!TextAcceptedOnce`: `Spec => []AcceptedOnce`. The text of a letter is in one
  place at a time, its file in `new/`, the memory `strtok()` is in, one draft or one accepted
  letter (`OneCopy`), or it is lost in a full socket.
* The last two have no hypothesis on `Uninit`: the array of descriptors is not initialised
  (`scheduler.c:104`), and whatever state is found there is a behaviour of `Spec`. What the
  properties except are the domains for which it was one from the middle of a dialogue (`misbegun`).
* `ClientMasterProofs!LettersApart`: `Spec => []DomainsApart`, from the invariant
  that paths wait below their own domain, no domain has two processes, the chosen
  process has the domain at hand, and what a process was given is of its domains.
* `ClientMasterProofs!SpreadEvenly`: `Spec => []Balanced`. A domain is added to the
  least process only, and to none that has it; the counts of finite sets carry the rest.
* `ClientMasterProofs!TypesOK`: `Spec => []TypeOK`, which says above all that a
  process is looked for, and a path sent, only with a domain at hand.
* `ServerProcessesProofs!StartsEnd`: `Spec => []EndsTogether`, for any number of starts
  and workers. By itself it is not inductive: that a signal reaches everybody depends on
  what the master knows. `Forked` says it by the progress of the master: before
  `fork_logger` nobody else lives, while it forks exactly the workers up to the next one
  exist and their pids are written (`OrderAt`, `KnownAt`), and afterwards all are.
* `ServerProcessesProofs!ShutdownInside`: `Spec => ShutdownStaysInside`, from the same
  invariant: when the handler is installed no entry is garbage or -1.
* `ServerProcessesProofs!MessagesCounted`, `TypesOK`: `OneLost` and the types. They are
  proved together, since the bound of `written` follows from the count.
* `SpoolProofs!LettersNotMixed`: `Spec => []NotMixed`. The invariant is that two workers
  never have the same file, also one that has lost its name: the pid in the name
  separates them (`OwnLetter`, `OwnFile`, `OwnName`), a file has one name (`OneName`), and
  what is written of the letter at hand is the end of its file (`AtEnd`, `OneFile`).
* `SpoolProofs!PromisesKept`: `Spec => []TakenIsOnDisk`. The file of a letter that
  shares its name with no other is in exactly one of the directories and holds nothing
  else (`Kept`); with `AtEnd` it holds all parts but the lost ones when the reply is written.
* `SpoolProofs!LettersReadOnce`: `Spec => []ReadOnce`. While the file of a letter that was
  read is still in `new/`, the child is about to rename it (`ReadBefore`), and no other
  file holds the letter (`FoundByName`).
* `SpoolProofs!TypesOK`: `Spec => []TypeOK`, the child renames only what is in `new/`.
* `SpoolProofs!DomainsAgree`: `Spec => []SameDomain`, from the third and fourth tokens of a name
  and of a path (`SameLabels`), for every address that has a domain (`BoxAssumption`) and any
  sequence of labels in `mail_dir`.
* `ClientRunsProofs!TypesOK`: `Spec => []TypeOK`, for any `LogKey`, that of a child included:
  a child keeps letters only, whatever its queue holds.
* `ClientRunsProofs!OneProcessAtATime`: `Spec => []OneProcessIfClean`. Letters in a queue and
  in the hands of a child are treated alike (`HeldBy`). While `clean` holds, one run at most
  has processes (`OneRun`), a living master knows the domain of every letter that is held
  (`Assigned`), and letters of one domain are held by one number (`Apart`); at the start of
  a run these hold because nothing is held. `Base` has what does not depend on `clean`:
  a run that has not begun has nothing (`Idle`), a master has given no domain to two
  processes (`Distinct`).
* `ClientRunsProofs!SentOnce`: `Spec => []SentOnceIfClean`. A letter that is neither in `cur/` nor
  in somebody's hands was not sent, and `OneProcess` keeps it in one hand (`Counted`).

* `TransferProofs!EndIsTheEnd`: `Spec => []NotCutShort`, for letters of any number of lines of
  any length and every cut. It is not inductive: that a chunk is taken for the end says
  nothing of the letter unless no other byte looks like it. By `NoEndYet` there is no dot on
  the wire before the end is written, by `DotLast` only line breaks follow the dot that
  is there, so that whichever chunk has it leaves at most a line break (`EndFound`). The
  kinds of chunks are those the patterns give (`KindOf`).
* `TransferProofs!StoredWhole`: `Spec => []AcceptedIsStored`, from the same invariant and
  `Conserved`: the text of what is stored and of what is on the wire is the text that `write()`
  took, in this order, also when the end was cut and is not seen; without a short `write()` it is
  the text of all lines so far (`NoTextLost`). When 250 is sent
  nothing but line breaks is on the wire, so all is stored, and nothing is stored after it (`Told`).
  It needs that the text of two pieces is the text of the one and then of the other
  (`TextConcat`), an induction over the bytes: `FlattenSeq` is a recursive function,
  which has its equations because a function with them exists (`JoinsExist`), and an
  induction is the argument that there is no least number for which something fails
  (`NoLeastFailure`), for sets instead of predicates. No induction theorem is used.

The assumptions are the named `ASSUME`s of the modules: numbers are naturals, the
queues hold something, a letter has a part, `NoName` is no name. None relates
the number of processes of the client to `LogKey`. The invariants of the proofs
were model-checked on the instances of the runs before.

Only model-checked: liveness (`Served`, `TimedOutIsClosed`, `ReplyIsRead`, `NewIsReceived`,
`SigintEndsAll`, `NobodyWaits`, `NewIsSent`, `LeftLogIsRead`), because fairness and ENABLED are
out of the prover's reach. Every invariant and every action property of the runs
is a theorem, and so is the refinement of `MailService`.

The proofs found two things in the models. `client_fsm_step` had two guards that were both true
for an error in a terminal state, of which TLC took the first, the right one by chance; they are
disjoint now. And `InOrder`, `HeadPresent` and `AcceptedOnce` are not invariant in general:
the induction fails where the array of descriptors has the number of a session that is
over, and the counterexamples it led to are in section 6.

## 5. Assumptions, bounds and fairness

* Bounds: `MaxInputs`, `MaxConnects`, `MaxBacklog` and `MaxScans` limit what the
  environment does, never the code. Eight chunks store a letter and lead the next
  one up to its DATA, with errors in between; two connections are the fewest whose
  descriptors, slots and sets can be confused, and a closed descriptor can be
  given out again. Three letters of the master fill a queue of two in one scan.
* Two starts are the fewest of which one finds the port held, the log queue filled or
  itself signalled by the other; `MaxMessages = 2` lets the queue of one be full, be emptied and
  fill again, as a message that is lost does not count. `Parts = 2` is a letter that is seen half-written; `MaxTime = 1` gives two
  letters one name or two. The workers of `spool` are symmetric; none of its properties names one. Its constraint
  `OneLoses` lets the disk be full for one of the two letters for the same mailbox, which are alike,
  and not for the others. Two
  lines give `strtok()` a first and a last line, and their seven kinds are what the
  patterns tell apart. In `session` every letter is queued once; in `replies` that
  of the first domain is queued twice, so that its list has a next letter when a body is answered.
  The two divide the faults: aborted connections and full sockets are in the first, late replies
  and commands the server does not know in the second.
* `runs` and `runs_heard` divide what would be too much for one instance: the first has two
  processes and two domains, and its constraint `Clean` cuts the states after a start that is
  not clean, of which both properties say nothing; the second has one process and follows
  the log (`Logged`), with everything the first run leaves. In the first `LogKey` is the number of a
  child, in the second it is not; in the code it is 33, and `proc_cnt` is not limited. The second has
  the constraint `Heard`: refused configurations are left to the first, and no queue holds a message
  twice, so that a queue of two holds the messages of two runs, or a letter and what follows it.
  The operator starts a
  run only after the `main()` of the earlier ones has ended: two masters at once are not looked at.
* `Uninit` names what memory nobody wrote may hold: the state of a new descriptor in
  the child, the count of a new domain in the master.
* Chunks are assumed to fit the buffers, names the arrays. A chunk shorter than five
  bytes does not end a message. Short writes of the client are modelled where they matter, in the
  lines of a body (`Transfer`, `ClientWorker`); a command of one line, and a reply of the server, is
  written whole or not at all.
* `recv()` that returns -1 is taken for data by the code, as `nbytes` is a `size_t`.
* Fairness: `WF(loop)`, `WF(worker)` and `WF(master)` stand for loops without end in
  which nothing blocks for more than one second, 15 seconds and a fixed wait. The
  steps are not split into separate fairness conditions because each process is
  sequential. Mail servers are assumed to answer what they were asked (external).
  Peers of the server are never fair. In `processes` only the delivery of a pending
  signal is fair: no handler blocks it for long. In `transfer` the two programs
  are, and the timeout, which needs that the loop of the server goes on. In `ClientRuns` the
  loops of the log process, of the children and of the serving master are fair, not
  `main()` before it and not the children's ends; what keeps a child from
  its next letter is in `ClientWorker`.
* The properties of the server that except `Stale # {}` or `full[i] = "now"` name the
  two situations in which the code gives up: a failing `select()`, and a peer that
  stopped reading, to whom a reply that met EAGAIN is lost.

## 6. Where the code does not do what it says

Besides the run above these were met while modelling. The behaviour is part of
the models, which is why several properties name an exception for it.

In a session of the server:

* RSET is a command of the states `ready` and `expect_mail` (`smtp.tpl:37-38`), where
  `process_rset()` frees a pointer that was never set or was freed before.
* A known command out of order ends the process, although `protocol.h:22` has a reply
  for invalid commands. The workers' master is not told.
* A connection released after QUIT or a timeout stays in `connections[]`; the next
  pass reads it and may free it again.
* A chunk that ends with the terminator is stored with it (`protocol.c:173`, `:185`), each
  chunk becomes a line of its own, and dots are neither doubled by the client nor reduced
  by the server. A line that is a dot or a command, in a chunk of its own, ends the letter or
  the process. A terminator that TCP cut is not seen; the session then ends with 421, and
  the client counts the letter as refused.

* The descriptor of a connection whose peer closed stays in `active_read_fds`
  (`conn.c:151`): `select()` fails for good, `conn_update()` returns before the loop that
  closes connections, and a connection past CONN_TIMEOUT gets no 421 (`protocol.c:91-95`).
  `EveryTimeoutEnds` says it would; it is violated in `liveness.cfg` with `"close"` in `Faults`.

In the processes of the server:

* `logger_start()` returns when `msgrcv()` fails, and `case 0` of `server.c:78` goes on to
  DESTRUCT in the log process, with `log_pid` 0: SIGINT for the whole group.
* A start that fails before the logger is forked also sends SIGINT to group 0, the
  script that started it included. After a failed `fork()` the pid is -1: SIGINT for every
  process of the user. The entries of `worker_pids` that were never written are
  handed to `kill()` as they are.
* A master that is ended before `handle_signal_master()` is installed, or by `exit()`,
  leaves its workers; they hold the port, and the next start fails in `bind()`. So does a SIGINT
  between two `kill()` of DESTRUCT (`server.c:100-103`), where no handler is installed, and a
  `sigaction()` that fails: `prefork()` then calls the handler of a worker, which ends the
  process and tells nobody (`conn.c:274-278`).

In the directory:

* The client may read and rename a letter that is half written: it sends what is there,
  and the server still answers "250 Mail is saved on disk and will be queued for
  forwarding" (`protocol.c:202-207`). The rest is never sent. An empty file ends the
  child (`msg.c:27`).
* Nobody looks at what `fprintf()` and `fclose()` return (`protocol.c:202-205`): with a full disk
  parts of the letter are lost, or all of it, and the server answers 250 all the same.
  `TakenIsOnDisk` is about what `write()` took.
* A burst, two letters of one process for one mailbox in one millisecond, goes into
  one file, or one replaces the other in `cur/`.
* `str_replace()` takes the first "new" of the path: letters of a user with "new" in his name
  stay in `new/` and are sent at every scan. A dot in the name of a user or in
  `mail_dir` moves the tokens of the child, and a domain of three labels is cut short: the domain
  is a wrong one.

In the client:

* `select()` overwrites the sets that say what the process waits for (`scheduler.c:138`): while
  another domain is served, or after 15 s, a descriptor whose reply has not come is dropped, and
  comes back only if its domain is written for. Without `i \in read_fds` `ReplyIsRead` is violated
  in `replies.cfg`.
* Any reply to the body but an error is taken for "mailed" (`domain_proc.c:242-247`). After 502
  "not implemented" the letter is removed from the list; with another letter MAIL follows, to which the
  server did not agree, and without one the state machine has no transition and the process ends.
* `send_msg_body()` ignores what becomes of its lines and `send_data()` takes a short write for
  success, while the socket does not block (`smtp_client.c:17`, `:160`, `:177-188`): when the socket is
  full, text is lost, the end is sent and the server answers 250. If a part of the end is lost,
  the server waits for it until its timeout.
* What came of a reply before the server closed the connection is taken for the whole of it
  (`smtp_client.c:205-233`), a code that was cut for an error.
* The descriptors of domains are not initialised (`scheduler.c:104`), and the state of a new one is not
  set by `register_new_email()`. Zeroed memory is CLIENT_FSM_ST_INIT; from a state in the middle of
  the dialogue the client sends its command to a server that has not spoken, and several commands at once.
* `send_msg_body()` goes on with `strtok(NULL)` where `send_rcpt_to()` stopped
  (`smtp_client.c:151`), but `str_split()` runs `strtok()` too when a letter is registered in
  between: the body is sent empty, or from released memory, and 250 follows. `AcceptedOnce` says what
  survives it.
* After a failed `write()` the descriptor is closed and stays in `write_fds`, and one that was put into
  `except_fds` (`domain_proc.c:192`) is never taken out by a handler: `select()`
  fails with EBADF, and the sets are served as if all were ready, so HELO is sent twice.
  The number may also be given to the connection of another domain, and the first one,
  which still has it in its descriptor, goes on in that session: `InOrder` without `mixed` is violated in
  `session.cfg` with three letters, two of them for the second domain, two descriptors and no
  faults. The greeting meant for the second session is read for the first domain, which is over; its
  next letter makes it send MAIL without HELO.
* With three domains `HeadPresent` without `mixed` is violated too. A session that ended with a
  failed `write()` of QUIT leaves its descriptor in `write_fds`; when its domain moves to
  another descriptor nobody owns the closed one, and each command of the domain visited before it is
  sent twice. The surplus replies are on the connection when that domain moves on as well. They are
  read for a domain that once had this number and is over; two of them take it to HELO
  with an empty list, and one more to `mails_list->val` of it.
* The check for letters that are queued compares with a list the dispatch emptied
  (`domain_proc.c:63`): each scan queues all letters that are still in `new/`.
* A child that calls `msgget()` before the master created its queue stays deaf: without
  its exception for `"deaf"`, `NewIsReceived` is violated.
* With more than 33 processes, which `client.c:45` does not refuse, the queue of process 33 is the
  queue of the log: `ftok("/tmp", 33)` is the key of both, and both kinds of message have one
  `mtype`. The child takes texts of the log for paths, the log process takes paths for texts. A letter
  whose path is lost so is found by the next scan, and perhaps lost again.
* A run that crashes or is killed leaves its letters queued. The next run's children get
  them, and the new master, which knows nothing of them, may give the same domain to
  another process. An orphan also competes with the child of the same number: the same
  letter can be read by both before one renames it, and is then sent twice. "If one of the
  processes already handles this domain, the letter goes to it" (`scheduler.c:76`) is
  `OneProcess`, which is violated in `runs.cfg` without its constraint.
* A log process that looks for its queue before the first message was sent polls queue -1
  for ever (`client/src/log.c:54`); `LeftLogIsRead` is about the others.
* "Unable to start client: incorrect config file" (`client.c:149`) is logged, but `main()`
  ignores the result and forks the children.
* After a refused configuration `mail_dir` may be unset and `opendir(NULL)` is read;
  `client.c` also hands `argv[2]` to the logger when there are no arguments.
* A letter is moved to `cur/` before the server accepted it (`smtp_client.c:60`), and
  is not looked for again when the server refuses it.
* `last_attempt_time` is only ever set to 0, so the branches for retries and for the
  total send time are dead. `scheduler.c:170-176` and `client.c:117-126` are left over
  from a merge and do not compile; the model is of the code without them.

## 7. What is not modelled

* In the client: `client.c:117-126`, which does not compile; `argv[2]` missing when there is one
  argument; a second program started while the first one's master lives; the text of log messages.
* States of a new descriptor outside the enumeration, which are undefined behaviour of the table.
* Configuration of both programs, the patterns of commands other than those `Transfer`
  has, DNS, the contents of addresses, joining of paths.
* Overruns of fixed arrays, the bytes before a short chunk and the strings that are
  allocated one byte short. Undefined behaviour is modelled where it decides what happens
  next (freed connections and letters, unset descriptors, counts and pids) as a
  choice between a crash and going on.

## 8. Plan

Done, in this order: server handlers and loop, abstract service and refinement, client
child, client master, processes of the server with the log queue, the shared directory,
the bytes of a letter, the runs of the client, and the proofs of section 4.

1. `Relay`: master and children composed, then server, directory and client, with an
   abstract specification of delivery that `Spool` and `ClientWorker` implement.
2. Proofs of what `Relay` adds; what is there has a theorem for each safety property.
3. The patterns of MAIL and RCPT in `Transfer`, for names that contain commands.
