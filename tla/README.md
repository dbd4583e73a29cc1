# Formal models of kospam

kospam is a spam filter that runs as an SMTP content filter: `smtpd` takes a
message from the MTA, `kospam` judges it, `send` hands it back. This directory
holds TLA+ models of what is concurrent, persistent or decided over several
steps in it, the TLC configurations that check them, and TLAPS proofs.

    tlc -config MailFlowSafe.cfg MCMailFlow         model-check one run
    tlapm MailFlowProofs.tla                        check the proofs

Paths below are relative to the repository root (`src/...` is its C code,
`go-app/...` its Go code).

## 1. The system

Three daemons that share a directory tree, a MySQL database and a Redis counter:

    MTA --SMTP--> smtpd --> <queue>/<0..N-1>/<id>          go-app/cmd/smtpd
                              | one kospam worker per subdirectory
                              v
                            <workdir>/<id>, <id>.tmp       src/kospam.c
                              |  judged, header rewritten, or consumed
                              v
                            <senddir>/<id>                 go-app/cmd/send
                              |  relayed to the next hop
                              v
                            removed, or <senddir>-error/<id>

| Component | State | Operations | Hard behaviour |
|---|---|---|---|
| mail flow (`smtpd/main.go` `Data`, `kospam.c` `process_dir`/`process_email`, `file.c`, `send/main.go`) | the files and how much of a message each holds, the queue counter | write in place, rename, read, rewrite through `<id>.tmp`, unlink, scan, relay, remove or set aside | no lock anywhere: a worker may take a half-written file; a crash between any two file operations; results of `rename` ignored; the header rewritten through buffers that cut it; the next hop's answer may be lost, late or longer than what is read of it |
| worker pool (`child.c`, `kospam.c` `main`, `child_main`, `sig.c`) | `children[]`, `quit`, `received_sighup`, signal dispositions and masks, processes | fork, reap and fork again, reload, stop, one pass over a directory, retire | three signal handlers that interrupt each other at any point; merged signals; zombies; failing `fork` |
| verdict (`kospam.c` `process_email`, `antispam.c`, `minefield.c`, `wbl.c`, `zombie.c`, `attachment.c`, `history.c`, `counters.c`) | tables `minefield`, `history`, `counter`; `session_data` of the message in hand | attachment check, trap, training, lists, zombie, bounce, size, score, history row, disposition, counters | workers interleave between SQL statements, each of which may fail; many early returns; several limits compared in two places |
| training (`train.c`, `qqq.c`, `hash.c`) | tables `token`, `misc` | look up the signature, read the known tokens, insert the others, up to `MAX_ITERATIVE_TRAIN_LOOPS` rounds | no transactions: two trainers, failures and crashes between any two statements |
| history partitions (`partition.c`, main loop of `kospam.c`) | the partitions of `history` | create tomorrow's, drop the one 31 days old, hourly | UTC days mixed with local days, a database that is away, downtime |
| SMTP session and access list (`smtpd/main.go`, `pkg/acl`) | sender, recipients, XFORWARD data of a session; the rules | connect, XFORWARD, MAIL, RCPT, DATA, RSET, QUIT | state that survives a transaction; rules that contradict each other |
| message parser (`parser.c`, `header.c`, `attachment.c`) | the buffer, the levels of `extract_mime_parts`, `struct Message` | find a header field, find a marker, enter, take or skip a part, append to the body | no tree: the nesting is a matter of where NULs have been written; malformed parts; full buffers; an attached message read by the same function as the queue file |
| classifier (`spam.c`, `qqq.c`, `hash.c`, `chi.c`) | the token hash, the totals of `misc` | look up pairs, judge, look up words, judge again | failing queries, `0/0`, a few tokens, penalties |
| relay dialogue (`send/main.go` `sendEmail`) | the connection: lines not read, TLS | one command and one answer after the other | a line that misses its deadline, or that follows the first one of its answer, is read as the answer to a later command; most answers are ignored |
| tokenizer, digest, decoders (`html.c`, `decoder.c`, ...) | `parser_state` | sequential text processing | none that is concurrent |
| database client, configuration, start-up, command line tools | — | wrappers and one-shot programs | — |

How they interact: smtpd, the workers and the relay by files only (and the Redis
counter that smtpd raises and the relay lowers); the master and its workers by
`fork`, signals and `waitpid`; the workers with each other by the tables.
`smtpd` chooses one of `number_of_worker_processes` subdirectories at random and
worker *i* reads subdirectory *i* only, so that a slot without a worker is a
part of the queue nobody reads.

What makes each part correct:

* mail flow: a message is in one place, has one worker, goes one way, reaches the
  next hop once (plus once per fault of the relay), complete, and ends;
* pool: one worker per slot, always again, and no reload or stop that passes a
  worker by;
* verdict: the counters add up, the mark in the header agrees with the count,
  early returns hide nothing, a released message can be trained on later;
* training: `token` never claims more than `misc`, a round counts every token,
  a request ends;
* partitions: there is always one for the present, a new one is never refused, none
  is dropped early, none is forgotten;
* session: what is queued is what the client asked for, and smtpd and the worker
  agree on what a training message is;
* parser: what is found in the text is what its sender put there;
* classifier: no verdict without evidence, no evidence without a verdict;
* relay dialogue: a removed file was accepted, and a kept one was not.

## 2. Modules

| Module | What it is |
|---|---|
| `MailFlow` | the three daemons over the directories, one action per file operation |
| `MessageFate` | what the whole promises for a message; implemented by `MailFlow` (`KeepsPromise`) |
| `WorkerPool` | master, handlers, workers |
| `WorkerSlots` | what `MailFlow` takes for granted of a worker; implemented by `WorkerPool` (`ServesSlots`) |
| `Verdict` | `process_email` and `check_spam` over the database |
| `Training` | `do_training` over `token` and `misc` |
| `Partitions` | `manage_partitions` from the master's loop |
| `Smtpd` | a session of smtpd: the access list, its transactions, the queue file |
| `Parser` | `parse_eml_buffer` and `extract_mime_parts` over the lines of a message |
| `Classifier` | both rounds of the statistical filter for one message |
| `Relay` | `sendEmail` command by command |
| `MessagePath` | the composition of the four above: one message from the session to the next hop |
| `Handling` | what `MailFlow` takes for granted of a message from the queue to the next hop; implemented by `MessagePath` (`HandlesMessage`) |
| `MimeTree` | extends `MessagePath` by the reference for `Parser`: the tree a sender builds, its lines, what is to be found in it |
| `MailFlowProofs`, `MailFlowCounts` | theorems about `MailFlow`; the second holds those that count messages |
| `WorkerPoolProofs`, `VerdictProofs`, `TrainingProofs`, `PartitionsProofs`, `MessagePathProofs` | theorems about the module of that name |
| `CountingLemmas` | cardinalities of sets that a step changes by one element |
| `MC*` | instances for TLC: model values, small sets of inputs, symmetry |

A definition followed by `\* mutant` is a plausible bug in the definition after
it (the same definition with a dropped guard, a missing reset, a shifted limit).
No action uses it: substituting it shows which property notices.
`PROJECT.json` names, for every definition, the source lines it stands for.

### MailFlow

The state is the file system. `place[m]` is the directory the file named after
the queue id is in, `written[m]` how much smtpd has written to *its* inode, and
`copy[m]` whether the name still refers to that inode (`Live`) or to the file
`fix_message_file` renamed over it. Three lengths suffice: nothing usable, the
envelope lines (and perhaps a part), all. `wpc`, `cur`, `todo`, `seen`, `verdict` are the worker
(`todo` and `seen` are the `readdir` stream: an entry created after `opendir` may
or may not be returned); `relay`, `batch`, `job`, `mail` are `processQueue`, the
goroutines and what each has read. `DataOpen`, `DataWrite`, `DataAccept`,
`DataFail` are the Data handler; `OpenDir`, `Take`, `EndScan` are `process_dir`;
`Judge`, `WriteTmp`, `RenameTmp`, `Dispose` are `process_email` with
`fix_message_file`; `ReadSendDir`, `Dispatch`, `DispatchBad`, `EndBatch`,
`SendEmail`, `Remove`, `MoveToError` are `send`. Every file operation has a
failing branch, which does what the code then does (usually log and go on), and
every daemon may crash and start again. `early`, `damaged` and the fault counters
exist for the properties.

Two sets of messages stand for what the text of a message does to it. `Clipped` are those
whose header `fix_message_file` cannot carry over: it copies the header line by line
through 512 bytes into `MAX_MAIL_HEADER_SIZE` of them (`file.c:103-138`), so that they
are relayed incomplete though nothing failed (`Rewritten`). `Misread` are those whose
recipients the parser gets wrong: a tagged one beyond its buffer, or an attached message
with recipient lines of its own (`parser.c:207`); a worker may then train with a message
that is not for training, or relay one that is (`Verdicts`).

The filter's decision is any decision the code could reach on a file of that
length; the relay's dialogue is reduced to accepted or not and `sendEmail`'s
true or false, with two kinds of disagreement: a lost answer (accepted, false)
and a line that was not read with its command (false positive: every read has a deadline
whose error is ignored, and takes one line of an answer that may have several, so that the
last line read may be the answer to an earlier command).

### WorkerPool

`stack` holds the frames of the handlers that interrupt each other: `takesig` is
installed with an empty mask, so that a handler is interrupted by the other two
signals and never by its own. Only the top frame runs. `pending` is a set,
therefore signals merge. `chld`, `hup`, `term` are the places the three handlers
are at: between `waitpid`, `fork` and the assignment to `children[i].pid`; between
reload and `kill_children`; before `quit = 1` (`SetQuit`; a SIGCHLD taken before it still
forks), between that and `kill_children`, and between `kill_children` and `exit`. A process is a
record: its state, slot, pending and blocked signals, `received_sighup`,
messages. A pid is reused as soon as it has been reaped. Until a new worker has
set its own handlers it has the master's, or the default actions when it was
forked before the master set any: it may then be the one that reloads, signals the
siblings it knows (`Known`, a copy of a part of `children[]`) or leaves through
`p_clean_exit`, because of a TERM or of a configuration it cannot read. `missed` remembers workers a reload did not
know of, `outdated` those that run with an older configuration than the master's.

### Verdict

One action per SQL statement, in the order of the code: `Start`, `Attachments`,
`Trap`, then `check_spam` (`Train`, `MyNetwork`, `Listed`, `Minefield`,
`Evaluate`), `WriteHistory`, `Dispose`, `Count`. A message is what the parser finds
in it: recipients, client, whether it is infected, listed, from a zombie, our own
bounce, its size, the watermark it quotes. A query that fails is "not found", an
update that fails is logged. `blind` notes what a worker could not see because a
query failed, `armed` whether the client was trapped before the message came.
Scores are chosen here, `Classifier` is where they come from. Left out: `update_token_dates` and the digests'
own counters, which nothing here reads.

### Training

`token[t]` is the sequence of the rows of a token (the index is not unique),
`misc` the one row of that table. `ReadTokens` and `InsertTokens` are
`introduce_tokens`; `Judge`, `TrainTokens`, `TrainMisc` one round. `unpaid` counts
updates of `token` whose update of `misc` will never come.

### Partitions

Time in hours from a midnight UTC; a partition has a name (a day) and a bound.
`Tomorrow`, `Created`, `Expired`, `Dropped` are the date arithmetic with the local
offset where the code has it. `Manage` runs once an hour, `StartMaster` first;
the master may be down. `create_partition` and `drop_partition` open the database each for
itself, so that either may fail without the other (`Managed`).

### MessagePath

`MailFlow` looks at many messages and at nothing in them; `MessagePath` follows one
and looks at what each stage hands to the next. `stage` says where the message is;
`Session`, `TakeQueued` (or `TakeOld`), `Parse`, `CheckSpam`, `Judge`, `Release`, `Send`
run the steps of the module whose turn it is. The file begins with the envelope lines
smtpd wrote (`EnvelopeLines`), and the parser reads them; what it is left with decides about
training (`TrainingRequest`). `Handed` is what `send` finds in the header after
`fix_message_file`: the recipients of a line of more than 511 bytes are cut, and, as the CR is
lost too, the fields of the next line follow (`Cut`, `Field`). What a stage leaves behind is forgotten
when the next one starts, as the code frees it, and no later action reads it.
`file` is a queue file: its sender, recipients and XFORWARD host, whether smtpd counted
it, and two ghosts, `told` (what the client said in that transaction) and `earlier`
(recipients named in earlier ones).

### Smtpd

One action per handler: `NewSession`, `Xforward`, `Mail`, `Recipient`, `Rset`, `Data`,
`DataRefused` (the file cannot be opened), `Logout`. The SMTP library is external: it
calls the handlers in the order the protocol allows and forgets its own transaction
after DATA and RSET, which is `told`; the session's `Reset` is empty in the code and
here. Half-written files are `MailFlow`'s matter.

### Parser and MimeTree

The text is a sequence of lines of seven kinds: blank, boundary marker, Content-Type,
watermark, our signo, the envelope lines (sender, recipients) and text. Of the envelope
lines Kospam-Xforward is left out: no decision of `MessagePath` reads it.
A message within the message has its header fields, envelope lines included, read by
`Fields` like the outer one; `TakeMessage` clears the header only, so the envelope stays. The parser has no tree either in the code: it searches
(`FindMark` is `strstr`, so that a marker that begins with the boundary is found too),
ends a part where the next marker starts, and calls itself; `levels` is the stack of
calls. `SkipUntyped`, `SkipUnended`, `EnterMultipart`, `LeaveLevel`, `TakeText`,
`TakeMessage`, `TakeAttachment`, `EndLevel` are the branches of the loop, with the
early `return` and the `continue` that does not advance. `MimeTree` starts from the
other end: `FileOf` writes a tree as lines, `Expected` walks the tree. Both are recursive;
`MessagePath` knows the lines of a message as a constant (`TextOf`) only, which the
instance for TLC gives the value `FileOf`.
Leaves are plain, bulky (fill the body buffer), long named listings, calendars,
untyped, untyped texts that quote a Content-Type, parts without a blank line (long and
shorter than a marker), binaries and images; a message within may be with or without
envelope lines, as a queue file that was forwarded.

### Classifier

`QueryTotals`, `JudgePairs`, `JudgeWords`, with the failing branch of each query, which
leaves zeros and goes on. `Spaminess` is `qry_spaminess` in integers (1/10000), with
`NotANumber` where the quotient is 0/0. Of the combined probability only its place
against the two limits is kept (`Verdicts`): nothing deviates, so 0.5; one token, so its
own p; two that agree, past the limit on their side; tokens that disagree, anywhere.
`Suspect` are the marks of `post_parse` and the like (`NO_MESSAGE_ID*`, `UNKNOWN_CLIENT*`):
they start at 0.9999 as a penalty does, but are looked up, rated and trained as pairs are
(`Added`); the penalties of `add_penalties` stay what they are.

### Relay

`wire` holds the lines on their way to `send`. Connecting and each command are followed by
one `ReadString` with a deadline (`ReadLine`); when that passes, the line stays on the wire,
as do the further lines of the answer (`Answer`), and is taken for a later one. Only a
positive answer to EHLO is read to its last line. `slips` notes, for each line left behind,
where that happened. The next hop is external: it answers every command, in order, with
either outcome and in any number of lines, the greeting too, and accepts text only
after a DATA it has agreed to.

## 3. What is checked

Passing runs, with the distinct states TLC visits:

| Run | Instance | States | Shows |
|---|---|---|---|
| `MailFlowSafe` | 2 messages, 2 workers, 2 relay jobs, 1 fault of a worker or of the relay, 1 Redis error; one message is for training, clipped and misread | 5045746 | `TypeOK`; `OneWorker`: no message has two workers, even when the rename out of the queue fails; `OrphansPaidFor`: at most one message is left behind per fault; `NeverTakenAgain`: what is left in the work dir is not picked up ("prevents any looping issue", `kospam.c:165`); `TruncationHasCause`: an incomplete copy leaves only if the message was taken early, an operation on it failed or its header does not fit; `AtMostOnce`: one duplicate per relay fault at most; `ReleasedIsSent`: a removed file was accepted, but for one per dialogue with a line that was not read with its command; `CounterCoversQueue`: the counter is not below the queue; `KeepsPromise`: implements `MessageFate` |
| `MailFlowLive` | null sender and training message, 1 worker, 1 relay job, 1 fault of either | 1023010 | `Settles`: what is in the queue ends, or is stranded by its worker's fault; `TrainedByAddress`: a training message is learnt from and not relayed unless it was read too early, and no other is learnt from, but for those misread or failed on |
| `MessagePath` | a session of 2 transactions or one old file of any of the trees, 2 lines not read with their command | 5092466 | `DeliveredAsAsked`: every recipient of the transaction is offered, from its sender, and nobody but those of the session, unless the list does not fit a line of `fix_message_file`; `CountedAsTrained`: smtpd and the worker agree on training messages unless the parser's buffer is too short for the list or a message within names recipients of its own; `ReadAsTree`: what `Parser` finds is what `MimeTree` expects; `SpamNeedsEvidence`, `EvidenceIsUsed`: both directions of "marked because of its tokens"; `RemovedWasAccepted`: which lines left unread (late, or further ones of an answer) may lose or duplicate a message, and that no others do; `ReadsOn`: each turn of `extract_mime_parts` reads on, or returns, and none changes nothing; `SignoDecides`: no later header or part takes the signo back, and then the message is not judged, so that, with `ReadAsTree`, no bounce of a message of ours is, however deep it quotes it; `HandlesMessage`: implements `Handling` |
| `WorkerPoolSafe` | 2 slots, 3 pids, 1 reload, 1 crash, failing forks, retiring workers, a configuration that may vanish | 1191271 | `OneWorkerPerSlot`, `TermReachesWorkers`, `ReloadReachesRecorded`, `ServesSlots`: implements `WorkerSlots` |
| `WorkerPoolLive` | 2 slots, 1 reload, 1 crash | 533466 | `SlotsAreServed`: an empty slot is filled |
| `Training` | 2 trainers, 2 tokens, 2 rounds, 2 requests, 1 failure, 1 crash | 76643 | `RowsAreBacked`, `RoundCoversMessage`; `RequestsEnd`: a request ends, sure or not |
| `Verdict` | 2 workers, 2 messages of 32 and 5 kinds, 1 failure, 1 crash | 932753 | `CountersAddUp`, `MarkedAsCounted`, `InfectedIsSeen`, `ListedIsNotDropped`, `TrappedIsKnown`, `ReleasedCanBeTrained` |
| `Partitions` | days of 6 hours, offsets -3..3, 6 days, 2 failures, 8 hours down | 959173 | `AlterFits`: the ALTER TABLE of a new partition is never refused; `InsertFits`: the present has a partition; `KeepsRows`, `OldAreDropped` |

The type invariants of `Verdict`, `Training` and `Partitions` are in no run: they are proved
(section 4).

Why these bounds are enough to meet the hazards. Two messages and two workers are
what a race needs, one of each for a crash; a third adds no new kind of
interleaving, as messages only meet in a worker's scan, a relay's batch and the
counter, and all three occur with two. One fault (`MaxFaults`), of either daemon at any
point, as each property states what *one* fault may cost (`<= workerFaults`, `<= 1 +
relayFaults`); that the cost adds up for many is what the proofs add. In the pool
two slots and a third pid make a pid reused in another slot while the old one is
still recorded; one reload, one crash and a stop give three nested handlers. A
retired worker needs `MaxRequests = 1` and a pass with at most one message. In
`Verdict` the score set has a value on every limit and between any two. In
`Partitions` six hours keep a day's structure (before, at and after local
midnight, offsets of both signs); two failures take both operations of one round, or either
of two; six days let the first partition reach the age
at which it is dropped (`Keep = 2`) several times over.

In `MessagePath` two transactions make the second inherit from the first, and four
recipients overflow a line with room for two (`LineRoom`) and a parser's buffer with room
for three (`HeaderRoom`), with `spam@` inside or outside. The real numbers are in this order,
511 bytes against some thousands. The trees have up to three parts at the outer level, multiparts and messages in
them with two, messages with envelope lines of either sender and a short, a tagged or an
overlong list, a multipart of a message of a multipart, and inner boundaries that
differ from, equal or extend the outer one; a body of three and two attachments
(`BodyRoom`, `MaxAttachments`) overflow at every position. As the text of a message and
the session that queued it do not influence each other, sessions queue a plain leaf
(`PlainTree`) and the trees come in old files, from alice or MAILER-DAEMON. Two pairs and
one word, each with 0, 1 or 4 messages of each kind out of 0 or 5, reach every row of
`Verdicts`, the radius from both sides and 0/0; one of the pairs is a `Suspect`. Two lines
that are not read with their command (`MaxSlips`) are what it takes to lose a message when
the hop answers EHLO in one line; one will do at the greeting or in an answer to EHLO of several.

`Symmetry` (in `MCMailFlow`), `PidSymmetry` and `MCSymmetry` permute workers, messages or
pids that nothing tells apart and are used in safety runs only. Deadlock is not checked in
any run, as every system here comes to rest when its bounded inputs (messages,
signals, requests, days) are used up; that nothing rests too soon is what
`Settles`, `SlotsAreServed` and `RequestsEnd` say.

### Fairness

* `MailFlow`: weak fairness of each worker, of `processQueue`, of each goroutine. The
  loops of a worker and of the relay never end, `sendEmail`'s reads have
  deadlines, so a runnable process takes its next step. Nothing is assumed of
  smtpd, as a client may stall for ever, and no fault is fair.
* `WorkerPool`: weak fairness of the master (including the taking of a pending
  signal) and of each worker. Nobody has to send a signal or crash.
* `Training`: weak fairness of a worker's next statement.

### Runs that fail, and what they show

| Run | Property | What happens |
|---|---|---|
| `WorkerPoolLiveFork` | `SlotsAreServed` | `fork` fails in the SIGCHLD handler: -1 is stored in the slot (`child.c:125`), no `waitpid` will ever return it, and the subdirectory of the slot has no reader any more. "number of worker processes" (`etc/example.conf:18`) |
| `WorkerPoolReload` | `ReloadReachesAll` | SIGHUP interrupts the SIGCHLD handler between `fork` and the assignment (`child.c:125`): the new worker is in no slot, gets no HUP and keeps the old configuration. "send a HUP signal to let clapf re-read its config" (`Changelog:1899`). `ReloadReachesRecorded` shows this is the only way to be missed |
| `VerdictZombie` | `ZombieIsMarked` | with `message_from_a_zombie=1` `check_spam` returns (`antispam.c:95-99`) before the spam header is added (142-143): counted as spam, released unmarked. "1: mark it as spam" (`etc/example.conf:147`) |
| `VerdictHistory` | `HistoryTellsVerdict` | the history row is written (`kospam.c:76`) before the status is set (81-89), so its column `spam` is always `S_HAM`, and the search index's condition on it (`etc/sphinx.conf.in:30`) cannot tell spam from ham |

### Disagreements met while modelling, without a run of their own

Each follows from a single line or a short reading, so that a run adds nothing:

* The queue size smtpd logs (`smtpd/main.go:75-78`) only grows for messages the
  filter discards or the relay sets aside: `send` decrements it after a delivery only
  (`send/main.go:218`).
* SIGCHLD gets its handler after `child_pool_create` (`kospam.c:335-337`): a
  worker that dies in between is reaped only when another one dies. This is why
  `WorkerPoolLive` has `EarlyDeaths = FALSE`.
* `max_requests_per_child` ("number of processed emails per each kospam process",
  `etc/example.conf:21`) is compared after a whole directory (`kospam.c:209, 221`).
* `introduce_tokens` inserts a token again that has a row of zero counts
  (`train.c:46`), after an earlier request that ended at once or next to another
  trainer, and the index is not unique (`util/db-mysql.sql:16`). `RowsAreBacked` and
  `RoundCoversMessage` hold for every row all the same.
* `spaminess_oblivion_limit` (`etc/example.conf:179-180`) is read (`cfg.c:90`) and
  used nowhere.
* "greater than this value" (`etc/example.conf:83`) skips a message of exactly
  that size too (`antispam.c:119`).
* A report sent to someone else first and to `spam@` is learnt as ham: any recipient
  makes a training request (`parser.c:97-106`), the first one decides the column
  (`train.c:174`).
* `c_mynetwork` is never incremented (`kospam.c:55-58`).
* `sdata->blackhole` is never set, so that `antispam.c:132-139` is dead code; no
  model has that branch.
* In `p_clean_exit` reached from `fatal` at a reload `quit` is still 0: a worker that
  dies meanwhile is replaced and the new one is not told to stop. Therefore
  `TermReachesWorkers` speaks of a master told to stop (`quit`).
* Nothing sets `state->from`, so that the statistical whitelist of senders
  (`spam.c:115-136`, `Changelog:1627`) never applies.
* smtpd always writes a `Kospam-Xforward` line that is not empty (`smtpd/main.go:162`), so
  that the fallback to the Received fields (`parser.c:142-176`) with `skipped_received_ips`
  is not reached; without XFORWARD a message has no client.
* The value of an empty header field is the line below it (`header.c:166-168` skips white
  space past the end of the line). `<>` never is the sender the parser sees, and only
  bounces from MAILER-DAEMON are searched for our signo (`parser.c:227`).
* `Reset` is empty (`smtpd/main.go:191`): recipients and XFORWARD data of an aborted or
  finished transaction stay in the session. `DeliveredAsAsked` says what that amounts to.
* `TestLoadACL` takes the first matching rule (`acl_test.go:41-72`), `NewSession`
  (`smtpd/main.go:86-97`) lets any rejecting rule win.
* With a database of spam only, or ham only, every quotient of `qry_spaminess` for a token
  of the other kind is 0/0; such a token has no side and is left out by every comparison.
* A single penalty token (no subject, say) with nothing else decides "spam": its 0.9999 is
  the combined probability.
* A top-level body that is an attachment or a calendar leaves no flag and no attachment;
  a part without a Content-Type is skipped, though it is plain text; a part without a blank
  line drops the rest of its level, a multipart without a boundary parameter ends its level.
* A marker is found by prefix: when an inner boundary extends an outer one *and* a part is
  malformed, the parser gets out of step; `ReadAsTree` excludes exactly that.
* `sendEmail` ignores refused recipients as long as the text is accepted, and does not see
  STARTTLS when it is the last line of the answer (`250 STARTTLS`). One line left unread, late
  or because its answer has one before it, may keep an accepted message; a message that was
  not accepted is removed only for two of them, or for one of the greeting or of an
  answer to EHLO of several lines. The first line of a negative answer to EHLO is its last
  for the code (`send/main.go:111`).
* The recipients are read again in an attached message (`parser.c:207`; only `m->header` is
  cleared before, `parser.c:440`): a `Kospam-Envelope-Recipient: spam@...` line in it makes
  the worker learn from a message smtpd has counted, and nobody decrements the counter. "Only
  increment the counter if it's not a training message" (`smtpd/main.go:175`).
  `CountedAsTrained` excepts such messages (`Enclosed`).
* `fix_message_file` cuts header lines at 511 bytes and drops them past
  `MAX_MAIL_HEADER_SIZE` (`file.c:103-138`). A `Kospam-Envelope-Recipient` line of
  more than that loses recipients, and the next line is read as a part of it.
  `DeliveredAsAsked` and `TruncationHasCause` say what that amounts to.
* `NO_MESSAGE_ID*` and its like are added with the probability of a penalty but with the type
  of a pair (`parser.c:80-82`): they are looked up, and a token of many ham messages in the table.

## 4. What is proved

Every safety invariant and action property of the passing runs but `ReadAsTree`, all three
refinements, and some properties no run checks (`PartsNest`, `BodyInOrder`,
`DialogueAdvances`, `RequestsAdvance`), for every value of the constants. The assumptions are the named
ones of the modules (`ConstantsAssumption`, and in `MessagePath` one per component): bounds
are naturals, `None` and its like are none of the things they stand beside, and where a
property counts messages or trainers these are finite. Those that say more:

| Assumption | Why |
|---|---|
| `Cardinality(Pid) > Slots` (`WorkerPool`) | the master can fork as long as a pid is free |
| `-Day < o`, `24 * o <= 14 * Day` for offsets (`Partitions`) | no time zone is ahead of UTC by more than 14 hours, none behind by a day |
| `MaxDays # 0` (`Partitions`) | the clock stands within the first day already when the master starts |
| `BodyRoom # 0` (`Parser`) | `m->body.data` is an array; of a body of no size a text of no size would "fit" |
| `Written(f)` for old files (`MessagePath`) | they are what sessions left behind; that a session's own files are `Written` is proved (`QueueFileWritten`) |
| `LineRoom # 0`; `Cut`, `Field` are no recipients (`MessagePath`) | a line of 511 bytes holds an address; what is cut is not one |
| `Suspect \subseteq Pair` (`Classifier`) | the marks are added with the type of pairs |
| `Counts`, `Totals` are pairs of naturals, `Pair` and `Word` finite and disjoint (`Classifier`) | unsigned columns; a token has one type |

| Module | Theorem | States |
|---|---|---|
| `MailFlowProofs` | `Inductive` | `Spec => []IInv` |
| | `TypeCorrect` | `Spec => []TypeOK` |
| | `ProcessedByOneWorker` | `Spec => []OneWorker` |
| | `DeliveredAtMostOnce` | `Spec => []AtMostOnce` |
| | `TruncatedForACause` | `Spec => []TruncationHasCause` |
| | `TrainingStaysLocal` | `Spec => []TrainedByAddress` |
| | `LeftBehindForGood` | `Spec => NeverTakenAgain` (an action property) |
| | `PromiseKept` | `Spec => KeepsPromise`: every step is a step or a stutter of `MessageFate` |
| `MailFlowCounts` | `CountsInductive` | `Spec => []CInv` |
| | `RemovedAfterDelivery` | `Spec => []ReleasedIsSent` |
| | `OrphansHaveACause` | `Spec => []OrphansPaidFor` |
| | `CounterKeepsUp` | `Spec => []CounterCoversQueue` |
| `WorkerPoolProofs` | `Inductive`, `TypeCorrect` | `Spec => []IInv`, `Spec => []TypeOK` |
| | `OneWorkerInASlot` | `Spec => []OneWorkerPerSlot` |
| | `StopReachesWorkers` | `Spec => []TermReachesWorkers` |
| | `ReloadReaches` | `Spec => []ReloadReachesRecorded` |
| | `SlotsServed` | `Spec => ServesSlots`: every step is a step or a stutter of `WorkerSlots` |
| `TrainingProofs` | `Inductive`, `TypeCorrect` | `IInv` is inductive, `Spec => []TypeOK` |
| | `TablesAgree` | `Spec => []RowsAreBacked` |
| | `RoundsCover` | `Spec => []RoundCoversMessage` |
| | `RequestsAreBounded` | `Spec => RequestsAdvance` (an action property), and the number it counts down from |
| `VerdictProofs` | `Inductive`, `TypeCorrect` | `IInv` is inductive, `Spec => []TypeOK` |
| | `CountersRight` | `Spec => []CountersAddUp` |
| | `InfectedSeen` | `Spec => []InfectedIsSeen` |
| | `MarksAgree` | `Spec => []MarkedAsCounted` |
| | `ReleasedTrainable` | `Spec => []ReleasedCanBeTrained` |
| | `TrapsKnown` | `Spec => []TrappedIsKnown` |
| | `ListedKept` | `Spec => []ListedIsNotDropped` |
| `PartitionsProofs` | `Inductive`, `TypeCorrect` | `Spec => []IInv`, `Spec => []TypeOK` |
| | `NeverRefused` | `Spec => []AlterFits` |
| | `HistoryOpen` | `Spec => []InsertFits` |
| | `OldGone` | `Spec => []OldAreDropped` |
| | `RowsKept` | `Spec => KeepsRows` (an action property) |
| `MessagePathProofs` | `Inductive`, `TypeCorrect` | `Spec => []IInv`, `Spec => []TypeOK` |
| | `Delivery` | `Spec => []DeliveredAsAsked` |
| | `Acceptance` | `Spec => []RemovedWasAccepted` |
| | `Counting` | `Spec => CountedAsTrained` (an action property) |
| | `Evidence` | `Spec => []SpamNeedsEvidence` |
| | `EvidenceUsed` | `Spec => []EvidenceIsUsed` |
| | `Nesting` | `Spec => []PartsNest` |
| | `ReadingEnds` | `Spec => ReadsOn` (an invariant and an action property) |
| | `BodyOrdered` | `Spec => BodyInOrder` (an action property) |
| | `SignoSpares` | `Spec => SignoDecides` (an action property) |
| | `DialogueEnds` | `Spec => DialogueAdvances` (an action property) |
| | `MessageHandled` | `Spec => HandlesMessage`: every step is a step or a stutter of `Handling` |

Hardly any of the properties is inductive. Each module has an invariant (`IInv`; `CInv` for
what counts) that is the conjunction of named parts, each part with its lemmas for `Init`
and for the steps that can disturb it.

`MailFlowProofs`:

* `TypeOK`, with the link between a worker's state and the message it holds;
* `WorkerInv`: a worker's message is of its own subdirectory, and in the work dir
  unless its rename failed. Two workers with one message would need a file in two
  subdirectories: `OneWorker`;
* `RelayInv`: outside a batch nobody relays (`wg.Wait`), a job's file is in the send
  dir, a file there without an accepted delivery in hand has been sent at most once per
  fault so far. A duplicate can only be bought with a fault: `AtMostOnce`;
* `LengthInv`: a message that was neither taken early nor hit by a fault is complete in
  its inode, and has its envelope lines at least in `<id>.tmp`, the rewritten copy and the
  relay's memory; if its header fits, it is complete there too: `TruncationHasCause`;
* `TrainInv`: a training message that is not misread gets past its worker's decision only
  if it was taken early or hit by a fault, and only training messages, misread ones and
  those hit by a fault are learnt from: `TrainedByAddress`.

`FateStep` proves the refinement from `RelayInv` and the types.

`MailFlowCounts`. A bound on a number of messages is kept when each step adds at most one to
the set and raises the other side with it; as `Message` may be infinite, that the set is
finite is part of the invariant. The sets are larger than those of the properties, to
count what a later step will reveal: `UnsentInv` counts the jobs that have taken the answer
to an earlier command for their own, `OwingInv` the messages in hand whose `<id>.tmp` will stay behind.
`CounterInv` is inductive as it stands.

`WorkerPoolProofs`. `FrameInv` says which handlers are on the stack, that `quit` is set from the first statement
of SIGTERM's on, and that SIGCHLD's does nothing above it from then (a fork it began before
has been stored by then, as SIGTERM's waits for it); `SlotInv` that a live worker is in its slot or in the frame
of the handler that is about to store it, and that the slot of a worker to be forked is
free: `OneWorkerPerSlot`. `TermInv` is about the moments after `kill_children`, of SIGTERM's
handler and of SIGHUP's interrupted by it: nobody enters a slot any more. `ReloadInv`: a
worker that is out of date and was recorded has a HUP coming, pending or caught.
`SlotsServed` maps the processes of a slot to the one worker of `WorkerSlots`;
that there is at most one is what makes the map a function.

`TrainingProofs`. `RowsAreBacked` is inductive with the types, because what is owed counts the
trainers between their two updates. `RoundCoversMessage` needs `Introduced`: a token a
trainer goes on with has a row, which nothing deletes. `RequestsAdvance` needs the types only:
`Left` counts the statements a request may still take, from `3 * Rounds + 3`, and `JobStep`
says where each action leaves each trainer.

`VerdictProofs`. `JobsJudged` follows `process_email` statement by statement: what the job record
says once the worker is past it; `FatesJudged` is the same of the messages disposed of,
so that a property of fates is one of jobs at `Dispose`. `CountersSettle` adds to
`CountersAddUp` the workers that have still to count.

`PartitionsProofs`. All rests on `BoundsInv`, the relation between a partition's name and its
bound: they are the same day west of Greenwich and a day apart in it and east of it, as the name
is a UTC day and the bound is shifted by `tm_gmtoff`. `NamesInv` says that none is named after a day later than tomorrow's. With both, a
name that is not there yet belongs to a bound above all others: `AlterFits`. `CoverInv` says
how far the last `create_partition` that was answered reaches, for the third of a day in which
no `drop_partition` can undo it, `ServedInv` that no round was in the future.

`MessagePathProofs`. One invariant per component, kept by its steps (`SmtpdInv`, `ParserInv`,
`FilterInv`, `RelayInv(sender, recipients)`), and what a stage hands to the next:
after smtpd the file is `Written`, in the relay `RelayInv` holds for the file's sender
and what `fix_message_file` has left of its recipients (`Handed`). `DeliveredAsAsked` joins both ends.

* `RelayInv`: with no line left behind there is nothing unread where a command is sent
  (`InTime`); with one, after EHLO, whether late or the second of its answer, there is
  always exactly one line too many, and in place of
  the answer to the text send reads that to DATA, which is never positive (`Behind`);
  the next hop accepts only what it has asked for (`HopInv`); the recipients named and those
  left are those of the header (`NamedInv`). `RemovedWasAccepted` follows from the first two.
* `SmtpdInv`: the recipients of the session are those of the transaction and of earlier ones.
* `ParserInv`: the body is no longer than what is used of its buffer, which is within
  it; every call of `extract_mime_parts` stands before the end of its part. It does not speak
  of what the lines say.
* `EnvelopeInv`: the envelope lines smtpd wrote are the first of the text, and with none in a
  message within they are what the parser has: `CountedAsTrained`. That no call of
  `extract_mime_parts` leaves the text (`WithinText`) makes it see no others.
* `FilterInv`: a node of the hash is as `addnode` left it (`Added`) or as its row of the table
  says (`NodesInv`), a pair after the first round, a word after the second. `KnownIs` does the
  arithmetic of `qry_spaminess` once, for any counts: a probability beyond the radius has
  more evidence on its side, and four messages of spam only are beyond it.
* `Nest`, `Place`: what `PartsNest` and `Position` say, of any sequence of levels. `GoTo` keeps
  them for every line within the top level (`NestGoTo`), a call for the rest of its part
  (`NestAppend`); `FindIs` and `FoundIs` say of the searches that what they find is a
  line of the stretch they search, which is all the three properties of the parser need. Each action then
  moves `Place` on (`...Forward`), which gives `PartsNest`, `ReadsOn` and, with what each action
  adds to the body (`...Adds`), `BodyInOrder`. That `continue` does not stay where it is
  (`NextIsAnother`) rests on the call's position being before the end of its part (`ParserInv`).
* `SignoInv`: a signo is seen only while parsing what looks like a bounce. It is what makes
  `check_spam`'s test for both the same as a test for the signo: `SignoDecides`.
* `Handling`: `RelayTurn` says which result every step of the dialogue leaves, and that a miss
  is never taken back; `Untold`, that the next hop has heard nothing before the
  dialogue; `RelayInv`, that without a miss the result is the next hop's answer.
* `Ahead` numbers the commands still to come; within one number a step reads a line of the
  answer or names a recipient. The order of the pair is what `DialogueAdvances` says.

Two assumptions came out of the proofs. `TypeOK` of `Partitions` was false for `MaxDays = 0`
(the master starts some hours into the first day) and the body of `Parser` could outgrow what
was used of it for `BodyRoom = 0`; neither value is one the code can have, and both
are excluded now.

Only model-checked:

* `Settles`, `SlotsAreServed`, `RequestsEnd`: liveness under fairness, which the prover does
  not reach. What makes `RequestsEnd` true apart from fairness, the bound on the statements of a
  request, is proved (`RequestsAreBounded`).
* `ReadAsTree`: it speaks of a tree and its lines, which are recursive definitions; what
  those compute for every tree needs induction over trees,
  which the provers cannot do here. Proved is what can be said of the parser for every text,
  tree or not: `PartsNest`, `ReadsOn`, `BodyInOrder`, and `SignoDecides`.

## 5. What is not modelled

* Text processing inside a line or a part: decoding of base64, quoted printable and
  entities, HTML, the cutting into tokens, digests. It is sequential and each part of it is
  a function of its input; `Parser` says which text gets there.
* The value of the combined probability (`chi.c`): floating point; only its place against
  the limits decides.
* `update_token_dates`: the dates are read by the nightly purge only.
* The reading of the access list's file, of the configuration, the database client,
  privileges, logging, pid files, the command line tools: one-shot or pure I/O.
* The escaping of the text in the relay's dialogue: the text is one event in `Relay`.
* Connections to the database and to Redis as resources: `manage_partitions` does not close
  its connection on an early return (`partition.c:70`), and `pkg/cache` may open several
  clients (`cache.go:33`); no state of the models depends on either.
* Both daemons are taken to agree on the number of workers and subdirectories.
  smtpd takes 1..47 (`pkg/config/smtpd.go:88`), kospam clamps to 2..`MAXCHILDREN`;
  they agree when the same number of 2..47 is configured and not changed by a reload.
* The semaphore of `processQueue` as a counter of its own: it is the number of jobs
  (`SemaphoreFree`), as both branches of a goroutine meet before it releases
  (`send/main.go:227`).
* Directory passes over empty directories and scans of an empty send dir (they change
  nothing).
* Kernel behaviour is taken from POSIX: `rename` is atomic, `readdir` returns every
  entry that was there at `opendir`, a pending signal is one bit.

## 6. Plan

Order: what decides whether mail is lost or duplicated first.

1. `MailFlow` with `MessageFate`, its runs and proofs. Done.
2. `WorkerPool` with `WorkerSlots`. Done, with proofs.
3. `Verdict`, `Training`, `Partitions`. Done, with proofs.
4. `Relay`, `Smtpd`, `Parser`, `Classifier`, composed in `MessagePath`, and `MimeTree`. Done,
   with proofs of all that is not about trees.
5. What of the parser needs no tree (`PartsNest`, `ReadsOn`, `BodyInOrder`, `SignoDecides`),
   `Handling` between `MailFlow` and `MessagePath`, and why the loops of the relay and of a
   training request end. Done, with proofs.
