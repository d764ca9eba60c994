# agentnoise in TLA+

agentnoise lets a phone run coding agents (Codex, Claude, Hermes) on a desktop
by chat: White Noise delivers messages, a *transport* process journals and
routes them, a SQLite *queue* carries jobs, and a *worker* process runs the
agent and posts the answer. This directory models that program: TLA+ modules
translated from `src/src/*.rs`, configurations for TLC, and theorems that TLAPS
checks.

## 1. The system

| part | state | operations | what is hard |
|---|---|---|---|
| job queue (`queue.rs`) | table `jobs`: status, claimed_by, source and reply chat, unique source_event_id | `enqueue`, `claim_next`, `mark_running`, `mark_succeeded`, `mark_failed`, `active_for_reply_group` | several processes on one table; statements that fail; unguarded updates |
| worker loop (`main.rs` `worker_start`, `run_queued_job`) | the job in hand | claim, mark, run, mark, reply, mirror | death at any point, failing writes and sends, the order of record and reply |
| transport listener (`main.rs` `listen`, `dispatch_agent_request`) | event being handled, its chat | dedupe, history, interception, work chat, enqueue | redelivery, restart, check-then-write against the worker |
| event journal (`events.rs`) | seen ids in memory, JSON lines in a file | `open`, `already_seen`, `record_inbound` | lost appends, crash between journal and queue |
| inline execution (`agentnoise up`) | one thread per job | run without the queue | as the worker, without persistence |
| subscriptions (`subscriptions.rs`, `main.rs`) | per chat: stream process, restart count, last event, polls | subscribe, mark, poll, kill, restart | stale kills, lost restarts, missed messages |
| job store (`jobs.rs`) | `jobs.json`, one copy per process | create, mark, finish, cancel, recover | each process overwrites the file whole |
| agent runner (`runner.rs`) | child process, captured output | spawn, wait, timeout, cancel, retry | exit against timeout against cancel |
| runtime locks (`runtime.rs`) | lock and status files per role | acquire, probe, release | stale owners, check-then-remove |
| approvals (`approvals.rs`) | a status per request, in memory and in `approvals.json` | create, approve, deny, list, expire | expiry against approval, failed saves, old copies written back |
| pairing (`auth.rs`, `app.rs`) | allowlist in memory and in `config.toml`, PIN gate | let in, pair | memory against file, waiting processes with an old copy |
| sessions (`session.rs`, `app.rs`, `main.rs`) | per chat: agent, directory; control groups in `config.toml` | `/new`, `/jump`, `/use`, job chats | four writes to make one chat, each of which may fail |
| setup and identity (`setup.rs`, `identity.rs`, `secrets.rs`, `whitenoise_cli.rs`) | `config.toml`, keychain or key file, accounts of the daemon | setup, up, identity create, delete, rename | no lock; interrupted half way; other commands' copies |
| attachments (`attachments.rs`, `main.rs`) | records in memory and in `attachments.json`, copies in the workspace | extract, ingest, report, `/download` | files told twice, one file's failure, restarts |
| reply sending, progress (`main.rs`, `wn.rs`, `progress.rs`, `runner.rs`) | parts, attempts, limiter, a mutex | send, retry, rate-limit, mirror, upload | three threads that send about one job |
| worktrees (`worktrees.rs`, `app.rs`) | directories, git's list, records in memory and file | new, use, remove | four copies of one fact |
| local session watcher (`local_sessions.rs`, `main.rs`) | seen sessions, notices | scan, tell, resume by short id | a listing that changes between notice and answer |
| daemon supervision, configuration | in the components above | | |
| services, doctor, diagnostics, fake phone, text | none, or files written once | | pure data or pure I/O |

How the parts interact:

- **Two deployments.** `agentnoise up` runs everything in one process: the
  listener starts a thread per job. The split deployment has a transport
  (`transport start`) and a worker (`worker start`), which meet only in files:
  the SQLite queue, `jobs.json`, the event journal, the lock and status files.
  Both are restarted by a supervisor (launchd, systemd or a tmux loop).
- **Messages in.** Every subscription (`wn messages subscribe`) and every
  reconciliation poll puts items on one channel of the listener, which handles
  them one at a time: journal, pairing, commands, and for text that runs an
  agent the routing that `CommandPipeline` models.
- **Jobs.** The transport inserts a row; a worker claims the one with the least
  `created_at`, marks it,
  calls `AgentRunner::run_blocking`, marks the outcome and posts it. The runner
  keeps its own record of the job in the `JobStore`, which `/jobs`, `/tail` and
  `/cancel` read in the *transport's* copy.
- **Replies.** Both processes send through `wn`, with five attempts. A job that
  was moved to a work chat is answered there and mirrored to the chat it came
  from.

What makes each component correct, and what is hard about it:

- *Queue, worker, transport, journal*: each message with an id runs once,
  though it is delivered several times and processes die in between; no job in
  two hands; the reply is the verdict the queue recorded; no accepted message is
  dropped silently; follow-ups wait; everything ends when the processes are kept
  up.
- *Job store and runner*: one agent at a time works on a job; a record that says
  how it ended tells the truth; a cancel acknowledged stays a cancel; records are
  not lost; every run ends.
- *Runtime locks*: one process holds a role; a waiting process takes over.
- *Subscriptions*: no message that reconciliation can see is missed, one stream
  per chat, a stream that ended is started again, nothing else is killed.
- *Approvals*: a request runs at most once, only when approved by the chat that
  asked, before it expires, as the file says.
- *Pairing*: a sender gets in only by a current PIN and only while nobody is
  paired; memory and configuration agree.
- *Sessions*: a job chat that was announced has its agent, also after a restart.
- *Setup*: the account `config.toml` names has its key; a setup that reports no
  warning left a usable account; an interrupted one can be repeated; control
  groups are not lost.
- *Attachments*: folding neither loses nor mixes the files of a message whose objects
  each tell of one, and each file is reported as what became of it; records stay.
- *Replies*: a reply called sent stands in the chat whole; the answer comes last.
- *Worktrees*: what a chat was told it works in can be found again.
- *Session watcher*: the command shown for a session resumes that session.

`PROJECT.json` lists every hazard of the code that we know of, at its line, with
the properties that would catch it, or why there is none.

## 2. Modules

| module | what it is | extends |
|---|---|---|
| `JobQueue` | the table `jobs` and the statements of `queue.rs` | - |
| `CommandPipeline` | listener, journal, queue, workers, chats | `JobQueue` |
| `CommandPromise` | what the pipeline promises the phone, in four actions | - |
| `PipelineRefinement` | the mapping of the pipeline onto that promise | `CommandPipeline` |
| `RuntimeLock` | lock and status file of a role, one system call a step | - |
| `AgentRuns` | runner, agent processes, job stores, `jobs.json` | - |
| `Subscriptions` | streams, polls, restart timers and the listener's channel, per chat | - |
| `Approvals` | the operations of the approval store on a copy of it | - |
| `FrontDesk` | pairing, approvals, sessions and job chats of the listener, with the processes that wait for it and the programs beside it | `Approvals` |
| `ApprovalPromise` | what approvals promise a chat, in seven actions | - |
| `ApprovalRefinement` | the mapping of the front desk onto that promise | `FrontDesk` |
| `Setup` | `setup`, `up`'s own setup, `identity`: concurrent commands on one `config.toml`, key store and daemon | - |
| `Attachments` | the files of messages: extraction, ingest, reports, downloads | - |
| `Replies` | the threads of one job that send: progress, answer, mirror, media | - |
| `Worktrees` | directories, git's list, records | - |
| `Watcher` | the session watcher and resuming by short id | - |
| `MCCommandPipeline`, `MCAgentRuns`, `MCFrontDesk` | symmetry, deployments for TLC | the model |
| `MCMachines` | the last five models side by side | `Setup`, `Attachments`, `Replies`, `Worktrees`, `Watcher` |
| `CommandPipelineProofs` | theorems about the pipeline, also under fewer faults, and its refinement | `PipelineRefinement` |
| `RuntimeLockProofs`, `AgentRunsProofs`, `SubscriptionsProofs` | theorems about locks, runs and subscriptions | the model |
| `FrontDeskProofs` | theorems about the front desk, and the refinement of the approvals | `ApprovalRefinement` |
| `MachinesProofs` | theorems about setup, worktrees and the watcher | the models |
| `MessageProofs` | theorems about attachments and replies | the models, `FoldTheorems` |
| `FoldTheorems` | induction over naturals, folds and recursive functions, for proofs | - |

### JobQueue and CommandPipeline

`jobs` is the table as a sequence of rows in the order they were inserted; a row
keeps its event, source and reply chat, status, `claimed_by` and `created_at`. That
is a reading of the wall clock: a second and the digits of its fraction without
closing zeros, as `now_rfc3339` writes it. `Dispatch` picks any reading, so the
clock may stand still or go back. `SortsBefore` compares two readings as the table compares their texts:
"...00.5Z" comes before "...00Z". `OldestQueued` takes any queued row with a least
text, since SQLite promises no order among equal ones. Each statement
of `queue.rs` is an operator (`Enqueue`, `ClaimNext`, `MarkRunning`,
`MarkFinished`, `ActiveForReplyGroup`). Like the code's UPDATEs, `MarkRunning` and
`MarkFinished` look at no status; that finished rows are not rewritten
(`FinishedStays`) is a matter of the worker's loop.

`listener` is the event loop with the event in hand: `Deliver` (journal check,
memory before file), `AnswerHistory` (events of before the start),
`TurnAway`/`Admit` (`should_intercept_active_followup`), `OpenWorkChat`/`NoWorkChat`,
`Dispatch`/`DispatchFails`. Between any two of them workers move: the check that
no job of a work chat is active and the row that follows it are different steps.
`worker[w]` is a process with the job in hand: `Claim`, `StartRun` (mark_running),
`AgentReturns`, `RecordOutcome`, `Reply`, `Mirror`, and `Abandon`, the loop's error path.
`Deliver` may take the same message any number of times: stream, reconciliation
and redelivery after a restart are not told apart. `starts` and `results` are
histories: the order in which agents were started and what was posted.

Faults are a constant: an instance says which of twelve may strike (a journal
append, the lookup of active jobs, an enqueue before or after its INSERT, a claim,
the set-up of a work chat, a send, a mark, the mark of the error path, a worker
that leaves its loop, one that is killed, a transport that is killed, a lock that
lets several workers in).

### RuntimeLock

One lock file, with the identity of its creator, the pid written in it and
whether it is younger than the ten seconds grace. `proc[p].at` is the next system
call of `acquire_role`, `role_is_running` or the guards' drops: `Create` (create_new),
`Stat`, `Read`, `Probe` (kill -0), `Remove`, `Write`, `WriteStatus`, `DropStatus`, `Unlock`.
`RemovesLock` removes whatever file is at the path, as `fs::remove_file` does.
`overlapped` and `stolen` are histories that the properties speak of.

### AgentRuns

`store[p]` is the memory of process p's `JobStore`, `disk` is `jobs.json`; `Writes`
replaces the file by the whole memory (`with_jobs`), or fails after the memory has
changed. `run[j]` is `run_blocking_inner`: `Create`, `Spawn`/`SpawnFails`, `MarkRunning`,
then `wait_for_child` (`Exits`, `TimesOut`), `Reaps` (`terminate_child`), `Joins` (the log
threads, which read until the last process that has the agent's output open is
gone), `Finish`, or `RunErrs`, the `?` paths. `child[j]` is the agent: alive, ended well
or badly, told to end, or gone but for heirs ("left"). A pid is the number of the
attempt that got it. `RequestCancel` and `SignalCancel` are the two halves of
`AgentRunner::cancel`; between them anything may happen. `Load` and `Open` are
`JobStore::open`, which reads the file and writes it back; `Recover` is
`recover_interrupted_jobs` at the start of the listener.

### Subscriptions

`record[c]` is the registry's record of a chat (state, pid, restart count, last
event, whether a poll is in progress, the latest id polled), `process[c]` its
`wn messages subscribe` child, and `chan` the listener's channel of items. The
threads that fill the channel are actions of their own: the stream's reader
(`Emit`, `ReportsError`), its reaper (`Reap`), discovery, the watchdog that starts
polls, the polls' returns and the restart timers. `Handle` takes the oldest item
and does what the arm of `listen` does, each `Handle...` operator one arm. A
stream may hang (`GoesDeaf`), exit, fail to spawn, or fail to be waited for; the
daemon may die and take all streams with it. `Oldest` is the poll's limit:
reconciliation sees the newest `PollLimit` messages only. The clocks (90 s idle,
30 s between polls) are left open: a poll may be due and a stream stale whenever
the code could judge it so. `restart_count` is never reset, discovery subscribes an ended
chat again without waiting for its timer, and a healthy idle stream may be killed,
as in the code.

### Approvals and FrontDesk

Each fact has up to four copies: the listener's memory (`allowed`, `approvals`,
`sessions`), the file (`config`, `approvalsFile`, `sessionsFile`), the `copy` of the
configuration in a process that waits for the lock or listens, and what another
program has read and will write back (`opened`, `edited`). An action is one message
handled up to its next external call: `Pairs`, `RunsAgent`, `NeedsApproval`, `Approves`,
`Denies`, `EditsSession`, `Resumes`, `AsksForChat`. Making a chat for a job is a sequence
in `hand`: open the group, save session and configuration, announce, dispatch;
after every step the next one may fail, and `Fallback` is what the code does then.
Each write may fail on its own (`PairingFails`, `ExpiryFails`, `DecisionFails`,
`SaveFails`); an error that leaves `listen()` ends the process (`Ends`), an error
of `use`, `cd` or `worktree` is only a reply. `outdated` and `reverted` are ghosts: an
old allowlist was put to use, or an old approvals or session file written back.

What is abstracted: the PIN's windows (a PIN is current or it is not), which
requests need an approval, the texts of decisions, the onboarding hints of the main
chat. `chats` lists groups in the order they were made, as `wn groups list` does.
A first pairing over a `config.toml` without groups leaves the process without a
primary chat until it starts again, and a listing that fails together with the
reconciling save can make a job chat the primary one: both are in the model.

`ApprovalPromise` has no listener, memory or file: a request is on record, decided
once, and what was approved in time is granted and runs at most once.
`ApprovalRefinement` takes `approvals.json` for the record and what is in `hand` for
the grants. An expiry is mapped to the clock (`due`), not to what the file says of
it: a worker that opens the store may note an expiry there which the listener's next
save overwrites with "pending". And a decision whose save failed, answered
with an error, gets on record with the next save that succeeds, though nothing
runs for it: the promise says so (`Save`), since a chat can observe it.

### Setup

`pc[p]` is the next external effect of a command, `mine[p]` its copy of `config.toml`.
`Begin` starts any of the requests; then `LoadConfig`, `SaveTemplate`, `FindIdentity`
(`load_or_create_identity`), `CheckAbsent` and `StoreKey` (`create_identity`), `SaveAccount`,
`EnsureDaemon`, `EnsureLogin`, `Publish` (relay entries, profile, key package, each of
which may fail into a warning), `CreateGroup`, `SaveGroup`; `up` goes on with `Reload`,
`AddGroup`, `DiscoverGroups`; `identity rename` with `SaveName`, `AdoptAccount`, `PublishName`. `Kill`
may strike between any two. The daemon may end or hang. `ListenerAddsGroup`, `CreateByHand`
and `DeleteKey` are the other writers. `stale` says which commands hold a copy older
than the file; `excuse` names the four ways in which an account can lose its key.

### Attachments

A message's JSON is a sequence of objects with at most one level inside, each with
the kind of key it stands under, name, type, url, hash and path; an imeta tag has
no objects inside. `Found` is `find_string`, which looks into the inner objects for all
of these but the hash; `ByUrl` is what a url that ends like media is on its own;
`Collected` is `collect_attachments`, `Merged` is `merge_attachment` and `Joined` one step of
`dedupe_attachments`. `Supported` judges an entry by its type, its key or how its name, url
or path ends. `Receive` makes the record;
`Fetch`, `CopyFile` and `RecordCopy` go through its files one by one; `Answer` says who hears
of them: the sender, the agent, or nobody. `CopyFile` writes straight to the copy's
place, as `copy_private_file` does: a repeated `/download` that fails may cut an earlier
copy short (`spoilt`). `Open` is a restart, `OtherReads` and
`OtherWritesBack` another program that opens the store.

### Replies

Texts are sequences of line lengths; `Cut` is `chunk_text`, and `Posted` the length of a part
as `send_reply_to` posts it: with "Part i/n" and an empty line before it when there
are several. `sending[t]` is what each of the
three threads of a job sends (its own thread, the reader of the agent's output, the
heartbeat): reply, attempt and part. `Emits` is the progress callback with its filter,
its limiter and its mutex; `PartSent` and `PartFails` are one call of `wn`, where a part
that failed may have been shown; `TriesAgain` starts over. `stage` takes the job's
thread through spawn, wait, the two joins, answer, mirror and media.

### Worktrees and Watcher

`Worktrees` keeps a worktree in four places: `dirs`, `gitKnows`, `trees`, `treeFile`. Making one
is two steps (`AddsTree` by git, `RecordsTree` in the store), so is removing one; between
them the listener may be killed. `Watcher` has the agent's list of sessions change
freely (`Appears`, `Vanishes`) under the watcher's `Scan` and the resume command's
`Resolves`.

### MCMachines

The last five share no state with each other, so that one run holds them all:
`scene` picks one, the others rest. It is five models in one configuration, not
their product. The chats of the attachments are symmetric: nothing orders them.

## 3. What is checked

Every run's configuration sits beside its module.

| run | instance | properties | shows |
|---|---|---|---|
| `PipelineWorkers` | 2 messages (one without id, resuming a session), 2 chats, 2 workers, faults lock, mark, abandon, kill, send | `NoJobInTwoHands`, `ResultMatchesQueue`, `MirrorTellsTruth`, `FinishedStays`, `KeepsPromise` | two workers the lock failed to keep apart, dying and failing at any step, never share a job, and what is posted is what the queue says; the pipeline implements `CommandPromise` |
| `PipelineRedelivery` | 2 messages (one bare), 1 worker, faults append, lookup, claim, exit, listenerKill, kill | `ExecutedOnce` | any number of deliveries and restarts start an agent once per message |
| `PipelineAnswers` | 3 messages (one bare, one that resumes), 1 worker, a clock with readings 0, 0.5 and 1 s, faults enqueue, session, exit; fair | `JournaledIsHandled`, `FollowUpWaits`, `RunsInOrder`, `CommandsAnswered`, `JobsFinish` | nothing journaled is dropped while the transport lives; a follow-up is queued behind finished jobs only; agents start in the order of the queue wherever the texts of `created_at` tell it; each message is answered and each job finished |
| `PipelineStranded` (violated) | fault kill | `ExitsStrandNothing` | see findings |
| `LockRaces` | 2 processes that try, wait and ask, faults kill, disk | `IInv`, `ExclusiveUntilStolen`, `SerialStartsSafe`, `WaiterTakesOver` | when exclusion holds, and that a waiter gets the lock |
| `LockStolen` (violated) | 3 processes, fault kill | `OneHolder` | see findings |
| `RunsInline` | one process, 2 jobs, 2 attempts, faults save, spawn, io, heirs, kill | `OneAgentPerJob`, `FinishedMeansGone`, `CancelSticks`, `RecordsKept`, `RunsEnd` | no two agents on a job, records that tell the truth and stay, cancels that stick, runs that end |
| `RunsSplit` (violated) | transport and worker, 1 job | `CancelFindsJob` | see findings |
| `RunsWedged` (violated) | one process, 1 job, fault heirs | `NoneRunsForever` | see findings |
| `Subscriptions` | 1 chat, 2 messages, poll limit 1, every fault | `OneStreamPerChat`, `PollFlagHonest`, `MissedAreSeen`, `StreamsComeBack` | one stream at most, polling is never shut off, messages within the poll's reach are journaled, ended streams come back |
| `FrontDesk` | 2 senders, a control chat and a job chat, 1 request, 1 process, any three of eight faults | `RunsOnce`, `KeepsDecisions`, `OnePairing`, `StaysPaired`, `JobChatsAnswer` | the approvals implement `ApprovalPromise`; decisions, pairings and job chats hold over failed writes, restarts and other programs |
| `Machines` | see below | `AccountHasKey`, `ReportIsTrue`, `GroupsStay`, `SetupHeals`; `FilesAccounted`, `NoFileFoldedAway`, `RecordsStay`; `SentIsWhole`, `AnswerComesLast`; `ToldIsKept`; `ShownIsResumed` | setup, attachments, replies, worktrees and the watcher, each with failures |

**Bounds, and why they are enough.** The pipeline's hazards need at most two
workers on one row, two messages that are related by order or by chat, and for
the work-chat checks a third; `MaxJobs` caps the rows that a message without id
can make when it is redelivered (without it the table grows without end), and is
as large as the number of messages. `Home` and one work chat are all a routing
decision tells apart. Three readings of the clock are the fewest with one that
sorts before an earlier one of its second and one of a later second; the other runs
of the pipeline have a stopped clock, where every queued row may be next. The faults are spread over the runs so that each property
meets those that can hurt it; the proofs carry them to every combination that
the theorem's assumptions allow. A lock's races are between two
processes, what one judged and what the other did since; `LockStolen` has a third
that leaves the stale file behind. Two launch attempts are the smallest number with
a relaunch, two jobs the smallest at which one's save can overwrite the other's
record. The front desk needs a second chat for a job chat, a second sender
to try the PIN of the first, and one request (the store treats each on its own); three strikes are a failed write, the
restart that forgets the memory, and one rival. `Machines`: *setup*, two commands
(the first any of forced, moved to a key file, `up` with and without a group; the
second a plain setup or a rename), one failure, two starts: a crash, and the setup
that comes after it, or two commands at once; *attachments*, two records of five
payloads chosen so that each way of folding happens, among them a type that is no media
met first, and two files that the object over them mixes, one mishap; *replies*, answers of one
and of three parts, two attempts, two launches, one file, one event of the agent,
two failures; *worktrees*, two repositories with the same two names, two chats,
two worktrees made, two failures; *watcher*, three sessions of which two share
a short id, notices of one, three scans, one failure or restart. No state constraint
is used: bounds are guards of the actions that count (starts, faults, records, events).

**Deadlock** is checked for the pipeline, whose phone can always have an event
delivered again, for subscriptions and for the front desk. It is off for locks and
runs, where a killed process and a finished run do stop, and for `Machines`, whose
commands are bounded in number and come to their end.

**Fairness.** *Pipeline*: weak fairness of each delivery (a live stream or
reconciliation brings each message), of the listener's steps and each worker's
steps (loops that nothing blocks for good: sends and queue calls return), and of
starting the transport and some worker (`supervised_worker_shell_command` loops,
launchd and systemd restart). It includes `AgentReturns`: that a run ends is what
`AgentRuns` checks as `RunsEnd`, and holds as long as the agent leaves no process
behind that keeps its output open. *Lock*: a process inside the functions goes on, a
service that ended is started again, the file's grace ends, and writes that fail
do not fail for ever (strong fairness of the two writes). *Runs*: weak fairness of the run's thread
alone; neither the agent nor its heirs need to exit: `TimesOut` and `terminate_child`
end the agent. This presumes a `job_timeout_seconds` that is not zero.

### Findings

1. `PipelineStranded`: a worker that is killed with a job in hand leaves its row
   `claimed` or `running` for ever. `claim_next` takes only `queued` rows, nothing
   resets the others, so restarting the worker does not help, although
   `docs/services.md:61` recommends the supervised worker "so transient worker
   exits do not leave queued jobs stranded". Bare follow-ups in that job's work
   chat are turned away from then on.
2. `LockStolen`: two starters that judge the same lock file stale both get the
   role: the slower one's `remove_file` hits the file that the faster one has
   created since. The test `engine_lock_is_exclusive` states the exclusion.
3. `RunsSplit`: the transport's copy of `jobs.json` is read once, so `/cancel` of a
   job that a worker runs is answered "no such job", while `README.md:130` offers
   `/cancel <job>` for it.
4. `RunsWedged`: the log threads are joined without a timeout. An agent that exits
   and leaves a process with its output open keeps the job `running` for good,
   against `docs/configuration.md:134`.

### What else we noticed

Where the code does less than a reader of the documents may expect. For the first
six the definition named states the expectation; put into the configuration's
INVARIANTS or PROPERTIES it is violated.

- *Missed before the baseline* (`AllAreSeen`, `Subscriptions`): the first poll that lists
  a message of a chat only sets the baseline, so what a hung stream had still to
  print before that poll is never journaled (`docs/release-notes.md:181` speaks of
  recovering missed messages).
- *A stale standby* (`PairedForGood`, `FrontDesk` with two processes): `transport run`
  reads `config.toml` before it waits for the lock. When the foreground process paired
  the phone meanwhile and is then stopped, as `docs/remote-ssh.md:37` recommends, the
  process that takes over does not know the sender and waits for a new pairing until
  it is restarted. `agentnoise up` without a terminal loads again after its wait.
- *A prompt without its files* (`PromptsNameMedia`, `Attachments`): a request that needs
  an approval is stored before the paths of its attachments are added, so that
  `/approve` runs it without them (`README.md:778`).
- *Limited approvals* (`ApprovalsAreSent`, `Replies`): the limiter takes approvals and
  retry notices out when an earlier progress reply is recent, in quiet mode too, of
  which `docs/configuration.md:114` says that it still sends them.
- *Text order* (`RunsInQueueOrder`, `CommandPipeline`): `created_at` is text, and a fraction's
  closing zeros are cut off, so that a job queued at "...00.5Z" is claimed before one
  queued at "...00Z" of the same second; a clock that is set back does the same.
- *Two files in one object* (`EveryFileKept`, `Attachments`): an object over two files takes
  its url from the first that has one and may take its path from the other. Each of the two
  then overlaps with it, so that both are folded into it and the second one's url and hash are lost.
- A file folded into an earlier entry leaves it the type, name and key it has, also when
  these are not those of media: the ingest then skips the file without a word.
- A `/download` that fails while it copies can cut short the copy made before.
- A part of a long reply exceeds `max_message_chars` by its heading "Part i/n".
- `/download` numbers are counted from the newest record, so they shift with each
  message.
- A follow-up that is turned away, or that opens or resumes a session, drops the
  summary of the files that came with it: nobody hears of them.
- Parts of two replies may interleave in a chat: what is serialised is a part.
- Two entries of a message that only a third one connects stay two.
- `worktree new` for a record whose save failed returns that record without saving it.
- A removed worktree is left only by the chat that asked for its removal.
- A publish that fails counts as done when any older key package is visible.
- Two first setups at once leave `config.toml` with an account whose key the other
  one has replaced (`excuse` "raced"), and `--dev-burner-nsec` after a keychain setup keeps
  the account but not its key ("switched"); a later `--force-identity` repairs both.

## 4. What is proved

All theorems hold for every value of the constants under the named ASSUMEs of
the modules (sets are arbitrary, faults any subset unless said otherwise).

**The pipeline** (`CommandPipelineProofs`). The safety properties are not inductive
alone: that two workers never share a job rests on what each has in hand being
its own row in the state its step implies (`HandsMatchQueue`), and that an agent is
started once rests on a started job's row being past `claimed` (`StartedRows`) and on
one row per message (`OneRowPerMessage`). `IInv` joins these with `ResultsRecorded`
and `TypeOK`; one lemma per action shows that it is preserved. From it follow
`TypeCorrect`, `StartedOnce`, `OneHand`, `ResultsAgree` and the action property
`FinishedForGood`; `MirrorIsTrue` adds that a worker about to mirror knows truly
whether its result was delivered.

**Under fewer faults** (`CommandPipelineProofs`). `FollowUpsWait` assumes that the lookup
of active jobs does not fail: the listener is the only process that adds rows
and finished rows stay finished, so the check stays true until the row is written.
`StartedInOrder` assumes that the lock holds, i.e. no two workers; a job then starts
before one queued earlier only when the texts are out of step, i.e. the second went
back, or both are of one second and the digits of the first begin those of the
second (`TextOrder`, for every clock). `NothingJournaledIsLost`
assumes that sends succeed and the transport lives.

**The pipeline's promise** (`CommandPipelineProofs`). `Implements` maps each row to an entry of
the promise's ledger and shows, action by action, that a step is one of `Accept`,
`Begin`, `Settle`, `Report` or a stutter.

**Locks** (`RuntimeLockProofs`). `IInv` says that unless a live owner's file was
removed the file is its owner's and says what the owner wrote (`OwnersKeepLock`),
and that a lone contender acts on what is still true (`LoneContender`). Hence
`Exclusive` and `SerialStarts`.

**Runs** (`AgentRunsProofs`). `AgentInvariant`, `OneAgent` and `RecordsTellTruth` hold for
any processes, deployment and faults: `EndedIsOver` says that every copy of a
record, in any memory or in the file, that says how the agent ended is of a run that
is over. `CancelsStick` and `RecordsAreKept` assume `Process = {Front}`, one process
that listens and runs the jobs; they need `SoleInv`: its memory is never behind the
file (`MemoryLeads`), pids are those of past attempts (`PidsPast`), and an
acknowledged cancel is on record (`CancelRecorded`). With a separate worker both
fail, since each process overwrites the other's records.

**Subscriptions** (`SubscriptionsProofs`). `IInv` counts what a chat may have: a stream
or the item of its end, not both; a poll under way or its item, not both; and a
record that says running until that end is handled. `OneStream` and `PollingGoesOn`
follow for any chats, limits and faults.

**Front desk** (`FrontDeskProofs`). `IInv` says, while no old copy was written back, that
the memory knows every decision of the file (`DecisionsKnown`), what ran was approved
in the file (`RanWasApproved`), what is in hand is approved and has not run
(`InHandIsFresh`), what was refused is denied there (`RefusedIsDenied`), and the sessions
of announced chats are in the file (`JobsHaveAgents`); while no old allowlist was used,
that memory and file agree on who is let in (`AllowlistsAgree`). `RunsOnce` and its siblings
do not follow without it: a second approval is refused because of the memory, after
a restart because of the file. `ApprovedRunsOnce`, `DenialsAreFinal`, `OneSenderPairs`,
`PairedStays` and `JobChatsHaveAgents` hold for any senders, chats, requests, processes
and faults.

**The approvals' promise** (`FrontDeskProofs`). `ApprovalsImplement` maps every step of the
front desk to one of `Save`, `Grant`, `Refuse`, `Run`, `Drop`, `Expire`, `Undo` or a stutter.
Besides `IInv` it needs that memory and file have the same records (`SameRecords`), since a
save writes the whole memory: the lemma `Saving` says that then each request on
record moves as the promise allows, whatever failed decisions the memory still had.

**Setup** (`MachinesProofs`). `SetupIInv` is the conjunction of parts that carry each
other. For the key (`AccountKeepsKey`): each copy of the configuration that a running
command may still write is as good as the file (`CopiesHaveKey`), and what is about to
store a key finds an empty store (`StoresIntoEmpty`), so that the account's key, if
there is an account, is in the other one. For the groups (`ControlGroupsStay`): a copy
that is not stale has the groups of the file (`CopiesCoverGroups`). For the report
(`ReportsAreTrue`): a part passed without a warning is published for an account the
daemon holds (`DoneOrWarned`); what the daemon holds and what is published only grows.
`SetupRepeats` joins them: with the key in place and the account known at each step
(`AccountKnown`), the only ways out are faults of the run itself and a daemon that
does not work. All four hold for any commands, requests, keys, groups and kills.

**Attachments** (`MessageProofs`). `MediaInv` says of the records in memory, of those on
file and of what another program has read that they are sound lists: identified by
numbers, with an entry for each file that tells what the message told of it (`ListsAll`),
and copied only where the copy is there
(`Sound`); of the handling in hand, that the files it has passed are accounted for in its
lines (`Handles`); of the reports, that all are (`ReportsStand`). `EveryFileIsAccounted` and
`NoFileIsFoldedAway` follow for any messages, limits, failures and restarts. The second
rests on `ExtractedKeeps`, which is about the algorithm alone. It supposes that the
entries of a payload can be shared out (`Apart`) so that those of one file contradict each other
in no url, hash or path and those that overlap are of one file; then one entry of
the folded list has all three as told of each file (`Keeps`), and none mixes two
files (`Agree`). The induction along the fold carries that each field of a listed entry was told by
an entry of the file it is of (`Speaks`, `Faithful`). Without the supposition it is false
(`EveryFileKept`). `AttachmentsAreKept` adds that the memory has whatever
the file has, and that what another program has read is still there (`RecordsCover`).

**Replies** (`MessageProofs`). `ReplyInv` says that a thread sends only its own reply, whose
earlier parts stand in the chat in order (`SendsItsOwn`, `SendersStand`), that a reply called
sent stands there whole (`SentStand`), that a thread which is over sends nothing and
the job's thread answers only after both joins (`ThreadsEnd`, `AnswerIsNext`). Other threads may
post in between at any time, which is why standing is said of places in the chat. From
it follow `SentRepliesAreWhole`, with `CutKeeps`, which is about `chunk_text` alone, and
`AnswerIsLast`. What is posted is as long as its part and its heading (`PostedIs`); that
no part is longer than a message and one line end is said of the parts without it.

**Folds** (`FoldTheorems`). Extraction, the cutting of a text and its size are folds and
recursive functions. That such a function exists, so that it can be computed step by step,
is proved by induction over the naturals, stated of a set (`NatSets`, `UpTo`, from
the library's well-founded minimum) because the provers cannot instantiate a
theorem about an operator; for the same reason `FoldExists` and `RecursionExists` speak of a
function that makes the step.

**Worktrees and watcher** (`MachinesProofs`). `TreesStayFound`: what the file lacks was put at
risk by a failed save or an old list, and what a chat was told of is in both or at
risk (`TreesCovered`). `ShownSessionIsResumed`: a short id stands for the session it was
shown for, while that is listed, because it is refused as soon as two fit; it assumes
finitely many sessions.

**Only model-checked**: the liveness properties `CommandsAnswered`, `JobsFinish`,
`WaiterTakesOver`, `RunsEnd`, `MissedAreSeen`, `StreamsComeBack` (fairness is outside what
TLAPS proves here); and the violated claims, which are counterexamples. Every other
property of a run is a theorem.

## 5. What is left out

- Contents: texts, prompts, command lines, summaries and log output are data that
  no property looks at; ids stand for themselves. Of `created_at` the second is a number, not its text.
- The journal's torn last line (covered as a lost append), and outbound records.
- Reads of the job store by other programs (`status`), the job store's prefix match.
- The operating system reusing a pid of another program.
- A `config.toml` torn by a crash: `Config::save` is a plain write. Loading and
  saving it within one handler of the listener is one step.
- The onboarding hints of the main chat (`pending_onboarding`), the relay lists, QR codes
  and output of setup.
- Components marked `not_modelled` in `PROJECT.json`: they keep no state of their own
  (text, reports, the socket), drive a service manager (services), or are test
  drivers (fake phone).

## 6. Plan

Done: (1) queue and pipeline, promise and refinement; (2) locks; (3) runs and job
store; (4) subscriptions; (5) approvals, pairing and sessions; (6) setup, attachments,
replies, worktrees, watcher; (7) the approvals' promise; every safety property of a
passing run proved, and both refinements.

What could come next:

8. What a reply promises a chat, and what the lock of a role promises its service, as
   abstract specifications that `Replies` and `RuntimeLock` implement.
9. What does hold of the job store when transport and worker overwrite each other's
   file, stated and proved.
10. The restart backoff as a pure operator against a reference definition; the
    journal's torn line.
11. The onboarding hints of the main chat, in `FrontDesk`.
12. Attachments within the pipeline: a caption whose job waits in the queue while its
    files are replaced.
