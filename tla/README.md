# Task spooler: a TLA+ model

This directory holds a model of the task spooler `ts`, the TLC
runs that check it on small instances, and TLAPS proofs for every instance. File
and line references are to the repository's sources.

## The system

`ts` is one executable with two roles. Every command the user types is a
**client**: it makes sure that a server runs (`server_start.c`), connects to it
over a Unix stream socket, sends one request, and either reads an answer or
leaves. For `ts command` the client stays, usually in the background: it is the
client that runs the command when the server sends RUNJOB, and it reports the end
with ENDJOB. The **server** is a daemon with one thread: it keeps the queue, the
stored results and the connections, and decides which job runs next.

| Part | State | Operations | Interacts by |
|---|---|---|---|
| Job tables and scheduler, `jobs.c` | queue `firstjob`, results `first_finished_job`, `busy_slots`, `max_slots`, `jobids`, `last_errorlevel`, `last_finished_jobid`, notify list | `s_newjob`, `next_run_job`, `job_finished`, `s_remove_job`, `s_wait_job`, `check_notify_list`, `s_move_urgent`, `s_swap_jobs`, `s_clear_finished`, `s_set_max_slots`, `wake_hold_client` | called by the server loop; sends on client sockets |
| Server loop, `server.c` | `client_cs`, `nconnections`, the select set | select/accept, `client_read`, `remove_connection`, `clean_after_client_disappeared`, start of one job per round, `end_server` | messages with clients |
| Client, `client.c`, `main.c`, `execute.c` | its command line, how far it is | one function per request; `run_job` | messages; fork and wait of the command |
| Start of the server, `server_start.c` | the socket file, a pipe to the parent | `ensure_server_up`, `fork_server`, `server_main`, `end_server`, SIGTERM | the file system, a pipe |
| Messages, `msg.c` | two byte streams per connection | `send_msg`, `recv_msg`, `send_bytes`, `recv_bytes`, `send_ints`, `recv_ints` | stream sockets |
| GPUs, `gpu.c` | `used_gpus`, `free_percentage` | `getGpuList`, `broadcastUsedGpus`, `broadcastFreeGpus` | called by the scheduler; asks NVML |
| Running a job, `execute.c`, `signals.c`, `mail.c` | the child, a pipe, the output file, the pid for the handler | `run_job`, `run_parent`, `run_child`, `run_gzip`, `sigint_handler`, `send_mail`, `hook_on_finish` | fork, wait, signals, files |
| Looking at a job, `client.c`, `tail.c` | an answer of the server, an offset in a file | `-t`, `-c`, `-o`, `-p`, `-k`, `-T`, `-i` | one or two requests, files, signals |
| Information and environment, `info.c`, `env.c` | what `-i` shows, the server's environment, `logdir` | `--getenv`, `--setenv`, `--unsetenv`, `--get_logdir`, `--set_logdir`, `-i` | messages with texts |
| Saving the list | - | `sigterm_handler`, `joblist_dump` | interrupts the server anywhere |
| Text: `list.c`, `print.c`, `man.c`, `error.c`, `msgdump.c`, `cjson/` | - | formatting, help, error reports | - |

What is hard here: clients send, exit and die between any two steps of the
server; the server scans an array of connections from which entries disappear
during the scan; several tables (queue, results, connections, notify list,
counter of slots) have to agree after every path out of a job's life; the queue,
the results and the connections have limits; nothing but an event on a socket
wakes the server; a message has parts that both ends have to agree on without
being told; a viewer acts on answers that are out of date; SIGINT and SIGTERM come
at any statement; and several clients may start a server at once. `PROJECT.json`
lists each of these hazards at its line with the properties that watch it.

## The modules

| Module | Contents |
|---|---|
| `Server` | jobs.c, server.c and the clients, composed |
| `ServerProperties` | the correctness properties of `Server`, and the refinement mapping |
| `JobLifecycle` | the abstract specification: what is promised about jobs |
| `MCServer` | command lines for TLC, one set per question |
| `ListLemmas` | facts on lists (remove, append, swap, move) for the proofs |
| `ServerProofs` | the inductive invariant of `Server` and its theorems; what is on the wire fits the tables and the clients |
| `LifecycleProofs` | `Server` implements `JobLifecycle`; results, and what waiters are told; nobody waits in vain (jobs that could start, clients of `-w`), and nobody starts early (`-d`, `-D`, `-W`) |
| `JobList`, `JobListProofs` | the linked lists, pointer by pointer, and SIGTERM |
| `ServerStart` | the search for the server, its start and its end, with properties |
| `ServerStartProofs` | the inductive invariant of `ServerStart` and its theorems |
| `Framing`, `MCFraming` | messages as streams of pieces, with everything that carries texts |
| `Gpu`, `MCGpu`, `GpuProofs` | allocation of GPUs |
| `Output`, `MCOutput`, `OutputProofs` | looking at jobs and signalling them |
| `Execute`, `MCExecute`, `ExecuteProofs` | one client runs its command |

`Server` is the centre and has the whole concurrency of clients, connections and
loop. The others zoom in on what `Server` takes for one step or leaves out, with as
much of the queue as their question needs: `JobList` on a list operation, `Framing`
on a message, `Execute` on the client between RUNJOB and ENDJOB, `Output` on
requests that read, `Gpu` on the GPU build's part of `s_newjob`, `next_run_job` and
`job_finished`, `ServerStart` on what happens before the connection. The property
`ListsAreSequences` of `JobList` is what entitles `Server` to sequences,
and `Aligned` of `Framing` what entitles it to whole messages.

### Server

One step of the server is one message: `client_read` for one connection, with all
it calls (`Newjob` includes `s_newjob` and the answer; `EndJob` includes
`job_finished` and `check_notify_list`; and so on). `Select` computes the readable
connections and accepts at most one; `i` is the index of the scan, so that the
removal of a connection shifts the others under it exactly as in
`remove_connection`; when the scan is over, `StartJob` or `NothingToRun` ends the
round. Clients act between these steps. A client's name doubles as its socket.

| Code | Model |
|---|---|
| linked lists `firstjob`, `first_finished_job` | sequences of job ids |
| `struct Job` | `job[id]`; state `NONE` is a job in no list |
| `client_cs[0..nconnections-1]` | the sequence `client_cs`, from 1 |
| bytes in a socket | sequences of whole messages, `to_server`, `to_client` |
| a closed client end, not yet noticed | `pc[c] = "closed"` |
| `error()` or an invalid access in the server | `server` takes the fault's name and nothing happens any more |
| `dependency_errorlevel`, a sum of absolute values | zero or not |
| list formatting, ids and texts in answers | left out |
| the `Msg` payload | the client's `command` record, read when the message is served |

Undefined behaviour is a choice. Where ending a job reads freed memory
(`new_finished_job` with a limit of 1, `destroy_finished_job` from the third
place on) the model allows both the fault and the lucky outcome; a null
dereference always faults. `outcome` is a history variable: how each job ended.

The version exchange (`c_check_version`) that precedes each request has no effect
on the tables and is left to `Framing`: here the request is the first message.

### JobLifecycle

A job gets the next id, waits, is started at most once and only if the slots of all
running jobs then fit under the limit, and ends once, with one result that is never
revised; it may end without having run. `ServerProperties` maps the tables to it:
`Life` folds the six states (a held client's job waits; a job that is in no list
and whose id was given out has ended), `Size` is the slots of live jobs, `result`
is `outcome`, `limit` is `max_slots`. `ImplementsLifecycle` is checked by TLC and
proved.

### JobList

Memory is a function from places (`firstjob`, `first_finished_job`, the local
`tmp`, the `next` of each job) to pointers. An operation is a list of assignments
in the order of the source; `Statement` does one of them, and `Sigterm` may come
before any: it records what the walks of `joblist_dump` would meet. Beside the
memory the module keeps the sequences that `Server` would have. Searches only read
and belong to the operation's beginning. That a handler runs inside `malloc` or
`free` is not modelled, nor is reordering by the compiler.

### Framing

A header is one unit, which the kernel moves whole; an integer or a character is
one unit, and a text goes through in pieces of `PieceSize`. The reader knows what
comes next from the header (`Parts`, as `client_read` and `s_newjob` test it) and
the writer from its command line (`NewJobWrites`, as `c_new_job` does). Units carry
the name of the field they were written as, which no action looks at: only
`Aligned` does. Both ends of GET_VERSION, NEWJOB, RUNJOB, RUNJOB_OK, ENDJOB, INFO and
the requests on labels, commands, environment and log directory are there; jobs run
one at a time. A null character is a unit of its own; an empty text is a null
pointer. `recv_ints` has one read for the array, so arrays are no longer than
`PieceSize`. The writes of `-i` may be short: `PinfoDump` has all that `pinfo_dump`
may send, and `cut` the clients that were sent something else than the text.

### Gpu, Output, Execute

One handled message is one action, as in `Server`, without connections. In `Gpu` NVML is
the environment: free memory changes at any time and calls may fail; the mark in
`used_gpus` and the ids in `struct Job` are kept apart as in the code. The ids of `-g`
are any numbers and those of `-G` are -1 until they are chosen; a write to `used_gpus`
outside the array changes nothing else of the model or is the end of the server
(`AfterWrite`). In `Output` a viewer is a process with one or two exchanges and then a
file or a signal; the job's client announces pid and file by a later message
(RUNJOB_OK), and the command writes at any time; block size and number of lines are
constants. The pid of a new `struct Job` is whatever the memory held: a constant set,
`Garbage`, any numbers in the proofs. In `Execute` the client, the child that becomes
the command, gzip, sendmail and the hook are processes; `wait()` takes any child; fork,
mkstemp, open, exec and gzip may fail. SIGINT comes to the client or, from the terminal,
to its whole group: gzip, sendmail and the hook stay in it, and the command until
`setsid`. It interrupts `wait()` and the `write` of `copy_output`, whose block is lost.
An uninitialised status after an interrupted `wait()` is any status.

### ServerStart

Every system call on the socket path is a step: connect, unlink, fork, the read of
the pipe, the second connect; bind, listen, notify, and the close and unlink of
`end_server` or the unlink and exit of `sigterm_handler`. A server can crash at
any point and leave its file behind. Each client is one command and forks at most
one server, which bears its name. `disturbed` is a history variable: the clients
that searched while another one did, or while a server was ending; `unforked` has
those whose fork failed.

## Runs

Bounds of `Server`: 3 clients (4 where noted), 2 or 3 jobs ever submitted
(`JobIdBound`), exit codes 0 and 1 where results matter. Two jobs suffice for an
interaction between jobs and a third for a place in the middle or at the end of a
list; three processes suffice for two jobs and a command that disturbs them. Each
run has the few command lines its question needs (`MCServer`), since the state space
grows with their number. Clients are symmetric; runs that check liveness use no
symmetry. `joblist` has 5 jobs and room for 3 results: two jobs to swap that are
neighbours or have one between them, behind the first and before the last, and a
list of results that overflows. `gpu` has 2 GPUs (of 3 visible ids, one of which does
not exist, and which a `-g` job names), 3 jobs and 2 slots. `output` has 2 jobs, and
new memory that holds the pid of a stranger; files of up to 4 characters (the first
is the end of the line with the command) and blocks of 2, so that a file is shorter
than a block, equal to it or crosses it, line ends fall on every place in a block,
and `-t` of one line meets the case in which a line is cut.
`execute` has one client with every combination of options, 2 SIGINTs, and exit
codes at the edges (0, 1, 255, 256). `framing` has 2 clients and pieces of 2, so that
texts of 1 and 2 characters with their null arrive whole or in two pieces, and
arrays of 2 ids are as long as one read takes.
The checks of deadlock are off: users need not type anything, a server told
to end stays ended, and job ids are bounded.

| Run | Question | Distinct states |
|---|---|---|
| `slots` | Slots are counted right, never overbooked, never idle beside a job that fits, while the limit is lowered and clients are killed | 454,911 |
| `depend` | `-d` and `-W` commands execute after their predecessors, with `-W` only after success, also when jobs and results are removed; jobs and connections correspond; reports arrive only for running jobs | 624,071 |
| `wait` | Waiters are told, once and rightly; results are stored and bounded (`TS_MAXFINISHED=2`) | 692,464 |
| `order` | `-u` and `-U` keep the lists consistent (4 clients) | 462,993 |
| `full` | A queue with one place: held, rejected and killed clients, queries, `-C`, `-K`; server and clients agree, and jobs live as `JobLifecycle` says | 1,098,146 |
| `live` | Every command returns | 114,792 |
| `start` | Undisturbed commands that can fork connect; starts without overlap leave one reachable server; no search hangs | 189,413 |
| `joblist` | The pointers spell the sequences of `Server`; nothing freed is used; SIGTERM saves the list | 2,418,958 |
| `gpu` | No GPU stays marked; allocated GPUs are not given twice; runnable GPU jobs start | 74,223 |
| `output` | Viewers see all the output, leave as many line ends as they should, signal the groups they should, and return | 1,091,600 |
| `execute` | The result is the command's; output and mail are complete but for what SIGINT takes; an orphan needs an interrupted `wait()`; the client ends | 184,614 |
| `framing` | Both ends read the field that was written; texts arrive whole; only a torn message hangs the server; requests end | 456,392 |

Each property of these runs is shown to be sensitive by a mutant of the code's
model (`mutants` in `PROJECT.json`; the mutated forms stand before the originals,
marked "A plausible mistake").

Some properties hold only in the region a run covers, and the code leaves it
elsewhere. `ResultStored`, and the properties of `JobList`, are about
limits of 2 and more (`wait`, `joblist`).
`NoForgottenWaiter` holds without `-r` (`wait`). `DependencyOrder` holds while no
client is held (`depend`, ten connections). `AllocatedApart` holds until a `-g` job
has run or a job has ended before it was started (`recycled`), `ResultIsTheCommands`
and `OutputComplete` unless the `wait()` for the command was interrupted; `NoOrphan`
names that case and otherwise allows nothing. `SignalsReachJobs` is about answers on
jobs whose RUNJOB_OK the server had handled. `TextsArriveWhole` leaves out the
information of `-i` after a short write. `SequentialStarts` and
`LoneClientConnects` except the disturbed. No client is killed in the runs `depend`
and `order`, and nobody types `-r` in `order` and `wait`: for the properties checked
there the theorems, which have every command line and every death (but for the
`-r` of `NoForgottenWaiter`), are the stronger statement. So they are for the overrun
of `client_cs`, which three clients do not come near. `SavedOnSigterm` leaves out swaps and
says which jobs may be missed. The next section describes the other side.

### Known deviations

What the model does in those regions, against what comments or the manual say. No
run is kept for these.

Server and queue:

- The death of a queued or held client while nothing runs ends the server: the check
  of `busy_slots` at jobs.c:1006 comes before the state of the job is looked at,
  although the comment at jobs.c:1018 wants other states than RUNNING handled
  (`FinishFaults`).
- Waiters for a removed job are never told: jobs.c:1353 asks about job 0.
- A job may start before a dependency that is held (jobs.c:896 looks at QUEUED,
  RUNNING and ALLOCATING only).
- `-u` of the first of several jobs is a null dereference (jobs.c:1632,
  `UrgentFault`, `MoveUrgentFaults`).
- `destroy_finished_job` walks with `++i` (jobs.c:1445) and leaves the list when an
  unkept job with waiters is third or later (`FinishFaults`, `FinishWaitedFaults`).
- `TS_MAXFINISHED=1` writes to freed memory and loses every second result, and 0 faults
  (jobs.c:961, `NewFinishedJob`, `MustFail`; man.c:694: "Limit the number of job results
  (finished tasks) you want in the queue"). In `JobList` the same statements, with
  `MaxFinished = 1`, break `ListsAreSequences` and `NoUseAfterFree` at the second
  result.
- Held clients are let in only when a job starts (server.c:293). With
  `max_descriptors - 5 <= 1` every job is held and none ever starts.
- SIGTERM in the middle of an operation (man.c:380: "on SIGTERM the queue status will
  be saved"): in a swap the walk of `joblist_dump` can miss jobs or run in a
  circle; while a job ends, the jobs behind it are missed; while a job
  is added, its missing command is dereferenced.

Start and end:

- A starting server's socket is unlinked by a second client between bind and listen:
  two servers (server_start.c:163).
- An ending server closes its socket before it unlinks the path (server.c:306); in
  between a successor may bind the path, which the old server then removes.
- A fork that fails in `fork_server` (server_start.c:124) is not reported: the command
  connects once more and gives up (`ForkFails`).

GPUs:

- GPUs of `-g` are taken also when they are in use, and the end of any job unmarks its ids,
  also ids chosen in an earlier round for a job that was not started (jobs.c:868,
  1015): afterwards two jobs may share a GPU.
- `used_gpus` is indexed without a check (gpu.c:123-131): with any number that `-g`
  names, and with -1 when a `-G` job ends before its GPUs are chosen (`AfterWrite`).

Output and signals:

- `-T` and `-k` between RUNJOB and RUNJOB_OK use a pid that is not set (jobs.c:198,
  `early`): what malloc's memory held, so the group of a stranger, or for `-T` with 0
  the sender's own, with 1 every process. `-k` and `-p` of a finished job use the pid of
  a process that is gone and may be another's by now (pids are not used again in the
  model).
- `-T` while a job is skipped is `kill(1, SIGTERM)`: the job is RUNNING and its pid is
  -1 (client.c:154, jobs.c:198, client.c:482; main.c:533: "send SIGTERM to all running
  job groups"). `SignalsReachJobs` names this -1.
- `-t` may begin in the middle of a line (man.c:232: "Show the last ten lines of the
  output file of the named job"): `seek_at_last_lines` leaves its loop when it has
  found enough line ends (tail.c:96), also if the last of them was met in a block whose
  begin it then takes for the place to start. `LastLinesShown` has the line ends, and
  that at least a block is left when the first line is cut.
- A client that is killed, or breaks off, while its command still writes leaves its job
  to the server as ended; `Output` has only jobs whose client lives until the command
  has ended.
- An interrupted `wait()` leaves status uninitialised, and ENDJOB is sent while the
  command runs (execute.c:62; `PROTOCOL`:12 has ENDJOB after the end). If a call of
  mail.c fails then (mail.c:39, 64, 99), the client ends without ENDJOB and leaves a
  command that ignored SIGINT running: the exception in `NoOrphan`.
- The handler has no SA_RESTART: in the `write` of `copy_output` (mail.c:70) it costs
  the mail a block of the output. The terminal's SIGINT also ends gzip, forked
  before `setsid` (execute.c:117), and the output file is cut (`SigintGroup`).
- `-z -E` fails the assertion behind `dup2` (execute.c:187, 189: `err` holds a
  descriptor, not 0), and the name for stderr has room for ten bytes only
  (execute.c:141); a file of `-z` begins with the command line in clear; nobody waits
  for gzip (execute.c:115).
- `signals_child_pid` stays set after the command has been reaped, and the handler
  signals that pid, whosoever it is by then (signals.c:36; in `Execute` nobody's).

Messages and texts:

- `recv_bytes` (msg.c:43) does not notice the end of a stream: a client killed in the
  middle of a message leaves the server in an endless loop (`Spinning`).
- `recv_bytes` returns the size of the last piece; the callers that compare it with
  the whole fail when a long text comes in pieces: `c_show_cmd`, `c_show_label`,
  `c_get_env`, `get_logdir` in the client; `s_get_env`, `s_set_env`, `s_unset_env` and
  RUNJOB_OK stop the server.
- `pinfo_dump` (info.c:80) begins again with the start of the text after a short
  write, and the write of the command behind it is not repeated (`PinfoDump`, `cut`).
- `--setenv var` without a value faults in `setenv` (`SetEnvFaults`), and
  `--setenv a=b=c` stores `b`.

### Fairness

`FairSpec` of `Server` assumes that the server's loop goes on whenever it can (one
thread, scheduled by the kernel), that a client which has something to do does
it, and that every command ends. It does not assume that anybody types a command
or is killed. `FairSpec` of `ServerStart` likewise assumes that processes go on,
and nothing about crashes, signals and new commands. `Gpu` assumes the server's
round only: its select has a timeout while a job is ALLOCATING. `Output` assumes the
server, the clients and viewers, and that commands end, not that they write.
`Execute` assumes that each process goes on and that the command, gzip, sendmail and
the hook end. `Framing` assumes the server and each client, weakly; a server that
spins in `recv_bytes` has no step.

## Proofs

All theorems are for any value of the constants that satisfies the named
assumptions (`ConstantsAssumption`: finitely many clients, natural limits, at
least one slot and one descriptor; `StartAssumption`: the two special values of
the path are not clients; `GpuAssumption` and `ExecuteAssumption`: the types of the
constants; `OutputAssumption`: the types, and that `-T`, which takes no job, has
none; `ListAssumption`: `MaxFinished` is not 0, with which the server faults at
the first result, as `Server` has it). Seven theorems have hypotheses of their
own, named below: four of `LifecycleProofs`, and the three of `JobListProofs`, which
say `MaxFinished >= 2`. `LifecycleProofs` extends `ServerProofs`.

`ServerProofs`: `TypeCorrect`, `SlotsAccounted`, `StartsWithinLimit`,
`ListsConsistent`, `ZeroStaysFirst`. The invariant is `IInv`: types, agreement
of the lists with the table (`QueueConsistent`), the slot count and the place of
job 0, and the finiteness of the set of slots taken. Types alone are not
inductive: `busy_slots` stays natural only because it equals the number of slots of
running jobs, and that number changes by exactly one job's slots only because a job
is in the queue once and in the state its list implies. `JobZeroFirst` is
what makes `s_remove_job`'s stray `check_notify_list(0)` a no-op, which the model
of `RemoveQueued` relies on; it rests on `-u`, `-U` and `-r` never touching the
first place. `ServerProofs` has one lemma per group of actions; the list operations
are covered by `ListLemmas`. Its lemmas also show that every step has one of five
effects on the tables (quiet, a submission, a rejection, a start, an end), which
the later modules build on.

Also in `ServerProofs`: `QueuedJobsHaveClients`, `ReportsFindRunningJobs`,
`ServerAndClientsAgree`. The invariant is `PInv`. `Wired` ties connections to the
queue: a socket is in one place, a job of the queue has one connection, only jobs of
the queue have one. `Linked` says for every connection what may be seen of it: where
its client is and which messages are on their way in each direction, given the
state of the job (`HoldingLink`, `QueuedLink`, `RunningLink`) or the request of a
client without job (`FreeLink`). It is much stronger than `ClientsAgree`, and has to
be: that RUNJOB is not sent twice depends on what is still unread. A connection that
was not accepted yet is treated as if it were (`Accepted`). `WaitersFree` keeps
WAITJOB_OK from getting between the messages about a job. `Linked` ends with the
server, whose tables stand still while the clients go on; so it is claimed while
`server = "up"`, and `ReportsAreExpected` stands beside it for the time after.

`LifecycleProofs`: `LifecycleImplemented`, that is `Spec => ImplementsLifecycle`:
each of the five effects is a step or a stutter of `JobLifecycle` under the mapping.
This needs one more invariant, `NoResultYet`: nothing is recorded of a job that has
not ended, so that an end is the first. That a start fits under the limit is the
argument of `StartsWithinLimit`.
`ResultsAreBounded` and `ResultsAreStored` rest on `ResultsInv`: the bound, that a
stored result is the recorded one, and `LastEnded`: `last_finished_jobid` is a job
that has ended, or still 0. With `JobZeroFirst` this is why `-r` of a queued job,
which is no end with a result, never looks like one. `ResultsAreStored` assumes
`MaxFinished >= 2`; with 0 and 1 it is false (see the deviations).
`WaitersGetResults` adds `WaitersAsked`: a waiter is on the notify list for the job it
asked about. An answer can come from the list of results or from
`check_notify_list`; in both cases it is what was recorded, and since a result is
recorded once the answer stays right while it is on its way.

Also in `LifecycleProofs`: `JobsStartPromptly`. `Woken` is `PromptStart` with a client that
the server listens to; it is inductive because a round of the server ends with
`StartJob` whenever a job is runnable, or with a scan of all the queue that found
none, and then only a message can make one runnable. That `next_run_job` takes the
*first* runnable job needs the least element of a set of places (`LeastOf`, from
the well-foundedness of the naturals).
`WaitersAreHeeded` assumes that nobody types `-r` (`NobodyRemoves`): `s_remove_job`
calls `check_notify_list` for job 0 instead of the job that it removes, and its
waiters are forgotten. It needs `StillReadable`, that what `select` reported of a
connection is true until its turn, for otherwise the request of a waiter could be
lost in a `remove_connection`, and `OnlyTyped` to use the hypothesis.

`JobsWaitForOthers` and `SuccessIsAwaited`, in the same module, are about behaviours
in which the queue is never full for a client that would wait (`NobodyHeld`):
`next_run_job` waits for dependencies that are QUEUED or RUNNING, and one that is
held is neither. The invariant is `DInv`. A job depends on older jobs only
(`DependOnOlder`), so a new one can stand in nobody's way. What the command line
names and is in the queue stands in the job's `depend_on` (`Inherited`); for `-d`
this needs `LastEnded`, since `s_newjob` takes the last job for ended when a later
one has ended. A running job waits for nothing in the queue (`StartedInTime`), and
only the client of a running job was told to run (`ToldRunning`, from `Linked`).
For the results, `Heard` says that a job that has heard of no failure will be
notified by each job it names that is in the queue, and that the others have ended
with 0: an end, a removal, a death of the client and a submission each keep this in
their own way. `Cleared` carries it over to the RUNJOB that is on its way. Besides,
`SuccessIsAwaited` assumes that `-W` comes without `-d` (`SuccessOfNamed`):
`parse_opts` replaces the list by -1, and the last job of `s_newjob` is not always
the one with the id before, with which `RunsOnlyAfterSuccess` compares.

`GpuProofs`: `NoLeak`, `RunningApart`. The two properties need `Marked` (as long as
nothing was recycled, the GPUs of running jobs are marked, so that the next
choice leaves them out) and `NoneAsked` (a job that asked for no GPUs and is
not of `-g` has none, so that starting it marks nothing). They hold for any ids of
`-g` and after a write outside the array as long as the server goes on; the ids
outside the array are never GPUs, which is all that is used of them.

`ExecuteProofs`: `ResultReported`, `OutputIsComplete`, `NoOrphans`,
`SigintsForwarded`. The invariant says for every place of the client which children
can exist (`Processes`), what SIGINT does there and whether one is pending
(`Signals`), and how far reader and writer of the pipe are apart (`Piped`, by
counting, so that the read of the time cannot get the name). The argument for the
result: each `wait()` finds exactly one child that is not reaped, since the
command, sendmail and the hook are forked after the one before was waited for,
unless SIGINT interrupted a `wait()`. `Files` follows the bytes through gzip to the
file, and block by block to the mail: what `copy_output` has passed and sendmail has
not got are at most as many blocks as there were SIGINTs. For `NoOrphans`, a client
that breaks off before its handler is installed has a child that dies with it or has
ended, and one that breaks off in mail.c has reaped the command, unless the `wait()`
for it was interrupted.

`ServerStartProofs`: `StartTypeCorrect`, `LoneClientsConnect`,
`SequentialStartsSafe`. The properties speak of final states, so the invariant
adds what an undisturbed client has achieved at each point (`ProgressOf`: after
the unlink the path is free, after bind it is its own server's, ...), which
clients a starting server belongs to (`Starting`), whose fork failed (`Unforked`),
and that the path names the one
live server as long as nobody was disturbed (`PathFollows`).

`OutputProofs`: `TailIsComplete`, `SignalsAreForJobs`, `LastLinesAreShown`. The
invariant has the tables (`Lists`), what each job's client has done and reported
(`Reports`), and what each viewer knows (`Following`, `Signals`). A viewer of
`-t` asks twice: which file, and then to be told the end. Both requests may be
for no particular job, so `Following` says that the second is about the same job,
or that the first has ended meanwhile and its file is complete. `Calm`
collects what no step takes from a viewer: files only grow, the file of an ended job
stands still, a result stays until it is destroyed, and a running job at the
head of the queue stays there. For signals: the pids in an answer are those of
the jobs that were meant, if the server had handled their RUNJOB_OK. `early` is set
where an answer is about a job of which it had not, and the history `announced`
records that apart from the pid, so that a wrong or missing pid excuses nothing. For
`LastLinesAreShown` the search backwards through the blocks is a recursive function,
and that it stops at the right newline follows without induction: among the
places where it would be wrong there is a least one (`LeastOf`), and the step before
that one was right. That the start is a line's start, or has a block behind it,
follows from the exit of the loop by which it was found.

`JobListProofs`: `ListsAlwaysSpell`, `FreedIsNeverUsed`, `SigtermAlwaysSaves`. While
an operation is under way its pointers spell neither the list of before nor that
of after, so the invariant speaks of the statements that are left (`Ongoing`): from
the memory as it is they lead, one after the other, to a memory that spells `queue`
and `results`; each uses only places that exist (`Does`: no freed job), and leaves
only what SIGTERM may find (`Seen`). A statement is then the head of that plan, so
`Statement` and `Sigterm` keep the invariant at once, and the work is in the
beginning of each operation, whose plan is made from the lists as they are. A
`Chain` is a list as the pointers spell it; it meets no job twice, or it would have
no end (`ChainOnce`, by a least counterexample), so it is no longer than there are
jobs, and the walks of the code meet exactly the chain. `Sound` says that queue
and results are chains and have no job in common: an assignment to the `next` of one
then leaves the other alone. Lemmas about `Sound` and `Stage` say what unlinking,
linking behind the last one, exchanging and destroying do, and are used by all
operations. For `s_swap_jobs` the cases are two jobs apart and two neighbours, in
either order: the statements are the same and what they do is not.
`SavedOnSigterm` says nothing of a swap, so its intermediate memories are held to
`Does` only.

Only model-checked:

- Liveness (`ClientsReturn`, `SearchEnds`, `GpuJobStarts`, `ViewersReturn`,
  `ClientReturns`, `RequestsEnd`), which is out of the prover's reach.
- `Aligned`, `TextsArriveWhole` and `HangsOnlyIfTorn` of `Framing`: what is left of
  a message is a recursive function of the command line and the pieces.

## Not modelled

List formatting (`list.c`, `print.c`), the vendored `cjson/`, the manual, help and
version texts, `msgdump.c` and the debugging dumps, and the text of error reports:
text without state. Option parsing (`parse_opts`): the sets of command lines
stand for it. Times, terminal width, the output of TS_ENV's command, the growth of
buffers and failing allocations. `get_max_descriptors`: its result is a constant.
A relative TS_SOCKET and foreign owners of the socket. COUNT_RUNNING, LAST_ID and
GET_FREE_PERC answer with a number and change nothing.

## Plan

`Aligned` of `Framing`, with an invariant that says what is left of the current
message on each stream; `Parts` and `NewJobWrites` would have to be given as
explicit lists first.
