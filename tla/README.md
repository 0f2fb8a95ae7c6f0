# A formal model of lighttpd-fuzz

`lighttpd-fuzz` fuzzes lighttpd in many configurations ("profiles") at once.
`build.sh` builds and stages one instrumented lighttpd per profile, `run.sh`
supervises a campaign of them, each process fuzzes itself through
`fuzzer.c`, and `backend-responder.py` is the backend for the profiles that
proxy.  This directory holds TLA+ modules that model the parts of that system
where processes, threads, signals and files interleave, the TLC runs that check
them on small instances, and TLAPS proofs for any number of actors, and inputs of any
length, about ten of those parts: who owns a profile, the supervisor, `run.sh --stop`,
the build scheduler, the threads and the life of the backend fixture, the input format
and its three parsers, the triage of sanitizer reports, the writers of the corpus, and the artifact checker.

`PROJECT.json` holds the line-by-line map between definitions and source.

## 1. The system

| Part | State it keeps | Operations | Interacts with |
|---|---|---|---|
| Supervisor (`run.sh`) | tables of children (`fuzzer_pids` and the maps keyed by pid), restart counters, lock descriptors, `backend_pids`, `capture_pids` | start fixture, capture and profiles; monitor loop; restart or give up; `cleanup` | profiles, fixture (fork, signals, wait), `build.sh` and other supervisors (lock files, `run.pid`), `--stop` (SIGTERM) |
| `run.sh --stop` | list of supervisors found in `/proc` | scan, signal, wait 20 s, report | every process of `run.sh` |
| Builder (`build.sh --config=N`) | lock descriptor, the trees `build/` and `run/run_N` | refuse active profiles, lock, rebuild, stage | supervisors and other builds |
| Build scheduler (`build.sh --config=all`) | `build_children`, `next_config` | launch up to the limit, `wait -n`, clean up | its `build.sh` children (fork, signals, wait) |
| Fixture threads (`BackendServer`) | per protocol: listener, bounded queue, active set, threads | accept, queue, handle, stop | lighttpd (TCP) |
| Fixture protocols (`handle_fastcgi`, `handle_http`, `handle_scgi`) | per connection: what was received, the open requests | receive, answer, echo, close | lighttpd (a stream that is cut anywhere) |
| Fixture life (`main`, `_write_ready`) | started servers, temporary and ready file, `stopping` | start, announce, serve, stop | supervisors (ready file, signals), whoever wants its ports |
| Fuzzer callback (`fuzzer.c`) | the input being executed, the test-case log | connect, log, send framed packets, wait for answers, settle | the event loop of lighttpd in the same process |
| Replay (`send-test-case.py`) | none | parse, send | the inputs libFuzzer saves |
| Normalizer (`normalize-corpus-flags.py`) | files of the corpus directory | normalize, add seeds, replace atomically | libFuzzer, and the runs of other builds, in the same directory |
| Triage (`asanProcess.sh`), status (`status.sh`) | none (they read logs, `/proc`) | classify reports, print | logs and `.supervisor-stop` records of the supervisor |
| Artifact policy (`build-check/check_build.py`) | roots, artifacts, failures, errors | load, discover, inspect, decide, write the report | files a build may be rewriting |
| Coverage (`genreport.sh`), `toolchain/`, `configs/` | files | sequential tools and data | - |

What is hard in it:

* **Ownership.** A profile is owned by whoever has the flock of
  `run/.locks/config-N.lock`.  The lock belongs to an open file description that
  every child of the supervisor inherits, so it survives the supervisor; it is
  taken after checks (staged files, pid files, a scan of `/proc`) that may be out
  of date by then.
* **Signals.** bash runs a trap between any two commands: a signal can fall between
  the fork of a child and its registration, or before the child has called
  `setsid` and has a process group that can be signalled.
* **Deadlines.** The cleanup escalates after 10 and 2 seconds, `--stop` waits 20,
  the fixture joins its threads for 1: each races the end of what it waits for.
* **Threads.** `BackendServer.stop()` runs beside the acceptor and the workers.
* **Multiplexing.** The records of several FastCGI requests alternate on one
  connection, and a request id is used again.
* **Streams.** HTTP and SCGI requests arrive cut anywhere, also inside the end of the
  header, and what follows the body is read with it.
* **Files as messages.** The ready file says that three ports are open; a ready file that
  is partial, early or left over misleads the campaign that polls for it.
* **Shared files.** Parallel builds, the user and libFuzzer write one corpus directory; a
  build may rewrite an artifact while the checker walks, reads or replaces files.
* **Agreement.** Three parsers in two languages read the same input format.

What makes each part correct:

* ownership: no build touches the tree of a live profile, no profile has two
  supervised processes, a live process keeps its lock;
* supervisor: restarts are bounded, the end of the fixture stops the campaign, the
  cleanup ends and leaves nothing, only signalled processes get a sidecar;
* `--stop`: it reports the truth about the campaigns it can tell and misses none of these;
* scheduler: the limit holds, the exit status is true, a failure stops the rest;
* fixture: each connection has one owner and is closed, `stop()` ends everything; the
  requests of one FastCGI connection are kept apart and answered as their records say;
  what HTTP and SCGI requests get depends on their bytes, not on how they were cut; a
  ready file means a serving fixture, and an ended one leaves no port and no file;
* inputs: what runs is what replays, what is normalized runs; no file of the corpus is
  torn, and a run that ended left every seed;
* artifact policy: exit status 0 is earned by artifacts that were looked at, 1 by one
  that fails, 2 by a trouble there was; the report replaces no input.

## 2. Modules

### RuntimeTree and ProfileLocks

`RuntimeTree` is the abstract promise: processes *use* the tree of a profile or one
build *writes* it, never both.  `ProfileLocks` is the mechanism: any number of
supervisors, builds and lighttpd processes over the shared `holders` (who has a
descriptor of the locked description), `pidFile` (`run.pid`) and the process
table.

| State | In the code |
|---|---|
| `holders[c]` | descriptors of the locked lock file: `config_lock_fds` (run.sh), `config_lock_fd` (build.sh), and the copies children inherit |
| `pidFile[c]` | `run/run_c/run.pid` |
| `pstate`, `pcfg`, `origin` | `/proc`: what a pid runs, and who forked it |
| `runpc`, `todo`, `cur`, `restarting`, `children`, `fresh` | position, `selected_configs`, the call of `run_fuzzer`, `fuzzer_pids`/`fuzzer_configs`, `$!` |
| `bpc`, `bcfg`, `bpid` | position, profile and the pid read by `pid_from_files` |

`run_fuzzer` is `CheckStaged`, `AcquireLock`, `StopPrevious`, `PreviousWaited`,
`ArchiveFails`, `Fork`, `RecordPid`, `Register`, with `LaunchFailed` for its
`return 1`; the monitor is `ReapChild` and `NoProfilesRemain`; a signal is
`Terminate`, the end of the cleanup `CleanupExit`, a SIGKILL `Crash`.
`refuse_active_instances` is `BuildStart`, `BuildJudge` and `BuildScan`;
`build_software` is `BuildLock` and `BuildEnd`.  A build of one profile and a child
of an all-profile build differ in what follows the scan (the child judges the pid
files once more and does not scan).

Abstractions: `lighttpd.pid`, the second file `pid_from_files` looks at, is left
out: build.sh reads it the same way and nothing in run.sh does.  A pid is not used
again while a supervisor has it in its tables.  Processes started by hand exist from
the beginning, listening or not yet, and are not started later: nothing holds the lock for them, and a
later start is the race the README of the repository leaves to the user.  A command
of a killed build.sh inherits the lock, so the build counts as running until the last
of its commands ends.

### Supervisor

One campaign from the first fork to the exit: every child is "forked" (no session
yet), "running" or "exited"; `sig` is the strongest signal it was sent.  `Signalled`
may fire between any two steps: after a fork the pid is written to `run.pid` (`Record`),
entered in `fuzzer_pids` (`Register`) and then in the other tables, one after the other
(`Note`; `noted` counts the three that matter to the cleanup).  `lost`, a history variable, has the
children that a signal caught on the way (`Halfway`).  The fixture makes its ready file
by itself (`BecomeReady`), whether or not the script still waits for it.  `CleanupStop`, `CleanupTerm`, `CleanupKill`,
`CleanupWait`, `CleanupBackend`, `CleanupBackendWait` and `CleanupFinish` are the
blocks of `cleanup` in their order.  The loops that wait for a limited time allow
both outcomes: the process has ended or it has not.  `mode` is how the campaign was
called (`--fuzz`, `--packet`, whether a profile needs the fixture, and whether the
binary handles SIGTERM).  A launch may fail for any of the reasons ProfileLocks
details.  A loop over all pids is one step.

### StopCommand

Several `run.sh --stop` and several campaigns, numbered by pid, which is the order
in which both loops visit them.  `Command`, `Glob`, `Scan`, `Signal`, `Wait` are
`stop_campaigns`; `Dies` is the default action of SIGTERM, since `--stop` returns
before the traps are set.  A process is recognised by its command line and working directory,
which do not change while it runs: `named` is the set of those started as
`is_campaign_supervisor` expects, chosen freely at the beginning.  (A subshell that a campaign
has just forked has the command line of the campaign and may be found as well; it is gone in a moment
and is left out.)  What a campaign does when signalled is left to Supervisor: it may take any
time.  Its `StopInit`, `StopNext` and `StopSpec` are named
so that `RunProofs` can extend both modules.

### BuildMatrix

The scheduler of an all-profile build: `Launch` and `Register` are the two halves of
the inner loop, `WaitAny` is `wait -n`, `Terminate`, `Kill`, `WaitAll` are
`cleanup_build_children`.  `Interrupt` is a signal whose trap runs, `Killed` a second
one, after the cleanup has removed the traps.

### BackendServer

The threads of one `BackendServer`.  Each step is what a thread does between two
points another thread can observe; sections under `_active_lock` and the calls of
`queue.Queue` are single steps.  `Talkative` are the clients of a FastCGI
connection that is kept open and never stops sending: their handler does not end by
itself.

### FastCgi

`handle_fastcgi` on one connection.  An action is one record received and all that the
handler does with it: `Begin`, `Params`, `ParamsEnd`, `Stdin`, `StdinEnd`, `Abort`,
`Other`, and `Invalid` and `Orphan` for those it refuses at once; `PeerEnds` is the end
of the stream or the timeout of `_recv_exact`.  `requests` is the dictionary of the same
name, `wire` what was sent.  Parameters are kept as the tokens they consist of, not as
bytes: a pair that selects a mode, or the first half of a pair whose value is the next
token.  `Parse` reads them as `_fcgi_params` and `select_mode` do, and a stream that ends
between name and value is the truncated one.  Of the response plans only what the
handler tells apart is kept: an answer that is whole, one that breaks off, one that
echoes the body.

`trace`, the records received, is a history variable.  The second half of the module says
of any sequence of records `t`, without `requests`, which request a record belongs to
(`StartOf`), what its parameters and body amount to (`Selected`, `BodyOf`, `Meant`) and which
records are at fault (`AtFault`); the properties compare that with what the handler did one
record at a time.  `EndsAsMeant` is an equivalence: the connection is given up at those records,
and closed after those answers, and at no other.

### HttpScgi and Handlers

`HttpScgi` is `handle_http` and `handle_scgi` as readers of a stream: `Recv` returns any
non-empty part of what was asked for and has been sent, `PeerEnds` is its end or the
timeout.  `HttpHeader` is `_recv_headers` with the parsing that follows, `Body` the rest of
the body, `HttpRespond` the answer, `Tunnel` the echo after an upgrade; `ScgiLength`,
`ScgiBlock`, `ScgiComma`, `ScgiRespond` are the parts of a netstring request.  A stream is
a sequence of units (a line, a header, an end of line, a digit, a name, data) and the
limits count units.  As in the code, a header block that has just outgrown its limit is
accepted when the same `recv` brought its end.  `MeansHttp` and `MeansScgi` say from the
whole of what was received what the request amounts to; the properties compare this with
what the handler did piece by piece.  The mode header is the last of its name and may be
empty, which selects nothing.

`Handlers` composes the three handlers over the control state and the answer they share,
as `_HANDLERS[self.protocol]` selects them.

### FixtureLife

`main` and `_write_ready` of the fixture against `start_backend_responder` and `cleanup`
of several supervisors that compete for its ports, with each other and with strangers.
The fixture is `InstallHandlers`, `StartServer` per port, `CreateTemp`, `WriteTemp`, `Link`
and `ClearTemp` of the ready file, `EndServe`, `StopServer`, `End`; `WriteFails` and
`PrintFails` are its exceptions (in the second, the log is full: the ports then close before
the ready file goes).  The supervisor is `CheckPorts`, `Fork`, `Register`, then turns of the
loop, each a look for the file (`Poll`) and either the greps (`GrepReady`) or a look for the
process (`Probe`); then `BeginCleanup`, `CleanupTerm`, `CleanupKill`, `CleanupFinish`.  A
signal before `Register` starts a cleanup that knows of no fixture (`CleanupForgets`): it
removes a ready file that is there already and the fixture lives on.  The three greps are one
step, at the time of the last: the file is linked once and whole, so one that is there then
was there for the others.  Anybody may signal or kill a fixture or kill a
supervisor.  A server starts and stops in one step: BackendServer has the details.

### CorpusWriter

Runs of `normalize-corpus-flags.py` on one corpus directory: `List`, `Look`, `Read`,
`EndScan` are the loop over the inputs, `LookSeed`, `Compare`, `EndSeeds` the one over the
seeds, `OpenTemp`, `WriteTemp`, `Replace` are `atomic_write`, and `Stop` is a kill or a full
disk at any of them.  `Find`, `Finish`, `Remove` are libFuzzer and the user.  A content is
"raw" (`normalize` would change it), "norm" (it would not) or the bytes of the "seed"; what
`normalize` makes of a raw file under the name of a seed is mostly another file than the
seed, and may be the seed.  That seeds are themselves normal was checked by running
`normalize` on each of the 291 (it changes none).  libFuzzer keeps raw units too: fuzzer.c (lines
209-215) looks at three flags and accepts any other, `normalize` does not.  Left out is only
that libFuzzer finds the very bytes of a seed.  A full run that has read a raw file under a
seed's name may put it back, normalized, over the seed another run has written since; `reverted`
records that, and it mends it itself in its second loop unless it is killed before.  A run lists
the temporary files of others like any other file, so a path is a name followed by the
pids of writers; of these a temporary of a temporary is the longest (`Paths`), and each
name is found and removed once.  A full run that reads a file which another is writing puts
back what it has read of it; `meddled` records that, and the properties except it.  The README
of the repository (line 214) promises only of runs with `--seeds-only` that they rewrite no
unit, and that is what `FilesWhole` says of units (`UnitKept`): a full run may normalize them.

### ArtifactPolicy

One run of `check_build.py` (`PolicySpec`): `LoadConfig`, `StartRoot`, `Add`, `EndRoot`, `EndDiscover`
(the walk, links and exclusions included), `CheckOutput` (what the report may not replace),
`InspectFile`, `InspectTimeout` and `EndInspect`, then `WriteReport` or `WriteFails`.
`Disturb` is a build that rewrites or removes a file between any two of them.  A pattern is
the set of items it matches; what readelf shows of a unit is the set of traces each check
finds in its tables.  What may fail without any build beside it is modelled too: a file that
cannot be read (`open`, by `Opens` and `Fails`), a directory with a part that cannot be listed
(`Closed`), no readelf (`installed`).  Left out is a directory that may be listed but not searched,
where `stat` of its files fails too; a report that cannot be written is `WriteFails`.  The
decision table is `EffectiveModes` and `PolicyFailed`.  The
properties judge a run by the trees it could have seen: `Required` and `Satisfies` are
written from the meaning of the modes, without the order of the sections' updates.
`TreesAssumption` says what a file may be: readelf shows units only of ELF files and archives,
and a file with a second hard link is there.  `ConfigsAssumption` says that the lists of a
configuration are lists.

### FuzzInput

The input format as operators (`ValidMultipacket`, `FuzzerPackets`, `ReplaySends`,
`Frame`, `Normalize`, each translated from its own program) and one callback of
`fuzzServer` as a state machine, whose calls may fail at any moment.  `LogInput`
assumes that a log was asked for and can be written.  The settle delays have no
counterpart: the model has no clock.

### ShutdownTriage

One profile, its supervisor, its processes, logrotate and one run of asanProcess.sh
after the other, all beside each other.  `Launch` and `Cleanup` append the marker lines
to the error log, `Signal` and `Record` are the two parts of `cleanup` that set
`supervisor_stop_expected` and write the `.supervisor-stop` record, `Archive` is the
pair of moves at the start of a campaign.  asanProcess.sh is cut where another process
can come in between: the list of reports (`Begin`), the greps that must succeed and the
one that must fail (`CheckExit`, `CheckError`), the scan of the error log
(`ScanErrors`).  The awk program is `Read`, folded over the lines.  A report is the set
of what the greps look for; a line is its kind and its launch or pid.  Campaigns write
the error log (`LOG_OUTPUT=1`), and their supervisor is not killed.  What follows the
decision, the text filters and the counts, is left out.

## 3. Runs

| Run | Instance | Shows |
|---|---|---|
| `locks` | 2 profiles, 2 supervisors that select all or the second, 1 build, 2 pids | ownership properties, `IInv` and the refinement of RuntimeTree; two profiles are needed for the order of launches and for `--config=all`, two supervisors for the competition; the second profile is the one that `--config=all` may find taken after it has launched another |
| `supervisor` | 2 profiles, 1 rapid restart, three ways of calling (`MCCalls`) | safety and liveness of a campaign; with one restart the limit is met both by a profile that is restarted and by one that is given up |
| `stop` | 2 stops and 2 campaigns with interleaved pids, each recognisable or not | `--stop` against campaigns that start and end meanwhile and against another `--stop` |
| `supervisor_exit_stops_all` | as `supervisor` | a child that a signal kept out of the tables lives on |
| `backend` | 4 connections (1 talkative), 2 workers, queue of 2 | the queue can be full while both workers are busy and the acceptor holds one more |
| `handlers` | FastCGI: 2 request ids, 6 records, limits of 2 units; HTTP and SCGI: some hundred streams, limits of 6 units for a header, 2 for a body, 3 for a `recv` and 3 digits | two interleaved requests, an id used again after an answer or an abort, a value that looks like a name fit in six records; the streams are on both sides of every limit, with lengths that are missing, repeated, negative or no numbers, bodies that are short or followed by more, and end-of-header marks cut by a `recv` |
| `fuzz_input` | payloads of up to 5 bytes over {0, 1, 2}, every flag combination, frames around the limit of 2 packets | all boundary cases of the framing: empty, truncated, zero length, too long, too many |
| `build_matrix` | 4 profiles, 2 at a time | the limit is reached, and profiles remain when one fails |
| `artifact_policy` | an object, an archive of two members, an executable with a link to it, the configuration, the checker and an output; 14 configurations, 25 trees, with files that cannot be read and a directory that cannot be listed, with and without readelf; a build changes the archive | every mode, overriding and repeated sections, excluded and foreign members, missing roots, and an output that is an input by name, by link or by exclusion |
| `fixture_life` | 2 supervisors, 2 ports, 2 looks at the ready file | one of several ports taken, a supervisor that gives up while its fixture still starts, both competing |
| `corpus` | 2 runs, 1 seed, 1 unit | two writers of one name, and one that lists the other's temporary; two seeds were checked once (25 million states) and show nothing more |
| `triage` | 2 launches, 2 pids | two launches are needed for a pid that is used again, for a restart and for a second campaign that moves the files of the first |

The type invariants of the proved modules are theorems and not repeated by the runs;
the run `locks` checks `TypeOK` and `LiveHoldsLock` as parts of `IInv`.  The runs of FuzzInput,
ShutdownTriage and CorpusWriter have no type invariant: it is the first part of the
`IInv` their proof modules prove.

The limits of the code (5 restarts, 64 packets, 16 workers) are constants of the
modules; the runs use smaller values on both sides of which the behaviour changes in
the same way.  Where a run says `CHECK_DEADLOCK FALSE` the modelled program ends:
the campaign exits, the scheduler returns, the server stops, the connection is closed,
the commands are over.  The other runs check deadlock.

Every property has a *mutant* in the module it is about: a definition next to the
original (its comment starts with "Mutant:" or says that it is a bug) that changes
one thing the way a mistake in the code would; with it the property fails.
`PROJECT.json` lists the pairs.

### Where the code disagrees with its documents

One run expects a violation; its property quotes the document:
`supervisor_exit_stops_all` (`ExitStopsAll`).  A signal between the fork of a child and its
registration leaves the child running after the supervisor has exited.  `CleanExit` and
`LeavesNothing` say what remains true: nothing but such a child and its files is left.

Four more disagreements have no run, because a property says what remains true.

* build.sh (line 214) removes the `run.pid` of a supervised child that has not executed
  lighttpd yet, although a comment of run.sh (lines 542-543) calls the file "owned solely by
  this supervisor" and the README of the repository (lines 116-117) agrees.  The lock keeps
  the build out all the same (`NoBuildOverLive`); `run.pid` is only missing.
* A group signal before the `setsid` of the child is lost (run.sh, line 218), and the `wait`
  of the cleanup (lines 240-263) has no limit.  With every such child past its `setsid`,
  the cleanup ends (`CleanupEnds`).
* `--stop` finds a campaign only if it was started as the full path of run.sh, or as `run.sh`
  or `./run.sh` in the checkout (run.sh, lines 92-94).  One that was started as `../run.sh`,
  say, goes on while the command reports "No running campaigns found.", though the README of
  the repository (line 68) and the usage of run.sh (line 327) promise to stop every active
  campaign started from the checkout.  `ReportIsTrue` and `NoneMissed` are about the
  campaigns that can be told (`named`).
* Two `--stop` commands take each other for campaigns (run.sh, line 86): one may kill the
  other, which then has not waited for anything (README of the repository, line 74).  What
  a command does report is true (`ReportIsTrue`).

Two differences need no run.  `fuzzServer` connects (fuzzer.c, line 217) before it
records the input "before target code can emit a diagnostic" (line 222): the event loop
may accept in between, and only the sends wait for the log (`Replayed`).  The README
of the repository (lines 100-102) has the fixture stopped after the lighttpd
processes, run.sh signals it first (lines 224-228) and says why.

### Fairness

Safety runs need none.  `Supervisor` assumes that the script is scheduled, that a turn
of its monitor loop looks at the fixture again and again (strong fairness of
`BackendDied`: the loop visits `backend_pids` every 5 seconds, and restarts only take
it away for a while), that a forked child reaches its exec or ends, and that SIGKILL
ends a process.  A lighttpd may ignore SIGTERM for ever, and nothing has to crash.
`BackendServer` assumes that threads are scheduled, that `accept` on a closed listener
fails, and that a handler ends unless its peer is talkative and its socket open: every
`recv` has a timeout and the HTTP and SCGI handlers read a bounded number of bytes.
`BuildMatrix` assumes that a build ends.  `FixtureLife` assumes that fixture and supervisor are
scheduled (weak fairness of the steps of each); signals, failures, and what strangers and
killers do never have to happen.

## 4. Proofs

`ProfileLocksProofs` proves, for every number of profiles, supervisors, builds and
processes, from `ConfigsAssumption`, `SelectionsAssumption` (a command line selects one profile or
all) and `ActorsAssumption` (the kinds of actors are distinct):

* `Invariant`: `Spec => []IInv`;
* `TypeCorrect`, `OneProcessPerProfile`, `LockHeldWhileAlive`,
  `BuildsSpareLiveProfiles`: the type invariant and the safety invariants of the run
  `locks`, which checks `TypeOK` as a part of `IInv`;
* `Refinement`: `Spec => ImplementsTree`.

The properties are not inductive by themselves.  A build spares live profiles because
the profile is locked while a supervised process lives (`LiveHoldsLock`) and because
after its scan every process of the profile is supervised (`Scanned`).  A live process
keeps its lock because only the supervisor whose description it shares could unlock it,
and that one does so only without a child of that profile: this needs to know that a
process sharing the lock with a supervisor is in the supervisor's tables or being
registered (`Family`), that there is at most one such child per profile and none of the
profile being launched (`ChildTable`), which variables of a call are in use when
(`CallState`), and that a lock is held by one build or by one supervisor's family
(`LockTable`).  `IInv` is the conjunction.  `InvStep` has one lemma per action with one
step per conjunct; the theorems follow by PTL.  For the refinement, `Fork` maps to
`Enter`, `ProcessExit` to `Leave`, `BuildLock` to `Begin`, `BuildEnd` to `End`, and
everything else to a stutter.

The other proof modules have the same shape: an inductive `IInv` of a few named parts,
`Init => IInv`, one lemma or one step per action, and the theorems by PTL.  `IInv` of
Supervisor, BuildMatrix, FixtureLife, FuzzInput, ShutdownTriage, CorpusWriter and
ArtifactPolicy, and `HandlerOK` of Handlers with its part `FcgiOK`, was given to TLC, on the
instances of the runs, before it was proved.

* `RunProofs`, second half (`StopIInv`): any number of `--stop` commands and campaigns.  `Progress` says for each
  command and each campaign that was up when the command started how far it has come
  with it (not yet scanned, found, signalled, or gone), by the position of its loops, if the
  campaign can be told by its command line.  From it follow `ReportsAreTrue` and `NoCampaignMissed`.  Assumed: pids are numbers and a pid is a
  command or a campaign.
* `RunProofs`, first half: any number of profiles and restarts.  `PidsOK` ties tables, pid files and
  processes together at each place of the script, `RapidOK` bounds the attempts, `EndOK` says
  what each block of the cleanup has already ended, `SignalOK` who was signalled.  A child that
  lives and a run.pid that is there belong to a child in the tables, on the way into them or lost on
  that way (`LostOK`), which makes the exceptions of `CleanExit` the only ones.  From it:
  `ExitIsClean`, `PidFilesTrue`, `SidecarsTrue`.
* `ResponderProofs`, the server: any number of connections and workers and any length of the queue.
  `PlacesOK` counts the places of a connection (acceptor, slot of the queue, worker),
  `WorkersOK` and `StopOK` say what workers and `stop()` hold at each point, `Balanced` relates
  unfinished tasks to the queue and the busy workers.  From it: `OnePlace`, `NoSurplus`,
  `OneLeft`.  Assumed: `QueueAssumption`, `WorkersAssumption` (finitely many workers) and
  `ClientAssumption`.
* `ResponderProofs`, FastCGI (`FcgiOK`): any number of request ids, records and open requests, any
  limits.  The handler keeps one entry per id and takes a record at a time, the references read the
  whole trace, so the invariant says of every id that its entry is what the records since the begin
  of its open request amount to, or that none is open (`CollectedIs`, `RequestIs`).  The mode is
  the hard part: `Parse` is a fold over the tokens of one entry, and pieces of other requests lie
  between them in the trace.  `Parse` of the entry is what `Selected` and `ExpectsValue` say of the
  set of their places, and one token more changes both alike (`ParseAppend`, `ParsedNext`).  What
  one record more does to the references is the other half: what was before it means what it
  meant (`StartAlike`, `MeantAlike`), a begin opens a request and the end of its body or an abort
  closes it (`StartNext`), and it is at fault exactly when the handler refuses it (`FaultNone`,
  `FaultOpen`).  With it: `Answered` (one answer per finished body, in order) and `EndedAs`.  From
  it: `FcgiAnswers`, `FcgiEnds`.  Assumed: `IdAssumption`, `LimitAssumption` and
  `RequestAssumption` (`NoRequest`, the entry of an id that is not open, is no request).
* `ResponderProofs`, HTTP and SCGI: every stream over any units, every way
  to cut it, any limits.  The handlers throw away what they have parsed, and the references read
  all that was received at once, so `HandlerOK` says where in the stream a handler is.  While
  an HTTP handler reads the header no empty line has been received and all of it is held; after
  that there is a first empty line within the limit (`IsEnd`), the length and the mode are what
  the header up to there selects (`HeaderIs`), and what is held is what follows it (`HttpBody`,
  `HttpTunnel`).  For SCGI the same with the colon after the digits (`IsStop`), the block it
  announces and the comma (`ScgiHeaders`, `ScgiBody`).  `MeansNone`, `MeansEnd`, `MeansStop` and
  `ScgiBodyMeans` then say what the references make of such a prefix.  The last of several
  headers is a fold over a set (`LastStep`, by `NatRule`).  From it: `HttpAnswers`,
  `ScgiAnswers`.  Assumed: `LimitAssumption`, `StreamAssumption` (a stream is a sequence of
  units) and `UnitAssumption` (a length that can be read is an integer, of either sign).
* `BuildMatrixProofs`, any set of profiles and any limit.  `StatusOK`, `ReapedOK`, `WaitingOK`,
  `OthersOK` place every profile with the waiting, the registered or the waited for, but for
  that of an interrupted launch; `RoomOK` keeps the limit.  From it: `NeverTooMany`,
  `SuccessIsTrue`, `OneBuildLeft`.
* `FixtureLifeProofs`, any number of supervisors, ports and polls.  `ServersOK` says which ports a
  fixture holds by its place in `main`, `FilesOK` what its two files are there, `TouchedOK` that
  only a touched fixture stops, `PlaceOK` what its supervisor has seen: a file that it found
  in the test may be gone at the greps, but then the fixture was touched.  From it:
  `NothingLeft` and the action property `ReadyIsTrue`.

* `FuzzInputProofs`, every input and every limit of packets.  What the properties say of the
  format is about all byte strings, so most of the module is about the parsers.  They are
  recursive functions, and the library's induction theorems cannot be used here (they take
  an operator as a parameter); instead the numbers that a statement is true of form a set, and
  a set that has 0 and every successor is `Nat` (`NatRule`, from the well-foundedness of finite
  subsets).  A recursive function is first shown to exist (`WalkExists`, `ParseExists`), which
  gives its equation.  `WalkParses` and `AcceptAlike` then say that the validator in C and the
  parser in Python accept the same inputs; `FlattenCons` and `FramesBack` that parsing gives back
  what `multipacket()` framed; `NormalizedIs` what `normalize` can return.  `InBounds` and
  `Replayed` are not inductive: the send loop reads lengths without a check.  `IInv` adds that
  an input which was accepted is always at a packet boundary from which the walk of the
  validator goes on to the end (`Accepted`, `AtPacket`), that in the middle of a packet the rest
  of it is there (`AtHalf`), and that what was sent, followed by what the parser makes of the
  rest, is what the replay sends (`SentSoFar`, `Fresh`).  From it: `StaysInBounds`,
  `SendsAreReplayed`, `FramingsAgree`, `NormalizedAccepted`.  Assumed: `InputsAssumption`
  and `MaxPacketsAssumption` (inputs are sequences of bytes, the limit is at least one), and
  `InvalidAssumption`: the parser's "not framed" is not itself a sequence of packets (it stands
  for an exception or a refusal).
* `VerdictProofs`, first half: any number of launches and any set of pids.  The scan of the error log
  is a fold over lines; `IterExists`, `ScanSteps` and `ScanResult` say what it does with one
  line more, `ScanConfirms` and `ConfirmedStays` what it has confirmed at the end.  A report
  that is moved away while asanProcess.sh looks at it, and a pid that is used again, are what
  the properties are about, so `IInv` says which launch each line of the log belongs to
  (`Attributed`), that a report is moved away only when the log has no marker of its launch any
  more and will get none (`Moved`), that a stop record is of a process that was signalled and
  is gone (`Records`, `Process`), where what a signalled process prints stands (`Late`), and that
  a candidate of the triage has its record and shows no error or is moved away (`Candidates`,
  `Scanned`).  From it: `OnlyReportsOfShutdowns`, `OnlyLinesOfShutdowns`,
  `StoppedIsRecognised`.  Assumed: `TriageAssumption` (0 is no pid).
* `VerdictProofs`, second half (`PolicyIInv`): any configuration, any files and any build beside
  the run.  `LastSpeakerDecides` says what a fold of updates leaves, for every number of
  sections, and `ModesAreRequired` that the modes a unit is judged by are the ones `Required`
  reads off the text; `JudgedRight` that the decision table means `Satisfies`.  `InspectIs`,
  `ReadIs` and `ErrorHasCause` say what one artifact adds: without an error everything that
  was shown is judged, without a complaint everything was shown, and an error in a file
  that nothing disturbed is one of the file.  The properties speak of the end of the run, so
  `PolicyIInv` says what is known on the way: roots that are behind have an artifact (`Served`),
  what is wanted and not taken is still to come (`Missed`), what was inspected was shown whole and
  complies (`Inspected`), each failure is of a unit that was shown (`Real`), what nothing
  disturbed is as it was at first (`Kept`, `Taken`), and each error has its cause (`Alarm`).
  From it: `EarnedZero`, `RealFailures`, `AlarmsHaveCauses`, `InputsStay`.  Assumed: the named
  assumptions of ArtifactPolicy; `NoneAssumption` only says that `None` is nothing else.
* `CorpusWriterProofs`, any number of runs, seeds and units.  `TempApart` says that the temporary of
  a run is no file of the corpus and nobody else's.  `IInv` says what a run is at in each of its
  loops (`Place`), that a temporary which exists is of a run that is writing it or was killed
  (`Temporary`), that a run which writes has its temporary to itself and has whole data for a
  name (`Write`), what became of the seeds it has behind it (`Seen`), and that the names are
  whole (`Whole`): a unit is as libFuzzer wrote it, or normalized while some run is a full one,
  and a seed that was put back over is the doing of a run that has not come to its end.  All but `Place` holds only while no full run took what another was writing
  (`Sound` under `~meddled`), which is the exception the properties make.  One run's step
  leaves the others' parts true because paths of different runs differ (`Keeps`, `RunSame`).  From it:
  `NamesAreWhole`, `CompleteRuns`.  Assumed: `NameAssumption` (a seed is not a unit, `None` is
  no run).

`RunProofs`, `VerdictProofs` and `ResponderProofs` each hold the proofs of two modules that share
no variable: a campaign and `--stop` are two jobs of one script, the triage and the checker are
the two programs that judge what others left, both by a fold, and the server and its handlers
are one program.  `NatLeast` and `NatRule` are stated in each module that needs induction;
these import nothing else from each other.

Every invariant and every action property that a passing run checks is a theorem.  Only
model-checked: the violation `ExitStopsAll`, and all liveness (`RestartsBounded`, `BackendDeathStops`, `CleanupEnds`, `AcceptedIsClosed`, `ThreadsEnd`,
`BuildEnds`, `WaitsEnd`): fairness and ENABLED are out of the prover's reach.

## 5. Not modelled

* `status.sh`: a read-only look at what ProfileLocks describes; it changes no state.
* `genreport.sh`, `toolchain/`, `checkObjects.sh`, `configs/`: pipes, downloads and data.
* configure, make, patches and the files a build copies; of a build only the scheduling, the
  ownership of the tree, the seeds it adds and the artifacts it rewrites.
* Failures of `_send` in the handlers of the fixture: the end of a connection is modelled where
  it is read, not where an answer is sent; the worker then closes it in the same way.
* What a build puts at the path of the report between the check of `CheckOutput` and the
  write: the code does not protect it and `InputsKept` leaves it out.
* The bytes of the fixture's answers and the table of seeds, most of
  `normalize-corpus-flags.py`: data.
* In `asanProcess.sh` what follows the decision which reports to leave out: text filters
  and counts.  In `check_build.py` the text of readelf and the layout of the report.
* Port checks other than those of ProfileLocks and FixtureLife, log rotation outside
  ShutdownTriage, the wording of messages.
* Time: pid reuse within seconds and the settle delays of the fuzzer.

## 6. Order of the work

RuntimeTree, ProfileLocks and their proofs came first, because everything rests on who owns a
profile; then Supervisor, StopCommand, BuildMatrix, BackendServer, FuzzInput, ShutdownTriage,
FastCgi; then HttpScgi and Handlers, CorpusWriter, FixtureLife, ArtifactPolicy, and the proofs of
StopCommand, Supervisor, BackendServer, BuildMatrix and FixtureLife; then those of FuzzInput,
ShutdownTriage, CorpusWriter, ArtifactPolicy, of the HTTP and SCGI handlers, and last of the
FastCGI handler.

What could follow: the answer of `status.sh` against the states of ProfileLocks.
