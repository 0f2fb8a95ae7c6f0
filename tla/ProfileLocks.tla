---------------------------- MODULE ProfileLocks ----------------------------
(***************************************************************************)
(* The ownership of the profiles of one checkout.  Several run.sh           *)
(* supervisors and several build.sh workers compete for the profiles; a     *)
(* profile is owned through flock(2) on run/.locks/config-N.lock, with the  *)
(* file run/run_N/run.pid and a scan of /proc as further evidence of a      *)
(* process that is still running.                                           *)
(*                                                                          *)
(* A flock belongs to an open file description.  bash does not mark the     *)
(* descriptor close-on-exec, so every process a supervisor forks while it   *)
(* holds a lock keeps that lock alive: holders[c] is the set of processes   *)
(* with a descriptor of the locked description of profile c, and the lock   *)
(* is free when that set is empty.                                          *)
(*                                                                          *)
(* Each step of run_fuzzer and of build_software that another process can   *)
(* observe is an action.  Left to Supervisor: the counter that limits       *)
(* restarts, the backend fixture, the signals and deadlines of the cleanup. *)
(***************************************************************************)
EXTENDS Naturals

CONSTANTS
    Configs,      \* profile numbers
    Selections,   \* what --config can select: one profile or all of them
    Supervisors,  \* run.sh invocations
    Builds,       \* build.sh workers, each building one profile
    Pids,         \* process ids of lighttpd processes
    None          \* no profile, no process

ASSUME ConfigsAssumption == Configs \subseteq Nat
ASSUME SelectionsAssumption ==
    Selections \subseteq {Configs} \cup {{c} : c \in Configs}
ASSUME ActorsAssumption ==
    /\ Supervisors \cap Builds = {}
    /\ Supervisors \cap Pids = {}
    /\ Builds \cap Pids = {}
    /\ None \notin Supervisors \cup Builds \cup Pids \cup Configs

VARIABLES
    \* shared: the file system and the process table
    holders,   \* holders[c]: who has a descriptor of the locked lock file of c
    pidFile,   \* pidFile[c]: the pid in run/run_c/run.pid, or None
    pstate,    \* pstate[p]: "free", "exec" (forked, not yet lighttpd),
               \*   "boot" (lighttpd, not yet listening) or "serve"
    pcfg,      \* pcfg[p]: the profile p runs, None when p is not alive
    origin,    \* origin[p]: the supervisor that forked p; None when p is not
               \*   alive or was started by hand, without a lock
    \* run.sh
    runpc,     \* where each supervisor is
    todo,      \* selected_configs that are still to be started
    cur,       \* build_config of the run_fuzzer call under way
    restarting,\* launch_kind of that call is "restart"
    children,  \* fuzzer_pids and fuzzer_configs: the pairs <<pid, profile>>
    fresh,     \* the child forked by this call and not yet in fuzzer_pids
    \* build.sh
    bpc,       \* where each build is
    bcfg,      \* the profile it builds
    bpid       \* the pid it has read from run.pid

procs   == <<pstate, pcfg, origin>>
runVars == <<runpc, todo, cur, restarting, children, fresh>>
bldVars == <<bpc, bcfg, bpid>>
vars    == <<holders, pidFile, procs, runVars, bldVars>>

RunPCs == {"idle", "stage", "lock", "previous", "waitPrevious", "launch",
           "record", "register", "failed", "monitor", "cleanup"}
BuildPCs == {"idle", "files", "scan", "refiles", "lock", "write"}
Actors == Supervisors \cup Builds \cup Pids

Live(p) == pstate[p] # "free"

\* /proc/p/exe is run/run_c/sbin/lighttpd: p has got past fork and exec.
RunsBinary(p, c) == pstate[p] \in {"boot", "serve"} /\ pcfg[p] = c

\* x closes all its descriptors by ending.
WithoutHolder(x) == [c \in Configs |-> holders[c] \ {x}]

\* Mutant: the descriptors are close-on-exec.
WithoutInheritance(s, p) == holders

\* A fork by s: p inherits every lock descriptor that s has open.
WithInherited(s, p) ==
    [c \in Configs |-> IF s \in holders[c] THEN holders[c] \cup {p}
                                           ELSE holders[c]]

\* flock -u on the description s has locked: it is free for everyone, even
\* if a process that inherited it is still alive.
Unlocked(s, c) ==
    IF s \in holders[c] THEN [holders EXCEPT ![c] = {}] ELSE holders

\* The run.pid of c is removed, but only if it still names p.
WithoutPidFile(c, p) ==
    IF pidFile[c] = p THEN [pidFile EXCEPT ![c] = None] ELSE pidFile

\* Processes started by hand may be starting or running at the beginning; a
\* run.pid may name any process, or none.
Init ==
    /\ holders = [c \in Configs |-> {}]
    /\ pidFile \in [Configs -> Pids \cup {None}]
    /\ pstate \in [Pids -> {"free", "boot"}]
    /\ pcfg \in [Pids -> Configs \cup {None}]
    /\ \A p \in Pids : pstate[p] = "free" <=> pcfg[p] = None
    /\ origin = [p \in Pids |-> None]
    /\ runpc = [s \in Supervisors |-> "idle"]
    /\ todo = [s \in Supervisors |-> {}]
    /\ cur = [s \in Supervisors |-> None]
    /\ restarting = [s \in Supervisors |-> FALSE]
    /\ children = [s \in Supervisors |-> {}]
    /\ fresh = [s \in Supervisors |-> None]
    /\ bpc = [b \in Builds |-> "idle"]
    /\ bcfg = [b \in Builds |-> None]
    /\ bpid = [b \in Builds |-> None]

-----------------------------------------------------------------------------
(* run.sh *)

At(s, pc) == runpc[s] = pc
Goto(s, pc) == runpc' = [runpc EXCEPT ![s] = pc]

\* run_fuzzer is called for the first of the profiles S that are left to start.
CallFor(s, S) ==
    \E c \in S :
        /\ \A d \in S : c <= d
        /\ cur' = [cur EXCEPT ![s] = c]
        /\ todo' = [todo EXCEPT ![s] = S \ {c}]

\* run_fuzzer has returned, or was unwound by an exit.
NoCall(s) ==
    /\ cur' = [cur EXCEPT ![s] = None]
    /\ restarting' = [restarting EXCEPT ![s] = FALSE]
    /\ fresh' = [fresh EXCEPT ![s] = None]

\* exit: the EXIT trap runs.
Exit(s) ==
    /\ Goto(s, "cleanup")
    /\ NoCall(s)
    /\ todo' = [todo EXCEPT ![s] = {}]
    /\ UNCHANGED <<holders, pidFile, procs, children, bldVars>>

\* run.sh --config=N or --config=all: refused when a selected port is taken.
Start(s, selected) ==
    /\ At(s, "idle")
    /\ \A p \in Pids : pstate[p] = "serve" => pcfg[p] \notin selected
    /\ CallFor(s, selected)
    /\ restarting' = [restarting EXCEPT ![s] = FALSE]
    /\ Goto(s, "stage")
    /\ UNCHANGED <<holders, pidFile, procs, children, fresh, bldVars>>

\* The tree is looked at before the lock is taken, so a build may be halfway
\* through it: the check may come out either way.
CheckStaged(s) ==
    /\ At(s, "stage")
    /\ Goto(s, "lock") \/ Goto(s, "failed")
    /\ UNCHANGED <<holders, pidFile, procs, todo, cur, restarting, children,
                   fresh, bldVars>>

\* acquire_config_lock: nothing to do for a lock kept since the last launch.
AcquireLock(s) ==
    LET c == cur[s] IN
    /\ At(s, "lock")
    /\ \/ /\ s \in holders[c]
          /\ Goto(s, "previous")
          /\ UNCHANGED holders
       \/ /\ holders[c] = {}
          /\ holders' = [holders EXCEPT ![c] = {s}]
          /\ Goto(s, "previous")
       \/ /\ holders[c] # {} /\ s \notin holders[c]
          /\ Goto(s, "failed")
          /\ UNCHANGED holders
    /\ UNCHANGED <<pidFile, procs, todo, cur, restarting, children, fresh,
                   bldVars>>

\* stop_previous: a run.pid that names no process of this binary is removed,
\* and so is one that names a process started by hand with a configuration of
\* its own; the process it names otherwise is signalled and waited for.
StopPrevious(s) ==
    LET c == cur[s]
        p == pidFile[c]
    IN
    /\ At(s, "previous")
    /\ \/ /\ p = None
          /\ Goto(s, "launch")
          /\ UNCHANGED pidFile
       \/ /\ p # None /\ (~RunsBinary(p, c) \/ origin[p] = None)
          /\ pidFile' = [pidFile EXCEPT ![c] = None]
          /\ Goto(s, "launch")
       \/ /\ p # None /\ RunsBinary(p, c)
          /\ Goto(s, "waitPrevious")
          /\ UNCHANGED pidFile
    /\ UNCHANGED <<holders, procs, todo, cur, restarting, children, fresh,
                   bldVars>>

\* The signalled process is gone, or ten seconds have passed.  (If a user has
\* removed run.pid meanwhile, the process waited for is no longer recorded
\* here and the wait may end either way.)
PreviousWaited(s) ==
    LET p == pidFile[cur[s]] IN
    /\ At(s, "waitPrevious")
    /\ \/ /\ p # None => ~Live(p)
          /\ Goto(s, "launch")
       \/ /\ p # None => Live(p)
          /\ Goto(s, "failed")
    /\ UNCHANGED <<holders, pidFile, procs, todo, cur, restarting, children,
                   fresh, bldVars>>

\* archive_previous_error_log or archive_previous_sanitizer_logs fails; a
\* restart keeps the logs where they are.
ArchiveFails(s) ==
    /\ At(s, "launch")
    /\ ~restarting[s]
    /\ Goto(s, "failed")
    /\ UNCHANGED <<holders, pidFile, procs, todo, cur, restarting, children,
                   fresh, bldVars>>

\* setsid env ... lighttpd &.  A pid in the tables of a supervisor is not
\* used again while that supervisor lives.
Fork(s, p) ==
    /\ At(s, "launch")
    /\ ~Live(p)
    /\ \A t \in Supervisors : p # fresh[t] /\ {p} \X Configs \cap children[t] = {}
    /\ pstate' = [pstate EXCEPT ![p] = "exec"]
    /\ pcfg' = [pcfg EXCEPT ![p] = cur[s]]
    /\ origin' = [origin EXCEPT ![p] = s]
    /\ holders' = WithInherited(s, p)
    /\ fresh' = [fresh EXCEPT ![s] = p]
    /\ Goto(s, "record")
    /\ UNCHANGED <<pidFile, todo, cur, restarting, children, bldVars>>

RecordPid(s) ==
    /\ At(s, "record")
    /\ pidFile' = [pidFile EXCEPT ![cur[s]] = fresh[s]]
    /\ Goto(s, "register")
    /\ UNCHANGED <<holders, procs, todo, cur, restarting, children, fresh,
                   bldVars>>

\* The child enters fuzzer_pids; the next selected profile is started, or the
\* monitor loop is entered (or returned to).
Register(s) ==
    /\ At(s, "register")
    /\ children' = [children EXCEPT ![s] = @ \cup {<<fresh[s], cur[s]>>}]
    /\ \/ /\ todo[s] # {}
          /\ CallFor(s, todo[s])
          /\ fresh' = [fresh EXCEPT ![s] = None]
          /\ Goto(s, "stage")
          /\ UNCHANGED restarting
       \/ /\ todo[s] = {}
          /\ NoCall(s)
          /\ Goto(s, "monitor")
          /\ UNCHANGED todo
    /\ UNCHANGED <<holders, pidFile, procs, bldVars>>

\* run_fuzzer returned 1: an initial launch ends the campaign, a restart
\* gives the profile up.
LaunchFailed(s) ==
    /\ At(s, "failed")
    /\ \/ /\ ~restarting[s]
          /\ Exit(s)
       \/ /\ restarting[s]
          /\ holders' = Unlocked(s, cur[s])
          /\ NoCall(s)
          /\ Goto(s, "monitor")
          /\ UNCHANGED <<pidFile, procs, todo, children, bldVars>>

\* Mutant: the child need not have ended.
ReapAnyChild(s, p, c) ==
    /\ At(s, "monitor")
    /\ <<p, c>> \in children[s]
    /\ pidFile' = WithoutPidFile(c, p)
    /\ children' = [children EXCEPT ![s] = @ \ {<<p, c>>}]
    /\ \/ /\ cur' = [cur EXCEPT ![s] = c]
          /\ restarting' = [restarting EXCEPT ![s] = TRUE]
          /\ Goto(s, "stage")
          /\ UNCHANGED holders
       \/ /\ holders' = Unlocked(s, c)
          /\ UNCHANGED <<runpc, cur, restarting>>
    /\ UNCHANGED <<procs, todo, fresh, bldVars>>

\* The monitor reaps a child: its run.pid goes, it leaves the tables, and it
\* is restarted or, after too many rapid exits, given up with its lock.
ReapChild(s, p, c) ==
    /\ At(s, "monitor")
    /\ <<p, c>> \in children[s] /\ ~Live(p)
    /\ pidFile' = WithoutPidFile(c, p)
    /\ children' = [children EXCEPT ![s] = @ \ {<<p, c>>}]
    /\ \/ /\ cur' = [cur EXCEPT ![s] = c]
          /\ restarting' = [restarting EXCEPT ![s] = TRUE]
          /\ Goto(s, "stage")
          /\ UNCHANGED holders
       \/ /\ holders' = Unlocked(s, c)
          /\ UNCHANGED <<runpc, cur, restarting>>
    /\ UNCHANGED <<procs, todo, fresh, bldVars>>

\* exit 1: "No fuzzing profiles remain."
NoProfilesRemain(s) ==
    /\ At(s, "monitor")
    /\ children[s] = {}
    /\ Exit(s)

\* SIGINT, SIGTERM or the end of the backend fixture: the EXIT trap runs.
\* A child that was forked and not yet registered is not in its tables.
Terminate(s) ==
    /\ runpc[s] \notin {"idle", "cleanup"}
    /\ Exit(s)

\* s ends, cleanly or not: its tables and its descriptors go with it.
Ended(s) ==
    /\ holders' = WithoutHolder(s)
    /\ Goto(s, "idle")
    /\ NoCall(s)
    /\ todo' = [todo EXCEPT ![s] = {}]
    /\ children' = [children EXCEPT ![s] = {}]

\* The end of cleanup: the registered children are gone and so are the pid
\* files that name them.
CleanupExit(s) ==
    /\ At(s, "cleanup")
    /\ \A p \in Pids, c \in Configs : <<p, c>> \in children[s] => ~Live(p)
    /\ pidFile' = [c \in Configs |-> IF <<pidFile[c], c>> \in children[s]
                                     THEN None ELSE pidFile[c]]
    /\ Ended(s)
    /\ UNCHANGED <<procs, bldVars>>

\* The supervisor is killed: no trap runs and its children live on.
Crash(s) ==
    /\ ~At(s, "idle")
    /\ Ended(s)
    /\ UNCHANGED <<pidFile, procs, bldVars>>

-----------------------------------------------------------------------------
(* The lighttpd processes, and the user. *)

Exec(p) ==
    /\ pstate[p] = "exec"
    /\ pstate' = [pstate EXCEPT ![p] = "boot"]
    /\ UNCHANGED <<holders, pidFile, pcfg, origin, runVars, bldVars>>

Listen(p) ==
    /\ pstate[p] = "boot"
    /\ pstate' = [pstate EXCEPT ![p] = "serve"]
    /\ UNCHANGED <<holders, pidFile, pcfg, origin, runVars, bldVars>>

\* Signalled, crashed, or never able to start.
ProcessExit(p) ==
    /\ Live(p)
    /\ pstate' = [pstate EXCEPT ![p] = "free"]
    /\ pcfg' = [pcfg EXCEPT ![p] = None]
    /\ origin' = [origin EXCEPT ![p] = None]
    /\ holders' = WithoutHolder(p)
    /\ UNCHANGED <<pidFile, runVars, bldVars>>

\* Somebody deletes a run.pid.
LosePidFile(c) ==
    /\ pidFile[c] # None
    /\ pidFile' = [pidFile EXCEPT ![c] = None]
    /\ UNCHANGED <<holders, procs, runVars, bldVars>>

-----------------------------------------------------------------------------
(* build.sh *)

BuildGoto(b, pc) == bpc' = [bpc EXCEPT ![b] = pc]

\* pid_from_files reads run.pid: first of all, and once more in the child of
\* an all-profile build.
BuildStart(b, c) ==
    /\ bpc[b] = "idle"
    /\ BuildGoto(b, "files")
    /\ bcfg' = [bcfg EXCEPT ![b] = c]
    /\ bpid' = [bpid EXCEPT ![b] = pidFile[c]]
    /\ UNCHANGED <<holders, pidFile, procs, runVars>>

BuildStop(b) ==
    /\ BuildGoto(b, "idle")
    /\ bcfg' = [bcfg EXCEPT ![b] = None]
    /\ bpid' = [bpid EXCEPT ![b] = None]

\* pid_from_files judges the pid it has read: a process of the binary makes
\* the build refuse, anything else makes it remove run.pid as stale.
JudgePidFile(b, next) ==
    LET c == bcfg[b] IN
    \/ /\ bpid[b] = None
       /\ BuildGoto(b, next)
       /\ UNCHANGED <<pidFile, bcfg, bpid>>
    \/ /\ bpid[b] # None /\ ~RunsBinary(bpid[b], c)
       /\ pidFile' = [pidFile EXCEPT ![c] = None]
       /\ bpid' = [bpid EXCEPT ![b] = None]
       /\ BuildGoto(b, next)
       /\ UNCHANGED bcfg
    \/ /\ bpid[b] # None /\ RunsBinary(bpid[b], c)
       /\ BuildStop(b)
       /\ UNCHANGED pidFile

BuildJudge(b) ==
    /\ \/ bpc[b] = "files"   /\ JudgePidFile(b, "scan")
       \/ bpc[b] = "refiles" /\ JudgePidFile(b, "lock")
    /\ UNCHANGED <<holders, procs, runVars>>

\* Mutant: only run.pid is believed.
BuildScanSkipped(b) ==
    /\ bpc[b] = "scan"
    /\ BuildGoto(b, "lock")
    /\ UNCHANGED <<holders, pidFile, procs, runVars, bcfg, bpid>>

\* refuse_active_instances scans /proc.  What follows is build_software, or,
\* in an all-profile build, a child that checks run.pid again and does not
\* scan.
BuildScan(b) ==
    LET c == bcfg[b] IN
    /\ bpc[b] = "scan"
    /\ \/ /\ \E p \in Pids : RunsBinary(p, c)
          /\ BuildStop(b)
       \/ /\ \A p \in Pids : ~RunsBinary(p, c)
          /\ \/ /\ BuildGoto(b, "lock")
                /\ UNCHANGED <<bcfg, bpid>>
             \/ /\ BuildGoto(b, "refiles")
                /\ bpid' = [bpid EXCEPT ![b] = pidFile[c]]
                /\ UNCHANGED bcfg
    /\ UNCHANGED <<holders, pidFile, procs, runVars>>

\* Mutant: the build goes on without the lock.
BuildLockIgnored(b) ==
    LET c == bcfg[b] IN
    /\ bpc[b] = "lock"
    /\ holders' = [holders EXCEPT ![c] = @ \cup {b}]
    /\ pidFile' = [pidFile EXCEPT ![c] = None]
    /\ BuildGoto(b, "write")
    /\ UNCHANGED <<procs, runVars, bcfg, bpid>>

\* build_software: refuse, or own the profile and start to change its tree; a
\* full build removes all of it, run.pid included, --rebuild-directory does
\* not.
BuildLock(b) ==
    LET c == bcfg[b] IN
    /\ bpc[b] = "lock"
    /\ \/ /\ holders[c] # {}
          /\ BuildStop(b)
          /\ UNCHANGED <<holders, pidFile>>
       \/ /\ holders[c] = {}
          /\ holders' = [holders EXCEPT ![c] = {b}]
          /\ \/ pidFile' = [pidFile EXCEPT ![c] = None]
             \/ UNCHANGED pidFile
          /\ BuildGoto(b, "write")
          /\ UNCHANGED <<bcfg, bpid>>
    /\ UNCHANGED <<procs, runVars>>

\* The tree is staged, or a command of the build failed; the descriptor is
\* closed either way.  (A command that outlives a killed build.sh inherited
\* the lock: the build counts as running until the last of them ends.)
BuildEnd(b) ==
    /\ bpc[b] = "write"
    /\ holders' = WithoutHolder(b)
    /\ BuildStop(b)
    /\ UNCHANGED <<pidFile, procs, runVars>>

-----------------------------------------------------------------------------
RunNext(s) ==
    \/ \E selected \in Selections : Start(s, selected)
    \/ CheckStaged(s)
    \/ AcquireLock(s)
    \/ StopPrevious(s)
    \/ PreviousWaited(s)
    \/ ArchiveFails(s)
    \/ \E p \in Pids : Fork(s, p)
    \/ RecordPid(s)
    \/ Register(s)
    \/ LaunchFailed(s)
    \/ \E p \in Pids, c \in Configs : ReapChild(s, p, c)
    \/ NoProfilesRemain(s)
    \/ Terminate(s)
    \/ CleanupExit(s)
    \/ Crash(s)

ProcNext(p) == Exec(p) \/ Listen(p) \/ ProcessExit(p)

BuildNext(b) ==
    \/ \E c \in Configs : BuildStart(b, c)
    \/ BuildJudge(b)
    \/ BuildScan(b)
    \/ BuildLock(b)
    \/ BuildEnd(b)

Next ==
    \/ \E s \in Supervisors : RunNext(s)
    \/ \E p \in Pids : ProcNext(p)
    \/ \E c \in Configs : LosePidFile(c)
    \/ \E b \in Builds : BuildNext(b)

Spec == Init /\ [][Next]_vars

-----------------------------------------------------------------------------
(* Properties *)

\* Every variable has the shape the comments at its declaration give it.
TypeOK ==
    /\ holders \in [Configs -> SUBSET Actors]
    /\ pidFile \in [Configs -> Pids \cup {None}]
    /\ pstate \in [Pids -> {"free", "exec", "boot", "serve"}]
    /\ pcfg \in [Pids -> Configs \cup {None}]
    /\ origin \in [Pids -> Supervisors \cup {None}]
    /\ runpc \in [Supervisors -> RunPCs]
    /\ todo \in [Supervisors -> SUBSET Configs]
    /\ cur \in [Supervisors -> Configs \cup {None}]
    /\ restarting \in [Supervisors -> BOOLEAN]
    /\ children \in [Supervisors -> SUBSET (Pids \X Configs)]
    /\ fresh \in [Supervisors -> Pids \cup {None}]
    /\ bpc \in [Builds -> BuildPCs]
    /\ bcfg \in [Builds -> Configs \cup {None}]
    /\ bpid \in [Builds -> Pids \cup {None}]

\* The processes of profile c that a supervisor of this checkout forked.
Supervised(c) == {p \in Pids : Live(p) /\ pcfg[p] = c /\ origin[p] # None}

\* A build never changes the tree of a profile that has a live process: not of
\* a supervised one, whose lock it cannot get even after the supervisor was
\* killed, and not of one started by hand, which the scan of /proc finds
\* although its run.pid is gone (build.sh, refuse_active_instances and
\* build_software).
NoBuildOverLive ==
    \A b \in Builds, p \in Pids :
        bpc[b] = "write" /\ Live(p) => pcfg[p] # bcfg[b]

\* No profile ever has two supervised processes, whatever happens to their
\* supervisors: a restart follows the end of its predecessor, and the child
\* of a killed supervisor keeps everybody else out (run.sh, run_fuzzer and
\* acquire_config_lock).
OneSupervised ==
    \A c \in Configs : \A p, q \in Supervised(c) : p = q

\* While a supervised process lives, its profile is locked, and by it too: no
\* flock -u of a supervisor that gives a profile up frees a running one
\* (run.sh, release_config_lock).
LiveHoldsLock ==
    \A c \in Configs : \A p \in Supervised(c) : p \in holders[c]

\* The promise of RuntimeTree: its users are the processes of the profile, its
\* writers the builds that hold the lock.
Tree == INSTANCE RuntimeTree WITH
    users   <- [c \in Configs |-> {p \in Pids : Live(p) /\ pcfg[p] = c}],
    writers <- [c \in Configs |->
                   {b \in Builds : bpc[b] = "write" /\ bcfg[b] = c}]
ImplementsTree == Tree!Spec

-----------------------------------------------------------------------------
(* The inductive invariant: why the properties above hold.                  *)

Calling == {"stage", "lock", "previous", "waitPrevious", "launch", "record",
            "register", "failed"}
Owning  == {"previous", "waitPrevious", "launch", "record", "register"}

\* A build holds a lock alone, and exactly while it writes; two supervisors
\* never share one; the dead hold none; a launch past acquire_config_lock
\* holds the lock of its profile.
LockTable ==
    /\ \A c \in Configs, b \in Builds :
          b \in holders[c] => holders[c] = {b}
    /\ \A b \in Builds : bpc[b] = "write" => b \in holders[bcfg[b]]
    /\ \A c \in Configs : \A s, t \in holders[c] \cap Supervisors : s = t
    /\ \A c \in Configs : \A p \in holders[c] \cap Pids : Live(p)
    /\ \A s \in Supervisors :
          runpc[s] \in Owning => s \in holders[cur[s]]

\* A supervisor has at most one child of a profile in its tables, and none of
\* the profile it is launching or of those that are still to be launched.
ChildTable ==
    \A s \in Supervisors :
        /\ \A c \in Configs : \A p, q \in Pids :
              <<p, c>> \in children[s] /\ <<q, c>> \in children[s] => p = q
        /\ \A p \in Pids : \A c \in todo[s] \cup {cur[s]} :
              <<p, c>> \notin children[s]
        /\ cur[s] \notin todo[s]
        /\ runpc[s] = "idle" => children[s] = {}

\* Where the variables of a call to run_fuzzer are in use.
CallState ==
    \A s \in Supervisors :
        /\ cur[s] # None <=> runpc[s] \in Calling
        /\ fresh[s] # None <=> runpc[s] \in {"record", "register"}
        /\ fresh[s] # None /\ Live(fresh[s]) => pcfg[fresh[s]] = cur[s]
        /\ restarting[s] \/ runpc[s] = "monitor" => todo[s] = {}

\* A process that shares the lock of its profile with a supervisor is a child
\* that supervisor knows, until an exit unwinds the call that forked it.
Family ==
    \A s \in Supervisors, c \in Configs, p \in Pids :
        runpc[s] # "cleanup" /\ {s, p} \subseteq holders[c] /\ pcfg[p] = c
            => <<p, c>> \in children[s] \/ p = fresh[s]

\* Once a build has scanned /proc, every process of its profile is supervised;
\* only supervised processes are ever between fork and exec.
Scanned ==
    /\ \A b \in Builds, p \in Pids :
          bpc[b] \in {"refiles", "lock", "write"} /\ Live(p) /\ pcfg[p] = bcfg[b]
              => origin[p] # None
    /\ \A p \in Pids : pstate[p] = "exec" => origin[p] # None
    /\ \A b \in Builds : bpc[b] # "idle" => bcfg[b] # None

IInv ==
    /\ TypeOK
    /\ LockTable
    /\ ChildTable
    /\ CallState
    /\ Family
    /\ Scanned
    /\ OneSupervised
    /\ LiveHoldsLock

=============================================================================
