----------------------------- MODULE Supervisor -----------------------------
(***************************************************************************)
(* One campaign: a run.sh supervisor with the backend fixture, the packet   *)
(* capture and one lighttpd per selected profile, from the first fork to    *)
(* the exit of the script.  The locks and the other supervisors are in      *)
(* ProfileLocks; here a launch may fail, for whatever reason.               *)
(*                                                                          *)
(* setsid gives a child a session, and so a process group, of its own, but  *)
(* only some time after the fork: until then "kill -- -$pid" finds no such  *)
(* group and does nothing, while "kill $pid" already works.                 *)
(*                                                                          *)
(* A trap runs between two commands, so a signal may end any call halfway.  *)
(* A loop of the script over all pids is one step.  The loops that wait for *)
(* at most ten, two or five seconds constrain nothing, since they may time  *)
(* out: a process ends before or after the signal that follows them.        *)
(***************************************************************************)
EXTENDS Naturals, FiniteSets

CONSTANTS
    Profiles,   \* selected_configs
    MaxRapid,   \* rapid restart attempts a profile has (5)
    Calls,      \* how the campaign may be called, see Modes
    Backend,    \* the backend fixture
    Capture,    \* tcpdump
    None        \* no profile

\* fuzz: not --fuzz; backend: a selected profile has a port 650x; capture:
\* --packet; signal: TERM for a binary with -handle_term=1, KILL for others.
Modes == [fuzz : BOOLEAN, backend : BOOLEAN, capture : BOOLEAN,
          signal : {"TERM", "KILL"}]

ASSUME CallsAssumption == Calls \subseteq Modes
ASSUME RapidAssumption == MaxRapid \in Nat \ {0}
ASSUME ProfileAssumption ==
    Profiles \subseteq Nat /\ {Backend, Capture, None} \cap Profiles = {}

Children == Profiles \cup {Backend, Capture}

VARIABLES
    mode,       \* how the campaign was called
    pc,         \* where the supervisor is
    todo,       \* selected_configs that are still to be started
    cur,        \* build_config of the run_fuzzer call under way
    restarting, \* launch_kind of that call is "restart"
    registered, \* fuzzer_pids, capture_pids and backend_pids
    noted,      \* noted[c]: how many of server_pid_files, then
                \*   fuzzer_sanitizer_prefixes, then fuzzer_stop_signals know
                \*   the process of c
    lost,       \* history: the children that a signal kept from being
                \*   registered, or from being noted to the end
    rapid,      \* rapid_restart_counts
    expected,   \* supervisor_stop_expected
    proc,       \* proc[x]: "none", "forked" (no session yet), "running",
                \*   "exited" (and not yet waited for)
    status,     \* status[c]: the exit status of the lighttpd of profile c
    sig,        \* sig[x]: the strongest signal sent to x
    old,        \* the profiles whose process has run for 60 seconds
    pidFiles,   \* the profiles whose run.pid names their process
    ready,      \* backend_ready_file: "none" (not yet made), "there" or
                \*   "removed"
    sidecars    \* the profiles whose report has a .supervisor-stop

noteVars == <<noted, lost>>
supVars  == <<mode, noteVars, pc, todo, cur, restarting, registered, rapid,
              expected>>
procVars == <<proc, status, sig, old>>
fileVars == <<pidFiles, ready, sidecars>>
vars     == <<supVars, procVars, fileVars>>

Alive(x)    == proc[x] \in {"forked", "running"}
HasGroup(x) == proc[x] = "running"
Cleanup     == {"stop", "term", "kill", "wait", "backendTerm", "backendKill",
                "backendWait", "finish"}

\* The child that has been forked and is not in all the tables yet.
Halfway ==
    {x \in Children : \/ x = Backend /\ pc = "backendReg"
                      \/ x = Capture /\ pc = "captureReg"
                      \/ x = cur /\ pc \in {"record", "register", "note"}}

Init ==
    /\ mode \in Calls
    /\ pc = IF mode.backend THEN "backendFork"
            ELSE IF mode.capture THEN "captureFork" ELSE "launch"
    /\ todo = Profiles
    /\ cur = None
    /\ restarting = FALSE
    /\ registered = {}
    /\ noted = [c \in Profiles |-> 0]
    /\ lost = {}
    /\ rapid = [c \in Profiles |-> 0]
    /\ expected = [c \in Profiles |-> "none"]
    /\ proc = [x \in Children |-> "none"]
    /\ status = [c \in Profiles |-> "none"]
    /\ sig = [x \in Children |-> "none"]
    /\ old = {}
    /\ pidFiles = {}
    /\ ready = "none"
    /\ sidecars = {}

-----------------------------------------------------------------------------
(* Starting *)

Goto(label) == pc' = label

\* cmd &: the child exists, its session does not.
ForkOf(x) ==
    /\ proc' = [proc EXCEPT ![x] = "forked"]
    /\ UNCHANGED <<status, sig, old>>

\* exit: the EXIT trap ignores further signals and cleans up.
Exit ==
    /\ Goto("stop")
    /\ lost' = lost \cup Halfway
    /\ todo' = {} /\ cur' = None /\ restarting' = FALSE
    /\ UNCHANGED <<mode, noted, registered, rapid, expected, procVars,
                   fileVars>>

\* SIGINT or SIGTERM, between any two commands.
Signalled == pc \notin Cleanup \cup {"exited"} /\ Exit

ForkHelper(x, label, next) ==
    /\ pc = label
    /\ ForkOf(x)
    /\ Goto(next)
    /\ UNCHANGED <<mode, noteVars, todo, cur, restarting, registered, rapid,
                   expected, fileVars>>

RegisterHelper(x, label, next) ==
    /\ pc = label
    /\ registered' = registered \cup {x}
    /\ Goto(next)
    /\ UNCHANGED <<mode, noteVars, todo, cur, restarting, rapid, expected,
                   procVars, fileVars>>

\* start_backend_responder: fork, note the pid, wait for the ready file.
StartBackend ==
    \/ ForkHelper(Backend, "backendFork", "backendReg")
    \/ RegisterHelper(Backend, "backendReg", "awaitReady")

BackendReady ==
    /\ pc = "awaitReady"
    /\ ready = "there"
    /\ Goto(IF mode.capture THEN "captureFork" ELSE "launch")
    /\ UNCHANGED <<mode, noteVars, todo, cur, restarting, registered, rapid,
                   expected, procVars, fileVars>>

\* The fixture ended without a ready file, and is forgotten; or it was not ready
\* within ten seconds, as far as the last look at the file could tell; or it
\* took the file away before that was read (see FixtureLife).
BackendNotReady ==
    /\ pc = "awaitReady"
    /\ \/ UNCHANGED registered
       \/ /\ ~Alive(Backend) /\ ready # "there"
          /\ registered' = registered \ {Backend}
    /\ Goto("stop")
    /\ todo' = {}
    /\ UNCHANGED <<mode, noteVars, cur, restarting, rapid, expected, procVars,
                   fileVars>>

StartCapture ==
    \/ ForkHelper(Capture, "captureFork", "captureReg")
    \/ RegisterHelper(Capture, "captureReg", "launch")

\* The next selected profile is started, or the monitor loop is entered.
NextProfile ==
    /\ pc = "launch" /\ cur = None
    /\ \/ \E c \in todo :
             /\ \A d \in todo : c <= d
             /\ cur' = c
             /\ todo' = todo \ {c}
             /\ UNCHANGED pc
       \/ /\ todo = {}
          /\ Goto("monitor")
          /\ UNCHANGED <<cur, todo>>
    /\ UNCHANGED <<mode, noteVars, restarting, registered, rapid, expected,
                   procVars, fileVars>>

-----------------------------------------------------------------------------
(* run_fuzzer *)

Launch ==
    /\ pc = "launch" /\ cur # None
    /\ ForkOf(cur)
    /\ Goto("record")
    /\ UNCHANGED <<mode, noteVars, todo, cur, restarting, registered, rapid,
                   expected, fileVars>>

Record ==
    /\ pc = "record"
    /\ pidFiles' = pidFiles \cup {cur}
    /\ Goto("register")
    /\ UNCHANGED <<mode, noteVars, todo, cur, restarting, registered, rapid,
                   expected, procVars, ready, sidecars>>

Register ==
    /\ pc = "register"
    /\ registered' = registered \cup {cur}
    /\ Goto("note")
    /\ UNCHANGED <<mode, noteVars, todo, cur, restarting, rapid, expected,
                   procVars, fileVars>>

\* The other tables, one after the other.
Note ==
    /\ pc = "note"
    /\ noted' = [noted EXCEPT ![cur] = @ + 1]
    /\ \/ /\ noted[cur] < 2
          /\ UNCHANGED <<pc, cur, restarting>>
       \/ /\ noted[cur] = 2
          /\ Goto(IF restarting THEN "monitor" ELSE "launch")
          /\ cur' = None /\ restarting' = FALSE
    /\ UNCHANGED <<mode, lost, todo, registered, rapid, expected, procVars,
                   fileVars>>

\* Not staged, not locked, or a predecessor that does not stop: the campaign
\* ends, or, in a restart, goes on without the profile.
LaunchFails ==
    /\ pc = "launch" /\ cur # None
    /\ \/ /\ ~restarting
          /\ Exit
       \/ /\ restarting
          /\ Goto("monitor")
          /\ cur' = None /\ restarting' = FALSE
          /\ UNCHANGED <<mode, noteVars, todo, registered, rapid, expected,
                         procVars, fileVars>>

-----------------------------------------------------------------------------
(* The monitor loop, one child per step *)

\* Mutant: the campaign goes on without the fixture.
BackendDiedIgnored ==
    /\ pc = "monitor"
    /\ Backend \in registered /\ ~Alive(Backend)
    /\ registered' = registered \ {Backend}
    /\ UNCHANGED <<mode, noteVars, pc, todo, cur, restarting, rapid, expected,
                   procVars, fileVars>>

BackendDied ==
    /\ pc = "monitor"
    /\ Backend \in registered /\ ~Alive(Backend)
    /\ registered' = registered \ {Backend}
    /\ Goto("stop")
    /\ UNCHANGED <<mode, noteVars, todo, cur, restarting, rapid, expected,
                   procVars, fileVars>>

\* Mutant: the attempts are not counted.
AttemptUncounted(c) == IF c \in old THEN 1 ELSE rapid[c]

Attempt(c) == IF c \in old THEN 1 ELSE rapid[c] + 1

\* Mutant: the pid file stays.
ReapChildKeepsFile(c) ==
    /\ pc = "monitor"
    /\ c \in registered /\ ~Alive(c)
    /\ registered' = registered \ {c}
    /\ noted' = [noted EXCEPT ![c] = 0]
    /\ rapid' = [rapid EXCEPT ![c] = Attempt(c)]
    /\ proc' = [proc EXCEPT ![c] = "none"]
    /\ status' = [status EXCEPT ![c] = "none"]
    /\ old' = old \ {c}
    /\ \/ /\ Attempt(c) <= MaxRapid
          /\ cur' = c
          /\ restarting' = TRUE
          /\ Goto("launch")
       \/ /\ Attempt(c) > MaxRapid
          /\ UNCHANGED <<cur, restarting, pc>>
    /\ UNCHANGED <<mode, lost, todo, expected, sig, fileVars>>

ReapChild(c) ==
    /\ pc = "monitor"
    /\ c \in registered /\ ~Alive(c)
    /\ pidFiles' = pidFiles \ {c}
    /\ registered' = registered \ {c}
    /\ noted' = [noted EXCEPT ![c] = 0]
    /\ rapid' = [rapid EXCEPT ![c] = Attempt(c)]
    /\ proc' = [proc EXCEPT ![c] = "none"]
    /\ status' = [status EXCEPT ![c] = "none"]
    /\ old' = old \ {c}
    /\ \/ /\ Attempt(c) <= MaxRapid
          /\ cur' = c
          /\ restarting' = TRUE
          /\ Goto("launch")
       \/ /\ Attempt(c) > MaxRapid
          /\ UNCHANGED <<cur, restarting, pc>>
    /\ UNCHANGED <<mode, lost, todo, expected, sig, ready, sidecars>>

ReapCapture ==
    /\ pc = "monitor"
    /\ Capture \in registered /\ ~Alive(Capture)
    /\ registered' = registered \ {Capture}
    /\ UNCHANGED <<mode, noteVars, pc, todo, cur, restarting, rapid, expected,
                   procVars, fileVars>>

NoProfilesRemain ==
    /\ pc = "monitor"
    /\ registered \cap Profiles = {}
    /\ Exit

-----------------------------------------------------------------------------
(* cleanup *)

\* kill -s -- -x for all x of xs that have a group by now.
SignalGroups(xs, s) ==
    sig' = [x \in Children |->
               IF x \in xs /\ HasGroup(x) THEN s ELSE sig[x]]

\* fuzzer_pids and capture_pids, as far as they are registered.
Waited == registered \ {Backend}

\* fuzzer_stop_signals, KILL for a process it does not know, and the status
\* that goes with the signal.
StopSignal(c) == IF noted[c] = 3 THEN mode.signal ELSE "KILL"
StopStatus(c) == IF StopSignal(c) = "TERM" THEN "72" ELSE "137"

\* Mutant: the sidecar is expected whether or not the signal found anybody.
CleanupStopExpectsAll ==
    LET fuzzers == IF mode.fuzz THEN registered \cap Profiles ELSE {}
        groups  == {x \in registered : HasGroup(x)} \
                      (IF mode.fuzz THEN Profiles ELSE {})
    IN
    /\ pc = "stop"
    /\ sig' = [x \in Children |->
                  IF x \in fuzzers /\ Alive(x) THEN StopSignal(x)
                  ELSE IF x \in groups THEN "TERM" ELSE sig[x]]
    /\ expected' = [c \in Profiles |->
                       IF c \in fuzzers THEN StopStatus(c) ELSE expected[c]]
    /\ Goto("term")
    /\ UNCHANGED <<mode, noteVars, todo, cur, restarting, registered, rapid,
                   proc, status, old, fileVars>>

\* The first signals.  A lighttpd that fuzzes is signalled by its pid, and
\* that it was there to be signalled is noted; everything else by its group.
CleanupStop ==
    LET direct == IF mode.fuzz THEN {c \in registered \cap Profiles : Alive(c)}
                               ELSE {}
        groups == {x \in registered : HasGroup(x)} \
                     (IF mode.fuzz THEN Profiles ELSE {})
    IN
    /\ pc = "stop"
    /\ sig' = [x \in Children |-> IF x \in direct THEN StopSignal(x)
                                  ELSE IF x \in groups THEN "TERM"
                                  ELSE sig[x]]
    /\ expected' = [c \in Profiles |->
                       IF c \in direct THEN StopStatus(c) ELSE expected[c]]
    /\ Goto("term")
    /\ UNCHANGED <<mode, noteVars, todo, cur, restarting, registered, rapid,
                   proc, status, old, fileVars>>

\* After at most ten seconds: the groups that remain.  (A pending KILL stays.)
CleanupTerm ==
    /\ pc = "term"
    /\ SignalGroups({x \in Waited : sig[x] # "KILL"}, "TERM")
    /\ Goto("kill")
    /\ UNCHANGED <<mode, noteVars, todo, cur, restarting, registered, rapid,
                   expected, proc, status, old, fileVars>>

\* Mutant: the last signal can be ignored.
CleanupKillTerm ==
    /\ pc = "kill"
    /\ SignalGroups({x \in Waited : sig[x] # "KILL"}, "TERM")
    /\ Goto("wait")
    /\ UNCHANGED <<mode, noteVars, todo, cur, restarting, registered, rapid,
                   expected, proc, status, old, fileVars>>

\* After at most two more.
CleanupKill ==
    /\ pc = "kill"
    /\ SignalGroups(Waited, "KILL")
    /\ Goto("wait")
    /\ UNCHANGED <<mode, noteVars, todo, cur, restarting, registered, rapid,
                   expected, proc, status, old, fileVars>>

\* Mutant: the children are not waited for.
CleanupWaitSkipped ==
    /\ pc = "wait"
    /\ sidecars' = sidecars \cup
          {c \in Waited \cap Profiles :
              expected[c] # "none" /\ status[c] = expected[c] /\ noted[c] >= 2}
    /\ Goto("backendTerm")
    /\ UNCHANGED <<mode, noteVars, todo, cur, restarting, registered, rapid,
                   expected, procVars, pidFiles, ready>>

\* wait for each of them, however long it takes; a process that ended with
\* the status expected of the signal, and whose report is known by name, gets
\* its sidecar.
CleanupWait ==
    /\ pc = "wait"
    /\ \A x \in Waited : ~Alive(x)
    /\ sidecars' = sidecars \cup
          {c \in Waited \cap Profiles :
              expected[c] # "none" /\ status[c] = expected[c] /\ noted[c] >= 2}
    /\ Goto("backendTerm")
    /\ UNCHANGED <<mode, noteVars, todo, cur, restarting, registered, rapid,
                   expected, procVars, pidFiles, ready>>

CleanupBackend ==
    /\ \/ /\ pc = "backendTerm"
          /\ SignalGroups({Backend} \cap registered, "TERM")
          /\ Goto("backendKill")
       \/ /\ pc = "backendKill"
          /\ SignalGroups({Backend} \cap registered, "KILL")
          /\ Goto("backendWait")
    /\ UNCHANGED <<mode, noteVars, todo, cur, restarting, registered, rapid,
                   expected, proc, status, old, fileVars>>

CleanupBackendWait ==
    /\ pc = "backendWait"
    /\ Backend \in registered => ~Alive(Backend)
    /\ Goto("finish")
    /\ UNCHANGED <<mode, noteVars, todo, cur, restarting, registered, rapid,
                   expected, procVars, fileVars>>

CleanupFinish ==
    /\ pc = "finish"
    /\ ready' = IF ready = "there" THEN "removed" ELSE ready
    /\ pidFiles' = pidFiles \ {c \in Profiles : noted[c] >= 1}
    /\ Goto("exited")
    /\ UNCHANGED <<mode, noteVars, todo, cur, restarting, registered, rapid,
                   expected, procVars, sidecars>>

-----------------------------------------------------------------------------
(* The children *)

\* setsid and exec; a signal by pid ends the child before it gets there.
Exec(x) ==
    /\ proc[x] = "forked" /\ sig[x] = "none"
    /\ proc' = [proc EXCEPT ![x] = "running"]
    /\ UNCHANGED <<supVars, status, sig, old, fileVars>>

\* The fixture makes its ready file, once, wherever the script is by then.
BecomeReady ==
    /\ proc[Backend] = "running" /\ ready = "none"
    /\ ready' = "there"
    /\ UNCHANGED <<supVars, procVars, pidFiles, sidecars>>

\* The process ends: with 72 when libFuzzer is interrupted, with 137 when it is
\* killed (by the supervisor or for lack of memory), or in some other way.  The
\* fixture removes its ready file unless it is killed.
End(x) ==
    /\ Alive(x)
    /\ proc' = [proc EXCEPT ![x] = "exited"]
    /\ \E e \in {"72", "137", "other"} :
          /\ sig[x] = "KILL" => e = "137"
          /\ e = "72" => proc[x] = "running"
          /\ IF x \in Profiles THEN status' = [status EXCEPT ![x] = e]
                               ELSE UNCHANGED status
    /\ \/ UNCHANGED ready
       \/ x = Backend /\ ready = "there" /\ ready' = "removed"
    /\ UNCHANGED <<supVars, sig, old, pidFiles, sidecars>>

\* Sixty seconds have passed since the launch.
GrowOld(c) ==
    /\ proc[c] = "running" /\ c \notin old
    /\ old' = old \cup {c}
    /\ UNCHANGED <<supVars, proc, status, sig, fileVars>>

-----------------------------------------------------------------------------
Starting == StartBackend \/ BackendReady \/ BackendNotReady \/ StartCapture
            \/ NextProfile \/ Launch \/ Record \/ Register \/ Note
            \/ LaunchFails
Monitoring == BackendDied \/ NoProfilesRemain \/ ReapCapture
              \/ \E c \in Profiles : ReapChild(c)
Cleaning == CleanupStop \/ CleanupTerm \/ CleanupKill \/ CleanupWait
            \/ CleanupBackend \/ CleanupBackendWait \/ CleanupFinish

ProcNext == \/ \E x \in Children : Exec(x) \/ End(x)
            \/ BecomeReady
            \/ \E c \in Profiles : GrowOld(c)

Next == Starting \/ Monitoring \/ Cleaning \/ Signalled \/ ProcNext

\* The supervisor is scheduled, and every turn of its monitor loop looks at the
\* fixture.  A forked child gets to its exec, or ends; a killed one ends, and
\* so does one that is signalled before its exec.  Nothing else ever has to
\* end: a lighttpd may ignore a SIGTERM for ever.
Fairness ==
    /\ WF_vars(Starting \/ Monitoring \/ Cleaning)
    /\ SF_vars(BackendDied)
    /\ \A x \in Children :
          /\ WF_vars(Exec(x) \/ (proc[x] = "forked" /\ End(x)))
          /\ WF_vars(sig[x] = "KILL" /\ End(x))

Spec == Init /\ [][Next]_vars /\ Fairness

-----------------------------------------------------------------------------
(* Properties *)

\* Every variable has the shape the comments at its declaration give it; no
\* profile is tried more often than MaxRapid allows.
TypeOK ==
    /\ mode \in Calls
    /\ pc \in Cleanup \cup {"backendFork", "backendReg", "awaitReady",
              "captureFork", "captureReg", "launch", "record", "register",
              "note", "monitor", "exited"}
    /\ todo \subseteq Profiles
    /\ cur \in Profiles \cup {None}
    /\ restarting \in BOOLEAN
    /\ registered \subseteq Children
    /\ noted \in [Profiles -> 0..3]
    /\ lost \subseteq Children
    /\ rapid \in [Profiles -> 0..MaxRapid + 1]
    /\ expected \in [Profiles -> {"none", "72", "137"}]
    /\ proc \in [Children -> {"none", "forked", "running", "exited"}]
    /\ status \in [Profiles -> {"none", "72", "137", "other"}]
    /\ sig \in [Children -> {"none", "TERM", "KILL"}]
    /\ old \subseteq Profiles
    /\ pidFiles \subseteq Profiles
    /\ ready \in {"none", "there", "removed"}
    /\ sidecars \subseteq Profiles

\* When the script has exited, every child has ended, the fixture and the
\* capture too, and neither a run.pid nor the ready file is left; except that a
\* child that a signal kept out of fuzzer_pids, capture_pids or backend_pids
\* lives on, with the ready file it makes, and that the run.pid of one that a
\* signal kept out of server_pid_files is left behind (run.sh, cleanup).
CleanExit ==
    pc = "exited" =>
        /\ \A x \in Children : Alive(x) => x \in lost \ registered
        /\ \A c \in pidFiles : c \in lost /\ noted[c] = 0
        /\ ready = "there" => Backend \in lost \ registered

\* While the campaign is monitored, run.pid exists exactly for the profiles
\* that are supervised: not for one that was given up, and for each restarted
\* one (run.sh, the monitor loop and run_fuzzer).
PidFilesMatch ==
    pc = "monitor" => pidFiles = registered \cap Profiles

\* A report is marked as caused by the supervisor only for a child that was
\* alive when the supervisor signalled it, and never for one that had crashed
\* before, which is worth a look (run.sh, the sidecar of cleanup).
SidecarMeansSignalled ==
    \A c \in sidecars : sig[c] # "none" /\ status[c] # "other"

\* A profile is started again and again only if again and again it runs for a
\* minute: a startup loop comes to an end (README: "a sixth exit is treated as
\* an unrecoverable startup loop").
RestartsBounded ==
    \A c \in Profiles : []<>(proc[c] = "forked") => []<>(c \in old)

\* Once the fixture has ended, the campaign ends too, however often the
\* profiles crash meanwhile (README: "If it exits unexpectedly, the supervisor
\* stops that campaign").
BackendDeathStops ==
    proc[Backend] = "exited" ~> pc \in Cleanup \cup {"exited"}

\* The cleanup ends, although lighttpd may ignore SIGTERM, provided that every
\* child that is signalled by its group had its session when it began.
CleanupEnds ==
    pc = "stop" /\ (\A x \in registered :
                       proc[x] = "forked" => mode.fuzz /\ x \in Profiles)
        ~> pc = "exited"

\* README on --stop: "The command waits for normal supervisor cleanup of the
\* fuzzing children, backend fixture, packet capture, and PID files."
ExitStopsAll ==
    pc = "exited" => \A x \in Children : ~Alive(x)

=============================================================================
