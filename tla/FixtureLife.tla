----------------------------- MODULE FixtureLife -----------------------------
(***************************************************************************)
(* The life of the backend fixture: main and _write_ready of                  *)
(* backend-responder.py, and the part of run.sh that starts one, waits for    *)
(* its ready file and stops it.  Several supervisors run at a time; they      *)
(* compete for the same three ports with each other and with strangers.       *)
(* Anybody may signal or kill a fixture, and kill a supervisor.               *)
(*                                                                           *)
(* The names of the files hold the pid of the supervisor and of the fixture,  *)
(* so each has its own.  That a signal may find the process group of a fixture *)
(* not yet made is in Supervisor, and what stop() of one server does is in    *)
(* BackendServer; here a fixture is signalled from its fork on, and a server  *)
(* starts and stops in one step.  The supervisor may be signalled between any *)
(* two commands, also between the fork of the fixture and the note of its pid. *)
(***************************************************************************)
EXTENDS Naturals

CONSTANTS
    Supervisors,
    Ports,        \* the number of servers: three
    MaxPolls,     \* how often run.sh looks for the ready file: a hundred times
    Stranger,     \* some other process
    None          \* nobody

ASSUME PortsAssumption == Ports \in Nat \ {0} /\ MaxPolls \in Nat \ {0}
ASSUME NobodyAssumption ==
    Stranger \notin Supervisors /\ None \notin Supervisors /\ Stranger # None

VARIABLES
    spc,      \* where each supervisor is
    polls,    \* how often it has looked
    fpc,      \* where its fixture is
    started,  \* how many of its servers run
    bound,    \* bound[p]: the supervisor of the fixture that listens on p, or
              \*   Stranger, or None
    temp,     \* its temporary file: "absent", "empty" or "whole"
    ready,    \* its ready file: the same
    stopping, \* stopping is set
    touched,  \* history: it was signalled or killed, or its log is full
    killed    \* history: it was killed

supVars == <<spc, polls>>
fixVars == <<fpc, started, stopping>>
vars == <<supVars, fixVars, bound, temp, ready, touched, killed>>

Init ==
    /\ spc = [s \in Supervisors |-> "check"]
    /\ polls = [s \in Supervisors |-> 0]
    /\ fpc = [s \in Supervisors |-> "none"]
    /\ started = [s \in Supervisors |-> 0]
    /\ bound = [p \in 1 .. Ports |-> None]
    /\ temp = [s \in Supervisors |-> "absent"]
    /\ ready = [s \in Supervisors |-> "absent"]
    /\ stopping = [s \in Supervisors |-> FALSE]
    /\ touched = [s \in Supervisors |-> FALSE]
    /\ killed = [s \in Supervisors |-> FALSE]

Step(s, from, to) == fpc[s] = from /\ fpc' = [fpc EXCEPT ![s] = to]

-----------------------------------------------------------------------------
(* main and _write_ready *)

InstallHandlers(s) ==
    /\ Step(s, "born", "start")
    /\ UNCHANGED <<supVars, started, stopping, bound, temp, ready, touched, killed>>

\* The next server binds its port.  One that cannot stops those before it.
StartServer(s) ==
    /\ fpc[s] = "start"
    /\ LET p == started[s] + 1 IN
       \/ /\ bound[p] = None
          /\ bound' = [bound EXCEPT ![p] = s]
          /\ started' = [started EXCEPT ![s] = p]
          /\ fpc' = [fpc EXCEPT ![s] = IF p = Ports THEN "create" ELSE "start"]
       \/ /\ bound[p] # None
          /\ fpc' = [fpc EXCEPT ![s] = "stop"]
          /\ UNCHANGED <<bound, started>>
    /\ UNCHANGED <<supVars, stopping, temp, ready, touched, killed>>

\* A bug to check the properties with: the file has its name before it is
\* written.
CreateNamed(s) ==
    /\ Step(s, "create", "write")
    /\ temp' = [temp EXCEPT ![s] = "empty"]
    /\ ready' = [ready EXCEPT ![s] = "empty"]
    /\ UNCHANGED <<supVars, started, stopping, bound, touched, killed>>

CreateTemp(s) ==
    /\ Step(s, "create", "write")
    /\ temp' = [temp EXCEPT ![s] = "empty"]
    /\ UNCHANGED <<supVars, started, stopping, bound, ready, touched, killed>>

WriteTemp(s) ==
    /\ Step(s, "write", "link")
    /\ temp' = [temp EXCEPT ![s] = "whole"]
    /\ UNCHANGED <<supVars, started, stopping, bound, ready, touched, killed>>

\* os.link never replaces a file.
Link(s) ==
    /\ \/ /\ ready[s] = "absent"
          /\ Step(s, "link", "clear")
          /\ ready' = [ready EXCEPT ![s] = temp[s]]
       \/ /\ ready[s] # "absent"
          /\ Step(s, "link", "fail")
          /\ UNCHANGED ready
    /\ UNCHANGED <<supVars, started, stopping, bound, temp, touched, killed>>

\* open, write, fsync or link raise an exception.
WriteFails(s) ==
    /\ fpc[s] \in {"create", "write", "link"}
    /\ fpc' = [fpc EXCEPT ![s] = "fail"]
    /\ UNCHANGED <<supVars, started, stopping, bound, temp, ready, touched, killed>>

\* The finally of _write_ready; ready_created is set only without an exception.
ClearTemp(s) ==
    /\ Step(s, "clear", "serve") \/ Step(s, "fail", "stop")
    /\ temp' = [temp EXCEPT ![s] = "absent"]
    /\ UNCHANGED <<supVars, started, stopping, bound, ready, touched, killed>>

\* stopping.wait() returns, or the message before it cannot be printed.
EndServe(s) ==
    /\ stopping[s] /\ Step(s, "serve", "stopReady")
    /\ UNCHANGED <<supVars, started, stopping, bound, temp, ready, touched, killed>>

PrintFails(s) ==
    /\ Step(s, "serve", "stopReady")
    /\ touched' = [touched EXCEPT ![s] = TRUE]
    /\ UNCHANGED <<supVars, started, stopping, bound, temp, ready, killed>>

\* The servers stop in reverse order.
StopServer(s) ==
    /\ fpc[s] \in {"stop", "stopReady"} /\ started[s] > 0
    /\ bound' = [bound EXCEPT ![started[s]] = None]
    /\ started' = [started EXCEPT ![s] = @ - 1]
    /\ UNCHANGED <<supVars, fpc, stopping, temp, ready, touched, killed>>

\* A bug to check the properties with: the ready file is kept.
EndKeeps(s) ==
    /\ started[s] = 0
    /\ Step(s, "stop", "ended") \/ Step(s, "stopReady", "ended")
    /\ UNCHANGED <<supVars, started, stopping, bound, temp, ready, touched, killed>>

\* Only a ready file of its own making is removed.
End(s) ==
    /\ started[s] = 0
    /\ \/ Step(s, "stop", "ended") /\ UNCHANGED ready
       \/ Step(s, "stopReady", "ended") /\ ready' = [ready EXCEPT ![s] = "absent"]
    /\ UNCHANGED <<supVars, started, stopping, bound, temp, touched, killed>>

Live(s) == fpc[s] \notin {"none", "ended"}

\* A bug to check the properties with: a signal counts only while the fixture
\* waits for it.
TermPaused(s) ==
    /\ fpc' = [fpc EXCEPT ![s] = IF @ = "born" THEN "ended" ELSE @]
    /\ stopping' = [stopping EXCEPT ![s] = @ \/ fpc[s] = "serve"]
    /\ touched' = [touched EXCEPT ![s] = @ \/ Live(s)]
    /\ UNCHANGED <<started, bound, temp, ready, killed>>

\* SIGTERM or SIGINT: it ends a fixture that has no handlers yet, and is a
\* request afterwards.
Term(s) ==
    /\ fpc' = [fpc EXCEPT ![s] = IF @ = "born" THEN "ended" ELSE @]
    /\ stopping' = [stopping EXCEPT ![s] = @ \/ Live(s)]
    /\ touched' = [touched EXCEPT ![s] = @ \/ Live(s)]
    /\ UNCHANGED <<started, bound, temp, ready, killed>>

\* SIGKILL: the kernel closes the listeners, the files stay.
Kill(s) ==
    /\ Live(s)
    /\ fpc' = [fpc EXCEPT ![s] = "ended"]
    /\ started' = [started EXCEPT ![s] = 0]
    /\ bound' = [p \in 1 .. Ports |-> IF bound[p] = s THEN None ELSE bound[p]]
    /\ touched' = [touched EXCEPT ![s] = TRUE]
    /\ killed' = [killed EXCEPT ![s] = TRUE]
    /\ UNCHANGED <<stopping, temp, ready>>

-----------------------------------------------------------------------------
(* run.sh *)

Goto(s, label) == spc' = [spc EXCEPT ![s] = label]

\* The count of the turns means nothing after the loop.
LeaveLoop(s, label) == Goto(s, label) /\ polls' = [polls EXCEPT ![s] = 0]

\* The ports are looked at before, and again by bind.
CheckPorts(s) ==
    /\ spc[s] = "check"
    /\ Goto(s, IF \E p \in 1 .. Ports : bound[p] # None THEN "gone" ELSE "fork")
    /\ UNCHANGED <<polls, fixVars, bound, temp, ready, touched, killed>>

\* rm -f, then the fixture is started.
Fork(s) ==
    /\ spc[s] = "fork"
    /\ Goto(s, "register")
    /\ fpc' = [fpc EXCEPT ![s] = "born"]
    /\ ready' = [ready EXCEPT ![s] = "absent"]
    /\ UNCHANGED <<polls, started, stopping, bound, temp, touched, killed>>

\* backend_pids: only now does the cleanup know of the fixture.
Register(s) ==
    /\ spc[s] = "register"
    /\ Goto(s, "await")
    /\ UNCHANGED <<polls, fixVars, bound, temp, ready, touched, killed>>

\* A turn of the loop begins with a look for the file.
Poll(s) ==
    /\ spc[s] = "await"
    /\ Goto(s, IF ready[s] = "absent" THEN "probe" ELSE "grep")
    /\ UNCHANGED <<polls, fixVars, bound, temp, ready, touched, killed>>

\* The greps for the three lines, at the time of the last: a file that it finds
\* was there for the others, because one that went does not come back.
GrepReady(s) ==
    /\ spc[s] = "grep"
    /\ LeaveLoop(s, IF ready[s] = "whole" THEN "ready" ELSE "invalid")
    /\ UNCHANGED <<fixVars, bound, temp, ready, touched, killed>>

\* Without a file, the process is looked for.
Probe(s) ==
    /\ spc[s] = "probe"
    /\ \/ /\ ~Live(s) \/ polls[s] + 1 = MaxPolls
          /\ LeaveLoop(s, "term")
       \/ /\ Live(s) /\ polls[s] + 1 < MaxPolls
          /\ polls' = [polls EXCEPT ![s] = @ + 1]
          /\ Goto(s, "await")
    /\ UNCHANGED <<fixVars, bound, temp, ready, touched, killed>>

Waiting == {"await", "grep", "probe"}

\* The campaign ends: the file was invalid, the monitor found the fixture
\* dead, or the supervisor is signalled.  A signal before the registration
\* starts a cleanup that knows of no fixture.
BeginCleanup(s) ==
    /\ \/ spc[s] \in Waiting \cup {"ready", "invalid"} /\ LeaveLoop(s, "term")
       \/ spc[s] \in {"check", "fork", "register"} /\ LeaveLoop(s, "forget")
    /\ UNCHANGED <<fixVars, bound, temp, ready, touched, killed>>

\* Such a cleanup removes the ready file, if it is there yet, and the script
\* ends; a fixture that was started lives on.
CleanupForgets(s) ==
    /\ spc[s] = "forget"
    /\ ready' = [ready EXCEPT ![s] = "absent"]
    /\ Goto(s, "left")
    /\ UNCHANGED <<polls, fixVars, bound, temp, touched, killed>>

CleanupTerm(s) ==
    /\ spc[s] = "term"
    /\ Term(s)
    /\ Goto(s, "wait")
    /\ UNCHANGED polls

\* After five seconds at most, whatever remains is killed.
CleanupKill(s) ==
    /\ spc[s] = "wait"
    /\ Kill(s)
    /\ UNCHANGED supVars

CleanupFinish(s) ==
    /\ spc[s] = "wait" /\ ~Live(s)
    /\ ready' = [ready EXCEPT ![s] = "absent"]
    /\ Goto(s, "gone")
    /\ UNCHANGED <<polls, fixVars, bound, temp, touched, killed>>

\* The supervisor is killed; its fixture goes on.
SupervisorKilled(s) ==
    /\ spc[s] \notin {"gone", "left", "dead"}
    /\ LeaveLoop(s, "dead")
    /\ UNCHANGED <<fixVars, bound, temp, ready, touched, killed>>

-----------------------------------------------------------------------------
\* The user, or the kernel, signals a fixture.
OthersSignal(s) == Live(s) /\ (Term(s) \/ Kill(s)) /\ UNCHANGED supVars

StrangerBinds(p) ==
    /\ bound[p] \in {None, Stranger}
    /\ bound' = [bound EXCEPT ![p] = IF @ = None THEN Stranger ELSE None]
    /\ UNCHANGED <<supVars, fixVars, temp, ready, touched, killed>>

FixtureStep(s) ==
    \/ InstallHandlers(s) \/ StartServer(s) \/ CreateTemp(s) \/ WriteTemp(s)
    \/ Link(s) \/ ClearTemp(s) \/ EndServe(s) \/ StopServer(s) \/ End(s)

SupervisorStep(s) ==
    \/ CheckPorts(s) \/ Fork(s) \/ Register(s) \/ Poll(s) \/ GrepReady(s) \/ Probe(s)
    \/ CleanupTerm(s) \/ CleanupKill(s) \/ CleanupFinish(s) \/ CleanupForgets(s)

Next ==
    \/ \E s \in Supervisors :
          \/ FixtureStep(s) \/ WriteFails(s) \/ PrintFails(s)
          \/ SupervisorStep(s) \/ BeginCleanup(s) \/ SupervisorKilled(s)
          \/ OthersSignal(s)
    \/ \E p \in 1 .. Ports : StrangerBinds(p)

\* Both processes are scheduled.
Fairness ==
    \A s \in Supervisors : WF_vars(FixtureStep(s)) /\ WF_vars(SupervisorStep(s))

Spec == Init /\ [][Next]_vars /\ Fairness

-----------------------------------------------------------------------------
(* Properties *)

SupPCs == {"check", "fork", "register", "await", "grep", "probe", "ready", "invalid",
           "term", "wait", "gone", "forget", "left", "dead"}
FixPCs == {"none", "born", "start", "create", "write", "link", "clear", "fail",
           "serve", "stop", "stopReady", "ended"}
FileStates == {"absent", "empty", "whole"}

\* Every variable has the shape the comments at its declaration give it.
TypeOK ==
    /\ spc \in [Supervisors -> SupPCs]
    /\ polls \in [Supervisors -> Nat]
    /\ fpc \in [Supervisors -> FixPCs]
    /\ started \in [Supervisors -> 0 .. Ports]
    /\ bound \in [1 .. Ports -> Supervisors \cup {Stranger, None}]
    /\ temp \in [Supervisors -> FileStates] /\ ready \in [Supervisors -> FileStates]
    /\ stopping \in [Supervisors -> BOOLEAN]
    /\ touched \in [Supervisors -> BOOLEAN] /\ killed \in [Supervisors -> BOOLEAN]

\* A supervisor that takes its fixture for ready has one that listens on every
\* port, whoever else wants them, unless somebody has signalled the fixture or
\* its log is full: then the file goes after the ports.  And it finds the ready
\* file invalid only then: the file may go between the test and the greps, but
\* it never lacks a line (start_backend_responder against main and
\* _write_ready).
ReadyMeansServing ==
    [][\A s \in Supervisors : spc[s] = "grep" =>
          /\ spc'[s] = "invalid" => touched[s]
          /\ spc'[s] = "ready" =>
                touched[s] \/ \A p \in 1 .. Ports : bound[p] = s]_vars

\* A fixture that ended by itself or on request leaves no port, no temporary
\* and no ready file, wherever in its start it failed or was told to stop; nor
\* does a fixture or its ready file outlive the supervisor that cleaned up after
\* it, even when it had to kill the fixture.  A supervisor that was signalled
\* before it had noted the fixture is not one of these (main, _write_ready,
\* start_backend_responder and cleanup).
LeavesNothing ==
    \A s \in Supervisors :
        /\ fpc[s] = "ended" => \A p \in 1 .. Ports : bound[p] # s
        /\ fpc[s] = "ended" /\ ~killed[s] => temp[s] = "absent" /\ ready[s] = "absent"
        /\ spc[s] = "gone" => ready[s] = "absent" /\ ~Live(s)

\* A fixture that is told to stop ends, at whatever point of its start the
\* signal finds it, and a supervisor does not wait for a ready file for ever
\* (request_stop, stopping.wait; the loop of start_backend_responder).
WaitsEnd ==
    \A s \in Supervisors :
        /\ touched[s] ~> fpc[s] = "ended"
        /\ spc[s] \in Waiting ~> spc[s] \notin Waiting

=============================================================================
