------------------------- MODULE FixtureLifeProofs -------------------------
(***************************************************************************)
(* Proofs about FixtureLife, for any number of supervisors, ports and polls.   *)
(* The inductive invariant says what a fixture holds at each place of main:    *)
(* which ports, which files; and when a supervisor may have lost it.           *)
(***************************************************************************)
EXTENDS FixtureLife, TLAPS

\* A fixture listens on the ports of the servers it has started and on no other.
ServersOK ==
    /\ \A s \in Supervisors, p \in 1 .. Ports : bound[p] = s <=> p <= started[s]
    /\ \A s \in Supervisors :
          /\ fpc[s] \in {"none", "born", "ended"} => started[s] = 0
          /\ fpc[s] = "start" => started[s] < Ports
          /\ fpc[s] \in {"create", "write", "link", "clear", "serve"} => started[s] = Ports

\* The temporary file is there while _write_ready works on it, and the ready
\* file, which is whole from the first, from then on.  A kill leaves both.
FilesOK ==
    \A s \in Supervisors :
        /\ fpc[s] \notin {"write", "link", "clear", "fail", "ended"} => temp[s] = "absent"
        /\ fpc[s] = "link" => temp[s] = "whole"
        /\ fpc[s] \notin {"clear", "serve", "stopReady", "ended"} => ready[s] = "absent"
        /\ ready[s] # "empty"
        /\ fpc[s] = "ended" /\ ~killed[s] => temp[s] = "absent" /\ ready[s] = "absent"

\* A fixture that is not touched does not stop once it serves.
TouchedOK ==
    \A s \in Supervisors :
        stopping[s] \/ killed[s] \/ fpc[s] = "stopReady" => touched[s]

\* The fixture exists only when its supervisor has started it, and is gone when
\* a supervisor that knew it has cleaned up.  A ready file that was there when
\* the supervisor looked has lost its name only after a signal.
PlaceOK ==
    \A s \in Supervisors :
        /\ spc[s] \in {"check", "fork"} => fpc[s] = "none"
        /\ spc[s] = "grep" => ready[s] = "whole" \/ touched[s]
        /\ spc[s] = "gone" => ready[s] = "absent" /\ ~Live(s)

IInv == TypeOK /\ ServersOK /\ FilesOK /\ TouchedOK /\ PlaceOK

-----------------------------------------------------------------------------
(* The invariant is inductive *)

LEMMA InvInit == Init => IInv
BY PortsAssumption, NobodyAssumption
   DEF Init, IInv, TypeOK, ServersOK, FilesOK, TouchedOK, PlaceOK, Live,
       SupPCs, FixPCs, FileStates

\* Servers start.
LEMMA StartStep ==
    ASSUME IInv, NEW s \in Supervisors, InstallHandlers(s) \/ StartServer(s) PROVE IInv'
<1> USE PortsAssumption, NobodyAssumption DEF IInv, TypeOK, Live, fixVars, supVars,
        FixPCs, FileStates, InstallHandlers, StartServer, Step
<1>1. TypeOK'
    <2>1. CASE InstallHandlers(s)
        BY <2>1
    <2>2. CASE StartServer(s)
        <3>0. \E label \in FixPCs : fpc' = [fpc EXCEPT ![s] = label]
            BY <2>2
        <3>1. fpc' \in [Supervisors -> FixPCs]
            BY <3>0
        <3>2. started[s] + 1 \in 1 .. Ports
            BY <2>2 DEF ServersOK
        <3> DEFINE q == started[s] + 1
        <3>3. \/ bound' = bound /\ started' = started
              \/ bound' = [bound EXCEPT ![q] = s] /\ started' = [started EXCEPT ![s] = q]
            BY <2>2
        <3>4. q \in 1 .. Ports /\ q \in 0 .. Ports
            BY <3>2
        <3>5. started \in [Supervisors -> 0 .. Ports]
              /\ bound \in [1 .. Ports -> Supervisors \cup {Stranger, None}]
            OBVIOUS
        <3> HIDE DEF q, IInv, TypeOK, StartServer, InstallHandlers
        <3>6. started' \in [Supervisors -> 0 .. Ports]
            BY <3>3, <3>4, <3>5
        <3>7. bound' \in [1 .. Ports -> Supervisors \cup {Stranger, None}]
            BY <3>3, <3>4, <3>5
        <3> USE DEF IInv, TypeOK, StartServer
        <3> QED
            BY <2>2, <3>1, <3>6, <3>7
    <2> QED
        BY <2>1, <2>2
<1>2. ServersOK'
    <2>1. CASE InstallHandlers(s)
        BY <2>1 DEF ServersOK
    <2>2. CASE StartServer(s)
        <3> DEFINE q == started[s] + 1
        <3>1. /\ q \in 1 .. Ports /\ fpc[s] = "start"
              /\ started \in [Supervisors -> 0 .. Ports] /\ fpc \in [Supervisors -> FixPCs]
              /\ bound \in [1 .. Ports -> Supervisors \cup {Stranger, None}]
            BY <2>2 DEF ServersOK
        <3>2. \/ /\ bound[q] = None /\ bound' = [bound EXCEPT ![q] = s]
                 /\ started' = [started EXCEPT ![s] = q]
                 /\ fpc' = [fpc EXCEPT ![s] = IF q = Ports THEN "create" ELSE "start"]
              \/ fpc' = [fpc EXCEPT ![s] = "stop"] /\ bound' = bound /\ started' = started
            BY <2>2
        <3>3. ServersOK
            OBVIOUS
        <3> HIDE DEF IInv, TypeOK, InstallHandlers, StartServer
        <3>4. ASSUME NEW r \in Supervisors, NEW p \in 1 .. Ports
              PROVE  bound'[p] = r <=> p <= started'[r]
            BY <3>1, <3>2, <3>3 DEF ServersOK
        <3>5. ASSUME NEW r \in Supervisors
              PROVE  /\ fpc'[r] \in {"none", "born", "ended"} => started'[r] = 0
                     /\ fpc'[r] = "start" => started'[r] < Ports
                     /\ fpc'[r] \in {"create", "write", "link", "clear", "serve"} =>
                           started'[r] = Ports
            BY <3>1, <3>2, <3>3 DEF ServersOK
        <3> QED
            BY <3>4, <3>5 DEF ServersOK
    <2> QED
        BY <2>1, <2>2
<1>3. FilesOK'
    BY DEF FilesOK
<1>4. TouchedOK'
    BY DEF TouchedOK
<1>5. PlaceOK'
    <2>1. /\ fpc[s] \in {"born", "start"} /\ \A t \in Supervisors \ {s} : fpc'[t] = fpc[t]
          /\ UNCHANGED <<spc, ready, touched>>
        OBVIOUS
    <2> HIDE DEF InstallHandlers, StartServer
    <2> QED
        BY <2>1 DEF FilesOK, PlaceOK
<1> QED
    BY <1>1, <1>2, <1>3, <1>4, <1>5

\* The ready file is written, or not.
LEMMA WriteReadyStep ==
    ASSUME IInv, NEW s \in Supervisors, CreateTemp(s) \/ WriteTemp(s) \/ WriteFails(s) \/ ClearTemp(s) PROVE IInv'
<1>1. /\ \/ /\ fpc[s] = "create" /\ fpc' = [fpc EXCEPT ![s] = "write"]
            /\ temp' = [temp EXCEPT ![s] = "empty"]
         \/ /\ fpc[s] = "write" /\ fpc' = [fpc EXCEPT ![s] = "link"]
            /\ temp' = [temp EXCEPT ![s] = "whole"]
         \/ /\ fpc[s] \in {"create", "write", "link"} /\ temp' = temp
            /\ fpc' = [fpc EXCEPT ![s] = "fail"]
         \/ /\ \/ fpc[s] = "clear" /\ fpc' = [fpc EXCEPT ![s] = "serve"]
               \/ fpc[s] = "fail" /\ fpc' = [fpc EXCEPT ![s] = "stop"]
            /\ temp' = [temp EXCEPT ![s] = "absent"]
      /\ UNCHANGED <<spc, polls, started, stopping, bound, ready, touched, killed>>
    BY DEF CreateTemp, WriteTemp, WriteFails, ClearTemp, Step, supVars
<1>2. fpc' \in [Supervisors -> FixPCs]
    BY <1>1 DEF IInv, TypeOK, FixPCs
<1>3. temp' \in [Supervisors -> FileStates] /\ ready' \in [Supervisors -> FileStates]
    BY <1>1 DEF IInv, TypeOK, FileStates
<1>4. TypeOK'
    BY <1>1, <1>2, <1>3 DEF IInv, TypeOK
<1>5. ServersOK'
    BY <1>1 DEF IInv, TypeOK, ServersOK
<1>6. FilesOK'
    <2> DEFINE At(t) ==
            /\ fpc[t] \notin {"write", "link", "clear", "fail", "ended"} => temp[t] = "absent"
            /\ fpc[t] = "link" => temp[t] = "whole"
            /\ fpc[t] \notin {"clear", "serve", "stopReady", "ended"} => ready[t] = "absent"
            /\ ready[t] # "empty"
            /\ fpc[t] = "ended" /\ ~killed[t] => temp[t] = "absent" /\ ready[t] = "absent"
    <2>1. ASSUME NEW t \in Supervisors \ {s} PROVE At(t)'
        BY <1>1 DEF IInv, TypeOK, FilesOK
    <2>2. fpc \in [Supervisors -> FixPCs] /\ temp \in [Supervisors -> FileStates] /\ At(s)
        BY DEF IInv, TypeOK, FilesOK
    <2>3. At(s)'
        BY <1>1, <2>2
    <2> QED
        BY <2>1, <2>3 DEF FilesOK
<1>7. TouchedOK'
    BY <1>1 DEF IInv, TypeOK, TouchedOK
<1>8. PlaceOK'
    BY <1>1 DEF IInv, TypeOK, FilesOK, PlaceOK, Live
<1> QED
    BY <1>4, <1>5, <1>6, <1>7, <1>8 DEF IInv

\* The ready file gets its name.
LEMMA LinkStep ==
    ASSUME IInv, NEW s \in Supervisors, Link(s) PROVE IInv'
<1> USE PortsAssumption, NobodyAssumption DEF IInv, TypeOK, Live, fixVars, supVars,
        FixPCs, FileStates, Link, Step
<1>1. TypeOK'
    OBVIOUS
<1>2. ServersOK'
    BY DEF ServersOK
<1>3. FilesOK'
    BY DEF FilesOK
<1>4. TouchedOK'
    BY DEF TouchedOK
<1>5. PlaceOK'
    BY DEF FilesOK, PlaceOK
<1> QED
    BY <1>1, <1>2, <1>3, <1>4, <1>5

\* The fixture is told to stop.
LEMMA LeaveServeStep ==
    ASSUME IInv, NEW s \in Supervisors, EndServe(s) \/ PrintFails(s) PROVE IInv'
<1>1. /\ fpc' = [fpc EXCEPT ![s] = "stopReady"] /\ fpc[s] = "serve"
      /\ \/ stopping[s] /\ touched' = touched
         \/ touched' = [touched EXCEPT ![s] = TRUE]
      /\ UNCHANGED <<spc, polls, started, stopping, bound, temp, ready, killed>>
    BY DEF EndServe, PrintFails, Step, supVars
<1>2. fpc' \in [Supervisors -> FixPCs]
    BY <1>1 DEF IInv, TypeOK, FixPCs
<1>3. temp' \in [Supervisors -> FileStates] /\ ready' \in [Supervisors -> FileStates]
    BY <1>1 DEF IInv, TypeOK, FileStates
<1>4. TypeOK'
    BY <1>1, <1>2, <1>3 DEF IInv, TypeOK
<1>5. ServersOK'
    BY <1>1 DEF IInv, TypeOK, ServersOK
<1>6. FilesOK'
    BY <1>1 DEF IInv, TypeOK, FilesOK
<1>7. TouchedOK'
    BY <1>1 DEF IInv, TypeOK, TouchedOK
<1>8. PlaceOK'
    BY <1>1 DEF IInv, TypeOK, FilesOK, PlaceOK, Live
<1> QED
    BY <1>4, <1>5, <1>6, <1>7, <1>8 DEF IInv

\* A server stops.
LEMMA StopServerStep ==
    ASSUME IInv, NEW s \in Supervisors, StopServer(s) PROVE IInv'
<1> USE PortsAssumption, NobodyAssumption DEF IInv, TypeOK, Live, fixVars, supVars,
        FixPCs, FileStates, StopServer
<1>1. TypeOK'
    OBVIOUS
<1>2. ServersOK'
    BY DEF ServersOK
<1>3. FilesOK'
    BY DEF FilesOK
<1>4. TouchedOK'
    BY DEF TouchedOK
<1>5. PlaceOK'
    BY DEF FilesOK, PlaceOK
<1> QED
    BY <1>1, <1>2, <1>3, <1>4, <1>5

\* The fixture ends.
LEMMA EndStep ==
    ASSUME IInv, NEW s \in Supervisors, End(s) PROVE IInv'
<1>1. /\ fpc' = [fpc EXCEPT ![s] = "ended"] /\ fpc[s] \in {"stop", "stopReady"}
      /\ started[s] = 0
      /\ \/ ready' = [ready EXCEPT ![s] = "absent"]
         \/ ready' = ready /\ fpc[s] = "stop"
      /\ UNCHANGED <<spc, polls, started, stopping, bound, temp, touched, killed>>
    BY DEF End, Step, supVars
<1>2. fpc' \in [Supervisors -> FixPCs]
    BY <1>1 DEF IInv, TypeOK, FixPCs
<1>3. temp' \in [Supervisors -> FileStates] /\ ready' \in [Supervisors -> FileStates]
    BY <1>1 DEF IInv, TypeOK, FileStates
<1>4. TypeOK'
    BY <1>1, <1>2, <1>3 DEF IInv, TypeOK
<1>5. ServersOK'
    BY <1>1 DEF IInv, TypeOK, ServersOK
<1>6. FilesOK'
    BY <1>1 DEF IInv, TypeOK, FilesOK
<1>7. TouchedOK'
    BY <1>1 DEF IInv, TypeOK, TouchedOK
<1>8. PlaceOK'
    <2>1. ready'[s] = ready[s] \/ touched[s]
        BY <1>1 DEF IInv, TypeOK, FilesOK, TouchedOK
    <2>2. \A t \in Supervisors \ {s} : ready'[t] = ready[t] /\ fpc'[t] = fpc[t]
        BY <1>1 DEF IInv, TypeOK
    <2>3. fpc[s] \notin {"none", "ended"} /\ fpc'[s] = "ended"
        BY <1>1 DEF IInv, TypeOK
    <2> QED
        BY <1>1, <2>1, <2>2, <2>3 DEF IInv, PlaceOK, Live
<1> QED
    BY <1>4, <1>5, <1>6, <1>7, <1>8 DEF IInv

\* What a signal does to a fixture, whoever sends it.
LEMMA SignalEffect ==
    ASSUME IInv, NEW s \in Supervisors, Term(s) \/ Kill(s)
    PROVE  /\ fpc' \in [Supervisors -> FixPCs]
           /\ started' \in [Supervisors -> 0 .. Ports]
           /\ bound' \in [1 .. Ports -> Supervisors \cup {Stranger, None}]
           /\ stopping' \in [Supervisors -> BOOLEAN]
           /\ touched' \in [Supervisors -> BOOLEAN]
           /\ killed' \in [Supervisors -> BOOLEAN]
           /\ ServersOK' /\ FilesOK' /\ TouchedOK'
           /\ temp' = temp /\ ready' = ready
           /\ \A t \in Supervisors : touched[t] => touched'[t]
           /\ \A t \in Supervisors : fpc'[t] = fpc[t] \/ Live(t)
<1> USE PortsAssumption, NobodyAssumption DEF IInv, TypeOK, Live, FixPCs
<1>1. CASE Term(s)
    <2>1. /\ fpc' \in [Supervisors -> FixPCs] /\ stopping' \in [Supervisors -> BOOLEAN]
          /\ touched' \in [Supervisors -> BOOLEAN]
        BY <1>1 DEF Term
    <2>2. ServersOK'
        BY <1>1 DEF Term, ServersOK
    <2>3. FilesOK' /\ TouchedOK'
        BY <1>1 DEF Term, FilesOK, TouchedOK, FileStates
    <2> QED
        BY <1>1, <2>1, <2>2, <2>3 DEF Term
<1>2. CASE Kill(s)
    <2>1. /\ fpc' \in [Supervisors -> FixPCs]
          /\ started' \in [Supervisors -> 0 .. Ports]
        BY <1>2 DEF Kill
    <2>2. bound' \in [1 .. Ports -> Supervisors \cup {Stranger, None}]
        BY <1>2 DEF Kill
    <2>3. touched' \in [Supervisors -> BOOLEAN] /\ killed' \in [Supervisors -> BOOLEAN]
        BY <1>2 DEF Kill
    <2>4. ServersOK'
        <3>1. \A t \in Supervisors, p \in 1 .. Ports : bound'[p] = t <=> p <= started'[t]
            BY <1>2 DEF Kill, ServersOK
        <3> QED
            BY <1>2, <3>1 DEF Kill, ServersOK
    <2>5. FilesOK' /\ TouchedOK'
        BY <1>2 DEF Kill, FilesOK, TouchedOK, FileStates
    <2> QED
        BY <1>2, <2>1, <2>2, <2>3, <2>4, <2>5 DEF Kill
<1> QED
    BY <1>1, <1>2

\* A signal of somebody else.
LEMMA OthersStep ==
    ASSUME IInv, NEW s \in Supervisors, OthersSignal(s) PROVE IInv'
<1> USE DEF IInv, TypeOK, OthersSignal, supVars
<1>1. /\ fpc' \in [Supervisors -> FixPCs]
      /\ started' \in [Supervisors -> 0 .. Ports]
      /\ bound' \in [1 .. Ports -> Supervisors \cup {Stranger, None}]
      /\ stopping' \in [Supervisors -> BOOLEAN]
      /\ touched' \in [Supervisors -> BOOLEAN]
      /\ killed' \in [Supervisors -> BOOLEAN]
      /\ ServersOK' /\ FilesOK' /\ TouchedOK'
      /\ temp' = temp /\ ready' = ready
      /\ \A t \in Supervisors : touched[t] => touched'[t]
      /\ \A t \in Supervisors : fpc'[t] = fpc[t] \/ Live(t)
    BY SignalEffect
<1>2. TypeOK'
    BY <1>1
<1>3. PlaceOK'
    BY <1>1 DEF PlaceOK, Live
<1> QED
    BY <1>1, <1>2, <1>3

\* The cleanup signals the fixture.
LEMMA CleanupSignalStep ==
    ASSUME IInv, NEW s \in Supervisors, CleanupTerm(s) \/ CleanupKill(s) PROVE IInv'
<1> USE DEF IInv, TypeOK, CleanupTerm, CleanupKill, supVars
<1>1. /\ fpc' \in [Supervisors -> FixPCs]
      /\ started' \in [Supervisors -> 0 .. Ports]
      /\ bound' \in [1 .. Ports -> Supervisors \cup {Stranger, None}]
      /\ stopping' \in [Supervisors -> BOOLEAN]
      /\ touched' \in [Supervisors -> BOOLEAN]
      /\ killed' \in [Supervisors -> BOOLEAN]
      /\ ServersOK' /\ FilesOK' /\ TouchedOK'
      /\ temp' = temp /\ ready' = ready
      /\ \A t \in Supervisors : touched[t] => touched'[t]
      /\ \A t \in Supervisors : fpc'[t] = fpc[t] \/ Live(t)
    BY SignalEffect
<1>2. spc' = [spc EXCEPT ![s] = "wait"] \/ spc' = spc
    BY DEF Goto
<1>3. TypeOK'
    BY <1>1, <1>2 DEF SupPCs
<1>4. PlaceOK'
    BY <1>1, <1>2 DEF PlaceOK, Live
<1> QED
    BY <1>1, <1>3, <1>4

\* The fixture is started.
LEMMA ForkStep ==
    ASSUME IInv, NEW s \in Supervisors, Fork(s) PROVE IInv'
<1> USE PortsAssumption, NobodyAssumption DEF IInv, TypeOK, Live, fixVars, supVars,
        SupPCs, FixPCs, FileStates, Fork, Goto
<1>1. TypeOK'
    OBVIOUS
<1>2. ServersOK'
    BY DEF ServersOK, PlaceOK
<1>3. FilesOK'
    BY DEF FilesOK, PlaceOK
<1>4. TouchedOK'
    BY DEF TouchedOK
<1>5. PlaceOK'
    BY DEF FilesOK, PlaceOK
<1> QED
    BY <1>1, <1>2, <1>3, <1>4, <1>5

\* The cleanup ends.
LEMMA CleanupFinishStep ==
    ASSUME IInv, NEW s \in Supervisors, CleanupFinish(s) \/ CleanupForgets(s) PROVE IInv'
<1> USE PortsAssumption, NobodyAssumption DEF IInv, TypeOK, Live, fixVars, supVars,
        SupPCs, FixPCs, FileStates, CleanupFinish, CleanupForgets, Goto
<1>1. TypeOK'
    OBVIOUS
<1>2. ServersOK'
    BY DEF ServersOK
<1>3. FilesOK'
    BY DEF FilesOK
<1>4. TouchedOK'
    BY DEF TouchedOK
<1>5. PlaceOK'
    BY DEF FilesOK, PlaceOK
<1> QED
    BY <1>1, <1>2, <1>3, <1>4, <1>5

\* A supervisor moves alone.
Alone(s) ==
    \/ CheckPorts(s) \/ Register(s) \/ Poll(s) \/ GrepReady(s) \/ Probe(s)
    \/ BeginCleanup(s) \/ SupervisorKilled(s)

LEMMA AloneStep == ASSUME IInv, NEW s \in Supervisors, Alone(s) PROVE IInv'
<1> USE DEF Alone, CheckPorts, Register, Poll, GrepReady, Probe, BeginCleanup, SupervisorKilled
<1>1. UNCHANGED <<fpc, started, stopping, bound, temp, ready, touched, killed>>
    BY DEF fixVars
<1>2. \/ spc' = spc
      \/ \E label \in SupPCs :
            /\ spc' = [spc EXCEPT ![s] = label]
            /\ label \in {"check", "fork", "gone"} => spc[s] = "check"
            /\ label = "grep" => ready[s] # "absent"
    BY DEF Goto, LeaveLoop, SupPCs, Waiting
<1>3. polls' \in [Supervisors -> Nat]
    <2>1. polls \in [Supervisors -> Nat]
        BY DEF IInv, TypeOK
    <2>2. \/ polls' = polls \/ polls' = [polls EXCEPT ![s] = 0]
          \/ polls' = [polls EXCEPT ![s] = @ + 1]
        BY DEF LeaveLoop
    <2> QED
        BY <2>1, <2>2
<1> USE <1>1
<1> HIDE DEF Alone
<1>4. TypeOK'
    BY <1>2, <1>3 DEF IInv, TypeOK
<1>5. ServersOK' /\ FilesOK' /\ TouchedOK'
    BY DEF IInv, ServersOK, FilesOK, TouchedOK
<1>6. PlaceOK'
    <2>1. \A t \in Supervisors \ {s} : spc'[t] = spc[t]
        BY <1>2 DEF IInv, TypeOK
    <2>2. \/ spc'[s] = spc[s]
          \/ /\ spc'[s] \in {"check", "fork", "gone"} => spc[s] = "check"
             /\ spc'[s] = "grep" => ready[s] # "absent"
        BY <1>2 DEF IInv, TypeOK
    <2>3. ready[s] \in {"absent", "whole"}
          /\ (fpc[s] \notin {"clear", "serve", "stopReady", "ended"} => ready[s] = "absent")
        BY DEF IInv, TypeOK, FilesOK, FileStates
    <2> HIDE DEF CheckPorts, Register, Poll, GrepReady, Probe, BeginCleanup, SupervisorKilled
    <2> QED
        BY <2>1, <2>2, <2>3 DEF IInv, PlaceOK, Live
<1> QED
    BY <1>4, <1>5, <1>6 DEF IInv

\* A stranger takes a port, or gives it up.
LEMMA StrangerStep ==
    ASSUME IInv, NEW p \in 1 .. Ports, StrangerBinds(p) PROVE IInv'
<1> USE PortsAssumption, NobodyAssumption DEF IInv, TypeOK, StrangerBinds, fixVars, supVars
<1>1. TypeOK' /\ ServersOK'
    BY DEF ServersOK
<1>2. FilesOK' /\ TouchedOK' /\ PlaceOK'
    BY DEF FilesOK, TouchedOK, PlaceOK, Live
<1> QED
    BY <1>1, <1>2

LEMMA InvStep == IInv /\ [Next]_vars => IInv'
<1> SUFFICES ASSUME IInv, [Next]_vars PROVE IInv'
    OBVIOUS
<1>1. CASE UNCHANGED vars
    BY <1>1 DEF vars, supVars, fixVars, IInv, TypeOK, ServersOK, FilesOK, TouchedOK,
                PlaceOK, Live
<1>2. ASSUME NEW s \in Supervisors, FixtureStep(s) \/ WriteFails(s) \/ PrintFails(s)
      PROVE IInv'
    BY <1>2, StartStep, WriteReadyStep, LinkStep, LeaveServeStep, StopServerStep, EndStep
       DEF FixtureStep
<1>3. ASSUME NEW s \in Supervisors,
             SupervisorStep(s) \/ BeginCleanup(s) \/ SupervisorKilled(s)
      PROVE IInv'
    BY <1>3, CleanupSignalStep, ForkStep, CleanupFinishStep, AloneStep
       DEF SupervisorStep, Alone
<1>4. ASSUME NEW s \in Supervisors, OthersSignal(s) PROVE IInv'
    BY <1>4, OthersStep
<1>5. ASSUME NEW p \in 1 .. Ports, StrangerBinds(p) PROVE IInv'
    BY <1>5, StrangerStep
<1> QED
    BY <1>1, <1>2, <1>3, <1>4, <1>5 DEF Next

-----------------------------------------------------------------------------
(* The theorems *)

\* The invariant holds in every state.
THEOREM Invariant == Spec => []IInv
BY InvInit, InvStep, PTL DEF Spec

\* Every variable of the fixtures and their supervisors keeps its type.
THEOREM TypeCorrect == Spec => []TypeOK
<1>1. IInv => TypeOK
    BY DEF IInv
<1> QED
    BY Invariant, <1>1, PTL

\* Wherever its start failed or a signal met it, a fixture that ends leaves no
\* port and no file of its own, and neither a fixture nor its ready file outlives
\* the supervisor that had noted the fixture and cleaned up (main, _write_ready,
\* start_backend_responder, cleanup).
THEOREM NothingLeft == Spec => []LeavesNothing
<1>1. IInv => LeavesNothing
    <2> SUFFICES ASSUME IInv, NEW s \in Supervisors
                 PROVE  /\ fpc[s] = "ended" => \A p \in 1 .. Ports : bound[p] # s
                        /\ fpc[s] = "ended" /\ ~killed[s] =>
                              temp[s] = "absent" /\ ready[s] = "absent"
                        /\ spc[s] = "gone" => ready[s] = "absent" /\ ~Live(s)
        BY DEF LeavesNothing
    <2>1. fpc[s] = "ended" => \A p \in 1 .. Ports : bound[p] # s
        BY PortsAssumption DEF IInv, ServersOK
    <2> QED
        BY <2>1 DEF IInv, FilesOK, PlaceOK
<1> QED
    BY Invariant, <1>1, PTL

\* A supervisor that takes its fixture for ready has one that listens on every
\* port, or one that was told to stop, and finds the ready file invalid only when
\* the fixture was told to stop (start_backend_responder, _write_ready).
THEOREM ReadyIsTrue == Spec => ReadyMeansServing
<1> DEFINE Verdict(s) ==
        spc[s] = "grep" =>
            /\ spc'[s] = "invalid" => touched[s]
            /\ spc'[s] = "ready" =>
                  touched[s] \/ \A p \in 1 .. Ports : bound[p] = s
           Found == \A s \in Supervisors : Verdict(s)
<1>1. ASSUME IInv, NEW s \in Supervisors, ready[s] = "whole"
      PROVE  touched[s] \/ \A p \in 1 .. Ports : bound[p] = s
    <2>1. CASE fpc[s] \in {"clear", "serve"}
        BY <1>1, <2>1, PortsAssumption DEF IInv, ServersOK
    <2>2. CASE fpc[s] \in {"stopReady", "ended"}
        BY <1>1, <2>2 DEF IInv, FilesOK, TouchedOK
    <2>3. fpc[s] \in {"clear", "serve", "stopReady", "ended"}
        BY <1>1 DEF IInv, FilesOK
    <2> QED
        BY <2>1, <2>2, <2>3
<1>2. ASSUME IInv, NEW s \in Supervisors, spc[s] = "grep", Next
      PROVE  /\ spc'[s] = "invalid" => ready[s] # "whole"
             /\ spc'[s] = "ready" => ready[s] = "whole"
    <2> USE <1>2 DEF IInv, TypeOK, supVars, Goto, LeaveLoop
    <2>1. ASSUME NEW t \in Supervisors, GrepReady(t)
          PROVE  /\ spc'[s] = "invalid" => ready[s] # "whole"
                 /\ spc'[s] = "ready" => ready[s] = "whole"
        BY <2>1 DEF GrepReady
    <2>2. ASSUME NEW t \in Supervisors,
                 \/ CheckPorts(t) \/ Fork(t) \/ Register(t) \/ Poll(t) \/ Probe(t)
                 \/ CleanupTerm(t) \/ CleanupKill(t) \/ CleanupFinish(t)
                 \/ CleanupForgets(t) \/ BeginCleanup(t) \/ SupervisorKilled(t)
          PROVE  spc'[s] \notin {"invalid", "ready"}
        BY <2>2 DEF CheckPorts, Fork, Register, Poll, Probe, CleanupTerm, CleanupKill,
                    CleanupFinish, CleanupForgets, BeginCleanup, SupervisorKilled
    <2>3. ASSUME NEW t \in Supervisors,
                 FixtureStep(t) \/ WriteFails(t) \/ PrintFails(t) \/ OthersSignal(t)
          PROVE  spc' = spc
        BY <2>3 DEF FixtureStep, InstallHandlers, StartServer, CreateTemp, WriteTemp,
                    Link, ClearTemp, EndServe, StopServer, End, WriteFails, PrintFails,
                    OthersSignal
    <2>4. ASSUME NEW p \in 1 .. Ports, StrangerBinds(p) PROVE spc' = spc
        BY <2>4 DEF StrangerBinds
    <2> QED
        BY <2>1, <2>2, <2>3, <2>4 DEF Next, SupervisorStep
<1>3. ASSUME IInv, [Next]_vars PROVE Found
    <2>1. CASE Next
        BY <1>1, <1>2, <1>3, <2>1 DEF IInv, PlaceOK
    <2>2. CASE UNCHANGED vars
        BY <2>2 DEF vars, supVars
    <2> QED
        BY <1>3, <2>1, <2>2
<1>4. IInv /\ [Next]_vars => [Found]_vars
    BY <1>3
<1>5. Spec => [][Found]_vars
    BY Invariant, <1>4, PTL DEF Spec
<1> QED
    BY <1>5 DEF ReadyMeansServing

=============================================================================
