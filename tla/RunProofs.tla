------------------------------ MODULE RunProofs ------------------------------
(***************************************************************************)
(* Proofs about two jobs of run.sh: a campaign (Supervisor), for any          *)
(* number of profiles and rapid restarts, and --stop (StopCommand, in the     *)
(* second half).  The two share no variable: each theorem is about one of     *)
(* them.  The inductive invariant of a campaign ties the tables of the script *)
(* to its children and their pid files, up to what a signal cut short, and    *)
(* says what the cleanup has already achieved at each of its places.          *)
(***************************************************************************)
EXTENDS Supervisor, StopCommand, TLAPS

\* The cleanup after its wait for the children, and after that for the fixture.
Waits   == {"backendTerm", "backendKill", "backendWait", "finish", "exited"}
Settled == {"finish", "exited"}

\* run.pid is written between the fork of a lighttpd and its registration.
PidsOK ==
    /\ pc \in {"backendFork", "backendReg", "awaitReady", "captureFork", "captureReg",
               "launch", "record", "note", "monitor"}
          => pidFiles = registered \cap Profiles
    /\ pc = "register" => pidFiles = (registered \cap Profiles) \cup {cur}
    /\ pc \in {"record", "register", "note"} => cur \in Profiles

\* A profile that is, or may again be, in the tables has attempts left.
RapidOK ==
    /\ \A c \in Profiles : c \in todo \cup registered \cup {cur} => rapid[c] <= MaxRapid
    /\ restarting => todo = {}
    /\ pc = "monitor" => todo = {} /\ cur = None

\* What was waited for has ended, and in the end no file is left.
EndOK ==
    /\ pc \in Waits => \A x \in registered \ {Backend} : ~Alive(x)
    /\ pc \in Settled => \A x \in registered : ~Alive(x)
    /\ pc = "exited" => \A c \in pidFiles : noted[c] = 0
    /\ pc = "exited" /\ ready = "there" => Backend \in lost \ registered

\* A child that lives or has a run.pid is in the tables, unless it is just being
\* put there, or was when a signal came; so is what is noted of it.
LostOK ==
    /\ \A x \in Children : Alive(x) => x \in registered \cup lost \cup Halfway
    /\ \A c \in pidFiles : c \in registered \cup lost \cup Halfway
    /\ \A c \in Profiles :
          /\ c \in registered => noted[c] = 3 \/ c \in lost \cup Halfway
          /\ c \notin registered => noted[c] = 0
    /\ todo \cap registered = {}
    /\ cur \in Profiles =>
          /\ pc \in {"launch", "record", "register", "note"}
          /\ cur \notin todo
          /\ cur \in registered => pc = "note"
    /\ pc = "note" => cur \in registered /\ noted[cur] < 3

\* A status is expected only of what was signalled, and a report marked only
\* when its process has ended.
SignalOK ==
    /\ \A c \in Profiles : expected[c] # "none" => sig[c] # "none"
    /\ \A c \in sidecars :
          /\ pc \in Waits /\ ~Alive(c)
          /\ sig[c] # "none" /\ status[c] # "other"

IInv == TypeOK /\ PidsOK /\ RapidOK /\ EndOK /\ LostOK /\ SignalOK

-----------------------------------------------------------------------------
(* The invariant is inductive *)

LEMMA InvInit == Init => IInv
<1> SUFFICES ASSUME Init PROVE IInv
    OBVIOUS
<1> USE CallsAssumption, RapidAssumption, ProfileAssumption DEF Init
<1>1. pc \in {"backendFork", "captureFork", "launch"}
    OBVIOUS
<1>2. TypeOK
    <2>1. rapid \in [Profiles -> 0 .. MaxRapid + 1]
        OBVIOUS
    <2>2. /\ proc \in [Children -> {"none", "forked", "running", "exited"}]
          /\ sig \in [Children -> {"none", "TERM", "KILL"}]
          /\ status \in [Profiles -> {"none", "72", "137", "other"}]
          /\ expected \in [Profiles -> {"none", "72", "137"}]
          /\ noted \in [Profiles -> 0 .. 3]
        OBVIOUS
    <2> QED
        BY <1>1, <2>1, <2>2 DEF TypeOK
<1>3. PidsOK /\ RapidOK
    BY <1>1 DEF PidsOK, RapidOK
<1>4. EndOK /\ SignalOK
    BY <1>1 DEF EndOK, SignalOK, Waits, Settled
<1>5. LostOK
    BY <1>1 DEF LostOK, Halfway, Alive
<1> QED
    BY <1>2, <1>3, <1>4, <1>5 DEF IInv

\* The fixture or the capture is forked, or noted.
LEMMA StartHelperStep ==
    ASSUME IInv, StartBackend \/ StartCapture PROVE IInv'
<1> USE ProfileAssumption, RapidAssumption, CallsAssumption
    DEF IInv, TypeOK, Children, Cleanup, StartBackend, StartCapture, ForkHelper, RegisterHelper, ForkOf, Goto, supVars, noteVars, procVars, fileVars
<1>1. TypeOK'
    BY DEF RapidOK, Modes
<1>2. PidsOK'
    BY DEF PidsOK
<1>3. RapidOK'
    <2>1. /\ todo' \in {todo, {}} /\ registered' \cap Profiles \subseteq registered
          /\ cur' = cur /\ rapid' = rapid /\ restarting' = restarting
          /\ pc' # "monitor"
        OBVIOUS
    <2> HIDE DEF IInv, TypeOK
    <2>2. RapidOK
        BY DEF IInv
    <2> QED
        BY <2>1, <2>2 DEF RapidOK
<1>4. EndOK'
    BY DEF EndOK, Waits, Settled, Alive
<1>5. SignalOK'
    BY DEF EndOK, SignalOK, Waits, Alive
<1>6. LostOK'
    <2>1. CASE StartBackend
        BY <2>1 DEF LostOK, Halfway, Alive
    <2>2. CASE StartCapture
        BY <2>2 DEF LostOK, Halfway, Alive
    <2> QED
        BY <2>1, <2>2
<1> QED
    BY <1>1, <1>2, <1>3, <1>4, <1>5, <1>6

\* The wait for the fixture ends.
LEMMA AwaitStep ==
    ASSUME IInv, BackendReady \/ BackendNotReady PROVE IInv'
<1> USE ProfileAssumption, RapidAssumption, CallsAssumption
    DEF IInv, TypeOK, Children, Cleanup, BackendReady, BackendNotReady, Goto, supVars, noteVars, procVars, fileVars
<1>1. TypeOK'
    BY DEF RapidOK, Modes
<1>2. PidsOK'
    BY DEF PidsOK
<1>3. RapidOK'
    <2>1. /\ todo' \in {todo, {}} /\ registered' \cap Profiles \subseteq registered
          /\ cur' = cur /\ rapid' = rapid /\ restarting' = restarting
          /\ pc' # "monitor"
        OBVIOUS
    <2> HIDE DEF IInv, TypeOK
    <2>2. RapidOK
        BY DEF IInv
    <2> QED
        BY <2>1, <2>2 DEF RapidOK
<1>4. EndOK'
    BY DEF EndOK, Waits, Settled, Alive
<1>5. SignalOK'
    BY DEF EndOK, SignalOK, Waits, Alive
<1>6. LostOK'
    <2>1. CASE BackendReady
        BY <2>1 DEF LostOK, Halfway, Alive
    <2>2. CASE BackendNotReady
        BY <2>2 DEF LostOK, Halfway, Alive
    <2> QED
        BY <2>1, <2>2
<1> QED
    BY <1>1, <1>2, <1>3, <1>4, <1>5, <1>6

\* A profile is taken up.
LEMMA NextProfileStep ==
    ASSUME IInv, NextProfile PROVE IInv'
<1> USE ProfileAssumption, RapidAssumption, CallsAssumption
    DEF IInv, TypeOK, Children, Cleanup, NextProfile, Goto, supVars, noteVars, procVars, fileVars
<1>1. TypeOK'
    BY DEF RapidOK, Modes
<1>2. PidsOK'
    BY DEF PidsOK
<1>3. RapidOK'
    BY DEF RapidOK
<1>4. EndOK'
    BY DEF EndOK, Waits, Settled, Alive
<1>5. SignalOK'
    BY DEF EndOK, SignalOK, Waits, Alive
<1>6. LostOK'
    BY DEF LostOK, Halfway, Alive
<1> QED
    BY <1>1, <1>2, <1>3, <1>4, <1>5, <1>6

\* A lighttpd is forked.
LEMMA LaunchStep ==
    ASSUME IInv, Launch PROVE IInv'
<1> USE ProfileAssumption, RapidAssumption, CallsAssumption
    DEF IInv, TypeOK, Children, Cleanup, Launch, ForkOf, Goto, supVars, noteVars, procVars, fileVars
<1>1. TypeOK'
    BY DEF RapidOK, Modes
<1>2. PidsOK'
    BY DEF PidsOK
<1>3. RapidOK'
    BY DEF RapidOK
<1>4. EndOK'
    BY DEF EndOK, Waits, Settled, Alive
<1>5. SignalOK'
    BY DEF EndOK, SignalOK, Waits, Alive
<1>6. LostOK'
    BY DEF LostOK, Halfway, Alive
<1> QED
    BY <1>1, <1>2, <1>3, <1>4, <1>5, <1>6

\* Its run.pid is written.
LEMMA RecordStep ==
    ASSUME IInv, Record PROVE IInv'
<1> USE ProfileAssumption, RapidAssumption, CallsAssumption
    DEF IInv, TypeOK, Children, Cleanup, Record, Goto, supVars, noteVars, procVars, fileVars
<1>1. TypeOK'
    BY DEF PidsOK
<1>2. PidsOK'
    BY DEF PidsOK
<1>3. RapidOK'
    BY DEF RapidOK
<1>4. EndOK'
    BY DEF EndOK, Waits, Settled, Alive
<1>5. SignalOK'
    BY DEF EndOK, SignalOK, Waits, Alive
<1>6. LostOK'
    BY DEF PidsOK, LostOK, Halfway, Alive
<1> QED
    BY <1>1, <1>2, <1>3, <1>4, <1>5, <1>6

\* It is put in the tables.
LEMMA RegisterStep ==
    ASSUME IInv, Register PROVE IInv'
<1> USE ProfileAssumption, RapidAssumption, CallsAssumption
    DEF IInv, TypeOK, Children, Cleanup, Register, Goto, supVars, noteVars, procVars, fileVars
<1>1. TypeOK'
    BY DEF PidsOK
<1>2. PidsOK'
    BY DEF PidsOK
<1>3. RapidOK'
    BY DEF RapidOK
<1>4. EndOK'
    BY DEF EndOK, Waits, Settled, Alive
<1>5. SignalOK'
    BY DEF EndOK, SignalOK, Waits, Alive
<1>6. LostOK'
    BY DEF PidsOK, LostOK, Halfway, Alive
<1> QED
    BY <1>1, <1>2, <1>3, <1>4, <1>5, <1>6

\* One of the other tables knows it.
LEMMA NoteStep ==
    ASSUME IInv, Note PROVE IInv'
<1> USE ProfileAssumption, RapidAssumption, CallsAssumption
    DEF IInv, TypeOK, Children, Cleanup, Note, Goto, supVars, noteVars, procVars, fileVars
<1>1. TypeOK'
    <2>1. cur \in Profiles /\ noted[cur] + 1 \in 0 .. 3
        BY DEF PidsOK, LostOK
    <2> QED
        BY <2>1
<1>2. PidsOK'
    BY DEF PidsOK
<1>3. RapidOK'
    BY DEF RapidOK
<1>4. EndOK'
    BY DEF EndOK, Waits, Settled, Alive
<1>5. SignalOK'
    BY DEF EndOK, SignalOK, Waits, Alive
<1>6. LostOK'
    <2>1. cur \in Profiles /\ cur \in registered /\ Halfway = {cur} /\ noted[cur] < 3
        BY DEF PidsOK, LostOK, Halfway
    <2>2. CASE noted[cur] < 2
        <3>1. Halfway' = {cur} /\ noted'[cur] < 3
            BY <2>1, <2>2 DEF Halfway
        <3> QED
            BY <2>1, <2>2, <3>1 DEF LostOK, Alive
    <2>3. CASE noted[cur] = 2
        <3>1. Halfway' = {} /\ noted'[cur] = 3 /\ pc' # "note"
            BY <2>1, <2>3 DEF Halfway
        <3> QED
            BY <2>1, <2>3, <3>1 DEF LostOK, Alive
    <2> QED
        BY <2>1, <2>2, <2>3
<1> QED
    BY <1>1, <1>2, <1>3, <1>4, <1>5, <1>6

\* A launch fails.
LEMMA LaunchFailsStep ==
    ASSUME IInv, LaunchFails PROVE IInv'
<1> USE ProfileAssumption, RapidAssumption, CallsAssumption
    DEF IInv, TypeOK, Children, Cleanup, LaunchFails, Exit, Goto, supVars, noteVars, procVars, fileVars
<1>1. TypeOK'
    BY DEF RapidOK, Modes, Halfway
<1>2. PidsOK'
    BY DEF PidsOK
<1>3. RapidOK'
    BY DEF RapidOK
<1>4. EndOK'
    BY DEF EndOK, Waits, Settled, Alive
<1>5. SignalOK'
    BY DEF EndOK, SignalOK, Waits, Alive
<1>6. LostOK'
    BY DEF LostOK, Halfway, Alive
<1> QED
    BY <1>1, <1>2, <1>3, <1>4, <1>5, <1>6

\* The fixture or the capture has died.
LEMMA DiedStep ==
    ASSUME IInv, BackendDied \/ ReapCapture PROVE IInv'
<1> USE ProfileAssumption, RapidAssumption, CallsAssumption
    DEF IInv, TypeOK, Children, Cleanup, BackendDied, ReapCapture, Goto, supVars, noteVars, procVars, fileVars
<1>1. TypeOK'
    BY DEF RapidOK, Modes
<1>2. PidsOK'
    BY DEF PidsOK
<1>3. RapidOK'
    BY DEF RapidOK
<1>4. EndOK'
    BY DEF EndOK, Waits, Settled, Alive
<1>5. SignalOK'
    BY DEF EndOK, SignalOK, Waits, Alive
<1>6. LostOK'
    BY DEF LostOK, Halfway, Alive
<1> QED
    BY <1>1, <1>2, <1>3, <1>4, <1>5, <1>6

\* A lighttpd has ended.
LEMMA ReapChildStep ==
    ASSUME IInv, NEW c \in Profiles, ReapChild(c) PROVE IInv'
<1> USE ProfileAssumption, RapidAssumption, CallsAssumption
    DEF IInv, TypeOK, Children, Cleanup, ReapChild, Attempt, Goto, supVars, noteVars, procVars, fileVars
<1>0. Attempt(c) \in 1 .. MaxRapid + 1
    BY DEF RapidOK
<1>1. TypeOK'
    <2>1. rapid' \in [Profiles -> 0 .. MaxRapid + 1]
        <3> HIDE DEF Attempt
        <3>1. rapid' = [rapid EXCEPT ![c] = Attempt(c)]
            OBVIOUS
        <3>2. Attempt(c) \in 0 .. MaxRapid + 1 /\ rapid \in [Profiles -> 0 .. MaxRapid + 1]
            BY <1>0
        <3> HIDE DEF IInv, TypeOK, ReapChild
        <3> QED
            BY <3>1, <3>2
    <2>2. /\ proc' \in [Children -> {"none", "forked", "running", "exited"}]
          /\ status' \in [Profiles -> {"none", "72", "137", "other"}]
        OBVIOUS
    <2>3. cur' \in Profiles \cup {None} /\ restarting' \in BOOLEAN /\ pc' \in {pc, "launch"}
        OBVIOUS
    <2> QED
        BY <2>1, <2>2, <2>3
<1>2. PidsOK'
    BY DEF PidsOK
<1>3. RapidOK'
    <2>1. ASSUME NEW d \in Profiles \ {c}, d \in todo' \cup registered' \cup {cur'}
          PROVE  rapid'[d] <= MaxRapid
        BY <2>1 DEF RapidOK
    <2>2. c \in todo' \cup registered' \cup {cur'} => rapid'[c] <= MaxRapid
        <3> HIDE DEF Attempt
        <3>1. rapid'[c] = Attempt(c)
            OBVIOUS
        <3>2. CASE Attempt(c) <= MaxRapid
            BY <3>1, <3>2
        <3>3. CASE Attempt(c) > MaxRapid
            BY <3>3 DEF RapidOK
        <3> QED
            BY <1>0, <3>2, <3>3
    <2>3. pc' = "monitor" => todo' = {} /\ cur' = None
        BY DEF RapidOK
    <2>4. todo' = {}
        BY DEF RapidOK
    <2> QED
        BY <2>1, <2>2, <2>3, <2>4 DEF RapidOK
<1>4. EndOK'
    BY DEF EndOK, Waits, Settled, Alive
<1>5. SignalOK'
    BY DEF EndOK, SignalOK, Waits, Alive
<1>6. LostOK'
    BY DEF LostOK, Halfway, Alive
<1> QED
    BY <1>1, <1>2, <1>3, <1>4, <1>5, <1>6

\* The script exits.
LEMMA ExitStep ==
    ASSUME IInv, NoProfilesRemain \/ Signalled PROVE IInv'
<1> USE ProfileAssumption, RapidAssumption, CallsAssumption
    DEF IInv, TypeOK, Children, Cleanup, NoProfilesRemain, Signalled, Exit, Goto, supVars, noteVars, procVars, fileVars
<1>1. TypeOK'
    BY DEF RapidOK, Modes, Halfway
<1>2. PidsOK'
    BY DEF PidsOK
<1>3. RapidOK'
    BY DEF RapidOK
<1>4. EndOK'
    BY DEF EndOK, Waits, Settled, Alive
<1>5. SignalOK'
    BY DEF EndOK, SignalOK, Waits, Alive
<1>6. LostOK'
    BY DEF LostOK, Halfway, Alive
<1> QED
    BY <1>1, <1>2, <1>3, <1>4, <1>5, <1>6

\* The first signals.
LEMMA CleanupStopStep ==
    ASSUME IInv, CleanupStop PROVE IInv'
<1> USE ProfileAssumption, RapidAssumption, CallsAssumption
    DEF IInv, TypeOK, Children, Cleanup, CleanupStop, Goto, supVars, noteVars, procVars, fileVars
<1>0. /\ \A c \in Profiles : StopSignal(c) \in {"TERM", "KILL"}
      /\ \A c \in Profiles : StopStatus(c) \in {"72", "137"}
    BY DEF Modes, StopSignal, StopStatus
<1>1. TypeOK'
    BY <1>0
<1>2. PidsOK'
    BY DEF PidsOK
<1>3. RapidOK'
    BY DEF RapidOK
<1>4. EndOK'
    BY DEF EndOK, Waits, Settled, Alive
<1>5. SignalOK'
    <2>1. sidecars' = {}
        BY DEF SignalOK, Waits
    <2>2. ASSUME NEW c \in Profiles, expected'[c] # "none" PROVE sig'[c] # "none"
        <3>1. StopSignal(c) # "none"
            BY <1>0
        <3>2. c \in Children
            OBVIOUS
        <3> QED
            BY <2>2, <3>1, <3>2 DEF SignalOK
    <2> QED
        BY <2>1, <2>2 DEF SignalOK
<1>6. LostOK'
    BY DEF LostOK, Halfway, Alive
<1> QED
    BY <1>1, <1>2, <1>3, <1>4, <1>5, <1>6

\* Further signals.
LEMMA CleanupSignalsStep ==
    ASSUME IInv, CleanupTerm \/ CleanupKill \/ CleanupBackend PROVE IInv'
<1> USE ProfileAssumption, RapidAssumption, CallsAssumption
    DEF IInv, TypeOK, Children, Cleanup, CleanupTerm, CleanupKill, CleanupBackend, SignalGroups, Goto, supVars, noteVars, procVars, fileVars
<1>1. TypeOK'
    BY DEF RapidOK, Modes
<1>2. PidsOK'
    BY DEF PidsOK
<1>3. RapidOK'
    <2>1. /\ todo' \in {todo, {}} /\ registered' \cap Profiles \subseteq registered
          /\ cur' = cur /\ rapid' = rapid /\ restarting' = restarting
          /\ pc' # "monitor"
        OBVIOUS
    <2> HIDE DEF IInv, TypeOK
    <2>2. RapidOK
        BY DEF IInv
    <2> QED
        BY <2>1, <2>2 DEF RapidOK
<1>4. EndOK'
    BY DEF EndOK, Waits, Settled, Alive
<1>5. SignalOK'
    <2>1. \A x \in Children : sig'[x] \in {sig[x], "TERM", "KILL"}
        OBVIOUS
    <2>2. UNCHANGED <<proc, status, expected, sidecars>> /\ (pc \in Waits => pc' \in Waits)
        BY DEF Waits
    <2>3. SignalOK /\ sidecars \subseteq Profiles
        OBVIOUS
    <2> HIDE DEF IInv, TypeOK, CleanupTerm, CleanupKill, CleanupBackend, SignalGroups
    <2> QED
        BY <2>1, <2>2, <2>3 DEF SignalOK, Alive
<1>6. LostOK'
    BY DEF LostOK, Halfway, Alive
<1> QED
    BY <1>1, <1>2, <1>3, <1>4, <1>5, <1>6

\* The children have ended.
LEMMA CleanupWaitStep ==
    ASSUME IInv, CleanupWait PROVE IInv'
<1> USE ProfileAssumption, RapidAssumption, CallsAssumption
    DEF IInv, TypeOK, Children, Cleanup, CleanupWait, Waited, Goto, supVars, noteVars, procVars, fileVars
<1>1. TypeOK'
    BY DEF RapidOK, Modes
<1>2. PidsOK'
    BY DEF PidsOK
<1>3. RapidOK'
    BY DEF RapidOK
<1>4. EndOK'
    BY DEF EndOK, Waits, Settled, Alive
<1>5. SignalOK'
    BY DEF EndOK, SignalOK, Waits, Alive
<1>6. LostOK'
    BY DEF LostOK, Halfway, Alive
<1> QED
    BY <1>1, <1>2, <1>3, <1>4, <1>5, <1>6

\* The fixture has ended.
LEMMA CleanupBackendWaitStep ==
    ASSUME IInv, CleanupBackendWait PROVE IInv'
<1> USE ProfileAssumption, RapidAssumption, CallsAssumption
    DEF IInv, TypeOK, Children, Cleanup, CleanupBackendWait, Goto, supVars, noteVars, procVars, fileVars
<1>1. TypeOK'
    BY DEF RapidOK, Modes
<1>2. PidsOK'
    BY DEF PidsOK
<1>3. RapidOK'
    BY DEF RapidOK
<1>4. EndOK'
    BY DEF EndOK, Waits, Settled, Alive
<1>5. SignalOK'
    BY DEF EndOK, SignalOK, Waits, Alive
<1>6. LostOK'
    BY DEF LostOK, Halfway, Alive
<1> QED
    BY <1>1, <1>2, <1>3, <1>4, <1>5, <1>6

\* The files are removed.
LEMMA CleanupFinishStep ==
    ASSUME IInv, CleanupFinish PROVE IInv'
<1> USE ProfileAssumption, RapidAssumption, CallsAssumption
    DEF IInv, TypeOK, Children, Cleanup, CleanupFinish, Goto, supVars, noteVars, procVars, fileVars
<1>1. TypeOK'
    BY DEF RapidOK, Modes
<1>2. PidsOK'
    BY DEF PidsOK
<1>3. RapidOK'
    BY DEF RapidOK
<1>4. EndOK'
    BY DEF EndOK, Waits, Settled, Alive
<1>5. SignalOK'
    BY DEF EndOK, SignalOK, Waits, Alive
<1>6. LostOK'
    BY DEF LostOK, Halfway, Alive
<1> QED
    BY <1>1, <1>2, <1>3, <1>4, <1>5, <1>6

\* A child gets to its exec.
LEMMA ExecStep ==
    ASSUME IInv, NEW x \in Children, Exec(x) PROVE IInv'
<1> USE ProfileAssumption, RapidAssumption, CallsAssumption
    DEF IInv, TypeOK, Children, Cleanup, Exec, supVars, noteVars, procVars, fileVars
<1>1. TypeOK'
    BY DEF RapidOK, Modes
<1>2. PidsOK'
    BY DEF PidsOK
<1>3. RapidOK'
    BY DEF RapidOK
<1>4. EndOK'
    BY DEF EndOK, Waits, Settled, Alive
<1>5. SignalOK'
    BY DEF EndOK, SignalOK, Waits, Alive
<1>6. LostOK'
    BY DEF LostOK, Halfway, Alive
<1> QED
    BY <1>1, <1>2, <1>3, <1>4, <1>5, <1>6

\* A child ends.
LEMMA EndStep ==
    ASSUME IInv, NEW x \in Children, End(x) PROVE IInv'
<1> USE ProfileAssumption, RapidAssumption, CallsAssumption
    DEF IInv, TypeOK, Children, Cleanup, End, supVars, noteVars, procVars, fileVars
<1>1. TypeOK'
    <2>1. proc' = [proc EXCEPT ![x] = "exited"] /\ ready' \in {ready, "removed"}
        OBVIOUS
    <2>2. \/ status' = status
          \/ \E e \in {"72", "137", "other"} :
                x \in Profiles /\ status' = [status EXCEPT ![x] = e]
        OBVIOUS
    <2>3. UNCHANGED <<mode, pc, todo, cur, restarting, registered, noted, lost, rapid,
                      expected, sig, old, pidFiles, sidecars>>
        OBVIOUS
    <2>4. TypeOK
        OBVIOUS
    <2> HIDE DEF IInv, End
    <2>5. proc' \in [Children -> {"none", "forked", "running", "exited"}]
        BY <2>1, <2>4
    <2>6. status' \in [Profiles -> {"none", "72", "137", "other"}]
        BY <2>2, <2>4
    <2> HIDE DEF Children, Cleanup
    <2> QED
        BY <2>1, <2>3, <2>4, <2>5, <2>6
<1>2. PidsOK'
    BY DEF PidsOK
<1>3. RapidOK'
    BY DEF RapidOK
<1>4. EndOK'
    BY DEF EndOK, Waits, Settled, Alive
<1>5. SignalOK'
    BY DEF EndOK, SignalOK, Waits, Alive
<1>6. LostOK'
    BY DEF LostOK, Halfway, Alive
<1> QED
    BY <1>1, <1>2, <1>3, <1>4, <1>5, <1>6

\* The fixture is ready.
LEMMA BecomeReadyStep ==
    ASSUME IInv, BecomeReady PROVE IInv'
<1> USE ProfileAssumption, RapidAssumption, CallsAssumption
    DEF IInv, TypeOK, Children, Cleanup, BecomeReady, Goto, supVars, noteVars, procVars, fileVars
<1>1. TypeOK'
    BY DEF RapidOK, Modes
<1>2. PidsOK'
    BY DEF PidsOK
<1>3. RapidOK'
    BY DEF RapidOK
<1>4. EndOK'
    BY DEF EndOK, LostOK, Halfway, Waits, Settled, Alive
<1>5. SignalOK'
    BY DEF EndOK, SignalOK, Waits, Alive
<1>6. LostOK'
    BY DEF LostOK, Halfway, Alive
<1> QED
    BY <1>1, <1>2, <1>3, <1>4, <1>5, <1>6

\* A lighttpd has run for a minute.
LEMMA GrowOldStep ==
    ASSUME IInv, NEW c \in Profiles, GrowOld(c) PROVE IInv'
<1> USE ProfileAssumption, RapidAssumption, CallsAssumption
    DEF IInv, TypeOK, Children, Cleanup, GrowOld, supVars, noteVars, procVars, fileVars
<1>1. TypeOK'
    BY DEF RapidOK, Modes
<1>2. PidsOK'
    BY DEF PidsOK
<1>3. RapidOK'
    BY DEF RapidOK
<1>4. EndOK'
    BY DEF EndOK, Waits, Settled, Alive
<1>5. SignalOK'
    BY DEF EndOK, SignalOK, Waits, Alive
<1>6. LostOK'
    BY DEF LostOK, Halfway, Alive
<1> QED
    BY <1>1, <1>2, <1>3, <1>4, <1>5, <1>6

LEMMA InvStep == IInv /\ [Next]_vars => IInv'
<1> SUFFICES ASSUME IInv, [Next]_vars PROVE IInv'
    OBVIOUS
<1>1. CASE UNCHANGED vars
    BY <1>1 DEF vars, supVars, noteVars, procVars, fileVars, IInv, TypeOK, PidsOK, RapidOK, EndOK,
                LostOK, SignalOK, Alive, Halfway
<1>2. CASE Starting
    BY <1>2, StartHelperStep, AwaitStep, NextProfileStep, LaunchStep, RecordStep,
       RegisterStep, NoteStep, LaunchFailsStep DEF Starting
<1>3. CASE Monitoring \/ Signalled
    BY <1>3, DiedStep, ExitStep, ReapChildStep DEF Monitoring
<1>4. CASE Cleaning
    BY <1>4, CleanupStopStep, CleanupSignalsStep, CleanupWaitStep, CleanupBackendWaitStep,
       CleanupFinishStep DEF Cleaning
<1>5. CASE ProcNext
    BY <1>5, ExecStep, EndStep, BecomeReadyStep, GrowOldStep DEF ProcNext
<1> QED
    BY <1>1, <1>2, <1>3, <1>4, <1>5 DEF Next

-----------------------------------------------------------------------------
(* The theorems *)

\* The invariant holds in every state of the campaign.
THEOREM Invariant == Spec => []IInv
BY InvInit, InvStep, PTL DEF Spec

\* Every variable of the supervisor keeps its type, and no profile is tried more
\* often than MaxRapid allows.
THEOREM TypeCorrect == Spec => []TypeOK
<1>1. IInv => TypeOK
    BY DEF IInv
<1> QED
    BY Invariant, <1>1, PTL

\* When the script has exited nothing is alive and no file is left, whatever
\* interrupted it and when, except for what belongs to a child that a signal
\* kept out of the tables between its fork and its registration (run.sh,
\* cleanup).
THEOREM ExitIsClean == Spec => []CleanExit
<1>1. IInv => CleanExit
    BY DEF IInv, TypeOK, Children, EndOK, LostOK, Halfway, Settled, CleanExit
<1> QED
    BY Invariant, <1>1, PTL

\* While the campaign is monitored the pid files are those of the supervised
\* profiles (run.sh, the monitor loop and run_fuzzer).
THEOREM PidFilesTrue == Spec => []PidFilesMatch
<1>1. IInv => PidFilesMatch
    BY DEF IInv, PidsOK, PidFilesMatch
<1> QED
    BY Invariant, <1>1, PTL

\* Only the report of a process that the supervisor signalled is marked as the
\* supervisor's doing (run.sh, the sidecar of cleanup).
THEOREM SidecarsTrue == Spec => []SidecarMeansSignalled
<1>1. IInv => SidecarMeansSignalled
    BY DEF IInv, SignalOK, SidecarMeansSignalled
<1> QED
    BY Invariant, <1>1, PTL

-----------------------------------------------------------------------------
(***************************************************************************)
(* run.sh --stop, from here to the end, for any number of commands and        *)
(* campaigns.  The inductive invariant says how far each command has come     *)
(* with each campaign that was running when it started.                       *)
(***************************************************************************)

\* What command t knows of the campaign s at each place of stop_campaigns.
Progress(t, s) ==
    /\ place[t] = "glob" => Up(s) \/ state[s] = "gone"
    /\ place[t] = "scan" => s \in left[t] \cup found[t] \/ state[s] = "gone"
    /\ place[t] = "signal" =>
          \/ state[s] = "gone"
          \/ s \in found[t] /\ s \in left[t] \cup term
    /\ place[t] = "wait" => state[s] = "gone" \/ s \in found[t] \cap term
    /\ place[t] = "failed" => state[s] = "gone" \/ s \in term
    /\ place[t] = "stopped" => state[s] = "gone"

\* A campaign that was running has started, and what a command did with it, if
\* its command line gives it away, is what its place says.
StopIInv ==
    /\ StopTypeOK
    /\ \A t \in Stops : \A s \in before[t] \cap named :
          state[s] # "none" /\ Progress(t, s)

-----------------------------------------------------------------------------
(* Type correctness *)

LEMMA StopTypeInit == StopInit => StopTypeOK
BY PidsAssumption DEF StopInit, StopTypeOK, Procs, Up

\* Every step leads from well-typed states to well-typed states.
LEMMA StopTypeStep == StopTypeOK /\ [StopNext]_stopVars => StopTypeOK'
<1> USE PidsAssumption DEF StopTypeOK, Procs, Up, MoveTo
<1> SUFFICES ASSUME StopTypeOK, [StopNext]_stopVars PROVE StopTypeOK'
    OBVIOUS
<1>1. CASE UNCHANGED stopVars
    BY <1>1 DEF stopVars
<1>2. ASSUME NEW t \in Stops, Command(t) PROVE StopTypeOK'
    BY <1>2 DEF Command
<1>3. ASSUME NEW t \in Stops, Glob(t) PROVE StopTypeOK'
    BY <1>3 DEF Glob
<1>4. ASSUME NEW t \in Stops, Scan(t) PROVE StopTypeOK'
    BY <1>4 DEF Scan
<1>5. ASSUME NEW t \in Stops, Signal(t) PROVE StopTypeOK'
    BY <1>5 DEF Signal
<1>6. ASSUME NEW t \in Stops, Wait(t) PROVE StopTypeOK'
    BY <1>6 DEF Wait
<1>7. ASSUME NEW t \in Stops, Dies(t) PROVE StopTypeOK'
    BY <1>7 DEF Dies
<1>8. ASSUME NEW s \in Campaigns, StartCampaign(s) \/ CleanUp(s) \/ EndCampaign(s)
      PROVE StopTypeOK'
    BY <1>8 DEF StartCampaign, CleanUp, EndCampaign
<1> QED
    BY <1>1, <1>2, <1>3, <1>4, <1>5, <1>6, <1>7, <1>8 DEF StopNext, StopStep

-----------------------------------------------------------------------------
(* Progress *)

\* A campaign that has started goes on or is gone for good, and keeps its
\* signal: only a --stop ever acts on one by leaving.
LEMMA CampaignsMoveOn ==
    ASSUME StopTypeOK, [StopNext]_stopVars, NEW s \in Campaigns
    PROVE  /\ state[s] # "none" => state'[s] # "none"
           /\ state[s] = "gone" => state'[s] = "gone"
           /\ s \in term => s \in term'
<1> USE PidsAssumption DEF StopTypeOK, Procs, Up
<1>1. CASE UNCHANGED stopVars
    BY <1>1 DEF stopVars
<1>2. ASSUME NEW t \in Stops, Command(t) \/ StopStep(t)
      PROVE  state'[s] = state[s] /\ (s \in term => s \in term')
    <2>1. s # t
        OBVIOUS
    <2> QED
        BY <1>2, <2>1 DEF Command, StopStep, Glob, Scan, Signal, Wait, Dies
<1>3. ASSUME NEW c \in Campaigns, StartCampaign(c) \/ CleanUp(c) \/ EndCampaign(c)
      PROVE  /\ state[s] # "none" => state'[s] # "none"
             /\ state[s] = "gone" => state'[s] = "gone"
             /\ term' = term
    BY <1>3 DEF StartCampaign, CleanUp, EndCampaign
<1> QED
    BY <1>1, <1>2, <1>3 DEF StopNext

\* A command that does not move keeps its progress.
LEMMA StillProgress ==
    ASSUME StopTypeOK, [StopNext]_stopVars, NEW t \in Stops, NEW s \in Campaigns,
           Progress(t, s), state[s] # "none",
           place'[t] = place[t], left'[t] = left[t], found'[t] = found[t]
    PROVE  Progress(t, s)'
<1>1. /\ state[s] # "none" => state'[s] # "none"
      /\ state[s] = "gone" => state'[s] = "gone"
      /\ s \in term => s \in term'
    BY CampaignsMoveOn
<1>2. state'[s] \in {"none", "running", "cleanup", "gone"}
    BY StopTypeStep, PidsAssumption DEF StopTypeOK, Procs
<1> QED
    BY <1>1, <1>2 DEF Progress, Up

\* The command that moves makes the progress its next place asks for, with a
\* campaign whose command line gives it away.
LEMMA MovesProgress ==
    ASSUME StopTypeOK, NEW t \in Stops, NEW s \in before[t] \cap named,
           s \in Campaigns, Progress(t, s), state[s] # "none", StopStep(t)
    PROVE  Progress(t, s)'
<1> USE PidsAssumption DEF StopTypeOK, Procs, Up, MoveTo, Progress
<1>1. s # t /\ s \in Procs /\ state[s] \in {"running", "cleanup", "gone"}
    OBVIOUS
<1>2. CASE Glob(t)
    BY <1>1, <1>2 DEF Glob
<1>3. CASE Scan(t)
    BY <1>1, <1>3 DEF Scan
<1>4. CASE Signal(t)
    BY <1>1, <1>4 DEF Signal
<1>5. CASE Wait(t)
    BY <1>1, <1>5 DEF Wait
<1>6. CASE Dies(t)
    BY <1>1, <1>6 DEF Dies
<1> QED
    BY <1>2, <1>3, <1>4, <1>5, <1>6 DEF StopStep

\* A step changes the place of one command at most, and no command that is at
\* work looks again at what was running before it.
LEMMA OthersStay ==
    ASSUME StopTypeOK, [StopNext]_stopVars, NEW t \in Stops
    PROVE  \/ place'[t] = place[t] /\ left'[t] = left[t] /\ found'[t] = found[t]
              /\ before'[t] = before[t]
           \/ StopStep(t) /\ before'[t] = before[t]
           \/ Command(t)
<1> USE DEF StopTypeOK, MoveTo
<1>1. CASE UNCHANGED stopVars
    BY <1>1 DEF stopVars
<1>2. ASSUME NEW u \in Stops, u # t, Command(u) \/ StopStep(u)
      PROVE  place'[t] = place[t] /\ left'[t] = left[t] /\ found'[t] = found[t]
             /\ before'[t] = before[t]
    BY <1>2 DEF Command, StopStep, Glob, Scan, Signal, Wait, Dies
<1>3. CASE StopStep(t)
    BY <1>3 DEF StopStep, Glob, Scan, Signal, Wait, Dies
<1>4. ASSUME NEW c \in Campaigns, StartCampaign(c) \/ CleanUp(c) \/ EndCampaign(c)
      PROVE  place' = place /\ left' = left /\ found' = found /\ before' = before
    BY <1>4 DEF StartCampaign, CleanUp, EndCampaign
<1> QED
    BY <1>1, <1>2, <1>3, <1>4 DEF StopNext

\* What a process looks like is fixed when it is started.
LEMMA NamesStay == [StopNext]_stopVars => named' = named
BY DEF StopNext, StopStep, stopVars, Command, Glob, Scan, Signal, Wait, Dies,
       StartCampaign, CleanUp, EndCampaign

LEMMA StopInvStep == StopIInv /\ [StopNext]_stopVars => StopIInv'
<1> SUFFICES ASSUME StopIInv, [StopNext]_stopVars PROVE StopIInv'
    OBVIOUS
<1>1. StopTypeOK /\ StopTypeOK'
    BY StopTypeStep DEF StopIInv
<1>2. ASSUME NEW t \in Stops, NEW s \in before'[t] \cap named
      PROVE  state'[s] # "none" /\ Progress(t, s)'
    <2>1. s \in Campaigns
        BY <1>1 DEF StopTypeOK
    <2>2. CASE Command(t)
        <3>1. Up(s) /\ state'[s] = state[s] /\ place'[t] = "glob"
            BY <1>1, <2>1, <2>2, PidsAssumption DEF Command, StopTypeOK, MoveTo, Procs
        <3> QED
            BY <3>1 DEF Progress, Up
    <2>3. ASSUME before'[t] = before[t]
          PROVE  state[s] # "none" /\ Progress(t, s) /\ state'[s] # "none"
        BY <1>1, <2>1, <2>3, CampaignsMoveOn DEF StopIInv
    <2>4. CASE StopStep(t) /\ before'[t] = before[t]
        BY <1>1, <2>1, <2>3, <2>4, MovesProgress
    <2>5. CASE /\ place'[t] = place[t] /\ left'[t] = left[t] /\ found'[t] = found[t]
               /\ before'[t] = before[t]
        BY <1>1, <2>1, <2>3, <2>5, StillProgress
    <2> QED
        BY <1>1, <2>2, <2>4, <2>5, OthersStay
<1> QED
    BY <1>1, <1>2, NamesStay DEF StopIInv

-----------------------------------------------------------------------------
(* Theorems *)

\* The inductive invariant holds for any number of commands and campaigns.
THEOREM StopInvariant == StopSpec => []StopIInv
<1>1. StopInit => StopIInv
    BY StopTypeInit DEF StopIInv, StopInit
<1> QED
    BY <1>1, StopInvStep, PTL DEF StopSpec

\* Every variable keeps its type; a command is up exactly while it is at work.
THEOREM StopTypeCorrect == StopSpec => []StopTypeOK
<1>1. StopIInv => StopTypeOK
    BY DEF StopIInv
<1> QED
    BY <1>1, StopInvariant, PTL

\* stop_campaigns never says that the campaigns are stopped while one that was
\* running when the command started, and whose command line
\* is_campaign_supervisor recognises, is not gone.
THEOREM ReportsAreTrue == StopSpec => []ReportIsTrue
<1>1. StopIInv => ReportIsTrue
    BY DEF StopIInv, Progress, ReportIsTrue
<1> QED
    BY <1>1, StopInvariant, PTL

\* stop_campaigns that gives up waiting has signalled every campaign that was
\* running when it started, is recognised by its command line, and is not gone.
THEOREM NoCampaignMissed == StopSpec => []NoneMissed
<1>1. StopIInv => NoneMissed
    BY DEF StopIInv, Progress, NoneMissed
<1> QED
    BY <1>1, StopInvariant, PTL

=============================================================================
