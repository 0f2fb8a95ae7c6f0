------------------------- MODULE ProfileLocksProofs -------------------------
(***************************************************************************)
(* Proofs about ProfileLocks, for any number of profiles, supervisors,      *)
(* builds and processes.  The inductive invariant IInv is proved step by    *)
(* step, one lemma per action with one step per conjunct; the theorems at   *)
(* the end are its consequences.                                            *)
(***************************************************************************)
EXTENDS ProfileLocks, TLAPS

\* A step leads from well-typed states to well-typed states; it needs to know
\* which profile a call of run_fuzzer and a build are about.
LEMMA TypeStep == TypeOK /\ CallState /\ Scanned /\ [Next]_vars => TypeOK'
<1> USE ActorsAssumption
<1> SUFFICES ASSUME TypeOK, CallState, Scanned, [Next]_vars PROVE TypeOK'
    OBVIOUS
<1>1. CASE UNCHANGED vars
    BY <1>1 DEF TypeOK, vars, procs, runVars, bldVars
<1>2. ASSUME NEW s \in Supervisors, RunNext(s) PROVE TypeOK'
    <2>1. ASSUME NEW selected \in Selections, Start(s, selected) PROVE TypeOK'
        <3>1. selected \in SUBSET Configs
            BY SelectionsAssumption
        <3> QED
            BY <2>1, <3>1 DEF TypeOK, Start, CallFor, At, Goto, RunPCs,
                procs, bldVars
    <2>2. CASE CheckStaged(s)
        BY <2>2 DEF TypeOK, CheckStaged, At, Goto, RunPCs, procs, bldVars
    <2>3. CASE AcquireLock(s)
        BY <2>3 DEF TypeOK, AcquireLock, Actors, At, Goto, RunPCs, procs,
            bldVars
    <2>4. CASE StopPrevious(s)
        BY <2>4 DEF TypeOK, StopPrevious, At, Goto, RunPCs, procs, bldVars
    <2>5. CASE PreviousWaited(s)
        BY <2>5 DEF TypeOK, PreviousWaited, At, Goto, RunPCs, procs, bldVars
    <2>6. CASE ArchiveFails(s)
        BY <2>6 DEF TypeOK, ArchiveFails, At, Goto, RunPCs, procs, bldVars
    <2>7. ASSUME NEW p \in Pids, Fork(s, p) PROVE TypeOK'
        BY <2>7 DEF TypeOK, Fork, WithInherited, Actors, At, Goto, RunPCs,
            procs, bldVars
    <2>8. CASE RecordPid(s)
        BY <2>8 DEF TypeOK, RecordPid, At, Goto, RunPCs, procs, bldVars
    <2>9. CASE Register(s)
        <3>1. <<fresh[s], cur[s]>> \in Pids \X Configs
            BY <2>9 DEF TypeOK, CallState, Register, At, Calling
        <3>2. children' \in [Supervisors -> SUBSET (Pids \X Configs)]
            BY <2>9, <3>1 DEF TypeOK, Register
        <3>3. runpc' \in [Supervisors -> RunPCs]
            BY <2>9 DEF TypeOK, Register, Goto, RunPCs
        <3>4. todo' \in [Supervisors -> SUBSET Configs]
            BY <2>9 DEF TypeOK, Register, CallFor
        <3>5. cur' \in [Supervisors -> Configs \cup {None}]
            BY <2>9 DEF TypeOK, Register, CallFor, NoCall
        <3>6. /\ restarting' \in [Supervisors -> BOOLEAN]
              /\ fresh' \in [Supervisors -> Pids \cup {None}]
            BY <2>9 DEF TypeOK, Register, NoCall
        <3>7. UNCHANGED <<holders, pidFile, procs, bldVars>>
            BY <2>9 DEF Register
        <3> QED
            BY <3>2, <3>3, <3>4, <3>5, <3>6, <3>7 DEF TypeOK, procs, bldVars
    <2>10. CASE LaunchFailed(s)
        <3>1. holders' \in [Configs -> SUBSET Actors]
            BY <2>10 DEF TypeOK, LaunchFailed, Unlocked, Exit
        <3>2. \/ runpc' = [runpc EXCEPT ![s] = "cleanup"]
              \/ runpc' = [runpc EXCEPT ![s] = "monitor"]
            BY <2>10 DEF LaunchFailed, Exit, Goto
        <3>3. runpc' \in [Supervisors -> RunPCs]
            BY <3>2 DEF TypeOK, RunPCs
        <3>4. todo' = [todo EXCEPT ![s] = {}] \/ todo' = todo
            BY <2>10 DEF LaunchFailed, Exit
        <3>5. todo' \in [Supervisors -> SUBSET Configs]
            BY <3>4 DEF TypeOK
        <3>6. NoCall(s) /\ UNCHANGED <<pidFile, procs, children, bldVars>>
            BY <2>10 DEF LaunchFailed, Exit
        <3>7. /\ cur' \in [Supervisors -> Configs \cup {None}]
              /\ restarting' \in [Supervisors -> BOOLEAN]
              /\ fresh' \in [Supervisors -> Pids \cup {None}]
            BY <3>6 DEF TypeOK, NoCall
        <3> QED
            BY <3>1, <3>3, <3>5, <3>6, <3>7 DEF TypeOK, procs, bldVars
    <2>11. ASSUME NEW p \in Pids, NEW c \in Configs, ReapChild(s, p, c) PROVE TypeOK'
        <3>1. children' \in [Supervisors -> SUBSET (Pids \X Configs)]
            BY <2>11 DEF TypeOK, ReapChild
        <3>2. pidFile' \in [Configs -> Pids \cup {None}]
            BY <2>11 DEF TypeOK, ReapChild, WithoutPidFile
        <3>3. holders' \in [Configs -> SUBSET Actors]
            BY <2>11 DEF TypeOK, ReapChild, Unlocked
        <3>4. \/ runpc' = [runpc EXCEPT ![s] = "stage"]
              \/ runpc' = runpc
            BY <2>11 DEF ReapChild, Goto
        <3>5. runpc' \in [Supervisors -> RunPCs]
            BY <3>4 DEF TypeOK, RunPCs
        <3>6. cur' = [cur EXCEPT ![s] = c] \/ cur' = cur
            BY <2>11 DEF ReapChild
        <3>7. cur' \in [Supervisors -> Configs \cup {None}]
            BY <3>6 DEF TypeOK
        <3>8. restarting' = [restarting EXCEPT ![s] = TRUE] \/ restarting' = restarting
            BY <2>11 DEF ReapChild
        <3>9. restarting' \in [Supervisors -> BOOLEAN]
            BY <3>8 DEF TypeOK
        <3>10. UNCHANGED <<procs, todo, fresh, bldVars>>
            BY <2>11 DEF ReapChild
        <3> QED
            BY <3>1, <3>2, <3>3, <3>5, <3>7, <3>9, <3>10 DEF TypeOK, procs, bldVars
    <2>12. CASE NoProfilesRemain(s)
        BY <2>12 DEF TypeOK, NoProfilesRemain, Exit, NoCall, At, Goto,
            RunPCs, procs, bldVars
    <2>13. CASE Terminate(s)
        BY <2>13 DEF TypeOK, Terminate, Exit, NoCall, At, Goto, RunPCs,
            procs, bldVars
    <2>14. CASE CleanupExit(s)
        BY <2>14 DEF TypeOK, CleanupExit, Ended, WithoutHolder, NoCall, At,
            Goto, RunPCs, procs, bldVars
    <2>15. CASE Crash(s)
        BY <2>15 DEF TypeOK, Crash, Ended, WithoutHolder, NoCall, At, Goto,
            RunPCs, procs, bldVars
    <2> QED
        BY <1>2, <2>1, <2>2, <2>3, <2>4, <2>5, <2>6, <2>7, <2>8, <2>9, <2>10, <2>11,
           <2>12, <2>13, <2>14, <2>15 DEF RunNext
<1>3. ASSUME NEW p \in Pids, ProcNext(p) PROVE TypeOK'
    BY <1>3 DEF TypeOK, ProcNext, Exec, Listen, ProcessExit, WithoutHolder,
        runVars, bldVars
<1>4. ASSUME NEW c \in Configs, LosePidFile(c) PROVE TypeOK'
    BY <1>4 DEF TypeOK, LosePidFile, procs, runVars, bldVars
<1>5. ASSUME NEW b \in Builds, BuildNext(b) PROVE TypeOK'
    <2>1. ASSUME NEW c \in Configs, BuildStart(b, c) PROVE TypeOK'
        BY <2>1 DEF TypeOK, BuildStart, BuildGoto, BuildPCs, procs, runVars
    <2>2. CASE BuildJudge(b)
        BY <2>2 DEF TypeOK, BuildJudge, JudgePidFile, BuildStop, BuildGoto,
            BuildPCs, procs, runVars
    <2>3. CASE BuildScan(b)
        <3>1. CASE \E p \in Pids : RunsBinary(p, bcfg[b])
            BY <2>3, <3>1 DEF TypeOK, BuildScan, BuildStop, BuildGoto,
                BuildPCs, procs, runVars
        <3>2. CASE \A p \in Pids : ~RunsBinary(p, bcfg[b])
            <4>1. bpid' \in [Builds -> Pids \cup {None}]
                BY <2>3, <3>2 DEF TypeOK, BuildScan, BuildStop, Scanned
            <4> QED
                BY <2>3, <3>2, <4>1 DEF TypeOK, BuildScan, BuildStop,
                    BuildGoto, BuildPCs, procs, runVars
        <3> QED
            BY <3>1, <3>2
    <2>4. CASE BuildLock(b)
        BY <2>4 DEF TypeOK, BuildLock, BuildStop, BuildGoto, BuildPCs,
            Actors, procs, runVars
    <2>5. CASE BuildEnd(b)
        BY <2>5 DEF TypeOK, BuildEnd, BuildStop, BuildGoto, BuildPCs,
            WithoutHolder, procs, runVars
    <2> QED
        BY <1>5, <2>1, <2>2, <2>3, <2>4, <2>5 DEF BuildNext
<1> QED
    BY <1>1, <1>2, <1>3, <1>4, <1>5 DEF Next

\* So is every initial state.
LEMMA InitType == Init => TypeOK
BY DEF Init, TypeOK, RunPCs, BuildPCs, Actors

-----------------------------------------------------------------------------
(* The inductive invariant: one lemma per action *)

\* The check of the staged tree only moves the supervisor on.
LEMMA CheckStagedStep ==
    ASSUME IInv, TypeOK', NEW s \in Supervisors, CheckStaged(s)
    PROVE  IInv'
<1> USE ActorsAssumption DEF IInv
<1>1. LockTable'
    BY DEF TypeOK, LockTable, Owning, Live, Actors, Scanned, CheckStaged,
           At, Goto, procs, bldVars
<1>2. ChildTable'
    BY DEF TypeOK, ChildTable, CheckStaged, At, Goto, procs, bldVars
<1>3. CallState'
    BY DEF TypeOK, CallState, Calling, Live, CheckStaged, At, Goto, procs,
           bldVars
<1>4. Family'
    BY DEF TypeOK, Family, Owning, Live, Actors, CheckStaged, At, Goto,
           procs, bldVars
<1>5. Scanned'
    BY DEF Scanned, Live, CheckStaged, Goto, procs, bldVars
<1>6. OneSupervised'
    BY DEF OneSupervised, Supervised, Live, Family, LockTable, CallState,
           ChildTable, Owning, CheckStaged, At, Goto, procs, bldVars
<1>7. LiveHoldsLock'
    BY DEF LiveHoldsLock, Supervised, Live, CallState, ChildTable, Calling,
           LockTable, Scanned, CheckStaged, At, Goto, procs, bldVars
<1> QED
    BY <1>1, <1>2, <1>3, <1>4, <1>5, <1>6, <1>7

\* A supervisor that starts has no children yet, and no lock.
LEMMA StartStep ==
    ASSUME IInv, TypeOK', NEW s \in Supervisors, NEW selected \in Selections, Start(s, selected)
    PROVE  IInv'
<1> USE ActorsAssumption, SelectionsAssumption DEF IInv
<1>1. LockTable'
    BY DEF LockTable, Owning, Live, Actors, Scanned, Start, CallFor, At,
           Goto, procs, bldVars
<1>2. ChildTable'
    BY DEF TypeOK, ChildTable, Start, CallFor, At, Goto, procs, bldVars
<1>3. CallState'
    BY DEF TypeOK, CallState, Calling, Live, Start, CallFor, At, Goto,
           procs, bldVars
<1>4. Family'
    BY DEF Family, Owning, Live, Actors, Start, CallFor, At, Goto, procs,
           bldVars
<1>5. Scanned'
    BY DEF Scanned, Live, Start, At, Goto, procs, bldVars
<1>6. OneSupervised'
    BY DEF OneSupervised, Supervised, Live, Family, LockTable, CallState,
           ChildTable, Owning, Start, CallFor, At, Goto, procs, bldVars
<1>7. LiveHoldsLock'
    BY DEF LiveHoldsLock, Supervised, Live, CallState, ChildTable, Calling,
           LockTable, Scanned, Start, CallFor, At, Goto, procs, bldVars
<1> QED
    BY <1>1, <1>2, <1>3, <1>4, <1>5, <1>6, <1>7

\* The lock of a profile is taken only when nobody holds it.
LEMMA AcquireLockStep ==
    ASSUME IInv, TypeOK', NEW s \in Supervisors, AcquireLock(s)
    PROVE  IInv'
<1> USE ActorsAssumption DEF IInv
<1>1. LockTable'
  <2>1. cur[s] \in Configs /\ UNCHANGED <<procs, bldVars, cur>>
    BY DEF TypeOK, CallState, Calling, AcquireLock, At
  <2>2. CASE UNCHANGED holders
    BY <2>1, <2>2 DEF TypeOK, LockTable, Owning, Live, AcquireLock, At, Goto, procs, bldVars
  <2>3. CASE holders[cur[s]] = {} /\ holders' = [holders EXCEPT ![cur[s]] = {s}]
    BY <2>1, <2>3 DEF TypeOK, LockTable, Owning, Live, Actors, Scanned,
                      AcquireLock, At, Goto, procs, bldVars
  <2> QED
    BY <2>2, <2>3 DEF AcquireLock
<1>2. ChildTable'
    BY DEF TypeOK, ChildTable, AcquireLock, At, Goto, procs, bldVars
<1>3. CallState'
    BY DEF TypeOK, CallState, Calling, Live, AcquireLock, At, Goto, procs,
           bldVars
<1>4. Family'
    BY DEF TypeOK, Family, Owning, Live, Actors, AcquireLock, At, Goto,
           procs, bldVars
<1>5. Scanned'
    BY DEF Scanned, Live, AcquireLock, Goto, procs, bldVars
<1>6. OneSupervised'
    BY DEF OneSupervised, Supervised, Live, Family, LockTable, CallState,
           ChildTable, Owning, AcquireLock, At, Goto, procs, bldVars
<1>7. LiveHoldsLock'
    BY DEF LiveHoldsLock, Supervised, TypeOK, Live, CallState, ChildTable,
           Calling, LockTable, Scanned, AcquireLock, At, Goto, procs, bldVars
<1> QED
    BY <1>1, <1>2, <1>3, <1>4, <1>5, <1>6, <1>7

\* stop_previous changes run.pid and nothing else the invariant speaks of.
LEMMA StopPreviousStep ==
    ASSUME IInv, TypeOK', NEW s \in Supervisors, StopPrevious(s)
    PROVE  IInv'
<1> USE ActorsAssumption DEF IInv
<1>1. LockTable'
    BY DEF TypeOK, LockTable, Owning, Live, Actors, Scanned, StopPrevious,
           At, Goto, procs, bldVars
<1>2. ChildTable'
    BY DEF TypeOK, ChildTable, StopPrevious, At, Goto, procs, bldVars
<1>3. CallState'
    BY DEF TypeOK, CallState, Calling, Live, StopPrevious, At, Goto, procs,
           bldVars
<1>4. Family'
    BY DEF TypeOK, Family, Owning, Live, Actors, StopPrevious, At, Goto,
           procs, bldVars
<1>5. Scanned'
    BY DEF Scanned, Live, StopPrevious, Goto, procs, bldVars
<1>6. OneSupervised'
    BY DEF OneSupervised, Supervised, Live, Family, LockTable, CallState,
           ChildTable, Owning, StopPrevious, At, Goto, procs, bldVars
<1>7. LiveHoldsLock'
    BY DEF LiveHoldsLock, Supervised, Live, CallState, ChildTable, Calling,
           LockTable, Scanned, StopPrevious, At, Goto, procs, bldVars
<1> QED
    BY <1>1, <1>2, <1>3, <1>4, <1>5, <1>6, <1>7

\* The end of the wait only moves the supervisor on.
LEMMA PreviousWaitedStep ==
    ASSUME IInv, TypeOK', NEW s \in Supervisors, PreviousWaited(s)
    PROVE  IInv'
<1> USE ActorsAssumption DEF IInv
<1>1. LockTable'
    BY DEF TypeOK, LockTable, Owning, Live, Actors, Scanned, PreviousWaited,
           At, Goto, procs, bldVars
<1>2. ChildTable'
    BY DEF TypeOK, ChildTable, PreviousWaited, At, Goto, procs, bldVars
<1>3. CallState'
    BY DEF TypeOK, CallState, Calling, Live, PreviousWaited, At, Goto,
           procs, bldVars
<1>4. Family'
    BY DEF TypeOK, Family, Owning, Live, Actors, PreviousWaited, At, Goto,
           procs, bldVars
<1>5. Scanned'
    BY DEF Scanned, Live, PreviousWaited, Goto, procs, bldVars
<1>6. OneSupervised'
    BY DEF OneSupervised, Supervised, Live, Family, LockTable, CallState,
           ChildTable, Owning, PreviousWaited, At, Goto, procs, bldVars
<1>7. LiveHoldsLock'
    BY DEF LiveHoldsLock, Supervised, Live, CallState, ChildTable, Calling,
           LockTable, Scanned, PreviousWaited, At, Goto, procs, bldVars
<1> QED
    BY <1>1, <1>2, <1>3, <1>4, <1>5, <1>6, <1>7

\* A failed archive only moves the supervisor on.
LEMMA ArchiveFailsStep ==
    ASSUME IInv, TypeOK', NEW s \in Supervisors, ArchiveFails(s)
    PROVE  IInv'
<1> USE ActorsAssumption DEF IInv
<1>1. LockTable'
    BY DEF TypeOK, LockTable, Owning, Live, Actors, Scanned, ArchiveFails,
           At, Goto, procs, bldVars
<1>2. ChildTable'
    BY DEF TypeOK, ChildTable, ArchiveFails, At, Goto, procs, bldVars
<1>3. CallState'
    BY DEF TypeOK, CallState, Calling, Live, ArchiveFails, At, Goto, procs,
           bldVars
<1>4. Family'
    BY DEF TypeOK, Family, Owning, Live, Actors, ArchiveFails, At, Goto,
           procs, bldVars
<1>5. Scanned'
    BY DEF Scanned, Live, ArchiveFails, Goto, procs, bldVars
<1>6. OneSupervised'
    BY DEF OneSupervised, Supervised, Live, Family, LockTable, CallState,
           ChildTable, Owning, ArchiveFails, At, Goto, procs, bldVars
<1>7. LiveHoldsLock'
    BY DEF LiveHoldsLock, Supervised, Live, CallState, ChildTable, Calling,
           LockTable, Scanned, ArchiveFails, At, Goto, procs, bldVars
<1> QED
    BY <1>1, <1>2, <1>3, <1>4, <1>5, <1>6, <1>7

\* A fork adds a process to a profile that has none that is supervised: such
\* a process would share the lock with s, and s would know it (Family).
LEMMA ForkStep ==
    ASSUME IInv, TypeOK', NEW s \in Supervisors, NEW p \in Pids, Fork(s, p)
    PROVE  IInv'
<1> USE ActorsAssumption DEF IInv
<1>1. LockTable'
    BY DEF TypeOK, LockTable, CallState, Owning, Calling, Live, Actors,
           Scanned, Fork, WithInherited, At, Goto, bldVars
<1>2. ChildTable'
    BY DEF ChildTable, Fork, WithInherited, At, Goto, bldVars
<1>3. CallState'
    BY DEF TypeOK, CallState, Calling, Live, Fork, WithInherited, At, Goto,
           bldVars
<1>4. Family'
    BY SMTT(30) DEF TypeOK, Family, LockTable, CallState, Owning, Live, Actors, Fork,
           WithInherited, At, Goto, bldVars
<1>5. Scanned'
    BY DEF TypeOK, Scanned, Live, Fork, At, Goto, bldVars
<1>6. OneSupervised'
    <2>1. ASSUME NEW q \in Supervised(cur[s]) PROVE FALSE
        <3>1. cur[s] \in Configs /\ q \in Pids /\ pcfg[q] = cur[s]
            BY <2>1 DEF Fork, At, CallState, Calling, TypeOK, Supervised
        <3>2. {s, q} \subseteq holders[cur[s]]
            BY <3>1 DEF Fork, At, LockTable, Owning, LiveHoldsLock
        <3>3. <<q, cur[s]>> \in children[s] \/ q = fresh[s]
            BY <3>1, <3>2 DEF Fork, At, Family
        <3> QED
            BY <3>1, <3>3 DEF Fork, At, ChildTable, CallState
    <2> QED
        BY <2>1 DEF OneSupervised, Supervised, TypeOK, Live, Fork
<1>7. LiveHoldsLock'
    <2>1. \A c \in Configs : holders[c] \subseteq holders'[c]
        BY DEF Fork, WithInherited
    <2>2. cur[s] \in Configs => p \in holders'[cur[s]]
        BY DEF Fork, WithInherited, At, LockTable, Owning
    <2> QED
        BY <2>1, <2>2 DEF LiveHoldsLock, Supervised, TypeOK, Live, Fork
<1> QED
    BY <1>1, <1>2, <1>3, <1>4, <1>5, <1>6, <1>7

\* The new run.pid is nothing the invariant speaks of.
LEMMA RecordPidStep ==
    ASSUME IInv, TypeOK', NEW s \in Supervisors, RecordPid(s)
    PROVE  IInv'
<1> USE ActorsAssumption DEF IInv
<1>1. LockTable'
    BY DEF LockTable, Owning, Live, Actors, Scanned, RecordPid, At, Goto,
           procs, bldVars
<1>2. ChildTable'
    BY DEF ChildTable, RecordPid, At, Goto, procs, bldVars
<1>3. CallState'
    BY DEF CallState, Calling, Live, RecordPid, At, Goto, procs, bldVars
<1>4. Family'
    BY DEF Family, Owning, Live, Actors, RecordPid, At, Goto, procs, bldVars
<1>5. Scanned'
    BY DEF Scanned, Live, RecordPid, Goto, procs, bldVars
<1>6. OneSupervised'
    BY DEF OneSupervised, Supervised, Live, Family, LockTable, CallState,
           ChildTable, Owning, RecordPid, At, Goto, procs, bldVars
<1>7. LiveHoldsLock'
    BY DEF LiveHoldsLock, Supervised, Live, CallState, ChildTable, Calling,
           LockTable, Scanned, RecordPid, At, Goto, procs, bldVars
<1> QED
    BY <1>1, <1>2, <1>3, <1>4, <1>5, <1>6, <1>7

\* The child that was just forked becomes a known one.
LEMMA RegisterStep ==
    ASSUME IInv, TypeOK', NEW s \in Supervisors, Register(s)
    PROVE  IInv'
<1> USE ActorsAssumption DEF IInv
<1>1. LockTable'
    BY DEF TypeOK, LockTable, Owning, Live, Actors, Scanned, Register,
           CallFor, NoCall, At, Goto, procs, bldVars
<1>2. ChildTable'
    BY DEF TypeOK, ChildTable, Register, CallFor, NoCall, At, Goto, procs,
           bldVars
<1>3. CallState'
    BY DEF TypeOK, CallState, Calling, Live, Register, CallFor, NoCall, At,
           Goto, procs, bldVars
<1>4. Family'
    BY DEF TypeOK, Family, LockTable, CallState, Owning, Live, Actors,
           Register, CallFor, NoCall, At, Goto, procs, bldVars
<1>5. Scanned'
    BY DEF Scanned, Live, Register, NoCall, At, Goto, procs, bldVars
<1>6. OneSupervised'
    BY DEF OneSupervised, Supervised, Live, Family, LockTable, CallState,
           ChildTable, Owning, Register, CallFor, NoCall, At, Goto, procs, bldVars
<1>7. LiveHoldsLock'
    BY DEF LiveHoldsLock, Supervised, Live, CallState, ChildTable, Calling,
           LockTable, Scanned, Register, CallFor, NoCall, At, Goto, procs, bldVars
<1> QED
    BY <1>1, <1>2, <1>3, <1>4, <1>5, <1>6, <1>7

\* A restart that fails gives the profile up: no process of it is left, since
\* s would know it, so flock -u frees the lock of nothing that runs.
LEMMA LaunchFailedStep ==
    ASSUME IInv, TypeOK', NEW s \in Supervisors, LaunchFailed(s)
    PROVE  IInv'
<1> USE ActorsAssumption DEF IInv
<1>1. LockTable'
    <2>1. CASE UNCHANGED holders
        BY <2>1 DEF LockTable, CallState, Owning, TypeOK, Live, LaunchFailed,
                    Exit, NoCall, At, Goto, procs, bldVars
    <2>2. CASE holders' = Unlocked(s, cur[s]) /\ s \in holders[cur[s]]
        <3>1. holders' = [holders EXCEPT ![cur[s]] = {}]
            BY <2>2 DEF Unlocked
        <3>2. cur[s] \in Configs
            BY DEF LaunchFailed, At, CallState, Calling, TypeOK
        <3>3. \A b \in Builds : bpc[b] = "write" => bcfg[b] # cur[s]
            BY <2>2, <3>2 DEF LockTable
        <3>4. \A t \in Supervisors :
                 runpc'[t] \in Owning => runpc[t] \in Owning /\ t # s /\ cur[t] # cur[s]
            BY <2>2, <3>2 DEF LockTable, LaunchFailed, Exit, At, Goto, Owning, TypeOK
        <3> QED
            BY <3>1, <3>2, <3>3, <3>4 DEF LockTable, LaunchFailed, Exit, NoCall, TypeOK, Live,
                                     procs, bldVars
    <2> QED
        BY <2>1, <2>2 DEF LaunchFailed, Exit, Unlocked
<1>2. ChildTable'
    BY DEF TypeOK, ChildTable, CallState, LaunchFailed, Unlocked, Exit,
           NoCall, At, Goto, procs, bldVars
<1>3. CallState'
    BY DEF TypeOK, CallState, Calling, Live, LaunchFailed, Unlocked, Exit,
           NoCall, At, Goto, procs, bldVars
<1>4. Family'
    BY DEF TypeOK, Family, LockTable, CallState, Calling, Owning, Live,
           Actors, LaunchFailed, Unlocked, Exit, NoCall, At, Goto, procs, bldVars
<1>5. Scanned'
    BY DEF Scanned, Live, LaunchFailed, Exit, NoCall, At, Goto, procs,
           bldVars
<1>6. OneSupervised'
    BY DEF OneSupervised, Supervised, Live, Family, LockTable, CallState,
           ChildTable, Owning, LaunchFailed, Unlocked, Exit, NoCall, At, Goto,
           procs, bldVars
<1>7. LiveHoldsLock'
    <2>1. CASE UNCHANGED holders
        BY <2>1 DEF LiveHoldsLock, Supervised, Live, LaunchFailed, Exit, procs
    <2>2. CASE holders' = Unlocked(s, cur[s]) /\ s \in holders[cur[s]]
        <3>1. holders' = [holders EXCEPT ![cur[s]] = {}]
            BY <2>2 DEF Unlocked
        <3>2. cur[s] \in Configs
            BY DEF LaunchFailed, At, CallState, Calling, TypeOK
        <3>3. ASSUME NEW q \in Supervised(cur[s]) PROVE FALSE
            <4>1. q \in Pids /\ pcfg[q] = cur[s] /\ q \in holders[cur[s]]
                BY <3>2 DEF LiveHoldsLock, Supervised
            <4>2. <<q, cur[s]>> \in children[s] \/ q = fresh[s]
                BY <2>2, <3>2, <4>1 DEF Family, LaunchFailed, At
            <4> QED
                BY <4>1, <4>2 DEF ChildTable, CallState, LaunchFailed, At
        <3> QED
            BY <3>1, <3>2, <3>3 DEF LiveHoldsLock, Supervised, Live, LaunchFailed, Exit,
                                    procs, TypeOK
    <2> QED
        BY <2>1, <2>2 DEF LaunchFailed, Exit, Unlocked
<1> QED
    BY <1>1, <1>2, <1>3, <1>4, <1>5, <1>6, <1>7

\* Only an ended child leaves the table, and it was the only one of its
\* profile, so giving the profile up frees the lock of nothing that runs.
LEMMA ReapChildStep ==
    ASSUME IInv, TypeOK', NEW s \in Supervisors, NEW p \in Pids, NEW c \in Configs, ReapChild(s, p, c)
    PROVE  IInv'
<1> USE ActorsAssumption DEF IInv
<1>1. LockTable'
    <2>1. CASE UNCHANGED holders
        BY <2>1 DEF LockTable, Owning, TypeOK, Live, ReapChild, At, Goto, procs, bldVars
    <2>2. CASE holders' = Unlocked(s, c) /\ s \in holders[c] /\ UNCHANGED <<runpc, cur>>
        <3>1. holders' = [holders EXCEPT ![c] = {}]
            BY <2>2 DEF Unlocked
        <3>2. \A b \in Builds : bpc[b] = "write" => bcfg[b] # c
            BY <2>2 DEF LockTable
        <3>3. \A t \in Supervisors : runpc[t] \in Owning => t # s /\ cur[t] # c
            BY <2>2 DEF LockTable, ReapChild, At, Owning
        <3> QED
            BY <2>2, <3>1, <3>2, <3>3 DEF LockTable, ReapChild, TypeOK, Live, procs, bldVars
    <2> QED
        BY <2>1, <2>2 DEF ReapChild, Unlocked
<1>2. ChildTable'
    BY DEF TypeOK, ChildTable, ReapChild, Unlocked, At, Goto, procs, bldVars
<1>3. CallState'
    BY DEF TypeOK, CallState, Calling, Live, ReapChild, Unlocked, At, Goto,
           procs, bldVars
<1>4. Family'
    BY DEF TypeOK, Family, LockTable, Owning, Live, Actors, ReapChild,
           Unlocked, At, Goto, procs, bldVars
<1>5. Scanned'
    BY DEF Scanned, Live, ReapChild, At, Goto, procs, bldVars
<1>6. OneSupervised'
    BY DEF OneSupervised, Supervised, Live, Family, LockTable, CallState,
           ChildTable, Owning, ReapChild, Unlocked, At, Goto, procs, bldVars
<1>7. LiveHoldsLock'
    <2>1. CASE UNCHANGED holders
        BY <2>1 DEF LiveHoldsLock, Supervised, Live, ReapChild, procs
    <2>2. CASE holders' = Unlocked(s, c) /\ s \in holders[c]
        <3>1. holders' = [holders EXCEPT ![c] = {}]
            BY <2>2 DEF Unlocked
        <3>2. ASSUME NEW q \in Supervised(c) PROVE FALSE
            <4>1. q \in Pids /\ pcfg[q] = c /\ Live(q) /\ q \in holders[c]
                BY DEF LiveHoldsLock, Supervised
            <4>2. <<q, c>> \in children[s] \/ q = fresh[s]
                BY <2>2, <4>1 DEF Family, ReapChild, At
            <4> QED
                BY <4>1, <4>2 DEF ChildTable, CallState, ReapChild, At
        <3> QED
            BY <3>1, <3>2 DEF LiveHoldsLock, Supervised, Live, ReapChild, procs, TypeOK
    <2> QED
        BY <2>1, <2>2 DEF ReapChild, Unlocked
<1> QED
    BY <1>1, <1>2, <1>3, <1>4, <1>5, <1>6, <1>7

\* exit unwinds a call: a child that is not registered is forgotten, which
\* Family allows in the cleanup only.
LEMMA ExitStep ==
    ASSUME IInv, TypeOK', NEW s \in Supervisors, Exit(s)
    PROVE  IInv'
<1> USE ActorsAssumption DEF IInv
<1>1. LockTable'
    BY DEF TypeOK, LockTable, Owning, Live, Actors, Scanned, Exit, NoCall,
           Goto, procs, bldVars
<1>2. ChildTable'
    BY DEF TypeOK, ChildTable, Exit, NoCall, Goto, procs, bldVars
<1>3. CallState'
    BY DEF TypeOK, CallState, Calling, Live, Exit, NoCall, Goto, procs,
           bldVars
<1>4. Family'
    BY DEF TypeOK, Family, Owning, Live, Actors, Exit, NoCall, Goto, procs,
           bldVars
<1>5. Scanned'
    BY DEF Scanned, Live, Exit, Goto, procs, bldVars
<1>6. OneSupervised'
    BY DEF OneSupervised, Supervised, Live, Family, LockTable, CallState,
           ChildTable, Owning, Exit, NoCall, Goto, procs, bldVars
<1>7. LiveHoldsLock'
    BY DEF LiveHoldsLock, Supervised, Live, CallState, ChildTable, Calling,
           LockTable, Scanned, Exit, NoCall, Goto, procs, bldVars
<1> QED
    BY <1>1, <1>2, <1>3, <1>4, <1>5, <1>6, <1>7

\* A supervisor that ends takes its own descriptors with it and leaves those
\* of its children.
LEMMA EndedStep ==
    ASSUME IInv, TypeOK', NEW s \in Supervisors, Ended(s), UNCHANGED <<procs, bldVars>>
    PROVE  IInv'
<1> USE ActorsAssumption DEF IInv
<1>1. LockTable'
    BY DEF TypeOK, LockTable, CallState, Owning, Calling, Live, Actors,
           Scanned, Ended, NoCall, WithoutHolder, Goto, procs, bldVars
<1>2. ChildTable'
    BY DEF TypeOK, ChildTable, Ended, NoCall, WithoutHolder, Goto, procs,
           bldVars
<1>3. CallState'
    BY DEF TypeOK, CallState, Calling, Live, Ended, NoCall, WithoutHolder,
           Goto, procs, bldVars
<1>4. Family'
    BY DEF Family, Owning, Live, Actors, Ended, NoCall, WithoutHolder, Goto,
           procs, bldVars
<1>5. Scanned'
    BY DEF Scanned, Live, WithoutHolder, Goto, procs, bldVars
<1>6. OneSupervised'
    BY DEF OneSupervised, Supervised, Live, Family, LockTable, CallState,
           ChildTable, Owning, Ended, NoCall, WithoutHolder, Goto, procs, bldVars
<1>7. LiveHoldsLock'
    BY DEF LiveHoldsLock, Supervised, Live, CallState, ChildTable, Calling,
           LockTable, Scanned, Ended, NoCall, WithoutHolder, Goto, procs, bldVars
<1> QED
    BY <1>1, <1>2, <1>3, <1>4, <1>5, <1>6, <1>7

\* exec does not change who lives.
LEMMA ExecStep ==
    ASSUME IInv, TypeOK', NEW p \in Pids, Exec(p)
    PROVE  IInv'
<1> USE ActorsAssumption DEF IInv
<1>1. LockTable'
    BY DEF LockTable, Live, Actors, Scanned, Exec, runVars, bldVars
<1>2. ChildTable'
    BY DEF ChildTable, Exec, runVars, bldVars
<1>3. CallState'
    BY DEF CallState, Live, Exec, runVars, bldVars
<1>4. Family'
    BY DEF Family, Owning, Live, Actors, Exec, runVars, bldVars
<1>5. Scanned'
    BY DEF Scanned, Live, Exec, bldVars
<1>6. OneSupervised'
    BY DEF OneSupervised, Supervised, Live, Family, LockTable, CallState,
           ChildTable, Owning, Exec, runVars, bldVars
<1>7. LiveHoldsLock'
    BY DEF LiveHoldsLock, Supervised, Live, CallState, ChildTable, Calling,
           LockTable, Scanned, Exec, runVars, bldVars
<1> QED
    BY <1>1, <1>2, <1>3, <1>4, <1>5, <1>6, <1>7

\* listen does not change who lives.
LEMMA ListenStep ==
    ASSUME IInv, TypeOK', NEW p \in Pids, Listen(p)
    PROVE  IInv'
<1> USE ActorsAssumption DEF IInv
<1>1. LockTable'
    BY DEF LockTable, Live, Actors, Scanned, Listen, runVars, bldVars
<1>2. ChildTable'
    BY DEF ChildTable, Listen, runVars, bldVars
<1>3. CallState'
    BY DEF CallState, Live, Listen, runVars, bldVars
<1>4. Family'
    BY DEF Family, Owning, Live, Actors, Listen, runVars, bldVars
<1>5. Scanned'
    BY DEF Scanned, Live, Listen, bldVars
<1>6. OneSupervised'
    BY DEF OneSupervised, Supervised, Live, Family, LockTable, CallState,
           ChildTable, Owning, Listen, runVars, bldVars
<1>7. LiveHoldsLock'
    BY DEF LiveHoldsLock, Supervised, Live, CallState, ChildTable, Calling,
           LockTable, Scanned, Listen, runVars, bldVars
<1> QED
    BY <1>1, <1>2, <1>3, <1>4, <1>5, <1>6, <1>7

\* A process that ends takes its descriptors with it.
LEMMA ProcessExitStep ==
    ASSUME IInv, TypeOK', NEW p \in Pids, ProcessExit(p)
    PROVE  IInv'
<1> USE ActorsAssumption DEF IInv
<1>1. LockTable'
    BY DEF TypeOK, LockTable, CallState, Owning, Calling, Live, Actors,
           Scanned, ProcessExit, WithoutHolder, runVars, bldVars
<1>2. ChildTable'
    BY DEF ChildTable, ProcessExit, WithoutHolder, runVars, bldVars
<1>3. CallState'
    BY DEF TypeOK, CallState, Live, ProcessExit, WithoutHolder, runVars,
           bldVars
<1>4. Family'
    BY DEF Family, Owning, Live, Actors, ProcessExit, WithoutHolder,
           runVars, bldVars
<1>5. Scanned'
    BY DEF TypeOK, Scanned, Live, ProcessExit, runVars, bldVars
<1>6. OneSupervised'
    BY DEF OneSupervised, Supervised, Live, Family, LockTable, CallState,
           ChildTable, Owning, ProcessExit, WithoutHolder, runVars, bldVars
<1>7. LiveHoldsLock'
    BY DEF LiveHoldsLock, Supervised, TypeOK, Live, CallState, ChildTable,
           Calling, LockTable, Scanned, ProcessExit, WithoutHolder, runVars,
           bldVars
<1> QED
    BY <1>1, <1>2, <1>3, <1>4, <1>5, <1>6, <1>7

\* A build that starts has no rights yet.
LEMMA BuildStartStep ==
    ASSUME IInv, TypeOK', NEW b \in Builds, NEW c \in Configs, BuildStart(b, c)
    PROVE  IInv'
<1> USE ActorsAssumption DEF IInv
<1>1. LockTable'
    BY DEF LockTable, Live, Actors, Scanned, BuildStart, BuildGoto, procs,
           runVars
<1>2. ChildTable'
    BY DEF ChildTable, BuildStart, BuildGoto, procs, runVars
<1>3. CallState'
    BY DEF CallState, Live, BuildStart, BuildGoto, procs, runVars
<1>4. Family'
    BY DEF Family, Owning, Live, Actors, BuildStart, BuildGoto, procs,
           runVars
<1>5. Scanned'
    BY DEF TypeOK, Scanned, Live, BuildStart, BuildGoto, procs, runVars
<1>6. OneSupervised'
    BY DEF OneSupervised, Supervised, Live, Family, LockTable, CallState,
           ChildTable, Owning, BuildStart, BuildGoto, procs, runVars
<1>7. LiveHoldsLock'
    BY DEF LiveHoldsLock, Supervised, Live, CallState, ChildTable, Calling,
           LockTable, Scanned, BuildStart, BuildGoto, procs, runVars
<1> QED
    BY <1>1, <1>2, <1>3, <1>4, <1>5, <1>6, <1>7

\* Judging run.pid gives no rights either.
LEMMA BuildJudgeStep ==
    ASSUME IInv, TypeOK', NEW b \in Builds, BuildJudge(b)
    PROVE  IInv'
<1> USE ActorsAssumption DEF IInv
<1>1. LockTable'
    BY DEF TypeOK, LockTable, Live, Actors, Scanned, BuildJudge,
           JudgePidFile, BuildStop, BuildGoto, procs, runVars
<1>2. ChildTable'
    BY DEF ChildTable, BuildJudge, JudgePidFile, BuildStop, BuildGoto,
           procs, runVars
<1>3. CallState'
    BY DEF CallState, Live, BuildJudge, JudgePidFile, BuildStop, BuildGoto,
           procs, runVars
<1>4. Family'
    BY DEF Family, Owning, Live, Actors, BuildJudge, JudgePidFile,
           BuildStop, BuildGoto, procs, runVars
<1>5. Scanned'
    BY DEF TypeOK, Scanned, Live, BuildJudge, JudgePidFile, BuildStop,
           BuildGoto, procs, runVars
<1>6. OneSupervised'
    BY DEF OneSupervised, Supervised, Live, Family, LockTable, CallState,
           ChildTable, Owning, BuildJudge, JudgePidFile, BuildStop, BuildGoto,
           procs, runVars
<1>7. LiveHoldsLock'
    BY DEF LiveHoldsLock, Supervised, Live, CallState, ChildTable, Calling,
           LockTable, Scanned, BuildJudge, JudgePidFile, BuildStop, BuildGoto,
           procs, runVars
<1> QED
    BY <1>1, <1>2, <1>3, <1>4, <1>5, <1>6, <1>7

\* Past the scan, no unsupervised process of the profile is left.
LEMMA BuildScanStep ==
    ASSUME IInv, TypeOK', NEW b \in Builds, BuildScan(b)
    PROVE  IInv'
<1> USE ActorsAssumption DEF IInv
<1>1. LockTable'
    BY DEF TypeOK, LockTable, Live, Actors, Scanned, BuildScan, BuildStop,
           BuildGoto, RunsBinary, procs, runVars
<1>2. ChildTable'
    BY DEF ChildTable, BuildScan, BuildStop, BuildGoto, RunsBinary, procs,
           runVars
<1>3. CallState'
    BY DEF CallState, Live, BuildScan, BuildStop, BuildGoto, RunsBinary,
           procs, runVars
<1>4. Family'
    BY DEF Family, Owning, Live, Actors, BuildScan, BuildStop, BuildGoto,
           RunsBinary, procs, runVars
<1>5. Scanned'
    BY DEF TypeOK, Scanned, Live, BuildScan, BuildStop, BuildGoto,
           RunsBinary, procs, runVars
<1>6. OneSupervised'
    BY DEF OneSupervised, Supervised, Live, Family, LockTable, CallState,
           ChildTable, Owning, BuildScan, BuildStop, BuildGoto, RunsBinary, procs,
           runVars
<1>7. LiveHoldsLock'
    BY DEF LiveHoldsLock, Supervised, Live, CallState, ChildTable, Calling,
           LockTable, Scanned, BuildScan, BuildStop, BuildGoto, RunsBinary, procs,
           runVars
<1> QED
    BY <1>1, <1>2, <1>3, <1>4, <1>5, <1>6, <1>7

\* The lock is taken only when nobody holds it.
LEMMA BuildLockStep ==
    ASSUME IInv, TypeOK', NEW b \in Builds, BuildLock(b)
    PROVE  IInv'
<1> USE ActorsAssumption DEF IInv
<1>1. LockTable'
    <2>1. bcfg[b] \in Configs
        BY DEF BuildLock, Scanned, TypeOK
    <2>2. CASE holders[bcfg[b]] # {}
        BY <2>1, <2>2 DEF LockTable, TypeOK, Live, BuildLock, BuildStop, BuildGoto,
                          procs, runVars
    <2>3. CASE holders[bcfg[b]] = {}
        <3>1. holders' = [holders EXCEPT ![bcfg[b]] = {b}] /\ UNCHANGED bcfg
            BY <2>3 DEF BuildLock
        <3>2. bpc' = [bpc EXCEPT ![b] = "write"]
            BY <2>3 DEF BuildLock, BuildGoto
        <3>3. \A s \in Supervisors : runpc[s] \in Owning => cur[s] # bcfg[b]
            BY <2>3 DEF LockTable
        <3> QED
            BY <2>1, <3>1, <3>2, <3>3 DEF LockTable, TypeOK, Live, BuildLock, procs, runVars
    <2> QED
        BY <2>2, <2>3
<1>2. ChildTable'
    BY DEF ChildTable, BuildLock, BuildStop, BuildGoto, procs, runVars
<1>3. CallState'
    BY DEF CallState, Live, BuildLock, BuildStop, BuildGoto, procs, runVars
<1>4. Family'
    BY DEF TypeOK, Family, Owning, Live, Actors, BuildLock, BuildStop,
           BuildGoto, procs, runVars
<1>5. Scanned'
    BY DEF TypeOK, Scanned, Live, BuildLock, BuildStop, BuildGoto, procs,
           runVars
<1>6. OneSupervised'
    BY DEF OneSupervised, Supervised, Live, Family, LockTable, CallState,
           ChildTable, Owning, BuildLock, BuildStop, BuildGoto, procs, runVars
<1>7. LiveHoldsLock'
    <2>1. holders' = holders \/ \E c \in Configs : holders[c] = {} /\ holders' = [holders EXCEPT ![c] = {b}]
        BY DEF TypeOK, Scanned, BuildLock
    <2>2. UNCHANGED procs
        BY DEF BuildLock
    <2> QED
        BY <2>1, <2>2 DEF LiveHoldsLock, Supervised, TypeOK, Live, procs
<1> QED
    BY <1>1, <1>2, <1>3, <1>4, <1>5, <1>6, <1>7

\* A build that ends gives up the only lock it had.
LEMMA BuildEndStep ==
    ASSUME IInv, TypeOK', NEW b \in Builds, BuildEnd(b)
    PROVE  IInv'
<1> USE ActorsAssumption DEF IInv
<1>1. LockTable'
    BY DEF TypeOK, LockTable, CallState, Owning, Calling, Live, Actors,
           Scanned, BuildEnd, BuildStop, BuildGoto, WithoutHolder, procs, runVars
<1>2. ChildTable'
    BY DEF ChildTable, BuildEnd, BuildStop, BuildGoto, WithoutHolder, procs,
           runVars
<1>3. CallState'
    BY DEF CallState, Live, BuildEnd, BuildStop, BuildGoto, WithoutHolder,
           procs, runVars
<1>4. Family'
    BY DEF Family, Owning, Live, Actors, BuildEnd, BuildStop, BuildGoto,
           WithoutHolder, procs, runVars
<1>5. Scanned'
    BY DEF TypeOK, Scanned, Live, BuildEnd, BuildStop, BuildGoto,
           WithoutHolder, procs, runVars
<1>6. OneSupervised'
    BY DEF OneSupervised, Supervised, Live, Family, LockTable, CallState,
           ChildTable, Owning, BuildEnd, BuildStop, BuildGoto, WithoutHolder,
           procs, runVars
<1>7. LiveHoldsLock'
    BY DEF LiveHoldsLock, Supervised, Live, CallState, ChildTable, Calling,
           LockTable, Scanned, BuildEnd, BuildStop, BuildGoto, WithoutHolder,
           procs, runVars
<1> QED
    BY <1>1, <1>2, <1>3, <1>4, <1>5, <1>6, <1>7

\* Somebody deleting a run.pid changes nothing the invariant speaks of.
LEMMA LosePidFileStep ==
    ASSUME IInv, TypeOK', NEW c \in Configs, LosePidFile(c)
    PROVE  IInv'
<1> USE DEF IInv, LosePidFile, procs, runVars, bldVars
<1>1. LockTable' /\ ChildTable' /\ CallState'
    BY DEF LockTable, ChildTable, CallState, Live
<1>2. Family' /\ Scanned'
    BY DEF Family, Scanned, Live
<1>3. OneSupervised' /\ LiveHoldsLock'
    BY DEF OneSupervised, LiveHoldsLock, Supervised, Live
<1> QED
    BY <1>1, <1>2, <1>3

LEMMA StutterStep == ASSUME IInv, UNCHANGED vars PROVE IInv'
<1> USE DEF IInv, vars, procs, runVars, bldVars
<1>1. TypeOK'
    BY DEF TypeOK
<1>2. LockTable' /\ ChildTable' /\ CallState'
    BY DEF LockTable, ChildTable, CallState, Live
<1>3. Family' /\ Scanned'
    BY DEF Family, Scanned, Live
<1>4. OneSupervised' /\ LiveHoldsLock'
    BY DEF OneSupervised, LiveHoldsLock, Supervised, Live
<1> QED
    BY <1>1, <1>2, <1>3, <1>4

\* The inductive invariant holds at first: nothing is locked, and nothing that
\* runs is supervised.
LEMMA InitInv == Init => IInv
<1> USE ActorsAssumption
<1> SUFFICES ASSUME Init PROVE IInv
    OBVIOUS
<1>1. TypeOK
    BY InitType
<1>2. LockTable /\ ChildTable /\ CallState
    BY DEF Init, LockTable, ChildTable, CallState, Owning, Calling
<1>3. Family /\ Scanned
    BY DEF Init, Family, Scanned
<1>4. OneSupervised /\ LiveHoldsLock
    BY DEF Init, OneSupervised, LiveHoldsLock, Supervised
<1> QED
    BY <1>1, <1>2, <1>3, <1>4 DEF IInv

\* Every step preserves the inductive invariant.
LEMMA InvStep == IInv /\ [Next]_vars => IInv'
<1> SUFFICES ASSUME IInv, [Next]_vars PROVE IInv'
    OBVIOUS
<1>1. TypeOK'
    BY TypeStep DEF IInv
<1>2. CASE UNCHANGED vars
    BY <1>2, StutterStep
<1>3. ASSUME NEW s \in Supervisors, RunNext(s) PROVE IInv'
    <2>1. CASE \E selected \in Selections : Start(s, selected)
        BY <1>1, <2>1, StartStep
    <2>2. CASE \/ CheckStaged(s) \/ AcquireLock(s) \/ StopPrevious(s)
               \/ PreviousWaited(s) \/ ArchiveFails(s)
        BY <1>1, <2>2, CheckStagedStep, AcquireLockStep, StopPreviousStep,
           PreviousWaitedStep, ArchiveFailsStep
    <2>3. CASE \E p \in Pids : Fork(s, p)
        BY <1>1, <2>3, ForkStep
    <2>4. CASE RecordPid(s) \/ Register(s) \/ LaunchFailed(s)
        BY <1>1, <2>4, RecordPidStep, RegisterStep, LaunchFailedStep
    <2>5. CASE \E p \in Pids, c \in Configs : ReapChild(s, p, c)
        BY <1>1, <2>5, ReapChildStep
    <2>6. CASE NoProfilesRemain(s) \/ Terminate(s)
        BY <1>1, <2>6, ExitStep DEF NoProfilesRemain, Terminate
    <2>7. CASE CleanupExit(s) \/ Crash(s)
        BY <1>1, <2>7, EndedStep DEF CleanupExit, Crash
    <2> QED
        BY <1>3, <2>1, <2>2, <2>3, <2>4, <2>5, <2>6, <2>7 DEF RunNext
<1>4. ASSUME NEW p \in Pids, ProcNext(p) PROVE IInv'
    BY <1>1, <1>4, ExecStep, ListenStep, ProcessExitStep DEF ProcNext
<1>5. ASSUME NEW c \in Configs, LosePidFile(c) PROVE IInv'
    BY <1>1, <1>5, LosePidFileStep
<1>6. ASSUME NEW b \in Builds, BuildNext(b) PROVE IInv'
    <2>1. CASE \E c \in Configs : BuildStart(b, c)
        BY <1>1, <2>1, BuildStartStep
    <2>2. CASE BuildJudge(b) \/ BuildScan(b) \/ BuildLock(b) \/ BuildEnd(b)
        BY <1>1, <2>2, BuildJudgeStep, BuildScanStep, BuildLockStep, BuildEndStep
    <2> QED
        BY <1>6, <2>1, <2>2 DEF BuildNext
<1> QED
    BY <1>2, <1>3, <1>4, <1>5, <1>6 DEF Next

-----------------------------------------------------------------------------
(* Theorems *)

\* The inductive invariant holds in every reachable state, for any number of
\* profiles, supervisors, builds and processes.
THEOREM Invariant == Spec => []IInv
<1>1. Init => IInv
    BY InitInv
<1>2. IInv /\ [Next]_vars => IInv'
    BY InvStep
<1> QED
    BY <1>1, <1>2, PTL DEF Spec

\* Every reachable state is well typed, whatever run.sh, build.sh, the
\* processes and the user do.
THEOREM TypeCorrect == Spec => []TypeOK
<1>1. IInv => TypeOK
    BY DEF IInv
<1> QED
    BY <1>1, Invariant, PTL

\* No profile ever has two supervised processes (run.sh, run_fuzzer).
THEOREM OneProcessPerProfile == Spec => []OneSupervised
<1>1. IInv => OneSupervised
    BY DEF IInv
<1> QED
    BY <1>1, Invariant, PTL

\* A live supervised process keeps its profile locked, also after its
\* supervisor was killed (run.sh, acquire_config_lock, release_config_lock).
THEOREM LockHeldWhileAlive == Spec => []LiveHoldsLock
<1>1. IInv => LiveHoldsLock
    BY DEF IInv
<1> QED
    BY <1>1, Invariant, PTL

\* Past its scan, a build whose profile no process has locked sees no process
\* of the profile: a supervised one would hold the lock, another would have
\* been found.
LEMMA ScannedAlone ==
    ASSUME IInv, NEW b \in Builds, bpc[b] \in {"lock", "write"},
           holders[bcfg[b]] \cap Pids = {}
    PROVE  /\ bcfg[b] \in Configs
           /\ \A p \in Pids : Live(p) => pcfg[p] # bcfg[b]
<1> USE DEF IInv
<1>1. bcfg[b] \in Configs
    BY DEF Scanned, TypeOK
<1>2. ASSUME NEW p \in Pids, Live(p), pcfg[p] = bcfg[b] PROVE FALSE
    <2>1. p \in Supervised(bcfg[b])
        BY <1>2 DEF Scanned, Supervised
    <2> QED
        BY <1>1, <2>1 DEF LiveHoldsLock
<1> QED
    BY <1>1, <1>2

\* No build changes the tree of a profile that has a live process (build.sh,
\* refuse_active_instances and build_software).
THEOREM BuildsSpareLiveProfiles == Spec => []NoBuildOverLive
<1>1. ASSUME IInv PROVE NoBuildOverLive
    <2>1. ASSUME NEW b \in Builds, bpc[b] = "write"
          PROVE  holders[bcfg[b]] \cap Pids = {}
        BY <1>1, <2>1, ActorsAssumption DEF IInv, LockTable, Scanned, TypeOK
    <2> QED
        BY <1>1, <2>1, ScannedAlone DEF NoBuildOverLive
<1> QED
    BY <1>1, Invariant, PTL

-----------------------------------------------------------------------------
(* ProfileLocks implements RuntimeTree *)

UsersOf(c)   == {p \in Pids : Live(p) /\ pcfg[p] = c}
WritersOf(c) == {b \in Builds : bpc[b] = "write" /\ bcfg[b] = c}

Users   == [c \in Configs |-> UsersOf(c)]
Writers == [c \in Configs |-> WritersOf(c)]

\* The actions of RuntimeTree, in terms of these sets.
LEMMA TreeEnter ==
    ASSUME NEW c \in Configs, NEW p \in Pids, WritersOf(c) = {},
           UsersOf(c)' = UsersOf(c) \cup {p},
           \A d \in Configs \ {c} : UsersOf(d)' = UsersOf(d),
           \A d \in Configs : WritersOf(d)' = WritersOf(d)
    PROVE  Tree!Next
<1>1. /\ Writers[c] = {}
      /\ Users' = [Users EXCEPT ![c] = @ \cup {p}]
      /\ Writers' = Writers
    BY DEF Users, Writers
<1>2. Tree!Enter(c, p)
    BY <1>1 DEF Tree!Enter, Users, Writers, UsersOf, WritersOf
<1> QED
    BY <1>2 DEF Tree!Next

LEMMA TreeLeave ==
    ASSUME NEW c \in Configs, NEW p \in Pids,
           UsersOf(c)' = UsersOf(c) \ {p},
           \A d \in Configs \ {c} : UsersOf(d)' = UsersOf(d),
           \A d \in Configs : WritersOf(d)' = WritersOf(d)
    PROVE  Tree!Next
<1>1. Users' = [Users EXCEPT ![c] = @ \ {p}] /\ Writers' = Writers
    BY DEF Users, Writers
<1>2. Tree!Leave(c, p)
    BY <1>1 DEF Tree!Leave, Users, Writers, UsersOf, WritersOf
<1> QED
    BY <1>2 DEF Tree!Next

LEMMA TreeBegin ==
    ASSUME NEW c \in Configs, NEW b \in Builds, UsersOf(c) = {}, WritersOf(c) = {},
           WritersOf(c)' = {b},
           \A d \in Configs : UsersOf(d)' = UsersOf(d),
           \A d \in Configs \ {c} : WritersOf(d)' = WritersOf(d)
    PROVE  Tree!Next
<1>1. /\ Users[c] = {} /\ Writers[c] = {}
      /\ Users' = Users /\ Writers' = [Writers EXCEPT ![c] = {b}]
    BY DEF Users, Writers
<1>2. Tree!Begin(c, b)
    BY <1>1 DEF Tree!Begin, Users, Writers, UsersOf, WritersOf
<1> QED
    BY <1>2 DEF Tree!Next

LEMMA TreeEnd ==
    ASSUME NEW c \in Configs, NEW b \in Builds, b \in WritersOf(c),
           WritersOf(c)' = WritersOf(c) \ {b},
           \A d \in Configs : UsersOf(d)' = UsersOf(d),
           \A d \in Configs \ {c} : WritersOf(d)' = WritersOf(d)
    PROVE  Tree!Next
<1>1. /\ b \in Writers[c]
      /\ Users' = Users /\ Writers' = [Writers EXCEPT ![c] = @ \ {b}]
    BY DEF Users, Writers
<1>2. Tree!End(c, b)
    BY <1>1 DEF Tree!End, Users, Writers, UsersOf, WritersOf
<1> QED
    BY <1>2 DEF Tree!Next

\* A fork of a supervisor is an Enter: the supervisor holds the lock, so no
\* build does.
LEMMA ForkEnters ==
    ASSUME IInv, NEW s \in Supervisors, NEW p \in Pids, Fork(s, p)
    PROVE  Tree!Next
<1> USE ActorsAssumption DEF IInv
<1>1. PICK c \in Configs : c = cur[s] /\ s \in holders[c]
    BY DEF Fork, At, CallState, Calling, TypeOK, LockTable, Owning
<1>2. \A b \in Builds : b \notin holders[c]
    BY <1>1 DEF LockTable
<1>3. WritersOf(c) = {}
    BY <1>2 DEF WritersOf, LockTable
<1>4. \A d \in Configs : WritersOf(d)' = WritersOf(d)
    BY DEF WritersOf, Fork, bldVars
<1>5. /\ \A q \in Pids \ {p} : (Live(q) <=> Live(q)') /\ pcfg'[q] = pcfg[q]
      /\ ~Live(p) /\ Live(p)' /\ pcfg'[p] = c
    BY <1>1 DEF Fork, Live, TypeOK
<1>6. /\ UsersOf(c)' = UsersOf(c) \cup {p}
      /\ \A d \in Configs \ {c} : UsersOf(d)' = UsersOf(d)
    BY <1>5 DEF UsersOf
<1> QED
    BY <1>3, <1>4, <1>6, TreeEnter

\* The end of a process is a Leave, unless it runs from no profile's tree.
LEMMA ExitLeaves ==
    ASSUME IInv, NEW p \in Pids, ProcessExit(p)
    PROVE  Tree!Next \/ UNCHANGED Tree!vars
<1> USE DEF IInv
<1>1. \A d \in Configs : WritersOf(d)' = WritersOf(d)
    BY DEF WritersOf, ProcessExit, bldVars
<1>2. /\ \A q \in Pids \ {p} : (Live(q) <=> Live(q)') /\ pcfg'[q] = pcfg[q]
      /\ ~Live(p)'
    BY DEF ProcessExit, Live, TypeOK
<1>3. CASE pcfg[p] \in Configs
    <2>1. PICK c \in Configs : c = pcfg[p]
        BY <1>3
    <2>2. /\ UsersOf(c)' = UsersOf(c) \ {p}
          /\ \A d \in Configs \ {c} : UsersOf(d)' = UsersOf(d)
        BY <1>2, <2>1 DEF UsersOf
    <2> QED
        BY <1>1, <2>2, TreeLeave
<1>4. CASE pcfg[p] \notin Configs
    <2>1. \A d \in Configs : UsersOf(d)' = UsersOf(d)
        BY <1>2, <1>4 DEF UsersOf
    <2> QED
        BY <1>1, <2>1 DEF Tree!vars, UsersOf, WritersOf
<1> QED
    BY <1>3, <1>4

\* A build that gets the lock Begins: nobody else holds it, and nobody runs
\* from the tree.
LEMMA LockBegins ==
    ASSUME IInv, NEW b \in Builds, BuildLock(b)
    PROVE  Tree!Next \/ UNCHANGED Tree!vars
<1> USE DEF IInv
<1>1. \A d \in Configs : UsersOf(d)' = UsersOf(d)
    BY DEF UsersOf, BuildLock, procs, Live
<1>2. PICK c \in Configs : c = bcfg[b]
    BY DEF BuildLock, Scanned, TypeOK
<1>3. CASE holders[c] # {}
    <2>1. bpc'[b] # "write" /\ bpc[b] # "write"
        BY <1>2, <1>3 DEF BuildLock, BuildStop, BuildGoto, TypeOK
    <2>2. \A d \in Builds \ {b} : bpc'[d] = bpc[d] /\ bcfg'[d] = bcfg[d]
        BY <1>2, <1>3 DEF BuildLock, BuildStop, BuildGoto, TypeOK
    <2>3. \A d \in Configs : WritersOf(d)' = WritersOf(d)
        BY <2>1, <2>2 DEF WritersOf
    <2> QED
        BY <1>1, <2>3 DEF Tree!vars, UsersOf, WritersOf
<1>4. CASE holders[c] = {}
    <2>1. bpc[b] = "lock" /\ bpc' = [bpc EXCEPT ![b] = "write"] /\ UNCHANGED bcfg
        BY <1>2, <1>4 DEF BuildLock, BuildGoto
    <2>2. WritersOf(c) = {}
        BY <1>4 DEF WritersOf, LockTable
    <2>3. bpc'[b] = "write" /\ \A d \in Builds \ {b} : bpc'[d] = bpc[d]
        BY <2>1 DEF TypeOK
    <2>4. WritersOf(c)' = {b}
        BY <1>2, <2>1, <2>2, <2>3 DEF WritersOf
    <2>5. \A d \in Configs \ {c} : WritersOf(d)' = WritersOf(d)
        BY <1>2, <2>1, <2>3 DEF WritersOf
    <2>6. UsersOf(c) = {}
        BY <1>2, <1>4, <2>1, ScannedAlone DEF UsersOf
    <2> QED
        BY <1>1, <2>2, <2>4, <2>5, <2>6, TreeBegin
<1> QED
    BY <1>3, <1>4

\* The end of a build is an End.
LEMMA BuildEnds ==
    ASSUME IInv, NEW b \in Builds, BuildEnd(b)
    PROVE  Tree!Next
<1> USE DEF IInv
<1>1. \A d \in Configs : UsersOf(d)' = UsersOf(d)
    BY DEF UsersOf, BuildEnd, procs, Live
<1>2. PICK c \in Configs : c = bcfg[b] /\ b \in WritersOf(c)
    BY DEF BuildEnd, Scanned, TypeOK, WritersOf
<1>3. bpc'[b] = "idle" /\ \A d \in Builds \ {b} : bpc'[d] = bpc[d] /\ bcfg'[d] = bcfg[d]
    BY DEF BuildEnd, BuildStop, BuildGoto, TypeOK
<1>4. /\ WritersOf(c)' = WritersOf(c) \ {b}
      /\ \A d \in Configs \ {c} : WritersOf(d)' = WritersOf(d)
    BY <1>2, <1>3 DEF WritersOf
<1> QED
    BY <1>1, <1>2, <1>4, TreeEnd

\* Every other step of a build leaves the tree as it is.
LEMMA BuildStutters ==
    ASSUME IInv, NEW b \in Builds,
           (\E c \in Configs : BuildStart(b, c)) \/ BuildJudge(b) \/ BuildScan(b)
    PROVE  UNCHANGED Tree!vars
<1> USE DEF IInv
<1>1. \A c \in Configs : UsersOf(c)' = UsersOf(c)
    BY DEF UsersOf, BuildStart, BuildJudge, BuildScan, procs, Live
<1>2. bpc[b] # "write" /\ bpc'[b] # "write"
    BY DEF BuildStart, BuildJudge, JudgePidFile, BuildScan, BuildStop, BuildGoto, TypeOK
<1>3. \A d \in Builds \ {b} : bpc'[d] = bpc[d] /\ bcfg'[d] = bcfg[d]
    BY DEF BuildStart, BuildJudge, JudgePidFile, BuildScan, BuildStop, BuildGoto, TypeOK
<1>4. \A c \in Configs : WritersOf(c)' = WritersOf(c)
    BY <1>2, <1>3 DEF WritersOf
<1> QED
    BY <1>1, <1>4 DEF Tree!vars, UsersOf, WritersOf

\* A step of a supervisor other than a fork touches neither processes nor
\* builds.
LEMMA RunStutters ==
    ASSUME NEW s \in Supervisors, RunNext(s), \A p \in Pids : ~Fork(s, p)
    PROVE  UNCHANGED <<procs, bldVars>>
BY DEF RunNext, Start, CheckStaged, AcquireLock, StopPrevious, PreviousWaited,
       ArchiveFails, RecordPid, Register, LaunchFailed, ReapChild, NoProfilesRemain, Terminate,
       CleanupExit, Crash, Exit, procs, bldVars

\* Every step of ProfileLocks is a step of RuntimeTree, or none.
LEMMA TreeStep == IInv /\ [Next]_vars => [Tree!Next]_(Tree!vars)
<1> SUFFICES ASSUME IInv, [Next]_vars PROVE [Tree!Next]_(Tree!vars)
    OBVIOUS
<1>1. ASSUME UNCHANGED <<procs, bldVars>> PROVE UNCHANGED Tree!vars
    BY <1>1 DEF Tree!vars, procs, bldVars, Live
<1>2. CASE UNCHANGED vars
    BY <1>1, <1>2 DEF vars
<1>3. ASSUME NEW s \in Supervisors, RunNext(s) PROVE [Tree!Next]_(Tree!vars)
    <2>1. ASSUME NEW p \in Pids, Fork(s, p) PROVE Tree!Next
        BY <2>1, ForkEnters
    <2>2. CASE \A p \in Pids : ~Fork(s, p)
        BY <1>1, <1>3, <2>2, RunStutters
    <2> QED
        BY <2>1, <2>2
<1>4. ASSUME NEW p \in Pids, ProcNext(p) PROVE [Tree!Next]_(Tree!vars)
    <2>1. CASE Exec(p) \/ Listen(p)
        BY <2>1 DEF Exec, Listen, Live, Tree!vars, bldVars, IInv, TypeOK
    <2>2. CASE ProcessExit(p)
        BY <2>2, ExitLeaves
    <2> QED
        BY <1>4, <2>1, <2>2 DEF ProcNext
<1>5. ASSUME NEW c \in Configs, LosePidFile(c) PROVE [Tree!Next]_(Tree!vars)
    BY <1>1, <1>5 DEF LosePidFile
<1>6. ASSUME NEW b \in Builds, BuildNext(b) PROVE [Tree!Next]_(Tree!vars)
    BY <1>6, LockBegins, BuildEnds, BuildStutters DEF BuildNext
<1> QED
    BY <1>2, <1>3, <1>4, <1>5, <1>6 DEF Next

\* What run.sh and build.sh do to the profiles implements the promise of
\* RuntimeTree: a tree is used or replaced, never both.
THEOREM Refinement == Spec => ImplementsTree
<1>1. Init => Tree!Init
    BY DEF Init, Tree!Init
<1>2. IInv /\ [Next]_vars => [Tree!Next]_(Tree!vars)
    BY TreeStep
<1> QED
    BY <1>1, <1>2, Invariant, PTL DEF Spec, ImplementsTree, Tree!Spec
=============================================================================
