-------------------------- MODULE BuildMatrixProofs --------------------------
(***************************************************************************)
(* Proofs about BuildMatrix, for any number of profiles and any limit.  The   *)
(* inductive invariant accounts for every profile: it waits, it has a child   *)
(* in build_children, or its child was waited for; the one exception is the   *)
(* child of a launch that a signal interrupted.                               *)
(***************************************************************************)
EXTENDS BuildMatrix, FiniteSetTheorems, TLAPS

\* The exit status is decided when the loop is left.
StatusOK ==
    /\ pc \in {"loop", "launched"} => status = "none"
    /\ pc \in {"cleanup", "grace", "wait"} => status \in {"failed", "signal"}
    /\ pc = "done" => status # "none"
    /\ status \in {"ok", "killed"} => pc = "done"

\* A registered child was started, what was waited for has ended, and while the
\* loop runs it has succeeded.
ReapedOK ==
    /\ \A c \in children : child[c] # "none"
    /\ pc = "launched" => child[fresh] # "none"
    /\ \A c \in reaped : child[c] \in {"ok", "failed", "stopped"}
    /\ status \in {"none", "ok"} => \A c \in reaped : child[c] = "ok"

\* A profile that still waits has no child, but for the launch that is not
\* registered: at most one, and none after a failure.
WaitingOK ==
    /\ pc = "loop" \/ status = "failed" => \A c \in waiting : child[c] = "none"
    /\ pc = "launched" => \A c \in waiting : child[c] # "none" => c = fresh
    /\ \A c, d \in waiting : child[c] # "none" /\ child[d] # "none" => c = d
    /\ pc = "launched" => fresh \in waiting

\* The other profiles are built or were waited for; in the end all were.
OthersOK ==
    /\ \A c \in Configs \ waiting : c \in children \cup reaped
    /\ status = "ok" => waiting = {} /\ children = {}
    /\ pc = "done" /\ status # "killed" => \A c \in Configs \ waiting : c \in reaped

\* There is room for the launch that is not registered.
RoomOK ==
    /\ Cardinality(children) <= MaxBuilds
    /\ \A c \in waiting : child[c] # "none" => Cardinality(children) < MaxBuilds

IInv == TypeOK /\ StatusOK /\ ReapedOK /\ WaitingOK /\ OthersOK /\ RoomOK

-----------------------------------------------------------------------------
(* The invariant is inductive *)

LEMMA InvInit == Init => IInv
BY FS_EmptySet, MaxBuildsAssumption
   DEF Init, IInv, TypeOK, StatusOK, ReapedOK, WaitingOK, OthersOK, RoomOK

\* The registered children are finitely many.
LEMMA ChildrenFinite ==
    ASSUME TypeOK
    PROVE  IsFiniteSet(children) /\ Cardinality(children) \in Nat
<1>1. children \in SUBSET Configs
    BY DEF TypeOK
<1>2. IsFiniteSet(children)
    BY <1>1, FS_Subset, ConfigsAssumption
<1> QED
    BY <1>2, FS_CardinalityType

\* A launch.
LEMMA LaunchStep == ASSUME IInv, NEW c \in Configs, Launch(c) PROVE IInv'
<1> USE ConfigsAssumption DEF IInv, TypeOK, Alive, MayLaunch, Launch
<1>0. c \in waiting /\ c # None /\ fresh' = c /\ pc' = "launched"
    OBVIOUS
<1>1. TypeOK'
    <2>1. child' \in [Configs -> {"none", "forked", "builds", "ok", "failed", "stopped"}]
        OBVIOUS
    <2>2. fresh' \in Configs \cup {None} /\ (fresh' # None <=> pc' = "launched")
        BY <1>0
    <2> QED
        BY <1>0, <2>1, <2>2
<1>2. StatusOK'
    BY DEF StatusOK
<1>3. ReapedOK'
    BY DEF StatusOK, ReapedOK, WaitingOK
<1>4. WaitingOK'
    BY DEF StatusOK, ReapedOK, WaitingOK
<1>5. OthersOK'
    BY DEF StatusOK, WaitingOK, OthersOK
<1>6. RoomOK'
    BY FS_CardinalityType DEF RoomOK, WaitingOK
<1> QED
    BY <1>1, <1>2, <1>3, <1>4, <1>5, <1>6

\* The launched child is registered.
LEMMA RegisterStep == ASSUME IInv, Register PROVE IInv'
<1> USE ConfigsAssumption DEF IInv, TypeOK, Alive, MayLaunch, Register
<1>1. TypeOK'
    OBVIOUS
<1>2. StatusOK'
    BY DEF StatusOK
<1>3. ReapedOK'
    BY DEF StatusOK, ReapedOK, WaitingOK
<1>4. WaitingOK'
    BY DEF StatusOK, ReapedOK, WaitingOK
<1>5. OthersOK'
    BY DEF StatusOK, WaitingOK, OthersOK
<1>6. RoomOK'
    <2>1. /\ Cardinality(children) \in Nat
          /\ Cardinality(children') \in {Cardinality(children), Cardinality(children) + 1}
        BY ChildrenFinite, FS_AddElement
    <2>2. Cardinality(children) < MaxBuilds
        BY DEF ReapedOK, WaitingOK, RoomOK
    <2>3. \A c \in waiting' : child'[c] = "none"
        BY DEF WaitingOK
    <2>4. Cardinality(children') <= MaxBuilds
        BY <2>1, <2>2, MaxBuildsAssumption
    <2> QED
        BY <2>3, <2>4 DEF RoomOK
<1> QED
    BY <1>1, <1>2, <1>3, <1>4, <1>5, <1>6

\* A child is waited for in the loop.
LEMMA WaitAnyStep == ASSUME IInv, NEW c \in Configs, WaitAny(c) PROVE IInv'
<1> USE ConfigsAssumption DEF IInv, TypeOK, Alive, MayLaunch, WaitAny
<1>1. TypeOK'
    OBVIOUS
<1>2. StatusOK'
    BY DEF StatusOK
<1>3. ReapedOK'
    BY DEF StatusOK, ReapedOK, WaitingOK
<1>4. WaitingOK'
    BY DEF StatusOK, ReapedOK, WaitingOK
<1>5. OthersOK'
    BY DEF StatusOK, WaitingOK, OthersOK
<1>6. RoomOK'
    <2>1. /\ Cardinality(children) \in Nat
          /\ Cardinality(children') \in {Cardinality(children), Cardinality(children) - 1}
        BY ChildrenFinite, FS_RemoveElement
    <2>2. Cardinality(children) <= MaxBuilds
        BY DEF RoomOK
    <2>3. \A d \in waiting' : child'[d] = "none"
        BY DEF WaitingOK
    <2>4. Cardinality(children') <= MaxBuilds
        BY <2>1, <2>2, MaxBuildsAssumption
    <2> QED
        BY <2>3, <2>4 DEF RoomOK
<1> QED
    BY <1>1, <1>2, <1>3, <1>4, <1>5, <1>6

\* Every profile is built.
LEMMA FinishStep == ASSUME IInv, Finish PROVE IInv'
<1> USE ConfigsAssumption DEF IInv, TypeOK, Alive, MayLaunch, Finish
<1>1. TypeOK'
    OBVIOUS
<1>2. StatusOK'
    BY DEF StatusOK
<1>3. ReapedOK'
    BY DEF StatusOK, ReapedOK, WaitingOK
<1>4. WaitingOK'
    BY DEF StatusOK, ReapedOK, WaitingOK
<1>5. OthersOK'
    BY DEF StatusOK, WaitingOK, OthersOK
<1>6. RoomOK'
    BY DEF RoomOK
<1> QED
    BY <1>1, <1>2, <1>3, <1>4, <1>5, <1>6

\* A signal in the loop.
LEMMA InterruptStep == ASSUME IInv, Interrupt PROVE IInv'
<1> USE ConfigsAssumption DEF IInv, TypeOK, Alive, MayLaunch, Interrupt
<1>1. TypeOK'
    OBVIOUS
<1>2. StatusOK'
    BY DEF StatusOK
<1>3. ReapedOK'
    BY DEF StatusOK, ReapedOK, WaitingOK
<1>4. WaitingOK'
    BY DEF StatusOK, ReapedOK, WaitingOK
<1>5. OthersOK'
    BY DEF StatusOK, WaitingOK, OthersOK
<1>6. RoomOK'
    BY DEF RoomOK
<1> QED
    BY <1>1, <1>2, <1>3, <1>4, <1>5, <1>6

\* A signal in the cleanup.
LEMMA KilledStep == ASSUME IInv, Killed PROVE IInv'
<1> USE ConfigsAssumption DEF IInv, TypeOK, Alive, MayLaunch, Killed
<1>1. TypeOK'
    OBVIOUS
<1>2. StatusOK'
    BY DEF StatusOK
<1>3. ReapedOK'
    BY DEF StatusOK, ReapedOK, WaitingOK
<1>4. WaitingOK'
    BY DEF StatusOK, ReapedOK, WaitingOK
<1>5. OthersOK'
    BY DEF StatusOK, WaitingOK, OthersOK
<1>6. RoomOK'
    BY DEF RoomOK
<1> QED
    BY <1>1, <1>2, <1>3, <1>4, <1>5, <1>6

\* The groups are terminated.
LEMMA TerminateStep == ASSUME IInv, Terminate PROVE IInv'
<1> USE ConfigsAssumption DEF IInv, TypeOK, Alive, MayLaunch, Terminate
<1>1. TypeOK'
    OBVIOUS
<1>2. StatusOK'
    BY DEF StatusOK
<1>3. ReapedOK'
    BY DEF StatusOK, ReapedOK, WaitingOK
<1>4. WaitingOK'
    BY DEF StatusOK, ReapedOK, WaitingOK
<1>5. OthersOK'
    BY DEF StatusOK, WaitingOK, OthersOK
<1>6. RoomOK'
    BY DEF RoomOK
<1> QED
    BY <1>1, <1>2, <1>3, <1>4, <1>5, <1>6

\* The groups are killed.
LEMMA KillStep == ASSUME IInv, Kill PROVE IInv'
<1> USE ConfigsAssumption DEF IInv, TypeOK, Alive, MayLaunch, Kill
<1>1. TypeOK'
    OBVIOUS
<1>2. StatusOK'
    BY DEF StatusOK
<1>3. ReapedOK'
    BY DEF StatusOK, ReapedOK, WaitingOK
<1>4. WaitingOK'
    BY DEF StatusOK, ReapedOK, WaitingOK
<1>5. OthersOK'
    BY DEF StatusOK, WaitingOK, OthersOK
<1>6. RoomOK'
    BY DEF RoomOK
<1> QED
    BY <1>1, <1>2, <1>3, <1>4, <1>5, <1>6

\* The cleanup waits for its children.
LEMMA WaitAllStep == ASSUME IInv, WaitAll PROVE IInv'
<1> USE ConfigsAssumption DEF IInv, TypeOK, Alive, MayLaunch, WaitAll
<1>1. TypeOK'
    OBVIOUS
<1>2. StatusOK'
    BY DEF StatusOK
<1>3. ReapedOK'
    BY DEF StatusOK, ReapedOK, WaitingOK
<1>4. WaitingOK'
    BY DEF StatusOK, ReapedOK, WaitingOK
<1>5. OthersOK'
    BY DEF StatusOK, WaitingOK, OthersOK
<1>6. RoomOK'
    BY DEF RoomOK
<1> QED
    BY <1>1, <1>2, <1>3, <1>4, <1>5, <1>6

\* A child makes its group.
LEMMA LeadStep == ASSUME IInv, NEW c \in Configs, Lead(c) PROVE IInv'
<1> USE ConfigsAssumption DEF IInv, TypeOK, Alive, MayLaunch, Lead
<1>1. TypeOK'
    OBVIOUS
<1>2. StatusOK'
    BY DEF StatusOK
<1>3. ReapedOK'
    BY DEF StatusOK, ReapedOK, WaitingOK
<1>4. WaitingOK'
    BY DEF StatusOK, ReapedOK, WaitingOK
<1>5. OthersOK'
    BY DEF StatusOK, WaitingOK, OthersOK
<1>6. RoomOK'
    BY DEF RoomOK
<1> QED
    BY <1>1, <1>2, <1>3, <1>4, <1>5, <1>6

\* A build ends.
LEMMA BuildStep == ASSUME IInv, NEW c \in Configs, Build(c) PROVE IInv'
<1> USE ConfigsAssumption DEF IInv, TypeOK, Alive, MayLaunch, Build
<1>1. TypeOK'
    OBVIOUS
<1>2. StatusOK'
    BY DEF StatusOK
<1>3. ReapedOK'
    BY DEF StatusOK, ReapedOK, WaitingOK
<1>4. WaitingOK'
    BY DEF StatusOK, ReapedOK, WaitingOK
<1>5. OthersOK'
    BY DEF StatusOK, WaitingOK, OthersOK
<1>6. RoomOK'
    BY DEF RoomOK
<1> QED
    BY <1>1, <1>2, <1>3, <1>4, <1>5, <1>6

LEMMA InvStep == IInv /\ [Next]_vars => IInv'
<1> SUFFICES ASSUME IInv, [Next]_vars PROVE IInv'
    OBVIOUS
<1>1. CASE UNCHANGED vars
    BY <1>1 DEF vars, IInv, TypeOK, StatusOK, ReapedOK, WaitingOK, OthersOK, RoomOK
<1>2. CASE Parent
    BY <1>2, LaunchStep, RegisterStep, WaitAnyStep, FinishStep, TerminateStep,
       KillStep, WaitAllStep DEF Parent
<1>3. CASE Interrupt \/ Killed
    BY <1>3, InterruptStep, KilledStep
<1>4. ASSUME NEW c \in Configs, Lead(c) \/ Build(c) PROVE IInv'
    BY <1>4, LeadStep, BuildStep
<1> QED
    BY <1>1, <1>2, <1>3, <1>4 DEF Next

-----------------------------------------------------------------------------
(* The theorems *)

\* The invariant holds in every state of the scheduler.
THEOREM Invariant == Spec => []IInv
BY InvInit, InvStep, PTL DEF Spec

\* Every variable of the scheduler keeps its type.
THEOREM TypeCorrect == Spec => []TypeOK
<1>1. IInv => TypeOK
    BY DEF IInv
<1> QED
    BY Invariant, <1>1, PTL

\* Never more builds at once than allowed, the one that is not yet registered
\* included (build.sh, the inner launch loop).
THEOREM NeverTooMany == Spec => []BuildsBounded
<1>1. IInv => BuildsBounded
    <2> SUFFICES ASSUME IInv PROVE BuildsBounded
        OBVIOUS
    <2> DEFINE Going == {c \in Configs : Alive(c)}
    <2>1. IsFiniteSet(children) /\ Cardinality(children) \in Nat
        BY ChildrenFinite DEF IInv
    <2>2. \A c \in Going : c \in children \/ (c \in waiting /\ child[c] # "none")
        BY DEF IInv, TypeOK, ReapedOK, OthersOK, Alive
    <2>3. CASE \E d \in waiting : child[d] # "none"
        <3>1. PICK d \in waiting : child[d] # "none"
            BY <2>3
        <3>2. Going \in SUBSET (children \cup {d})
            BY <2>2, <3>1 DEF IInv, WaitingOK
        <3>3. /\ IsFiniteSet(children \cup {d})
              /\ Cardinality(children \cup {d}) =
                    IF d \in children THEN Cardinality(children) ELSE Cardinality(children) + 1
            BY <2>1, FS_AddElement
        <3>4. IsFiniteSet(Going) /\ Cardinality(Going) <= Cardinality(children \cup {d})
            BY <3>2, <3>3, FS_Subset
        <3>5. Cardinality(Going) \in Nat
            BY <3>4, FS_CardinalityType
        <3> HIDE DEF Going
        <3>6. Cardinality(Going) <= MaxBuilds
            BY <2>1, <3>1, <3>3, <3>4, <3>5, MaxBuildsAssumption DEF IInv, RoomOK
        <3> QED
            BY <3>6 DEF BuildsBounded, Going
    <2>4. CASE \A d \in waiting : child[d] = "none"
        <3>1. Going \in SUBSET children
            BY <2>2, <2>4
        <3>2. IsFiniteSet(Going) /\ Cardinality(Going) <= Cardinality(children)
            BY <2>1, <3>1, FS_Subset
        <3>3. Cardinality(Going) \in Nat
            BY <3>2, FS_CardinalityType
        <3> HIDE DEF Going
        <3>4. Cardinality(Going) <= MaxBuilds
            BY <2>1, <3>2, <3>3, MaxBuildsAssumption DEF IInv, RoomOK
        <3> QED
            BY <3>4 DEF BuildsBounded, Going
    <2> QED
        BY <2>3, <2>4
<1> QED
    BY Invariant, <1>1, PTL

\* An all-profile build that reports success built and waited for every profile
\* (build.sh, wait -n: the failure of a build is not lost).
THEOREM SuccessIsTrue == Spec => []SuccessMeansAllBuilt
<1>1. IInv => SuccessMeansAllBuilt
    BY DEF IInv, TypeOK, ReapedOK, OthersOK, SuccessMeansAllBuilt
<1> QED
    BY Invariant, <1>1, PTL

\* When the scheduler ends nothing goes on building, but for the one launch that
\* a signal interrupted (build.sh, cleanup_build_children).
THEOREM OneBuildLeft == Spec => []LeftBehind
<1>1. IInv => LeftBehind
    BY DEF IInv, TypeOK, StatusOK, ReapedOK, WaitingOK, OthersOK, Alive, LeftBehind
<1> QED
    BY Invariant, <1>1, PTL

=============================================================================
