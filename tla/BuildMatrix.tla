---------------------------- MODULE BuildMatrix ----------------------------
(***************************************************************************)
(* The scheduler of an all-profile build.sh: it keeps up to max_config      *)
(* builds going, each a build.sh child in a process group of its own, and   *)
(* stops them all when one of them fails or a signal arrives.  What such a  *)
(* child does to the profile it builds is left to ProfileLocks.             *)
(***************************************************************************)
EXTENDS Naturals, FiniteSets

CONSTANTS Configs,    \* CONFIG_IDS, in increasing order
          MaxBuilds,  \* max_config_builds
          None        \* no child

ASSUME ConfigsAssumption ==
    Configs \subseteq Nat /\ IsFiniteSet(Configs) /\ None \notin Configs
ASSUME MaxBuildsAssumption == MaxBuilds \in Nat \ {0}

VARIABLES
    pc,        \* where the parent is
    waiting,   \* the profiles from next_config on
    children,  \* build_children: the profiles whose child is registered
    fresh,     \* the profile of the child that is forked and not registered
    child,     \* child[c]: "none", "forked" (not yet a group leader), "builds",
               \*   "ok", "failed" or "stopped"
    reaped,    \* the children the parent has waited for
    status     \* exit status: "none", "ok", "failed", "signal" (a trap ran), or
               \*   "killed" (by a second signal, in the middle of the cleanup)

vars == <<pc, waiting, children, fresh, child, reaped, status>>

Alive(c) == child[c] \in {"forked", "builds"}

Init ==
    /\ pc = "loop"
    /\ waiting = Configs
    /\ children = {}
    /\ fresh = None
    /\ child = [c \in Configs |-> "none"]
    /\ reaped = {}
    /\ status = "none"

-----------------------------------------------------------------------------
(* The parent *)

MayLaunch == waiting # {} /\ Cardinality(children) < MaxBuilds

\* setsid build.sh --config=c &
Launch(c) ==
    /\ pc = "loop" /\ MayLaunch
    /\ c \in waiting /\ \A d \in waiting : c <= d
    /\ child' = [child EXCEPT ![c] = "forked"]
    /\ fresh' = c
    /\ pc' = "launched"
    /\ UNCHANGED <<waiting, children, reaped, status>>

\* build_children[$!]=c
Register ==
    /\ pc = "launched"
    /\ children' = children \cup {fresh}
    /\ waiting' = waiting \ {fresh}
    /\ fresh' = None
    /\ pc' = "loop"
    /\ UNCHANGED <<child, reaped, status>>

\* Mutant: the status of the child is lost.
WaitAnyLoses(c) ==
    /\ pc = "loop" /\ ~MayLaunch
    /\ c \in children /\ ~Alive(c)
    /\ children' = children \ {c}
    /\ reaped' = reaped \cup {c}
    /\ UNCHANGED <<pc, status, waiting, fresh, child>>

\* Mutant: the child stays in build_children.
WaitAnyKeeps(c) ==
    /\ pc = "loop" /\ ~MayLaunch
    /\ c \in children /\ ~Alive(c)
    /\ reaped' = reaped \cup {c}
    /\ \/ child[c] = "ok" /\ UNCHANGED <<pc, status>>
       \/ child[c] # "ok" /\ pc' = "cleanup" /\ status' = "failed"
    /\ UNCHANGED <<waiting, children, fresh, child>>

\* wait -n: any child that has ended.  A failure makes the parent exit, and
\* the EXIT trap runs.
WaitAny(c) ==
    /\ pc = "loop" /\ ~MayLaunch
    /\ c \in children /\ ~Alive(c)
    /\ children' = children \ {c}
    /\ reaped' = reaped \cup {c}
    /\ \/ /\ child[c] = "ok"
          /\ UNCHANGED <<pc, status>>
       \/ /\ child[c] # "ok"
          /\ pc' = "cleanup"
          /\ status' = "failed"
    /\ UNCHANGED <<waiting, fresh, child>>

\* Everything is built: the traps are removed and the parent exits 0.
Finish ==
    /\ pc = "loop"
    /\ waiting = {} /\ children = {}
    /\ pc' = "done"
    /\ status' = "ok"
    /\ UNCHANGED <<waiting, children, fresh, child, reaped>>

\* Mutant: no trap.
InterruptExits ==
    /\ pc \in {"loop", "launched"}
    /\ pc' = "done"
    /\ status' = "signal"
    /\ fresh' = None
    /\ UNCHANGED <<waiting, children, child, reaped>>

\* SIGINT or SIGTERM: the trap runs the cleanup.  A child that is not in
\* build_children is left behind.
Interrupt ==
    /\ pc \in {"loop", "launched"}
    /\ pc' = "cleanup"
    /\ status' = "signal"
    /\ fresh' = None
    /\ UNCHANGED <<waiting, children, child, reaped>>

\* The cleanup has removed the traps: a further signal kills the parent.
Killed ==
    /\ pc \in {"cleanup", "grace", "wait"}
    /\ pc' = "done"
    /\ status' = "killed"
    /\ UNCHANGED <<waiting, children, fresh, child, reaped>>

\* kill -TERM, to the groups that exist by now.
Terminate ==
    /\ pc = "cleanup"
    /\ \E gone \in SUBSET {c \in children : child[c] = "builds"} :
          child' = [c \in Configs |-> IF c \in gone THEN "stopped" ELSE child[c]]
    /\ pc' = "grace"
    /\ UNCHANGED <<waiting, children, fresh, reaped, status>>

\* The groups are gone, or ten seconds have passed: kill -KILL.  What has not
\* made a group is not killed.
Kill ==
    /\ pc = "grace"
    /\ child' = [c \in Configs |->
                    IF c \in children /\ child[c] = "builds" THEN "stopped"
                                                            ELSE child[c]]
    /\ pc' = "wait"
    /\ UNCHANGED <<waiting, children, fresh, reaped, status>>

\* Mutant: the killed children are not waited for.
WaitAllSkipped ==
    /\ pc = "wait"
    /\ pc' = "done"
    /\ UNCHANGED <<waiting, children, fresh, child, reaped, status>>

\* wait "$pid" for each child: after that the parent exits.
WaitAll ==
    /\ pc = "wait"
    /\ \A c \in children : ~Alive(c)
    /\ reaped' = reaped \cup children
    /\ pc' = "done"
    /\ UNCHANGED <<waiting, children, fresh, child, status>>

Parent ==
    \/ \E c \in Configs : Launch(c) \/ WaitAny(c)
    \/ Register \/ Finish \/ Terminate \/ Kill \/ WaitAll

-----------------------------------------------------------------------------
(* The children *)

\* setsid(2), and then the build.
Lead(c) ==
    /\ child[c] = "forked"
    /\ child' = [child EXCEPT ![c] = "builds"]
    /\ UNCHANGED <<pc, waiting, children, fresh, reaped, status>>

\* The build ends, or refuses to start because the profile is in use.
Build(c) ==
    /\ child[c] = "builds"
    /\ \E result \in {"ok", "failed"} : child' = [child EXCEPT ![c] = result]
    /\ UNCHANGED <<pc, waiting, children, fresh, reaped, status>>

Next ==
    \/ Parent \/ Interrupt \/ Killed
    \/ \E c \in Configs : Lead(c) \/ Build(c)

\* The parent runs; a child gets past its setsid, and a build comes to an end.
Spec ==
    /\ Init /\ [][Next]_vars
    /\ WF_vars(Parent)
    /\ \A c \in Configs : WF_vars(Lead(c)) /\ WF_vars(Build(c))

-----------------------------------------------------------------------------
(* Properties *)

\* Every variable has the shape the comments at its declaration give it.
TypeOK ==
    /\ pc \in {"loop", "launched", "cleanup", "grace", "wait", "done"}
    /\ waiting \subseteq Configs
    /\ children \subseteq Configs \ waiting
    /\ fresh \in Configs \cup {None} /\ (fresh # None <=> pc = "launched")
    /\ child \in [Configs -> {"none", "forked", "builds", "ok", "failed", "stopped"}]
    /\ reaped \subseteq Configs
    /\ status \in {"none", "ok", "failed", "signal", "killed"}

\* Never more children at once than the cores allow, the one that is not yet
\* registered included (build.sh, the inner launch loop).
BuildsBounded == Cardinality({c \in Configs : Alive(c)}) <= MaxBuilds

\* build.sh reports success only when every profile was built and waited for,
\* and a failure of any of them is not lost (build.sh, wait -n).
SuccessMeansAllBuilt ==
    status = "ok" => \A c \in Configs : child[c] = "ok" /\ c \in reaped

\* When the parent exits nothing goes on building.  Only a signal in the middle
\* of a launch leaves a build behind, that one and no other, or a second signal
\* during the cleanup; after a failed build every child has been stopped and
\* waited for (build.sh, "A configuration build failed; stopping the remaining
\* parallel builds.", build_children and cleanup_build_children).
LeftBehind ==
    pc = "done" /\ status # "killed" =>
        /\ \A c \in Configs : child[c] # "none" /\ c \notin reaped =>
              status = "signal" /\ c \notin children
        /\ \A c, d \in Configs : Alive(c) /\ Alive(d) => c = d

\* The parent always ends (build.sh, the scheduler and its cleanup).
BuildEnds == <>(pc = "done")

=============================================================================
