---------------------------- MODULE RuntimeTree ----------------------------
(***************************************************************************)
(* What run.sh and build.sh together promise about the runtime tree        *)
(* run/run_N of a profile N: it is used by the lighttpd processes started   *)
(* from it, or it is being replaced by one build, and never both.  README   *)
(* ("It refuses to build or stage a selected profile while that profile is  *)
(* running, so a build cannot terminate an active campaign") states the     *)
(* promise; ProfileLocks is the mechanism and implements this module.       *)
(***************************************************************************)

CONSTANTS Configs,  \* the profiles
          Pids,     \* the processes that may run from a tree
          Builds    \* the builds that may replace a tree

VARIABLES users,    \* users[c]: the processes running from the tree of c
          writers   \* writers[c]: the builds replacing the tree of c

vars == <<users, writers>>

\* Processes may already run when the observation starts; no build is active.
Init ==
    /\ users \in [Configs -> SUBSET Pids]
    /\ writers = [c \in Configs |-> {}]

\* A process may start from a tree that nobody is replacing.
Enter(c, p) ==
    /\ writers[c] = {}
    /\ users' = [users EXCEPT ![c] = @ \cup {p}]
    /\ UNCHANGED writers

\* A process ends.
Leave(c, p) ==
    /\ users' = [users EXCEPT ![c] = @ \ {p}]
    /\ UNCHANGED writers

\* A build may start replacing a tree that nobody runs from or replaces.
Begin(c, b) ==
    /\ users[c] = {}
    /\ writers[c] = {}
    /\ writers' = [writers EXCEPT ![c] = {b}]
    /\ UNCHANGED users

\* A build ends, whether it succeeded or not.
End(c, b) ==
    /\ b \in writers[c]
    /\ writers' = [writers EXCEPT ![c] = @ \ {b}]
    /\ UNCHANGED users

Next ==
    \E c \in Configs :
        \/ \E p \in Pids   : Enter(c, p) \/ Leave(c, p)
        \/ \E b \in Builds : Begin(c, b) \/ End(c, b)

Spec == Init /\ [][Next]_vars
=============================================================================
