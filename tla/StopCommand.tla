---------------------------- MODULE StopCommand ----------------------------
(***************************************************************************)
(* run.sh --stop: it looks through /proc for the other processes of run.sh, *)
(* sends each of them SIGTERM and waits, for at most twenty seconds, until  *)
(* they are gone.  It tells them by an argument that is the full path of    *)
(* run.sh, or run.sh or ./run.sh in a process that runs in the checkout.  A *)
(* second --stop that runs at the same time may look like a campaign, and   *)
(* it sets no trap; a campaign started by another path looks like nothing.  *)
(*                                                                          *)
(* Processes are numbered by pid: both loops go through them in one order.  *)
(* What a campaign does with the signal is left to Supervisor: it cleans up *)
(* and ends, or takes too long.                                             *)
(***************************************************************************)
EXTENDS Naturals

CONSTANTS Stops,      \* run.sh --stop invocations
          Campaigns   \* run.sh supervisors

ASSUME PidsAssumption == Stops \cup Campaigns \subseteq Nat /\ Stops \cap Campaigns = {}

VARIABLES
    state,   \* state[x]: "none" (not started), "running", "cleanup" (a campaign
             \*   that was signalled), or "gone"
    term,    \* the processes with a SIGTERM they have not yet noticed
    place,   \* where each stop is
    left,    \* what its loop still has to go through
    found,   \* supervisors
    before,  \* before[t]: the campaigns that were running when t started
    named    \* the processes whose command line and working directory
             \*   is_campaign_supervisor recognises: fixed by how each is started

stopVars == <<state, term, place, left, found, before, named>>

Procs == Stops \cup Campaigns
Up(x) == state[x] \in {"running", "cleanup"}
First(x, S) == x \in S /\ \A y \in S : x <= y
MoveTo(t, label) == place' = [place EXCEPT ![t] = label]

StopInit ==
    /\ state = [x \in Procs |-> "none"]
    /\ term = {}
    /\ place = [t \in Stops |-> "idle"]
    /\ left = [t \in Stops |-> {}]
    /\ found = [t \in Stops |-> {}]
    /\ before = [t \in Stops |-> {}]
    /\ named \in SUBSET Procs

-----------------------------------------------------------------------------
(* stop_campaigns *)

\* The command is given.
Command(t) ==
    /\ state[t] = "none"
    /\ state' = [state EXCEPT ![t] = "running"]
    /\ before' = [before EXCEPT ![t] = {x \in Campaigns : Up(x)}]
    /\ MoveTo(t, "glob")
    /\ UNCHANGED <<term, left, found, named>>

\* The glob /proc/[0-9]* fixes which processes are looked at.  The command
\* leaves itself out.
Glob(t) ==
    /\ place[t] = "glob" /\ state[t] = "running"
    /\ left' = [left EXCEPT ![t] = {x \in Procs \ {t} : Up(x)}]
    /\ MoveTo(t, "scan")
    /\ UNCHANGED <<state, term, found, before, named>>

\* is_campaign_supervisor, which does not tell a campaign from a --stop, and
\* knows neither if it was started by another path.
Scan(t) ==
    /\ place[t] = "scan" /\ state[t] = "running"
    /\ \/ \E x \in left[t] :
             /\ First(x, left[t])
             /\ left' = [left EXCEPT ![t] = @ \ {x}]
             /\ found' = [found EXCEPT ![t] = IF Up(x) /\ x \in named THEN @ \cup {x} ELSE @]
             /\ UNCHANGED <<place, state>>
       \/ /\ left[t] = {} /\ found[t] # {}
          /\ left' = [left EXCEPT ![t] = found[t]]
          /\ MoveTo(t, "signal")
          /\ UNCHANGED <<found, state>>
       \/ /\ left[t] = {} /\ found[t] = {}
          /\ MoveTo(t, "stopped")
          /\ state' = [state EXCEPT ![t] = "gone"]
          /\ UNCHANGED <<left, found>>
    /\ UNCHANGED <<term, before, named>>

\* A bug to check the properties with: a kill that fails ends the loop.
SignalUntilError(t) ==
    /\ place[t] = "signal" /\ state[t] = "running"
    /\ \/ \E x \in left[t] :
             /\ First(x, left[t])
             /\ left' = [left EXCEPT ![t] = IF Up(x) THEN @ \ {x} ELSE {}]
             /\ term' = IF Up(x) THEN term \cup {x} ELSE term
             /\ UNCHANGED place
       \/ /\ left[t] = {}
          /\ MoveTo(t, "wait")
          /\ UNCHANGED <<left, term>>
    /\ UNCHANGED <<state, found, before, named>>

\* kill -TERM, which fails for a process that is gone.
Signal(t) ==
    /\ place[t] = "signal" /\ state[t] = "running"
    /\ \/ \E x \in left[t] :
             /\ First(x, left[t])
             /\ left' = [left EXCEPT ![t] = @ \ {x}]
             /\ term' = IF Up(x) THEN term \cup {x} ELSE term
             /\ UNCHANGED place
       \/ /\ left[t] = {}
          /\ MoveTo(t, "wait")
          /\ UNCHANGED <<left, term>>
    /\ UNCHANGED <<state, found, before, named>>

\* Bugs to check the properties with: no look at the supervisors after the
\* deadline; no deadline; and no return after the failure.
WaitUnchecked(t) ==
    /\ place[t] = "wait" /\ state[t] = "running"
    /\ MoveTo(t, "stopped")
    /\ state' = [state EXCEPT ![t] = "gone"]
    /\ UNCHANGED <<term, left, found, before, named>>

\* All of them are gone, or twenty seconds have passed and one is not.
Wait(t) ==
    /\ place[t] = "wait" /\ state[t] = "running"
    /\ \/ /\ \A x \in found[t] : ~Up(x)
          /\ MoveTo(t, "stopped")
       \/ /\ \E x \in found[t] : Up(x)
          /\ MoveTo(t, "failed")
    /\ state' = [state EXCEPT ![t] = "gone"]
    /\ UNCHANGED <<term, left, found, before, named>>

\* A --stop dies of the SIGTERM of another one.
Dies(t) ==
    /\ t \in term /\ state[t] = "running"
    /\ state' = [state EXCEPT ![t] = "gone"]
    /\ term' = term \ {t}
    /\ MoveTo(t, "killed")
    /\ UNCHANGED <<left, found, before, named>>

-----------------------------------------------------------------------------
(* The campaigns *)

StartCampaign(s) ==
    /\ state[s] = "none"
    /\ state' = [state EXCEPT ![s] = "running"]
    /\ UNCHANGED <<term, place, left, found, before, named>>

\* The TERM trap, or an exit of its own.  From then on SIGTERM is ignored.
CleanUp(s) ==
    /\ state[s] = "running"
    /\ state' = [state EXCEPT ![s] = "cleanup"]
    /\ UNCHANGED <<term, place, left, found, before, named>>

\* The end of the cleanup, or a crash.
EndCampaign(s) ==
    /\ Up(s)
    /\ state' = [state EXCEPT ![s] = "gone"]
    /\ UNCHANGED <<term, place, left, found, before, named>>

StopStep(t) == Glob(t) \/ Scan(t) \/ Signal(t) \/ Wait(t) \/ Dies(t)

StopNext ==
    \/ \E t \in Stops : Command(t) \/ StopStep(t)
    \/ \E s \in Campaigns : StartCampaign(s) \/ CleanUp(s) \/ EndCampaign(s)

StopSpec == StopInit /\ [][StopNext]_stopVars

-----------------------------------------------------------------------------
(* Properties *)

\* Every variable has the shape the comments at its declaration give it; a
\* stop is up exactly while it is at work.
StopTypeOK ==
    /\ state \in [Procs -> {"none", "running", "cleanup", "gone"}]
    /\ term \subseteq Procs
    /\ place \in [Stops -> {"idle", "glob", "scan", "signal", "wait", "stopped",
                            "failed", "killed"}]
    /\ left \in [Stops -> SUBSET Procs]
    /\ found \in [Stops -> SUBSET Procs]
    /\ before \in [Stops -> SUBSET Campaigns]
    /\ named \subseteq Procs
    /\ \A t \in Stops : Up(t) <=> place[t] \in {"glob", "scan", "signal", "wait"}

\* "Stopped N campaign supervisor(s)." and "No running campaigns found." are
\* never said too early: every campaign that was running when the command
\* started, and that its command line gives away, is gone (run.sh,
\* is_campaign_supervisor and stop_campaigns).
ReportIsTrue ==
    \A t \in Stops : place[t] = "stopped" =>
        \A s \in before[t] \cap named : state[s] = "gone"

\* A command that runs to its end misses no campaign that its command line
\* gives away, even if it gives up waiting: each was sent the signal, or was
\* gone before (run.sh, stop_campaigns).
NoneMissed ==
    \A t \in Stops : place[t] = "failed" =>
        \A s \in before[t] \cap named : s \in term \/ state[s] = "gone"

=============================================================================
