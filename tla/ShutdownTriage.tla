--------------------------- MODULE ShutdownTriage ---------------------------
(***************************************************************************)
(* Which sanitizer reports are the harness's own.  A lighttpd that is       *)
(* stopped by its supervisor (run.sh, cleanup) may leave a report of        *)
(* libFuzzer's exit hook behind; asanProcess.sh leaves it out of the        *)
(* aggregate when the supervisor has put a record beside it and the error   *)
(* log has the line of libFuzzer, under the same launch and pid.            *)
(*                                                                          *)
(* One profile.  The supervisor appends a marker to the error log before    *)
(* every launch and before it stops the child; lighttpd writes both files;  *)
(* logrotate empties the log, by this supervisor or another one;            *)
(* and the next campaign moves both away.  asanProcess.sh runs beside all   *)
(* of them: the supervisor of any profile starts it, and so does the user.  *)
(***************************************************************************)
EXTENDS Naturals, SequencesExt

CONSTANTS MaxLaunches,  \* bound: launches of the profile, in all campaigns
          Pids          \* process ids, used again and again

ASSUME TriageAssumption == MaxLaunches \in Nat /\ 0 \notin Pids

Launches == 1 .. MaxLaunches

VARIABLES
    sup,       \* the supervisor: "down", "errors" and "reports" (what it moves
               \*   away next), "launch", "up", "signal" (the marker of cleanup
               \*   is written), "wait"
    launch,    \* the number of the last launch, 0 before the first
    child,     \* whether fuzzer_pids has its process
    alive,     \* whether that process runs
    status,    \* how the process in the tables ended: "72", "137", or "other";
               \*   "none" while there is none, or it runs
    expected,  \* supervisor_stop_expected of the process, or "none"
    stopped,   \* history: launches whose process a cleanup has signalled
    pids,      \* pids[l]: the process of launch l, 0 before it
    said,      \* history: what the last process has printed
    log,       \* logs/errorN: a sequence of lines
    cut,       \* history: the log was emptied since the marker of cleanup
    reports,   \* reports[l]: the findings in the report of l: "exit", "error"
    here,      \* the launches with a report in logs/
    sidecars,  \* the launches with a .supervisor-stop beside it
    pc,        \* asanProcess.sh: "idle", "files", "error", "count"
    left,      \* the reports it has still to look at
    cur,       \* the one whose errors it looks for next, or 0
    cand,      \* harness_shutdown_candidates
    scan       \* what the scan of the error log has found

supVars == <<sup, launch, child, expected, stopped, sidecars>>
fileVars == <<log, cut, reports, here>>
procVars == <<alive, status, pids, said>>
triageVars == <<pc, left, cur, cand, scan>>
vars == <<supVars, fileVars, procVars, triageVars>>

Findings == {"exit", "error"}
Printed == {"exited", "deadly", "summary"}

\* A line of the error log.  "by" and "late" (printed by a process that was
\* signalled) are history: the log does not say them.
Marker(l) == [kind |-> "launch", id |-> l, by |-> l, late |-> FALSE]
Line(k) == [kind |-> k, id |-> IF k = "exited" THEN pids[launch] ELSE 0,
            by |-> launch, late |-> launch \in stopped]

\* A bug to check the properties with: identities without the launch.
KnownByPid(l, p, shutdown) == \E s \in shutdown : s[2] = p

\* The lookup of a diagnostic of libFuzzer.
Known(l, p, shutdown) == <<l, p>> \in shutdown

NoScan == [launch |-> 0, tail |-> FALSE, confirmed |-> {}, hidden |-> {}]

\* The awk program that scans an error log, line by line.
Read(shutdown, s, line) ==
    CASE line.kind = "launch" -> [s EXCEPT !.launch = line.id, !.tail = FALSE]
      [] line.kind = "exited" /\ Known(s.launch, line.id, shutdown) ->
            [s EXCEPT !.confirmed = @ \cup {<<s.launch, line.id>>},
                      !.hidden = @ \cup {line}, !.tail = TRUE]
      [] line.kind = "deadly" /\ s.tail -> [s EXCEPT !.hidden = @ \cup {line}]
      [] OTHER -> [s EXCEPT !.tail = FALSE]

ScanOf(shutdown, lines) ==
    FoldLeft(LAMBDA s, line : Read(shutdown, s, line), NoScan, lines)

Init ==
    /\ sup = "down" /\ launch = 0 /\ child = FALSE /\ alive = FALSE
    /\ status = "none" /\ expected = "none" /\ said = {}
    /\ stopped = {} /\ sidecars = {} /\ here = {}
    /\ pids = [l \in Launches |-> 0]
    /\ reports = [l \in Launches |-> {}]
    /\ log = <<>> /\ cut = FALSE
    /\ pc = "idle" /\ left = {} /\ cur = 0 /\ cand = {} /\ scan = NoScan

-----------------------------------------------------------------------------
(* The supervisor *)

StartCampaign ==
    /\ sup = "down"
    /\ sup' = "errors" /\ cut' = FALSE
    /\ UNCHANGED <<launch, child, expected, stopped, sidecars>>
    /\ UNCHANGED <<log, reports, here, procVars, triageVars>>

\* A bug to check the properties with: the reports are moved first.
ArchiveReportsFirst ==
    /\ \/ sup = "errors" /\ sup' = "reports" /\ here' = {} /\ UNCHANGED log
       \/ sup = "reports" /\ sup' = "launch" /\ log' = <<>> /\ UNCHANGED here
    /\ UNCHANGED <<launch, child, expected, stopped, sidecars, cut, reports>>
    /\ UNCHANGED <<procVars, triageVars>>

\* archive_previous_error_log, then archive_previous_sanitizer_logs.
Archive ==
    /\ \/ sup = "errors" /\ sup' = "reports" /\ log' = <<>> /\ UNCHANGED here
       \/ sup = "reports" /\ sup' = "launch" /\ here' = {} /\ UNCHANGED log
    /\ UNCHANGED <<launch, child, expected, stopped, sidecars, cut, reports>>
    /\ UNCHANGED <<procVars, triageVars>>

\* run_fuzzer, for the first launch of a campaign and for a restart.
Launch(p) ==
    /\ \/ sup = "launch" /\ log' = <<Marker(launch + 1)>>
       \/ sup = "up" /\ ~child /\ log' = Append(log, Marker(launch + 1))
    /\ launch < MaxLaunches
    /\ launch' = launch + 1
    /\ pids' = [pids EXCEPT ![launch + 1] = p]
    /\ sup' = "up" /\ child' = TRUE /\ alive' = TRUE /\ said' = {}
    /\ UNCHANGED <<status, expected, stopped, sidecars, cut, reports, here>>
    /\ UNCHANGED triageVars

\* The monitor loop has found that the process ended, and forgets it.
Reap ==
    /\ sup = "up" /\ child /\ ~alive
    /\ child' = FALSE /\ status' = "none"
    /\ UNCHANGED <<sup, launch, expected, stopped, sidecars>>
    /\ UNCHANGED <<alive, pids, said, fileVars, triageVars>>

\* A bug to check the properties with: cleanup writes no marker.
CleanupUnmarked ==
    /\ sup = "up"
    /\ sup' = IF child THEN "signal" ELSE "down"
    /\ cut' = FALSE
    /\ UNCHANGED <<launch, child, expected, stopped, sidecars, log, reports, here>>
    /\ UNCHANGED <<procVars, triageVars>>

\* cleanup: the marker for the child ...
Cleanup ==
    /\ sup = "up"
    /\ \/ ~child /\ sup' = "down" /\ UNCHANGED <<log, cut>>
       \/ /\ child /\ sup' = "signal"
          /\ log' = Append(log, Marker(launch)) /\ cut' = FALSE
    /\ UNCHANGED <<launch, child, expected, stopped, sidecars, reports, here>>
    /\ UNCHANGED <<procVars, triageVars>>

\* ... its signal, TERM or KILL by its build, which also succeeds on a process
\* that has ended and that bash has not waited for yet ...
Signal ==
    /\ sup = "signal"
    /\ sup' = "wait"
    /\ \/ /\ stopped' = stopped \cup {launch}
          /\ \/ expected' = "72" /\ UNCHANGED <<alive, status>>
             \/ /\ expected' = "137" /\ alive' = FALSE
                /\ status' = IF alive THEN "137" ELSE status
       \/ /\ ~alive
          /\ UNCHANGED <<stopped, expected, alive, status>>
    /\ UNCHANGED <<launch, child, sidecars, pids, said, fileVars, triageVars>>

\* ... and, when the process is gone, the record beside its report.
Record ==
    /\ sup = "wait" /\ ~alive
    /\ sup' = "down" /\ child' = FALSE
    /\ expected' = "none" /\ status' = "none"
    /\ sidecars' = IF expected = status /\ launch \in here
                   THEN sidecars \cup {launch} ELSE sidecars
    /\ UNCHANGED <<launch, stopped, alive, pids, said, fileVars, triageVars>>

-----------------------------------------------------------------------------
(* lighttpd and logrotate *)

\* A sanitizer of the process writes to its report, once per finding.
Report(k) ==
    /\ alive /\ k \notin reports[launch]
    /\ reports' = [reports EXCEPT ![launch] = @ \cup {k}]
    /\ here' = here \cup {launch}
    /\ UNCHANGED <<log, cut, supVars, procVars, triageVars>>

\* The process prints a line of a diagnostic, once (bound).  The summary is
\* that of the exit.
Say(k) ==
    /\ alive /\ k \notin said /\ (k = "summary" => "exited" \in said)
    /\ said' = said \cup {k}
    /\ log' = Append(log, Line(k))
    /\ UNCHANGED <<cut, reports, here, alive, status, pids, supVars, triageVars>>

Die(s) ==
    /\ alive
    /\ alive' = FALSE /\ status' = s
    /\ UNCHANGED <<pids, said, supVars, fileVars, triageVars>>

\* copytruncate of the error log.  (A report is left alone below 3 GB.)
Rotate ==
    /\ log # <<>>
    /\ log' = <<>> /\ cut' = (cut \/ sup \in {"signal", "wait"})
    /\ UNCHANGED <<reports, here, supVars, procVars, triageVars>>

-----------------------------------------------------------------------------
(* asanProcess.sh *)

Begin ==
    /\ pc = "idle"
    /\ pc' = "files" /\ left' = here
    /\ UNCHANGED <<cur, cand, scan, supVars, fileVars, procVars>>

\* A report that is there, has its record and shows the exit hook ...
CheckExit(l) ==
    /\ pc = "files" /\ l \in left
    /\ IF l \in here \cap sidecars /\ "exit" \in reports[l]
       THEN pc' = "error" /\ cur' = l
       ELSE UNCHANGED <<pc, cur>>
    /\ left' = left \ {l}
    /\ UNCHANGED <<cand, scan, supVars, fileVars, procVars>>

\* ... is a candidate unless a second look finds an error of AddressSanitizer.
\* A file that was moved away meanwhile shows none.
CheckError ==
    /\ pc = "error"
    /\ cand' = IF cur \notin here \/ "error" \notin reports[cur]
               THEN cand \cup {cur} ELSE cand
    /\ pc' = "files" /\ cur' = 0
    /\ UNCHANGED <<left, scan, supVars, fileVars, procVars>>

\* The scan of the error log, with the candidates' identities.
Shutdowns(S) == {<<l, pids[l]>> : l \in S}

ScanErrors ==
    /\ pc = "files" /\ left = {}
    /\ scan' = ScanOf(Shutdowns(cand), log)
    /\ pc' = "count"
    /\ UNCHANGED <<left, cur, cand, supVars, fileVars, procVars>>

\* The reports that are left out, and counted as "Harness shutdown".
LeftOut == {l \in cand : <<l, pids[l]>> \in scan.confirmed}

End ==
    /\ pc = "count"
    /\ pc' = "idle" /\ cand' = {} /\ scan' = NoScan
    /\ UNCHANGED <<left, cur, supVars, fileVars, procVars>>

-----------------------------------------------------------------------------
Next ==
    \/ StartCampaign \/ Archive \/ Reap \/ Cleanup \/ Signal \/ Record
    \/ \E p \in Pids : Launch(p)
    \/ \E k \in Findings : Report(k)
    \/ \E k \in Printed : Say(k)
    \/ \E s \in {"72", "137", "other"} : Die(s)
    \/ Rotate
    \/ Begin \/ CheckError \/ ScanErrors \/ End
    \/ \E l \in Launches : CheckExit(l)

Spec == Init /\ [][Next]_vars

-----------------------------------------------------------------------------
(* Properties *)

\* "only when the report has an exact-launch supervisor sidecar, the child
\* returned the expected supervised-stop status, and the PID matches the
\* libFuzzer diagnostic" (README.md, on the aggregate): a report that is left
\* out is of a process that the supervisor stopped, and has no error of
\* AddressSanitizer, even if a campaign starts while asanProcess.sh runs and
\* moves the files away between its steps.
OnlyShutdownsLeftOut ==
    pc = "count" => \A l \in LeftOut : l \in stopped /\ "error" \notin reports[l]

\* The same for the lines that are left out of the error log: they were
\* printed by such a process, not by an earlier one with the same pid.
OnlyShutdownLines ==
    \A line \in scan.hidden : line.by \in stopped /\ "error" \notin reports[line.by]

\* A stopped process that libFuzzer's exit hook has reported on is recognised
\* as such once the campaign is over: its line stands below the marker of its
\* launch, although logrotate may have emptied the log before the campaign was
\* stopped (run.sh, the marker of cleanup).
ShutdownRecognised ==
    \A l \in here \cap sidecars :
        /\ sup = "down" /\ ~cut /\ l = launch /\ reports[l] = {"exit"}
        /\ \E i \in DOMAIN log :
              log[i].kind = "exited" /\ log[i].by = l /\ log[i].late
        => <<l, pids[l]>> \in ScanOf(Shutdowns({l}), log).confirmed

=============================================================================
