---------------------------- MODULE CorpusWriter ----------------------------
(***************************************************************************)
(* The shared corpus directory: runs of normalize-corpus-flags.py, beside     *)
(* each other and beside libFuzzer.  Every build ends with a run that only    *)
(* adds the seeds (build.sh, stage_runtime), and --config=all builds in       *)
(* parallel; the user starts full runs, which rewrite what is not normalized. *)
(* libFuzzer writes the units it finds in place and removes them when it has  *)
(* found smaller ones; a run may be killed anywhere.                          *)
(*                                                                           *)
(* A path is a sequence: the name of a file, then the pid of each writer      *)
(* whose temporary file it is.  Of a content only this matters: "raw" is not  *)
(* normalized, and becomes "norm" or, under the name of a seed, perhaps the    *)
(* bytes of that "seed"; what was read of a file being written is "part", and  *)
(* "odd" if normalize put a control byte before it.  libFuzzer also keeps      *)
(* units that are not normalized, those with other flags than the harness     *)
(* looks at; that it finds the very bytes of a seed is left out.               *)
(***************************************************************************)
EXTENDS Naturals, Sequences, FiniteSets

CONSTANTS
    Writers,  \* pids of runs
    Seeds,    \* the names of the seeds: their SHA-1
    Units,    \* the names of the other units
    None      \* no path

ASSUME NameAssumption == Seeds \cap Units = {} /\ None \notin Writers

Names == Seeds \cup Units
Paths == {<<n>> : n \in Names} \cup (Names \X Writers) \cup (Names \X Writers \X Writers)

VARIABLES
    files,    \* files[p]: what is at p, or "absent"
    mode,     \* mode[w]: "seeds" for --seeds-only, or "full"
    pc,       \* where each run is
    todo,     \* the paths it has listed and not yet looked at
    left,     \* the seeds it has still to look at
    path,     \* the path it is at, or None
    data,     \* what it is to write there
    own,      \* those whose temporary is still the file they opened
    growing,  \* the units libFuzzer is writing
    found,    \* history: the units libFuzzer has created
    wrote,    \* history: what it wrote there, "raw" or "norm"
    removed,  \* history: the names that were removed
    reverted, \* history: <<w, s>> if run w put what it had read under the name
              \*   of seed s back over the seed
    meddled   \* history: a full run took what another was writing for a unit

runVars == <<pc, todo, left, path, data, own>>
fuzzVars == <<growing, found, wrote>>
vars == <<files, mode, runVars, fuzzVars, removed, reverted, meddled>>

Init ==
    /\ files \in {[p \in Paths |-> IF Len(p) = 1 THEN f[p[1]] ELSE "absent"] :
                  f \in [Names -> {"absent", "raw", "norm"}]}
    /\ mode \in [Writers -> {"seeds", "full"}]
    /\ pc = [w \in Writers |-> "start"]
    /\ todo = [w \in Writers |-> {}]
    /\ left = [w \in Writers |-> Seeds]
    /\ path = [w \in Writers |-> None]
    /\ data = [w \in Writers |-> "absent"]
    /\ own = {} /\ growing = {} /\ found = {} /\ wrote = [u \in Units |-> "none"]
    /\ removed = {} /\ reverted = {} /\ meddled = FALSE

At(w, label) == pc[w] = label
Goto(w, label) == pc' = [pc EXCEPT ![w] = label]

\* A bug to check the properties with: all runs use the same temporary.
TempShared(w) == Append(path[w], CHOOSE v \in Writers : TRUE)

\* The temporary file of run w for the path it is at (atomic_write).
Temp(w) == Append(path[w], w)

-----------------------------------------------------------------------------
(* main *)

\* A bug to check the properties with: seeds-only runs rewrite units as well.
ListAlways(w) ==
    /\ At(w, "start")
    /\ todo' = [todo EXCEPT ![w] = {p \in Paths : files[p] # "absent"}]
    /\ Goto(w, "scan")
    /\ UNCHANGED <<files, mode, left, path, data, own, fuzzVars, removed, reverted, meddled>>

\* rglob lists everything, the temporary files of others too.
List(w) ==
    /\ At(w, "start")
    /\ \/ mode[w] = "seeds" /\ Goto(w, "seeds") /\ UNCHANGED todo
       \/ /\ mode[w] = "full"
          /\ todo' = [todo EXCEPT ![w] = {p \in Paths : files[p] # "absent"}]
          /\ Goto(w, "scan")
    /\ UNCHANGED <<files, mode, left, path, data, own, fuzzVars, removed, reverted, meddled>>

\* is_file: what is gone by now is passed over.
Look(w) ==
    /\ At(w, "scan") /\ todo[w] # {}
    /\ \E p \in todo[w] :
          /\ todo' = [todo EXCEPT ![w] = @ \ {p}]
          /\ \/ files[p] = "absent" /\ UNCHANGED <<pc, path>>
             \/ /\ files[p] # "absent"
                /\ path' = [path EXCEPT ![w] = p] /\ Goto(w, "read")
    /\ UNCHANGED <<files, mode, left, data, own, fuzzVars, removed, reverted, meddled>>

\* What normalize may make of a content at p.
Normalize(p, content) ==
    CASE content = "raw" /\ p[1] \in Seeds -> {"norm", "seed"}
      [] content = "raw" /\ p[1] \notin Seeds -> {"norm"}
      [] content = "part" -> {"part", "odd"}
      [] OTHER -> {content}

\* Somebody has the file at p open and is writing it.
BeingWritten(p) == (\E u \in growing : p = <<u>>) \/ (\E v \in own : p = Temp(v))

\* read_bytes: an exception if the file has gone since; then normalize.
Read(w) ==
    /\ At(w, "read")
    /\ \/ /\ files[path[w]] = "absent" /\ Goto(w, "failed")
          /\ UNCHANGED <<data, meddled>>
       \/ /\ files[path[w]] # "absent"
          /\ \E content \in Normalize(path[w], files[path[w]]) :
                /\ data' = [data EXCEPT ![w] = content]
                /\ Goto(w, IF content = files[path[w]] THEN "scan" ELSE "open")
          /\ meddled' = (meddled \/ (mode[w] = "full" /\ BeingWritten(path[w])))
    /\ UNCHANGED <<files, mode, todo, left, path, own, fuzzVars, removed, reverted>>

EndScan(w) ==
    /\ At(w, "scan") /\ todo[w] = {}
    /\ Goto(w, "seeds")
    /\ UNCHANGED <<files, mode, todo, left, path, data, own, fuzzVars, removed, reverted, meddled>>

\* A bug to check the properties with: a file of that name is enough.
LookSeedName(w) ==
    /\ At(w, "seeds") /\ left[w] # {}
    /\ \E s \in left[w] :
          /\ left' = [left EXCEPT ![w] = @ \ {s}]
          /\ path' = [path EXCEPT ![w] = <<s>>]
          /\ data' = [data EXCEPT ![w] = "seed"]
          /\ Goto(w, IF files[<<s>>] = "absent" THEN "open" ELSE "seeds")
    /\ UNCHANGED <<files, mode, todo, own, fuzzVars, removed, reverted, meddled>>

\* The next seed: exists().
LookSeed(w) ==
    /\ At(w, "seeds") /\ left[w] # {}
    /\ \E s \in left[w] :
          /\ left' = [left EXCEPT ![w] = @ \ {s}]
          /\ path' = [path EXCEPT ![w] = <<s>>]
          /\ data' = [data EXCEPT ![w] = "seed"]
          /\ Goto(w, IF files[<<s>>] = "absent" THEN "open" ELSE "compare")
    /\ UNCHANGED <<files, mode, todo, own, fuzzVars, removed, reverted, meddled>>

\* And read_bytes.
Compare(w) ==
    /\ At(w, "compare")
    /\ Goto(w, CASE files[path[w]] = "absent" -> "failed"
                 [] files[path[w]] = "seed" -> "seeds"
                 [] OTHER -> "open")
    /\ UNCHANGED <<files, mode, todo, left, path, data, own, fuzzVars, removed, reverted, meddled>>

EndSeeds(w) ==
    /\ At(w, "seeds") /\ left[w] = {}
    /\ Goto(w, "done")
    /\ UNCHANGED <<files, mode, todo, left, path, data, own, fuzzVars, removed, reverted, meddled>>

-----------------------------------------------------------------------------
(* atomic_write *)

\* What another writer had open under p is now a file without a name.
Lose(p) == {v \in own : Temp(v) # p}

OpenTemp(w) ==
    /\ At(w, "open") /\ Temp(w) \in Paths
    /\ files' = [files EXCEPT ![Temp(w)] = "empty"]
    /\ own' = own \cup {w}
    /\ Goto(w, "write")
    /\ UNCHANGED <<mode, todo, left, path, data, fuzzVars, removed, reverted, meddled>>

\* Some of it, then the rest; it goes to the file that was opened.
WriteTemp(w) ==
    /\ \/ At(w, "write") /\ Goto(w, "finish")
       \/ At(w, "finish") /\ Goto(w, "replace")
    /\ files' = IF w \notin own THEN files
                ELSE [files EXCEPT ![Temp(w)] = IF At(w, "write") THEN "part" ELSE data[w]]
    /\ UNCHANGED <<mode, todo, left, path, data, own, fuzzVars, removed, reverted, meddled>>

\* rename, whatever is at the temporary by now; then its unlink finds nothing.
\* Whoever is still writing the file that was there writes to no name.
Replace(w) ==
    /\ At(w, "replace")
    /\ files' = [files EXCEPT ![path[w]] = files[Temp(w)], ![Temp(w)] = "absent"]
    /\ own' = Lose(path[w]) \ {w}
    /\ growing' = {u \in growing : <<u>> # path[w]}
    /\ reverted' = reverted \cup
          ({w} \X {s \in Seeds : path[w] = <<s>> /\ files[<<s>>] = "seed" /\ data[w] # "seed"})
    /\ Goto(w, IF left[w] = Seeds THEN "scan" ELSE "seeds")
    /\ UNCHANGED <<mode, todo, left, path, data, found, wrote, removed, meddled>>

\* SIGKILL, or no space: then the temporary is removed.
Stop(w) ==
    /\ pc[w] \notin {"done", "failed", "killed"}
    /\ \/ Goto(w, "killed") /\ UNCHANGED files
       \/ /\ pc[w] \in {"open", "write", "finish"}
          /\ Goto(w, "failed")
          /\ files' = IF pc[w] = "open" THEN files
                      ELSE [files EXCEPT ![Temp(w)] = "absent"]
    /\ own' = own \ {w}
    /\ UNCHANGED <<mode, todo, left, path, data, fuzzVars, removed, reverted, meddled>>

-----------------------------------------------------------------------------
(* libFuzzer *)

\* A new unit is created, and then written.
Find(u) ==
    /\ files[<<u>>] = "absent" /\ u \notin found
    /\ files' = [files EXCEPT ![<<u>>] = "part"]
    /\ growing' = growing \cup {u} /\ found' = found \cup {u}
    /\ UNCHANGED <<mode, runVars, wrote, removed, reverted, meddled>>

\* The harness accepts flags above seven, and normalize does not.
Finish(u) ==
    /\ u \in growing
    /\ \E content \in {"raw", "norm"} :
          /\ files' = [files EXCEPT ![<<u>>] = content]
          /\ wrote' = [wrote EXCEPT ![u] = content]
    /\ growing' = growing \ {u}
    /\ UNCHANGED <<mode, runVars, found, removed, reverted, meddled>>

\* libFuzzer removes a unit of its own; the user may remove any file.
Remove(n) ==
    /\ files[<<n>>] # "absent" /\ n \notin growing \cup removed
    /\ files' = [files EXCEPT ![<<n>>] = "absent"]
    /\ removed' = removed \cup {n}
    /\ UNCHANGED <<mode, runVars, fuzzVars, reverted, meddled>>

Next ==
    \/ \E w \in Writers :
          \/ List(w) \/ Look(w) \/ Read(w) \/ EndScan(w)
          \/ LookSeed(w) \/ Compare(w) \/ EndSeeds(w)
          \/ OpenTemp(w) \/ WriteTemp(w) \/ Replace(w) \/ Stop(w)
    \/ \E u \in Units : Find(u) \/ Finish(u)
    \/ \E n \in Names : Remove(n)

Spec == Init /\ [][Next]_vars

-----------------------------------------------------------------------------
(* Properties *)

\* Unit u is as libFuzzer wrote it, or a full run has normalized it.
FullRun == \E w \in Writers : mode[w] = "full" /\ pc[w] # "start"
UnitKept(u) ==
    \/ files[<<u>>] = wrote[u]
    \/ wrote[u] = "raw" /\ files[<<u>>] = "norm" /\ FullRun

\* Whatever runs of builds and of the user are at work, and wherever they are
\* killed, a reader finds under the name of a seed nothing, a file of before,
\* that file normalized, or the seed: never the beginning of a file.  The
\* exception is a full run that reads a file while another is writing it, the
\* temporary file of a run among them, and puts what it has read of it back.
\* What libFuzzer has found stays as it wrote it until somebody removes it, but
\* that a full run normalizes it: runs that only add seeds never rewrite a unit
\* (atomic_write and main; README.md:214, "adds the standard seeds without
\* rewriting units already produced by a running campaign").
FilesWhole ==
    meddled \/
        /\ \A s \in Seeds : files[<<s>>] \in {"absent", "raw", "norm", "seed"}
        /\ \A u \in found \ growing : UnitKept(u) \/ u \in removed

\* A run that ended normally has left every seed at its name that nobody
\* removed since, whatever the other runs did before, between and after, and
\* whatever one that was killed half-way left there.  The exception is a full
\* run that had read what was there before, has put that back over the seed, and
\* has not come to its own end, where it would have mended it (main; build.sh,
\* stage_runtime, where the build fails if the run does).
RunsComplete ==
    \A w \in Writers : pc[w] = "done" =>
        \A s \in Seeds :
            \/ files[<<s>>] = "seed" \/ s \in removed \/ meddled
            \/ \E v \in Writers : <<v, s>> \in reverted /\ pc[v] # "done"

=============================================================================
