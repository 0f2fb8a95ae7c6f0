------------------------- MODULE CorpusWriterProofs -------------------------
(***************************************************************************)
(* Proofs about CorpusWriter, for any number of runs, seeds and units.  What  *)
(* a run is to put at a name is whole, and its temporary is its own while it  *)
(* is not killed: unless a full run has read a file that another was writing. *)
(***************************************************************************)
EXTENDS CorpusWriter, SequenceTheorems, TLAPS

-----------------------------------------------------------------------------
(* Paths *)

LEMMA TempPath ==
    ASSUME NEW n, NEW v, NEW u, NEW w
    PROVE  /\ Append(<<n>>, w) = <<n, w>>
           /\ Append(<<n, v>>, w) = <<n, v, w>>
           /\ Len(Append(<<n, v, u>>, w)) = 4
<1> DEFINE S == {n, v, u, w}
<1>1. <<n>> \in Seq(S) /\ <<n, v>> \in Seq(S) /\ <<n, v, u>> \in Seq(S) /\ w \in S
      /\ <<n, w>> \in Seq(S) /\ <<n, v, w>> \in Seq(S)
    OBVIOUS
<1>2. Append(<<n>>, w) = <<n, w>>
    <2>1. Len(<<n>>) = 1 /\ Len(<<n, w>>) = 2
        OBVIOUS
    <2>2. /\ Append(<<n>>, w) \in Seq(S) /\ Len(Append(<<n>>, w)) = 2
          /\ \A i \in 1 .. 1 : Append(<<n>>, w)[i] = <<n>>[i]
          /\ Append(<<n>>, w)[2] = w
        <3> HIDE DEF S
        <3> QED BY <1>1, <2>1, AppendProperties
    <2>3. \A i \in 1 .. 2 : Append(<<n>>, w)[i] = <<n, w>>[i]
        <3> TAKE i \in 1 .. 2
        <3>1. i = 1 \/ i = 2
            OBVIOUS
        <3> QED BY <2>2, <3>1
    <2> HIDE DEF S
    <2> QED BY <1>1, <2>1, <2>2, <2>3, SeqEqual
<1>3. Append(<<n, v>>, w) = <<n, v, w>>
    <2>1. Len(<<n, v>>) = 2 /\ Len(<<n, v, w>>) = 3
        OBVIOUS
    <2>2. /\ Append(<<n, v>>, w) \in Seq(S) /\ Len(Append(<<n, v>>, w)) = 3
          /\ \A i \in 1 .. 2 : Append(<<n, v>>, w)[i] = <<n, v>>[i]
          /\ Append(<<n, v>>, w)[3] = w
        <3> HIDE DEF S
        <3> QED BY <1>1, <2>1, AppendProperties
    <2>3. \A i \in 1 .. 3 : Append(<<n, v>>, w)[i] = <<n, v, w>>[i]
        <3> TAKE i \in 1 .. 3
        <3>1. i = 1 \/ i = 2 \/ i = 3
            OBVIOUS
        <3> QED BY <2>2, <3>1
    <2> HIDE DEF S
    <2> QED BY <1>1, <2>1, <2>2, <2>3, SeqEqual
<1>4. Len(Append(<<n, v, u>>, w)) = 4
    <2>1. Len(<<n, v, u>>) = 3
        OBVIOUS
    <2> HIDE DEF S
    <2> QED BY <1>1, <2>1, AppendProperties
<1> QED BY <1>2, <1>3, <1>4

LEMMA TupleLengths ==
    ASSUME NEW n, NEW v, NEW u
    PROVE  Len(<<n>>) = 1 /\ Len(<<n, v>>) = 2 /\ Len(<<n, v, u>>) = 3
OBVIOUS

LEMMA TupleSame ==
    ASSUME NEW n, NEW v, NEW u, NEW m, NEW x, NEW y
    PROVE  /\ <<n>> = <<m>> => n = m
           /\ <<n, v>> = <<m, x>> => n = m /\ v = x
           /\ <<n, v, u>> = <<m, x, y>> => n = m /\ v = x /\ u = y
           /\ <<n>> # <<m, x>> /\ <<n>> # <<m, x, y>> /\ <<n, v>> # <<m, x, y>>
OBVIOUS

LEMMA PathKinds ==
    /\ \A n \in Names : <<n>> \in Paths
    /\ \A n \in Names, v \in Writers : <<n, v>> \in Paths
    /\ \A p \in Paths :
          \/ \E n \in Names : p = <<n>>
          \/ \E n \in Names, v \in Writers : p = <<n, v>>
          \/ \E n \in Names, v \in Writers, u \in Writers : p = <<n, v, u>>
BY DEF Paths

\* A temporary is no path of a seed or unit, and of one run only.
LEMMA TempKinds ==
    ASSUME NEW w \in Writers, path[w] \in Paths, Temp(w) \in Paths
    PROVE  \/ \E n \in Names : path[w] = <<n>> /\ Temp(w) = <<n, w>>
           \/ \E n \in Names, v \in Writers : path[w] = <<n, v>> /\ Temp(w) = <<n, v, w>>
<1>1. ASSUME NEW n \in Names, NEW v \in Writers, NEW u \in Writers, path[w] = <<n, v, u>>
      PROVE  FALSE
    <2>1. Len(Temp(w)) = 4
        BY <1>1, TempPath DEF Temp
    <2>2. \A p \in Paths : Len(p) # 4
        BY PathKinds, TupleLengths
    <2> QED BY <2>1, <2>2
<1>2. \A n \in Names : path[w] = <<n>> => Temp(w) = <<n, w>>
    BY TempPath DEF Temp
<1>3. \A n \in Names, v \in Writers : path[w] = <<n, v>> => Temp(w) = <<n, v, w>>
    BY TempPath DEF Temp
<1> QED BY <1>1, <1>2, <1>3, PathKinds

LEMMA TempApart ==
    ASSUME NEW w \in Writers, path[w] \in Paths, Temp(w) \in Paths
    PROVE  /\ \A n : Temp(w) # <<n>>
           /\ \A n, v : Temp(w) = <<n, v>> => v = w /\ path[w] = <<n>>
           /\ Temp(w) # path[w]
           /\ \A v \in Writers : path[v] \in Paths /\ Temp(v) \in Paths /\ Temp(v) = Temp(w)
                                 => v = w
           /\ \A v \in Writers : path[v] \in Paths /\ Temp(v) \in Paths /\ Temp(v) = path[w]
                                 => \E n \in Names : path[w] = <<n, v>> /\ path[v] = <<n>>
<1>1. /\ \A n : Temp(w) # <<n>>
      /\ \A n, v : Temp(w) = <<n, v>> => v = w /\ path[w] = <<n>>
      /\ Temp(w) # path[w]
    BY TempKinds, TupleSame
<1>2. ASSUME NEW v \in Writers, path[v] \in Paths, Temp(v) \in Paths, Temp(v) = Temp(w)
      PROVE  v = w
    <2>1. \/ \E n \in Names : Temp(v) = <<n, v>>
          \/ \E n \in Names, u \in Writers : Temp(v) = <<n, u, v>>
        BY <1>2, TempKinds
    <2>2. \/ \E n \in Names : Temp(w) = <<n, w>>
          \/ \E n \in Names, u \in Writers : Temp(w) = <<n, u, w>>
        BY TempKinds
    <2> QED BY <1>2, <2>1, <2>2, TupleSame
<1>3. ASSUME NEW v \in Writers, path[v] \in Paths, Temp(v) \in Paths, Temp(v) = path[w]
      PROVE  \E n \in Names : path[w] = <<n, v>> /\ path[v] = <<n>>
    <2>1. \/ \E n \in Names : path[v] = <<n>> /\ Temp(v) = <<n, v>>
          \/ \E n \in Names, u \in Writers : Temp(v) = <<n, u, v>>
        BY <1>3, TempKinds
    <2>2. \/ \E n \in Names : path[w] = <<n>>
          \/ \E n \in Names, u \in Writers : path[w] = <<n, u>>
        BY TempKinds
    <2> QED BY <1>3, <2>1, <2>2, TupleSame
<1> QED BY <1>1, <1>2, <1>3

-----------------------------------------------------------------------------
(* The inductive invariant *)

Labels == {"start", "scan", "read", "seeds", "compare", "open", "write", "finish",
           "replace", "done", "failed", "killed"}
Writing == {"write", "finish", "replace"}
Placed == {"compare", "open"} \cup Writing
Contents == {"absent", "raw", "norm", "seed", "part", "odd", "empty"}

Types ==
    /\ files \in [Paths -> Contents]
    /\ mode \in [Writers -> {"seeds", "full"}]
    /\ pc \in [Writers -> Labels]
    /\ todo \in [Writers -> SUBSET Paths]
    /\ left \in [Writers -> SUBSET Seeds]
    /\ path \in [Writers -> Paths \cup {None}]
    /\ data \in [Writers -> Contents]
    /\ own \in SUBSET Writers
    /\ growing \in SUBSET Units /\ found \in SUBSET Units /\ removed \in SUBSET Names
    /\ wrote \in [Units -> {"none", "raw", "norm"}]
    /\ reverted \in SUBSET (Writers \X Seeds)
    /\ meddled \in BOOLEAN

\* Where run w is fits what it has: the seeds come after the scan, which only a
\* full run makes, and one that it puts at its name is whole.
Place(w) ==
    /\ pc[w] \in Placed \cup {"read"} => path[w] \in Paths
    /\ pc[w] \in Writing => Temp(w) \in Paths
    /\ w \in own => pc[w] \in Writing
    /\ pc[w] \in {"scan", "read"} => mode[w] = "full"
    /\ pc[w] \in {"start", "scan", "read"} => left[w] = Seeds
    /\ pc[w] = "done" => left[w] = {}
    /\ pc[w] \in Placed /\ left[w] # Seeds =>
          data[w] = "seed" /\ \E s \in Seeds : path[w] = <<s>>
    /\ pc[w] = "compare" \/ (mode[w] = "seeds" /\ pc[w] \in Placed) => left[w] # Seeds

\* A temporary of run w for a seed or unit is there only while w has it open,
\* or when w was killed.
Temporary(w) ==
    \A n \in Names : files[<<n, w>>] # "absent" =>
        (w \in own /\ path[w] = <<n>>) \/ pc[w] = "killed"

\* A full run that has read unit u found it as libFuzzer, or somebody before,
\* wrote it, and not normalized.
Behind(u) ==
    u \in removed \/ (files[<<u>>] # "absent" /\ u \notin growing /\
                      (u \in found => wrote[u] = "raw"))

\* A run that writes has its temporary to itself, and writes what is whole; it
\* rewrites a temporary only of a run that was killed, and a unit only when that
\* is not normalized.
Write(w) ==
    /\ pc[w] \in Writing => w \in own
    /\ pc[w] = "replace" => files[Temp(w)] = data[w]
    /\ pc[w] \in {"open"} \cup Writing =>
          \A n \in Names :
             /\ path[w] = <<n>> =>
                   data[w] \in {"norm", "seed"} /\
                   (n \in Units => data[w] = "norm" /\ Behind(n))
             /\ \A v \in Writers : path[w] = <<n, v>> => pc[v] = "killed"

\* Run w has gone through seed s.
Passed(w, s) ==
    /\ pc[w] \notin {"failed", "killed"} /\ s \notin left[w]
    /\ ~(pc[w] \in Placed /\ path[w] = <<s>>)

\* Seed s is at its name, or there is a run that has put something else there
\* and has still to go through it.
Held(s) ==
    \/ files[<<s>>] = "seed" \/ s \in removed
    \/ \E v \in Writers : <<v, s>> \in reverted /\ ~Passed(v, s)

\* Run w has seen to the seeds it has gone through.
Seen(w) == \A s \in Seeds : Passed(w, s) => Held(s)

\* Nothing is in parts under a name that libFuzzer is not writing.
Whole ==
    /\ \A n \in Names \ growing : files[<<n>>] \in {"absent", "raw", "norm", "seed"}
    /\ \A u \in found \ growing : UnitKept(u) \/ u \in removed

Sound ==
    /\ \A w \in Writers : Temporary(w) /\ Write(w) /\ Seen(w)
    /\ Whole

IInv ==
    /\ Types /\ growing \subseteq found
    /\ \A w \in Writers : Place(w)
    /\ ~meddled => Sound

-----------------------------------------------------------------------------
(* What a step of one leaves to the others *)

RunSame(u) ==
    /\ pc'[u] = pc[u] /\ left'[u] = left[u] /\ path'[u] = path[u]
    /\ data'[u] = data[u] /\ mode'[u] = mode[u] /\ (u \in own' => u \in own)

\* A seed stays at its name, unless run w puts something else there and has
\* still to go through it.
SeedsKept(w) ==
    /\ reverted \subseteq reverted'
    /\ \A s \in Seeds : files[<<s>>] = "seed" \/ s \in removed =>
          \/ files'[<<s>>] = "seed" \/ s \in removed'
          \/ w \in Writers /\ <<w, s>> \in reverted' /\ ~Passed(w, s)'

\* Run w goes through a seed only when that is at its name.
PassOnly(w) == \A s \in Seeds : Passed(w, s)' => Passed(w, s) \/ files'[<<s>>] = "seed"

UnitsBehind == \A u \in Units : Behind(u) => Behind(u)'

LEMMA HeldKept ==
    ASSUME NEW w, \A u \in Writers \ {w} : RunSame(u), SeedsKept(w),
           w \in Writers => PassOnly(w), NEW s \in Seeds, Held(s)
    PROVE  Held(s)'
<1>1. \A v \in Writers \ {w} : Passed(v, s)' <=> Passed(v, s)
    BY DEF RunSame, Passed
<1>2. CASE files[<<s>>] = "seed" \/ s \in removed
    BY <1>2 DEF SeedsKept, Held
<1>3. ASSUME NEW v \in Writers, <<v, s>> \in reverted, ~Passed(v, s) PROVE Held(s)'
    <2>1. <<v, s>> \in reverted'
        BY <1>3 DEF SeedsKept
    <2>2. CASE Passed(v, s)'
        BY <1>1, <1>3, <2>2 DEF PassOnly, Held
    <2> QED BY <2>1, <2>2 DEF Held
<1> QED BY <1>2, <1>3 DEF Held

\* Run u still has what it relies on, and there is no other temporary of it.
Keeps(u) ==
    /\ u \in own => u \in own'
    /\ pc[u] = "replace" => files'[Temp(u)] = files[Temp(u)]
    /\ \A n \in Names : files'[<<n, u>>] # "absent" => files[<<n, u>>] # "absent"

LEMMA PlaceSame ==
    ASSUME NEW u, Place(u), RunSame(u)
    PROVE  Place(u)'
BY DEF Place, RunSame, Temp

LEMMA RunSound ==
    ASSUME NEW u \in Writers, RunSame(u), UnitsBehind,
           \A s \in Seeds : Held(s) => Held(s)',
           pc[u] = "killed" \/ Keeps(u),
           \A v \in Writers : pc[v] = "killed" => pc'[v] = "killed",
           Temporary(u), Write(u), Seen(u)
    PROVE  Temporary(u)' /\ Write(u)' /\ Seen(u)'
<1> USE DEF RunSame
<1>1. Temporary(u)'
    BY DEF Temporary, Keeps
<1>2. Write(u)'
    <2>1. CASE pc[u] = "killed"
        BY <2>1 DEF Write, Writing
    <2>2. CASE Keeps(u)
        <3>1. /\ pc[u] \in Writing => u \in own'
              /\ pc[u] = "replace" => files'[Temp(u)] = data[u]
            BY <2>2 DEF Write, Keeps
        <3>2. pc[u] \in {"open"} \cup Writing =>
                \A n \in Names :
                   /\ path[u] = <<n>> =>
                         data[u] \in {"norm", "seed"} /\
                         (n \in Units => data[u] = "norm" /\ Behind(n)')
                   /\ \A v \in Writers : path[u] = <<n, v>> => pc'[v] = "killed"
            BY DEF Write, UnitsBehind
        <3> QED BY <3>1, <3>2 DEF Write, Temp
    <2> QED BY <2>1, <2>2
<1>3. Seen(u)'
    BY DEF Seen, Passed
<1> QED BY <1>1, <1>2, <1>3

\* A step of run w.
LEMMA RunStep ==
    ASSUME IInv, NEW w \in Writers, pc[w] # "killed",
           \A u \in Writers \ {w} : RunSame(u),
           Types', growing' \subseteq found', meddled => meddled', Place(w)',
           ~meddled /\ ~meddled' /\ Sound =>
              /\ Temporary(w)' /\ Write(w)' /\ PassOnly(w) /\ Whole'
              /\ SeedsKept(w) /\ UnitsBehind
              /\ \A u \in Writers \ {w} : pc[u] = "killed" \/ Keeps(u)
    PROVE  IInv'
<1>1. \A u \in Writers : Place(u)'
    BY PlaceSame DEF IInv
<1>2. ASSUME ~meddled' PROVE Sound'
    <2>1. ~meddled /\ Sound
        BY <1>2 DEF IInv
    <2>2. /\ Temporary(w)' /\ Write(w)' /\ PassOnly(w) /\ Whole'
          /\ SeedsKept(w) /\ UnitsBehind
          /\ \A u \in Writers \ {w} : pc[u] = "killed" \/ Keeps(u)
        BY <1>2, <2>1
    <2>5. \A s \in Seeds : Held(s) => Held(s)'
        BY <2>2, HeldKept
    <2>6. Seen(w)'
        <3>1. Seen(w)
            BY <2>1 DEF Sound
        <3>2. \A s \in Seeds : files'[<<s>>] = "seed" => Held(s)'
            BY DEF Held
        <3> QED BY <2>2, <2>5, <3>1, <3>2 DEF Seen, PassOnly
    <2>3. \A v \in Writers : pc[v] = "killed" => pc'[v] = "killed"
        BY DEF RunSame
    <2>4. ASSUME NEW u \in Writers \ {w} PROVE Temporary(u)' /\ Write(u)' /\ Seen(u)'
        <3>1. Temporary(u) /\ Write(u) /\ Seen(u)
            BY <2>1 DEF Sound
        <3>2. RunSame(u) /\ (pc[u] = "killed" \/ Keeps(u)) /\ u \in Writers
            BY <2>2
        <3> QED BY <2>2, <2>3, <2>5, <3>1, <3>2, RunSound
    <2> QED BY <2>2, <2>4, <2>6 DEF Sound
<1> QED BY <1>1, <1>2 DEF IInv

\* A step of run w that changes no file.
LEMMA QuietStep ==
    ASSUME IInv, NEW w \in Writers, pc[w] \notin Writing \cup {"killed"},
           \A u \in Writers \ {w} : RunSame(u),
           UNCHANGED <<files, mode, own, fuzzVars, removed, reverted>>,
           Types', meddled => meddled', Place(w)', pc'[w] # "start",
           ~meddled /\ ~meddled' /\ Sound => Write(w)' /\ PassOnly(w)
    PROVE  IInv'
<1> USE DEF fuzzVars
<1>1. Temporary(w) => Temporary(w)'
    BY DEF IInv, Place, Temporary
<1>2. Whole => Whole'
    <2>1. FullRun => FullRun'
        BY DEF FullRun, RunSame
    <2> QED BY <2>1 DEF Whole, UnitKept
<1>3. SeedsKept(w) /\ UnitsBehind
    BY DEF SeedsKept, UnitsBehind, Behind
<1>4. \A u \in Writers : Keeps(u)
    BY DEF Keeps
<1>5. growing' \subseteq found'
    BY DEF IInv
<1>6. ~meddled /\ ~meddled' /\ Sound =>
         /\ Temporary(w)' /\ Write(w)' /\ PassOnly(w) /\ Whole'
         /\ SeedsKept(w) /\ UnitsBehind
         /\ \A u \in Writers \ {w} : pc[u] = "killed" \/ Keeps(u)
    BY <1>1, <1>2, <1>3, <1>4 DEF Sound
<1>7. pc[w] # "killed"
    OBVIOUS
<1> QED BY <1>5, <1>6, <1>7, RunStep

LEMMA InitIInv == Init => IInv
<1> SUFFICES ASSUME Init PROVE IInv
    OBVIOUS
<1>1. Types
    <2>1. files \in [Paths -> Contents]
        <3>1. PICK f \in [Names -> {"absent", "raw", "norm"}] :
                 files = [p \in Paths |-> IF Len(p) = 1 THEN f[p[1]] ELSE "absent"]
            BY DEF Init
        <3>2. ASSUME NEW p \in Paths PROVE files[p] \in Contents
            <4>1. CASE \E n \in Names : p = <<n>>
                <5>1. PICK n \in Names : p = <<n>>
                    BY <4>1
                <5>2. f[n] \in {"absent", "raw", "norm"} /\ p[1] = n
                    BY <5>1
                <5> QED BY <3>1, <5>2 DEF Contents
            <4>2. CASE Len(p) # 1
                BY <3>1, <4>2 DEF Contents
            <4> QED BY <4>1, <4>2, PathKinds, TupleLengths
        <3> QED BY <3>1, <3>2
    <2> QED BY <2>1 DEF Init, Types, Labels, Contents
<1>2. growing \subseteq found /\ \A w \in Writers : Place(w)
    BY DEF Init, Place, Placed, Writing
<1>3. Sound
    <2>1. PICK f \in [Names -> {"absent", "raw", "norm"}] :
             files = [p \in Paths |-> IF Len(p) = 1 THEN f[p[1]] ELSE "absent"]
        BY DEF Init
    <2>2. ASSUME NEW n \in Names PROVE files[<<n>>] \in {"absent", "raw", "norm"}
        <3>1. <<n>> \in Paths /\ Len(<<n>>) = 1 /\ <<n>>[1] = n
            BY PathKinds
        <3> QED BY <2>1, <3>1
    <2>3. ASSUME NEW n \in Names, NEW w \in Writers PROVE files[<<n, w>>] = "absent"
        <3>1. <<n, w>> \in Paths /\ Len(<<n, w>>) = 2
            BY PathKinds
        <3> QED BY <2>1, <3>1
    <2>4. Whole
        BY <2>2 DEF Whole, Init
    <2>5. \A w \in Writers : Temporary(w)
        BY <2>3 DEF Temporary
    <2>6. \A w \in Writers : Write(w) /\ Seen(w)
        BY DEF Init, Write, Seen, Passed, Writing
    <2> QED BY <2>4, <2>5, <2>6 DEF Sound
<1> QED BY <1>1, <1>2, <1>3 DEF IInv

-----------------------------------------------------------------------------
(* The steps of a run that change no file *)

LEMMA ListStep == ASSUME NEW w \in Writers PROVE IInv /\ List(w) => IInv'
<1> SUFFICES ASSUME IInv, List(w) PROVE IInv'
    OBVIOUS
<1> USE DEF List, At, Goto, fuzzVars
<1>1. Types'
    BY DEF IInv, Types, Labels
<1>2. \A u \in Writers \ {w} : RunSame(u)
    BY DEF IInv, Types, RunSame
<1>3. pc'[w] \in {"seeds", "scan"} /\ left'[w] = left[w] /\ mode'[w] = mode[w]
      /\ (pc'[w] = "scan" => mode[w] = "full") /\ w \notin own
    BY DEF IInv, Types, Place, Writing
<1>4. left[w] = Seeds
    BY DEF IInv, Place
<1>5. Place(w)'
    BY <1>3, <1>4 DEF Place, Placed, Writing
<1>6. Write(w)' /\ PassOnly(w)
    BY <1>3, <1>4 DEF Write, PassOnly, Passed, Writing
<1> QED BY <1>1, <1>2, <1>3, <1>5, <1>6, QuietStep DEF Writing, fuzzVars

LEMMA LookStep == ASSUME NEW w \in Writers PROVE IInv /\ Look(w) => IInv'
<1> SUFFICES ASSUME IInv, Look(w) PROVE IInv'
    OBVIOUS
<1> USE DEF Look, At, Goto, fuzzVars
<1>1. Types'
    <2>1. todo' \in [Writers -> SUBSET Paths] /\ path' \in [Writers -> Paths \cup {None}]
        BY DEF IInv, Types
    <2>2. pc' \in [Writers -> Labels]
        BY DEF IInv, Types, Labels
    <2> QED BY <2>1, <2>2 DEF IInv, Types
<1>2. \A u \in Writers \ {w} : RunSame(u)
    BY DEF IInv, Types, RunSame
<1>3. /\ pc'[w] \in {"scan", "read"} /\ left'[w] = left[w] /\ mode'[w] = mode[w]
      /\ (pc'[w] = "read" => path'[w] \in Paths) /\ w \notin own
    BY DEF IInv, Types, Place, Writing
<1>4. left[w] = Seeds /\ mode[w] = "full"
    BY DEF IInv, Place
<1>5. Place(w)'
    BY <1>3, <1>4 DEF Place, Placed, Writing
<1>6. Write(w)' /\ PassOnly(w)
    BY <1>3, <1>4 DEF Write, PassOnly, Passed, Writing
<1> QED BY <1>1, <1>2, <1>3, <1>5, <1>6, QuietStep DEF Writing, fuzzVars

LEMMA EndScanStep == ASSUME NEW w \in Writers PROVE IInv /\ EndScan(w) => IInv'
<1> SUFFICES ASSUME IInv, EndScan(w) PROVE IInv'
    OBVIOUS
<1> USE DEF EndScan, At, Goto, fuzzVars
<1>1. Types'
    BY DEF IInv, Types, Labels
<1>2. \A u \in Writers \ {w} : RunSame(u)
    BY DEF IInv, Types, RunSame
<1>3. pc'[w] = "seeds" /\ left'[w] = left[w] /\ w \notin own
    BY DEF IInv, Types, Place, Writing
<1>4. left[w] = Seeds
    BY DEF IInv, Place
<1>5. Place(w)'
    BY <1>3, <1>4 DEF Place, Placed, Writing
<1>6. Write(w)' /\ PassOnly(w)
    BY <1>3, <1>4 DEF Write, PassOnly, Passed, Writing
<1> QED BY <1>1, <1>2, <1>3, <1>5, <1>6, QuietStep DEF Writing, fuzzVars

\* What a run reads of a seed or unit that nobody is writing is whole or not
\* normalized; a temporary that nobody has open is of a run that was killed.
LEMMA ReadStep == ASSUME NEW w \in Writers PROVE IInv /\ Read(w) => IInv'
<1> SUFFICES ASSUME IInv, Read(w) PROVE IInv'
    OBVIOUS
<1> USE DEF Read, At, Goto, fuzzVars
<1>1. path[w] \in Paths /\ mode[w] = "full" /\ left[w] = Seeds /\ w \notin own
    BY DEF IInv, Place, Writing
<1>2. \A c \in Contents : Normalize(path[w], c) \subseteq Contents
    BY DEF Normalize, Contents
<1>3. Types'
    <2>1. data' \in [Writers -> Contents]
        <3>1. files[path[w]] \in Contents /\ data \in [Writers -> Contents]
            BY <1>1 DEF IInv, Types
        <3>2. Normalize(path[w], files[path[w]]) \subseteq Contents
            BY <1>2, <3>1
        <3> QED BY <3>1, <3>2
    <2>3. meddled' \in BOOLEAN
        <3>1. \/ meddled' = meddled
              \/ meddled' = (meddled \/ (mode[w] = "full" /\ BeingWritten(path[w])))
            OBVIOUS
        <3>2. meddled \in BOOLEAN
            BY DEF IInv, Types
        <3> QED BY <3>1, <3>2
    <2>2. pc' \in [Writers -> Labels]
        BY DEF IInv, Types, Labels
    <2> QED BY <2>1, <2>2, <2>3 DEF IInv, Types
<1>4. \A u \in Writers \ {w} : RunSame(u)
    BY DEF IInv, Types, RunSame
<1>5. /\ pc'[w] \in {"failed", "scan", "open"}
      /\ left'[w] = left[w] /\ mode'[w] = mode[w] /\ path'[w] = path[w]
    BY DEF IInv, Types
<1>6. Place(w)'
    BY <1>1, <1>5 DEF Place, Placed, Writing
<1>7. PassOnly(w)
    BY <1>1, <1>5 DEF PassOnly, Passed
<1>8. ASSUME ~meddled, ~meddled', Sound PROVE Write(w)'
    <2> SUFFICES ASSUME pc'[w] = "open" PROVE Write(w)'
        BY <1>5 DEF Write, Writing
    <2>1. files[path[w]] # "absent" /\ ~BeingWritten(path[w])
        BY <1>1, <1>8 DEF IInv, Types
    <2>2. PICK content \in Normalize(path[w], files[path[w]]) :
             data' = [data EXCEPT ![w] = content] /\ content # files[path[w]]
        BY <2>1 DEF IInv, Types
    <2>3. data'[w] = content
        BY <2>2 DEF IInv, Types
    <2>4. ASSUME NEW n \in Names, path[w] = <<n>>
          PROVE  data'[w] \in {"norm", "seed"} /\
                 (n \in Units => data'[w] = "norm" /\ Behind(n)')
        <3>1. n \notin growing
            BY <2>1, <2>4 DEF BeingWritten
        <3>2. files[path[w]] \in {"absent", "raw", "norm", "seed"}
            BY <1>8, <2>4, <3>1 DEF Sound, Whole
        <3>3. files[path[w]] = "raw" /\ path[w][1] = n
            BY <2>1, <2>2, <2>4, <3>2 DEF Normalize
        <3>4. data'[w] \in {"norm", "seed"} /\ (n \notin Seeds => data'[w] = "norm")
            BY <2>2, <2>3, <3>3 DEF Normalize
        <3>5. n \in found => wrote[n] = "raw" \/ n \in removed
            BY <1>8, <2>4, <3>1, <3>3 DEF Sound, Whole, UnitKept
        <3>6. Behind(n)'
            BY <2>4, <3>1, <3>3, <3>5 DEF Behind, fuzzVars
        <3> QED BY <3>4, <3>6, NameAssumption
    <2>5. ASSUME NEW n \in Names, NEW v \in Writers, path[w] = <<n, v>>
          PROVE  pc'[v] = "killed"
        <3>1. ~(v \in own /\ path[v] = <<n>>)
            <4>1. SUFFICES ASSUME v \in own, path[v] = <<n>> PROVE FALSE
                OBVIOUS
            <4>2. path[w] = Temp(v)
                BY <2>5, <4>1, TempPath DEF Temp
            <4> QED BY <2>1, <4>1, <4>2 DEF BeingWritten
        <3>2. pc[v] = "killed"
            BY <1>8, <2>1, <2>5, <3>1 DEF Sound, Temporary
        <3>3. v # w
            BY <3>2
        <3> QED BY <1>4, <3>2, <3>3 DEF RunSame
    <2> QED BY <1>5, <2>4, <2>5 DEF Write, Writing
<1>9. meddled => meddled'
    BY DEF IInv, Types
<1> QED BY <1>3, <1>4, <1>5, <1>6, <1>7, <1>8, <1>9, QuietStep DEF Writing, fuzzVars

LEMMA LookSeedStep == ASSUME NEW w \in Writers PROVE IInv /\ LookSeed(w) => IInv'
<1> SUFFICES ASSUME IInv, LookSeed(w) PROVE IInv'
    OBVIOUS
<1> USE DEF LookSeed, At, Goto, fuzzVars
<1>1. PICK s \in left[w] :
         /\ left' = [left EXCEPT ![w] = @ \ {s}]
         /\ path' = [path EXCEPT ![w] = <<s>>]
         /\ data' = [data EXCEPT ![w] = "seed"]
         /\ pc' = [pc EXCEPT ![w] = IF files[<<s>>] = "absent" THEN "open" ELSE "compare"]
    OBVIOUS
<1>2. s \in Seeds /\ <<s>> \in Paths /\ w \notin own
    BY PathKinds DEF IInv, Types, Place, Writing, Names
<1>3. Types'
    <2>1. /\ left' \in [Writers -> SUBSET Seeds] /\ path' \in [Writers -> Paths \cup {None}]
          /\ data' \in [Writers -> Contents]
        BY <1>1, <1>2 DEF IInv, Types, Contents
    <2>2. pc' \in [Writers -> Labels]
        BY <1>1 DEF IInv, Types, Labels
    <2> QED BY <2>1, <2>2 DEF IInv, Types
<1>4. \A u \in Writers \ {w} : RunSame(u)
    BY <1>1 DEF IInv, Types, RunSame
<1>5. /\ pc'[w] \in {"open", "compare"} /\ left'[w] = left[w] \ {s}
      /\ path'[w] = <<s>> /\ data'[w] = "seed"
    BY <1>1 DEF IInv, Types
<1>6. Place(w)'
    BY <1>2, <1>5 DEF Place, Placed, Writing
<1>7. Write(w)' /\ PassOnly(w)
    <2>1. Write(w)'
        BY <1>2, <1>5, NameAssumption, TupleSame DEF Write, Writing
    <2>2. PassOnly(w)
        BY <1>2, <1>5 DEF PassOnly, Passed, Placed, Writing
    <2> QED BY <2>1, <2>2
<1> QED BY <1>3, <1>4, <1>6, <1>7, QuietStep DEF Writing, fuzzVars

LEMMA CompareStep == ASSUME NEW w \in Writers PROVE IInv /\ Compare(w) => IInv'
<1> SUFFICES ASSUME IInv, Compare(w) PROVE IInv'
    OBVIOUS
<1> USE DEF Compare, At, Goto, fuzzVars
<1>1. PICK s \in Seeds : path[w] = <<s>>
    BY DEF IInv, Place, Placed
<1>2. left[w] # Seeds /\ data[w] = "seed" /\ path[w] \in Paths /\ w \notin own
    BY DEF IInv, Place, Placed, Writing
<1>3. Types'
    BY DEF IInv, Types, Labels
<1>4. \A u \in Writers \ {w} : RunSame(u)
    BY DEF IInv, Types, RunSame
<1>5. /\ pc'[w] \in {"failed", "seeds", "open"} /\ left'[w] = left[w]
      /\ path'[w] = path[w] /\ data'[w] = data[w]
      /\ pc'[w] = "seeds" => files[path[w]] = "seed"
    BY DEF IInv, Types
<1>6. Place(w)'
    BY <1>1, <1>2, <1>5 DEF Place, Placed, Writing
<1>7. Write(w)' /\ PassOnly(w)
    <2>1. Write(w)'
        BY <1>1, <1>2, <1>5, NameAssumption, TupleSame DEF Write, Writing
    <2>2. PassOnly(w)
        BY <1>1, <1>5 DEF PassOnly, Passed, Placed
    <2> QED BY <2>1, <2>2
<1> QED BY <1>3, <1>4, <1>6, <1>7, QuietStep DEF Writing, fuzzVars

LEMMA EndSeedsStep == ASSUME NEW w \in Writers PROVE IInv /\ EndSeeds(w) => IInv'
<1> SUFFICES ASSUME IInv, EndSeeds(w) PROVE IInv'
    OBVIOUS
<1> USE DEF EndSeeds, At, Goto, fuzzVars
<1>1. Types'
    BY DEF IInv, Types, Labels
<1>2. \A u \in Writers \ {w} : RunSame(u)
    BY DEF IInv, Types, RunSame
<1>3. pc'[w] = "done" /\ left'[w] = left[w] /\ left[w] = {} /\ w \notin own
    BY DEF IInv, Types, Place, Writing
<1>4. Place(w)'
    BY <1>3 DEF Place, Placed, Writing
<1>5. Write(w)' /\ PassOnly(w)
    BY <1>3 DEF Write, PassOnly, Passed, Placed, Writing
<1> QED BY <1>1, <1>2, <1>4, <1>5, QuietStep DEF Writing, fuzzVars

-----------------------------------------------------------------------------
(* atomic_write *)

\* Nobody else's files are at the temporary of a run that is not killed.
LEMMA TempAlone ==
    ASSUME IInv, NEW w \in Writers, Temp(w) \in Paths, path[w] \in Paths
    PROVE  /\ \A u \in Writers \ {w} : pc[u] = "replace" => Temp(u) # Temp(w)
           /\ \A u \in Writers \ {w}, n \in Names : <<n, u>> # Temp(w)
           /\ \A n \in Names : <<n>> # Temp(w)
<1>1. \A u \in Writers : pc[u] = "replace" => path[u] \in Paths /\ Temp(u) \in Paths
    BY DEF IInv, Place, Placed, Writing
<1> QED BY <1>1, TempApart

\* Only the temporary of run w changes.
LEMMA TempStep ==
    ASSUME IInv, NEW w \in Writers, Temp(w) \in Paths, path[w] \in Paths,
           UNCHANGED <<mode, fuzzVars, removed, reverted>>,
           \A u \in Writers \ {w} : RunSame(u), pc'[w] # "start",
           \A u \in Writers \ {w} : u \in own => u \in own',
           \A p \in Paths \ {Temp(w)} : files'[p] = files[p],
           Sound
    PROVE  Whole' /\ SeedsKept(w) /\ UnitsBehind /\ \A u \in Writers \ {w} : Keeps(u)
<1> USE DEF fuzzVars
<1>1. \A n \in Names : files'[<<n>>] = files[<<n>>]
    BY TempAlone, PathKinds
<1>2. Whole'
    <2>1. found \subseteq Names
        BY DEF IInv, Types, Names
    <2>2. FullRun => FullRun'
        BY DEF FullRun, RunSame
    <2> QED BY <1>1, <2>1, <2>2 DEF Sound, Whole, UnitKept
<1>3. SeedsKept(w) /\ UnitsBehind
    BY <1>1 DEF SeedsKept, UnitsBehind, Behind, Names
<1>4. ASSUME NEW u \in Writers \ {w} PROVE Keeps(u)
    <2>1. pc[u] = "replace" => files'[Temp(u)] = files[Temp(u)]
        <3>1. pc[u] = "replace" => Temp(u) \in Paths
            BY DEF IInv, Place, Writing
        <3> QED BY <3>1, TempAlone
    <2>2. \A n \in Names : files'[<<n, u>>] = files[<<n, u>>]
        BY TempAlone, PathKinds
    <2> QED BY <2>1, <2>2 DEF Keeps
<1> QED BY <1>2, <1>3, <1>4

\* What is kept of the temporaries of a run that writes.
LEMMA OwnTemporary ==
    ASSUME IInv, NEW w \in Writers, Temp(w) \in Paths, path[w] \in Paths,
           \A p \in Paths \ {Temp(w)} : files'[p] = files[p],
           path'[w] = path[w], Temporary(w), pc[w] # "killed", w \in own'
    PROVE  Temporary(w)'
<1> SUFFICES ASSUME NEW n \in Names, files'[<<n, w>>] # "absent"
             PROVE  w \in own' /\ path'[w] = <<n>>
    BY DEF Temporary
<1>1. CASE <<n, w>> = Temp(w)
    BY <1>1, TempApart
<1>2. CASE <<n, w>> # Temp(w)
    <2>1. files'[<<n, w>>] = files[<<n, w>>]
        BY <1>2, PathKinds
    <2> QED BY <2>1 DEF Temporary
<1> QED BY <1>1, <1>2

LEMMA OpenTempStep == ASSUME NEW w \in Writers PROVE IInv /\ OpenTemp(w) => IInv'
<1> SUFFICES ASSUME IInv, OpenTemp(w) PROVE IInv'
    OBVIOUS
<1> USE DEF OpenTemp, At, Goto, fuzzVars
<1>1. path[w] \in Paths /\ Temp(w) \in Paths
    BY DEF IInv, Place, Placed
<1>2. Types'
    <2>1. files' \in [Paths -> Contents] /\ own' \in SUBSET Writers
        BY DEF IInv, Types, Contents
    <2>2. pc' \in [Writers -> Labels]
        BY DEF IInv, Types, Labels
    <2> QED BY <2>1, <2>2 DEF IInv, Types
<1>3. \A u \in Writers \ {w} : RunSame(u)
    BY DEF IInv, Types, RunSame
<1>4. /\ pc'[w] = "write" /\ left'[w] = left[w] /\ path'[w] = path[w]
      /\ data'[w] = data[w] /\ mode'[w] = mode[w] /\ w \in own'
    BY DEF IInv, Types
<1>5. Place(w)'
    BY <1>1, <1>4 DEF IInv, Place, Placed, Writing, Temp
<1>6. \A p \in Paths \ {Temp(w)} : files'[p] = files[p]
    BY DEF IInv, Types
<1>7. ASSUME Sound
      PROVE  /\ Temporary(w)' /\ Write(w)' /\ PassOnly(w) /\ Whole'
             /\ SeedsKept(w) /\ UnitsBehind
             /\ \A u \in Writers \ {w} : pc[u] = "killed" \/ Keeps(u)
    <2>1. Whole' /\ SeedsKept(w) /\ UnitsBehind /\ \A u \in Writers \ {w} : Keeps(u)
        BY <1>1, <1>3, <1>4, <1>6, <1>7, TempStep
    <2>2. Temporary(w) /\ Write(w) /\ Seen(w)
        BY <1>7 DEF Sound
    <2>3. Temporary(w)'
        BY <1>1, <1>4, <1>6, <2>2, OwnTemporary
    <2>4. Write(w)'
        <3>1. \A v \in Writers : pc[v] = "killed" => pc'[v] = "killed"
            BY <1>3 DEF RunSame
        <3>2. UnitsBehind
            BY <2>1
        <3> QED BY <1>4, <2>2, <3>1, <3>2 DEF Write, Writing, UnitsBehind
    <2>5. PassOnly(w)
        BY <1>4 DEF PassOnly, Passed, Placed, Writing
    <2> QED BY <2>1, <2>3, <2>4, <2>5
<1>8. growing' \subseteq found'
    BY DEF IInv
<1> QED BY <1>2, <1>3, <1>5, <1>7, <1>8, RunStep

LEMMA WriteTempStep == ASSUME NEW w \in Writers PROVE IInv /\ WriteTemp(w) => IInv'
<1> SUFFICES ASSUME IInv, WriteTemp(w) PROVE IInv'
    OBVIOUS
<1> USE DEF WriteTemp, At, Goto, fuzzVars
<1>1. path[w] \in Paths /\ Temp(w) \in Paths
    BY DEF IInv, Place, Placed, Writing
<1>2. Types'
    <2>1. files' \in [Paths -> Contents]
        <3>1. data[w] \in Contents /\ "part" \in Contents /\ files \in [Paths -> Contents]
            BY DEF IInv, Types, Contents
        <3> QED BY <1>1, <3>1
    <2>2. pc' \in [Writers -> Labels]
        BY DEF IInv, Types, Labels
    <2> QED BY <2>1, <2>2 DEF IInv, Types
<1>3. \A u \in Writers \ {w} : RunSame(u)
    BY DEF IInv, Types, RunSame
<1>4. /\ pc[w] \in {"write", "finish"} /\ pc'[w] \in {"finish", "replace"}
      /\ pc'[w] = "replace" => pc[w] = "finish"
      /\ left'[w] = left[w] /\ path'[w] = path[w]
      /\ data'[w] = data[w] /\ mode'[w] = mode[w] /\ own' = own
    BY DEF IInv, Types
<1>5. Place(w)'
    BY <1>1, <1>4 DEF IInv, Place, Placed, Writing, Temp
<1>6. \A p \in Paths \ {Temp(w)} : files'[p] = files[p]
    BY DEF IInv, Types
<1>7. ASSUME Sound
      PROVE  /\ Temporary(w)' /\ Write(w)' /\ PassOnly(w) /\ Whole'
             /\ SeedsKept(w) /\ UnitsBehind
             /\ \A u \in Writers \ {w} : pc[u] = "killed" \/ Keeps(u)
    <2>1. Whole' /\ SeedsKept(w) /\ UnitsBehind /\ \A u \in Writers \ {w} : Keeps(u)
        BY <1>1, <1>3, <1>4, <1>6, <1>7, TempStep
    <2>2. Temporary(w) /\ Write(w) /\ Seen(w)
        BY <1>7 DEF Sound
    <2>3. w \in own
        BY <1>4, <2>2 DEF Write, Writing
    <2>4. Temporary(w)'
        BY <1>1, <1>4, <1>6, <2>2, <2>3, OwnTemporary
    <2>5. Write(w)'
        <3>1. \A v \in Writers : pc[v] = "killed" => pc'[v] = "killed"
            BY <1>3, <1>4 DEF RunSame
        <3>2. pc'[w] = "replace" => files'[Temp(w)] = data[w]
            BY <1>1, <1>4, <2>3 DEF IInv, Types
        <3>3. Temp(w)' = Temp(w)
            BY <1>4 DEF Temp
        <3>4. UnitsBehind
            BY <2>1
        <3> QED BY <1>4, <2>2, <2>3, <3>1, <3>2, <3>3, <3>4 DEF Write, Writing, UnitsBehind
    <2>6. PassOnly(w)
        BY <1>4 DEF PassOnly, Passed, Placed, Writing
    <2> QED BY <2>1, <2>4, <2>5, <2>6
<1>8. growing' \subseteq found'
    BY DEF IInv
<1> QED BY <1>2, <1>3, <1>4, <1>5, <1>7, <1>8, RunStep

LEMMA ReplaceStep == ASSUME NEW w \in Writers PROVE IInv /\ Replace(w) => IInv'
<1> SUFFICES ASSUME IInv, Replace(w) PROVE IInv'
    OBVIOUS
<1> USE DEF Replace, At, Goto
<1>1. path[w] \in Paths /\ Temp(w) \in Paths /\ Temp(w) # path[w]
    BY TempApart DEF IInv, Place, Placed, Writing
<1>2. Types'
    <2>1. files' \in [Paths -> Contents]
        <3>1. files[Temp(w)] \in Contents /\ "absent" \in Contents
              /\ files \in [Paths -> Contents]
            BY <1>1 DEF IInv, Types, Contents
        <3> QED BY <1>1, <3>1
    <2>2. pc' \in [Writers -> Labels]
        BY DEF IInv, Types, Labels
    <2>3. /\ own' \in SUBSET Writers /\ growing' \in SUBSET Units
          /\ reverted' \in SUBSET (Writers \X Seeds)
        BY DEF IInv, Types, Lose
    <2> QED BY <2>1, <2>2, <2>3 DEF IInv, Types
<1>3. \A u \in Writers \ {w} : RunSame(u)
    BY DEF IInv, Types, RunSame, Lose
<1>4. /\ pc'[w] = (IF left[w] = Seeds THEN "scan" ELSE "seeds")
      /\ left'[w] = left[w] /\ mode' = mode /\ w \notin own'
    BY DEF IInv, Types
<1>5. Place(w)'
    <2>1. left[w] = Seeds => mode[w] = "full"
        BY DEF IInv, Types, Place, Placed, Writing
    <2> QED BY <1>4, <2>1 DEF Place, Placed, Writing
<1>6. /\ \A p \in Paths \ {Temp(w), path[w]} : files'[p] = files[p]
      /\ files'[Temp(w)] = "absent" /\ files'[path[w]] = files[Temp(w)]
    BY <1>1 DEF IInv, Types
<1>7. /\ growing' = {u \in growing : <<u>> # path[w]}
      /\ UNCHANGED <<found, wrote, removed, mode>>
    OBVIOUS
<1>11. reverted' = reverted \cup
          ({w} \X {s \in Seeds : path[w] = <<s>> /\ files[<<s>>] = "seed" /\ data[w] # "seed"})
    OBVIOUS
<1>8. \A u : u \in own' <=> u \in own /\ Temp(u) # path[w] /\ u # w
    BY DEF Lose
<1>9. ASSUME Sound
      PROVE  /\ Temporary(w)' /\ Write(w)' /\ PassOnly(w) /\ Whole'
             /\ SeedsKept(w) /\ UnitsBehind
             /\ \A u \in Writers \ {w} : pc[u] = "killed" \/ Keeps(u)
    <2> HIDE DEF Replace
    <2>1. Temporary(w) /\ Write(w) /\ Seen(w) /\ Whole
        BY <1>9 DEF Sound
    <2>2. pc[w] = "replace"
        BY DEF Replace
    <2>3. /\ files'[path[w]] = data[w]
          /\ \A n \in Names : path[w] = <<n>> =>
                data[w] \in {"norm", "seed"} /\ (n \in Units => data[w] = "norm" /\ Behind(n))
          /\ \A n \in Names, v \in Writers : path[w] = <<n, v>> => pc[v] = "killed"
        BY <1>6, <2>1, <2>2 DEF Write, Writing
    <2>4. ASSUME NEW n \in Names
          PROVE  files'[<<n>>] = IF path[w] = <<n>> THEN data[w] ELSE files[<<n>>]
        <3>1. CASE path[w] = <<n>>
            BY <2>3, <3>1
        <3>2. CASE path[w] # <<n>>
            <4>1. Temp(w) # <<n>> /\ <<n>> \in Paths
                BY <1>1, TempApart, PathKinds
            <4> QED BY <1>6, <3>2, <4>1
        <3> QED BY <3>1, <3>2
    <2>5. Whole'
        <3>1. ASSUME NEW n \in Names \ growing'
              PROVE  files'[<<n>>] \in {"absent", "raw", "norm", "seed"}
            BY <1>7, <2>1, <2>3, <2>4 DEF Whole
        <3>2. ASSUME NEW u \in found' \ growing'
              PROVE  UnitKept(u)' \/ u \in removed'
            <4>1. u \in Names /\ u \in Units
                BY <1>7 DEF IInv, Types, Names
            <4>2. FullRun => FullRun'
                BY <1>3, <1>4 DEF FullRun, RunSame
            <4>3. CASE path[w] = <<u>>
                <5>1. data[w] = "norm" /\ files'[<<u>>] = "norm"
                    BY <2>3, <2>4, <4>1, <4>3
                <5>2. wrote[u] = "raw" \/ u \in removed
                    BY <1>7, <2>3, <4>1, <4>3 DEF Behind
                <5>3. mode[w] = "full" /\ pc'[w] # "start"
                    <6>1. \A s \in Seeds : path[w] # <<s>>
                        BY <4>1, <4>3, NameAssumption, TupleSame
                    <6> QED BY <1>4, <2>2, <6>1 DEF IInv, Types, Place, Placed, Writing
                <5>4. FullRun'
                    BY <1>4, <5>3 DEF FullRun
                <5> QED BY <1>7, <5>1, <5>2, <5>4 DEF UnitKept
            <4>4. CASE path[w] # <<u>>
                <5>1. files'[<<u>>] = files[<<u>>]
                    BY <2>4, <4>1, <4>4
                <5>2. u \in found \ growing
                    BY <1>7, <4>4
                <5> QED BY <1>7, <2>1, <4>2, <5>1, <5>2 DEF Whole, UnitKept
            <4> QED BY <4>3, <4>4
        <3> QED BY <3>1, <3>2 DEF Whole
    <2>6. SeedsKept(w) /\ UnitsBehind
        <3>1. ASSUME NEW s \in Seeds, files[<<s>>] = "seed" \/ s \in removed
              PROVE  \/ files'[<<s>>] = "seed" \/ s \in removed'
                     \/ <<w, s>> \in reverted' /\ ~Passed(w, s)'
            <4>1. CASE s \in removed
                BY <1>7, <4>1
            <4>2. CASE path[w] = <<s>> /\ data[w] # "seed" /\ files[<<s>>] = "seed"
                <5>1. <<w, s>> \in reverted'
                    BY <1>11, <4>2
                <5>2. left[w] = Seeds
                    BY <2>2, <4>2 DEF IInv, Place, Placed, Writing
                <5>3. ~Passed(w, s)'
                    BY <1>4, <5>2 DEF Passed
                <5> QED BY <5>1, <5>3
            <4>3. CASE files[<<s>>] = "seed" /\ ~(path[w] = <<s>> /\ data[w] # "seed")
                BY <2>4, <4>3 DEF Names
            <4> QED BY <3>1, <4>1, <4>2, <4>3
        <3>2. reverted \subseteq reverted'
            BY <1>11
        <3>3. UnitsBehind
            <4> SUFFICES ASSUME NEW u \in Units, Behind(u) PROVE Behind(u)'
                BY DEF UnitsBehind
            <4>1. files'[<<u>>] = files[<<u>>] \/ files'[<<u>>] = "norm"
                BY <2>3, <2>4 DEF Names
            <4> QED BY <1>7, <4>1 DEF Behind
        <3> QED BY <3>1, <3>2, <3>3 DEF SeedsKept
    <2>7. ASSUME NEW u \in Writers \ {w}, pc[u] # "killed" PROVE Keeps(u)
        <3>1. pc[u] \in Writing => path[u] \in Paths /\ Temp(u) \in Paths
            BY DEF IInv, Place, Placed
        <3>2. pc[u] \in Writing => Temp(u) # path[w]
            BY <1>1, <2>3, <2>7, <3>1, TempApart
        <3>3. u \in own => u \in own'
            BY <1>8, <3>2 DEF IInv, Place
        <3>4. pc[u] = "replace" => files'[Temp(u)] = files[Temp(u)]
            BY <1>1, <1>6, <3>1, <3>2, TempAlone DEF Writing
        <3>5. ASSUME NEW n \in Names PROVE files'[<<n, u>>] = files[<<n, u>>]
            <4>1. <<n, u>> \in Paths /\ <<n, u>> # Temp(w) /\ <<n, u>> # path[w]
                BY <1>1, <2>3, <2>7, TempAlone, PathKinds
            <4> QED BY <1>6, <4>1
        <3> QED BY <3>3, <3>4, <3>5 DEF Keeps
    <2>8. Temporary(w)'
        <3> SUFFICES ASSUME NEW n \in Names, files'[<<n, w>>] # "absent" PROVE FALSE
            BY DEF Temporary
        <3>1. <<n, w>> \in Paths /\ <<n, w>> # Temp(w)
            BY <1>6, PathKinds
        <3>2. <<n, w>> # path[w]
            BY <2>2, <2>3
        <3>3. files[<<n, w>>] # "absent"
            BY <1>6, <3>1, <3>2
        <3>4. path[w] = <<n>>
            BY <2>1, <2>2, <3>3 DEF Temporary
        <3> QED BY <3>1, <3>4, TempPath DEF Temp
    <2>9. Write(w)'
        BY <1>4 DEF Write, Writing
    <2>10. PassOnly(w)
        <3> SUFFICES ASSUME NEW s \in Seeds, Passed(w, s)', ~Passed(w, s)
                     PROVE  files'[<<s>>] = "seed"
            BY DEF PassOnly
        <3>1. path[w] = <<s>> /\ s \notin left[w]
            BY <1>4, <2>2 DEF Passed
        <3>2. data[w] = "seed"
            BY <2>2, <3>1 DEF IInv, Place, Placed, Writing
        <3> QED BY <2>4, <3>1, <3>2 DEF Names
    <2> QED BY <2>5, <2>6, <2>7, <2>8, <2>9, <2>10
<1>10. growing' \subseteq found'
    BY <1>7 DEF IInv
<1>12. meddled' = meddled /\ pc[w] # "killed"
    OBVIOUS
<1> QED BY <1>2, <1>3, <1>5, <1>9, <1>10, <1>12, RunStep

LEMMA StopStep == ASSUME NEW w \in Writers PROVE IInv /\ Stop(w) => IInv'
<1> SUFFICES ASSUME IInv, Stop(w) PROVE IInv'
    OBVIOUS
<1> USE DEF Stop, Goto, fuzzVars
<1>1. pc[w] \in Writing => path[w] \in Paths /\ Temp(w) \in Paths
    BY DEF IInv, Place, Placed
<1>2. Types'
    <2>1. files' \in [Paths -> Contents] /\ own' \in SUBSET Writers
        BY <1>1 DEF IInv, Types, Contents, Writing
    <2>2. pc' \in [Writers -> Labels]
        BY DEF IInv, Types, Labels
    <2> QED BY <2>1, <2>2 DEF IInv, Types
<1>3. \A u \in Writers \ {w} : RunSame(u)
    BY DEF IInv, Types, RunSame
<1>4. pc[w] # "killed" /\ pc'[w] \in {"killed", "failed"} /\ own' = own \ {w}
    BY DEF IInv, Types
<1>5. Place(w)'
    BY <1>4 DEF Place, Placed, Writing
<1>6. Write(w)' /\ PassOnly(w)
    BY <1>4 DEF Write, PassOnly, Passed, Writing
<1>7. ASSUME Sound
      PROVE  /\ Temporary(w)' /\ Whole' /\ SeedsKept(w) /\ UnitsBehind
             /\ \A u \in Writers \ {w} : pc[u] = "killed" \/ Keeps(u)
    <2>1. Temporary(w) /\ Whole
        BY <1>7 DEF Sound
    <2>2. CASE files' = files
        <3>1. Whole' /\ SeedsKept(w) /\ UnitsBehind /\ \A u \in Writers \ {w} : Keeps(u)
            <4>1. FullRun => FullRun'
                BY <1>3, <1>4 DEF FullRun, RunSame
            <4> QED BY <1>4, <2>1, <2>2, <4>1
                    DEF Whole, UnitKept, SeedsKept, UnitsBehind, Behind, Keeps, fuzzVars
        <3>2. Temporary(w)'
            <4>1. CASE pc'[w] = "killed"
                BY <4>1 DEF Temporary
            <4>2. CASE pc'[w] = "failed"
                <5>1. pc[w] = "open" \/ (pc[w] \in Writing /\ files'[Temp(w)] = "absent")
                    BY <1>1, <4>2 DEF IInv, Types, Writing
                <5>2. pc[w] = "open" => w \notin own
                    BY DEF IInv, Place, Writing
                <5>3. ASSUME NEW n \in Names, files'[<<n, w>>] # "absent" PROVE FALSE
                    <6>1. w \in own /\ path[w] = <<n>>
                        BY <1>4, <2>1, <2>2, <5>3 DEF Temporary
                    <6>2. Temp(w) = <<n, w>>
                        <7> HIDE DEF Stop
                        <7>1. Append(<<n>>, w) = <<n, w>>
                            BY TempPath
                        <7> QED BY <6>1, <7>1 DEF Temp
                    <6> QED BY <5>1, <5>2, <5>3, <6>1, <6>2
                <5> QED BY <5>3 DEF Temporary
            <4> QED BY <1>4, <4>1, <4>2
        <3> QED BY <3>1, <3>2
    <2>3. CASE pc[w] \in Writing /\ files' = [files EXCEPT ![Temp(w)] = "absent"]
        <3>1. /\ \A p \in Paths \ {Temp(w)} : files'[p] = files[p]
              /\ files'[Temp(w)] = "absent"
            BY <1>1, <2>3 DEF IInv, Types
        <3>2. \A u \in Writers \ {w} : u \in own => u \in own'
            BY <1>4
        <3>3. Whole' /\ SeedsKept(w) /\ UnitsBehind /\ \A u \in Writers \ {w} : Keeps(u)
            BY <1>1, <1>3, <1>4, <1>7, <2>3, <3>1, <3>2, TempStep
        <3>4. ASSUME NEW n \in Names, files'[<<n, w>>] # "absent" PROVE FALSE
            <4>1. <<n, w>> \in Paths /\ <<n, w>> # Temp(w)
                BY <3>1, <3>4, PathKinds
            <4>2. path[w] = <<n>>
                BY <1>4, <2>1, <3>1, <3>4, <4>1 DEF Temporary
            <4> QED BY <4>1, <4>2, TempPath DEF Temp
        <3> QED BY <3>3, <3>4 DEF Temporary
    <2> QED BY <2>2, <2>3 DEF Writing
<1>8. growing' \subseteq found'
    BY DEF IInv
<1> QED BY <1>2, <1>3, <1>4, <1>5, <1>6, <1>7, <1>8, RunStep

-----------------------------------------------------------------------------
(* libFuzzer, and the user *)

\* Only the file of one seed or unit changes.
LEMMA NameStep ==
    ASSUME IInv, NEW m \in Names, UNCHANGED <<mode, runVars, reverted, meddled>>,
           Types', growing' \subseteq found',
           \A p \in Paths \ {<<m>>} : files'[p] = files[p],
           ~meddled /\ Sound => Whole' /\ SeedsKept(None) /\ UnitsBehind
    PROVE  IInv'
<1> USE DEF runVars
<1>1. \A u \in Writers : RunSame(u)
    BY DEF RunSame
<1>2. \A u \in Writers : Place(u)'
    BY <1>1, PlaceSame DEF IInv
<1>3. ASSUME ~meddled' PROVE Sound'
    <2>1. ~meddled /\ Sound
        BY <1>3 DEF IInv
    <2>2. Whole' /\ SeedsKept(None) /\ UnitsBehind
        BY <2>1
    <2>4. \A s \in Seeds : Held(s) => Held(s)'
        BY <1>1, <2>2, NameAssumption, HeldKept
    <2>3. ASSUME NEW u \in Writers PROVE Temporary(u)' /\ Write(u)' /\ Seen(u)'
        <3>1. pc[u] = "replace" => Temp(u) \in Paths /\ Temp(u) # <<m>>
            BY TempApart DEF IInv, Place, Placed, Writing
        <3>2. \A n \in Names : <<n, u>> \in Paths /\ <<n, u>> # <<m>>
            BY PathKinds, TupleSame
        <3>3. Keeps(u)
            BY <3>1, <3>2 DEF Keeps
        <3>4. Temporary(u) /\ Write(u) /\ Seen(u)
            BY <2>1 DEF Sound
        <3> QED BY <1>1, <2>2, <2>4, <3>3, <3>4, RunSound
    <2> QED BY <2>2, <2>3 DEF Sound
<1> QED BY <1>2, <1>3 DEF IInv

LEMMA FindStep == ASSUME NEW u \in Units PROVE IInv /\ Find(u) => IInv'
<1> SUFFICES ASSUME IInv, Find(u) PROVE IInv'
    OBVIOUS
<1> USE DEF Find, fuzzVars
<1>1. u \in Names /\ <<u>> \in Paths
    BY PathKinds DEF Names
<1>2. Types'
    BY <1>1 DEF IInv, Types, Contents, runVars, fuzzVars
<1>3. \A p \in Paths \ {<<u>>} : files'[p] = files[p]
    BY DEF IInv, Types
<1>4. \A n \in Names : n # u => files'[<<n>>] = files[<<n>>]
    BY <1>3, PathKinds, TupleSame
<1>5. ASSUME Sound PROVE Whole' /\ SeedsKept(None) /\ UnitsBehind
    <2>1. Whole'
        <3>1. FullRun' <=> FullRun
            BY DEF FullRun, runVars
        <3> QED BY <1>4, <1>5, <3>1 DEF Sound, Whole, UnitKept, IInv, Types, Names, fuzzVars
    <2>2. SeedsKept(None)
        BY <1>4, NameAssumption DEF SeedsKept, Names
    <2>3. UnitsBehind
        BY <1>4 DEF UnitsBehind, Behind, Names, fuzzVars
    <2> QED BY <2>1, <2>2, <2>3
<1>6. growing' \subseteq found'
    BY DEF IInv
<1> QED BY <1>1, <1>2, <1>3, <1>5, <1>6, NameStep

LEMMA FinishStep == ASSUME NEW u \in Units PROVE IInv /\ Finish(u) => IInv'
<1> SUFFICES ASSUME IInv, Finish(u) PROVE IInv'
    OBVIOUS
<1> USE DEF Finish, fuzzVars
<1>0. PICK content \in {"raw", "norm"} :
         /\ files' = [files EXCEPT ![<<u>>] = content]
         /\ wrote' = [wrote EXCEPT ![u] = content]
    OBVIOUS
<1>1. u \in Names /\ <<u>> \in Paths
    BY PathKinds DEF Names
<1>2. Types'
    BY <1>1 DEF IInv, Types, Contents, runVars, fuzzVars
<1>3. \A p \in Paths \ {<<u>>} : files'[p] = files[p]
    BY DEF IInv, Types
<1>4. \A n \in Names : files'[<<n>>] = IF n = u THEN content ELSE files[<<n>>]
    <2>1. files'[<<u>>] = content
        BY <1>0, <1>1 DEF IInv, Types
    <2> QED BY <1>3, <2>1, PathKinds, TupleSame
<1>5. ASSUME Sound PROVE Whole' /\ SeedsKept(None) /\ UnitsBehind
    <2>1. Whole'
        <3>1. FullRun' <=> FullRun
            BY DEF FullRun, runVars
        <3>2. \A n \in Units : wrote'[n] = IF n = u THEN content ELSE wrote[n]
            BY <1>0 DEF IInv, Types
        <3> QED BY <1>4, <1>5, <3>1, <3>2 DEF Sound, Whole, UnitKept, IInv, Types, Names, fuzzVars
    <2>2. SeedsKept(None)
        BY <1>4, NameAssumption DEF SeedsKept, Names
    <2>3. UnitsBehind
        BY <1>4 DEF UnitsBehind, Behind, Names, fuzzVars
    <2> QED BY <2>1, <2>2, <2>3
<1>6. growing' \subseteq found'
    BY DEF IInv
<1> QED BY <1>1, <1>2, <1>3, <1>5, <1>6, NameStep

LEMMA RemoveStep == ASSUME NEW n \in Names PROVE IInv /\ Remove(n) => IInv'
<1> SUFFICES ASSUME IInv, Remove(n) PROVE IInv'
    OBVIOUS
<1> USE DEF Remove, fuzzVars
<1>1. <<n>> \in Paths
    BY PathKinds
<1>2. Types'
    BY <1>1 DEF IInv, Types, Contents, runVars, fuzzVars
<1>3. \A p \in Paths \ {<<n>>} : files'[p] = files[p]
    BY DEF IInv, Types
<1>4. \A m \in Names : files'[<<m>>] = IF m = n THEN "absent" ELSE files[<<m>>]
    <2>1. files'[<<n>>] = "absent"
        BY <1>1 DEF IInv, Types
    <2> QED BY <1>3, <2>1, PathKinds, TupleSame
<1>5. ASSUME Sound PROVE Whole' /\ SeedsKept(None) /\ UnitsBehind
    <2>1. Whole'
        <3>1. FullRun' <=> FullRun
            BY DEF FullRun, runVars
        <3> QED BY <1>4, <1>5, <3>1 DEF Sound, Whole, UnitKept, IInv, Types, Names, fuzzVars
    <2>2. SeedsKept(None)
        BY <1>4 DEF SeedsKept, Names
    <2>3. UnitsBehind
        BY <1>4 DEF UnitsBehind, Behind, Names, fuzzVars
    <2> QED BY <2>1, <2>2, <2>3
<1>6. growing' \subseteq found'
    BY DEF IInv
<1> QED BY <1>2, <1>3, <1>5, <1>6, NameStep

LEMMA NextIInv == IInv /\ [Next]_vars => IInv'
<1> SUFFICES ASSUME IInv, [Next]_vars PROVE IInv'
    OBVIOUS
<1>1. ASSUME NEW w \in Writers,
             \/ List(w) \/ Look(w) \/ Read(w) \/ EndScan(w)
             \/ LookSeed(w) \/ Compare(w) \/ EndSeeds(w)
      PROVE  IInv'
    BY <1>1, ListStep, LookStep, ReadStep, EndScanStep, LookSeedStep, CompareStep,
       EndSeedsStep
<1>2. ASSUME NEW w \in Writers, OpenTemp(w) \/ WriteTemp(w) \/ Replace(w) \/ Stop(w)
      PROVE  IInv'
    BY <1>2, OpenTempStep, WriteTempStep, ReplaceStep, StopStep
<1>3. ASSUME NEW u \in Units, Find(u) \/ Finish(u) PROVE IInv'
    BY <1>3, FindStep, FinishStep
<1>4. ASSUME NEW n \in Names, Remove(n) PROVE IInv'
    BY <1>4, RemoveStep
<1>5. CASE UNCHANGED vars
    <2> USE <1>5 DEF vars, runVars, fuzzVars
    <2>1. Types' /\ growing' \subseteq found' /\ meddled' = meddled
        BY DEF IInv, Types
    <2>2. \A w \in Writers : Place(w)'
        BY DEF IInv, Place, Temp
    <2>3. \A w \in Writers, s \in Seeds : Passed(w, s)' <=> Passed(w, s)
        BY DEF Passed
    <2>4. \A s \in Seeds : Held(s)' <=> Held(s)
        BY <2>3 DEF Held
    <2>5. ASSUME NEW w \in Writers, Temporary(w), Write(w), Seen(w)
          PROVE  Temporary(w)' /\ Write(w)' /\ Seen(w)'
        BY <2>3, <2>4, <2>5 DEF Temporary, Write, Seen, Behind, Temp
    <2>6. Whole => Whole'
        BY DEF Whole, UnitKept, FullRun
    <2> QED BY <2>1, <2>2, <2>5, <2>6 DEF IInv, Sound
<1> QED BY <1>1, <1>2, <1>3, <1>4, <1>5 DEF Next

-----------------------------------------------------------------------------
(* Theorems *)

\* The inductive invariant holds, for any number of runs of
\* normalize-corpus-flags.py beside each other and beside libFuzzer.
THEOREM Invariant == Spec => []IInv
<1>1. Init => IInv
    BY InitIInv
<1>2. IInv /\ [Next]_vars => IInv'
    BY NextIInv
<1> QED BY <1>1, <1>2, PTL DEF Spec

\* Wherever runs are killed, nothing under the name of a seed is ever the
\* beginning of a file, and what libFuzzer has found stays as it wrote it, but
\* for a full run that normalizes it, until somebody removes it: unless a full
\* run read a file that another was writing.
THEOREM NamesAreWhole == Spec => []FilesWhole
<1>1. IInv => FilesWhole
    <2> SUFFICES ASSUME IInv, ~meddled
                 PROVE  /\ \A s \in Seeds : files[<<s>>] \in {"absent", "raw", "norm", "seed"}
                        /\ \A u \in found \ growing : UnitKept(u) \/ u \in removed
        BY DEF FilesWhole
    <2>1. Whole
        BY DEF IInv, Sound
    <2>2. \A s \in Seeds : s \in Names \ growing
        BY NameAssumption DEF IInv, Types, Names
    <2> QED BY <2>1, <2>2 DEF Whole
<1> QED BY <1>1, Invariant, PTL

\* A run that ends normally has left every seed at its name, but for what
\* somebody removed or a full run that has not ended normally put back, and with
\* the same exception.
THEOREM CompleteRuns == Spec => []RunsComplete
<1>1. IInv => RunsComplete
    <2> SUFFICES ASSUME IInv, ~meddled, NEW w \in Writers, pc[w] = "done", NEW s \in Seeds
                 PROVE  \/ files[<<s>>] = "seed" \/ s \in removed
                        \/ \E v \in Writers : <<v, s>> \in reverted /\ pc[v] # "done"
        BY DEF RunsComplete
    <2>1. ASSUME NEW v \in Writers, pc[v] = "done" PROVE Passed(v, s)
        BY <2>1 DEF IInv, Place, Passed, Placed, Writing
    <2>2. Seen(w)
        BY DEF IInv, Sound
    <2>3. Held(s)
        BY <2>1, <2>2 DEF Seen
    <2> QED BY <2>1, <2>3 DEF Held
<1> QED BY <1>1, Invariant, PTL
=============================================================================
