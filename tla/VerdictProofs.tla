---------------------------- MODULE VerdictProofs ----------------------------
(***************************************************************************)
(* The two programs that pass judgement on what others left behind.           *)
(*                                                                           *)
(* asanProcess.sh: what it leaves out is the harness's own, and a shutdown    *)
(* that was reported is recognised, for every number of launches and every    *)
(* set of process ids, in every order of the supervisor, lighttpd, logrotate  *)
(* and the triage.                                                            *)
(*                                                                           *)
(* check_build.py: a verdict of 0, 1 or 2 means what it says, and no input is *)
(* overwritten, for every configuration, every tree of files and every build  *)
(* that changes some of them meanwhile.                                       *)
(*                                                                           *)
(* The scan of the error log and the modes of the checker are folds, so there *)
(* is induction over lines and sections.  It is done with sets of numbers     *)
(* (NatRule), and the recursive function of the fold is first shown to exist  *)
(* (IterExists; the function h of LastSpeakerDecides).                        *)
(***************************************************************************)
EXTENDS ShutdownTriage, ArtifactPolicy, FiniteSetTheorems, SequenceTheorems, TLAPS

\* A set of numbers that is not empty has a least one.
LEMMA NatLeast ==
    ASSUME NEW T \in SUBSET Nat, T # {}
    PROVE  \E m \in T : \A n \in T : m <= n
<1> DEFINE I == {0 .. n : n \in T}
<1>1. I \subseteq FiniteSubsetsOf(Nat)
    <2> SUFFICES ASSUME NEW n \in T PROVE 0 .. n \in FiniteSubsetsOf(Nat)
        OBVIOUS
    <2>1. IsFiniteSet(0 .. n)
        BY FS_Interval
    <2> QED BY <2>1 DEF FiniteSubsetsOf
<1>2. IsWellFoundedOn(StrictSubsetOrdering(Nat), FiniteSubsetsOf(Nat))
    BY FS_StrictSubsetOrderingWellFounded
<1>3. PICK x \in I : \A y \in I : <<y, x>> \notin StrictSubsetOrdering(Nat)
    <2>1. I # {}
        OBVIOUS
    <2> HIDE DEF I
    <2> QED BY <1>1, <1>2, <2>1, WFMin
<1>4. PICK m \in T : x = 0 .. m
    OBVIOUS
<1>5. ASSUME NEW n \in T, n < m PROVE FALSE
    <2>1. 0 .. n \in I /\ 0 .. n \subseteq 0 .. m /\ 0 .. n # 0 .. m
        BY <1>5
    <2>2. <<0 .. n, 0 .. m>> \in StrictSubsetOrdering(Nat)
        BY <2>1 DEF StrictSubsetOrdering
    <2> QED BY <2>1, <2>2, <1>3, <1>4
<1> QED BY <1>5

\* Induction: the numbers that something is true of are all numbers.
LEMMA NatRule ==
    ASSUME NEW T \in SUBSET Nat, 0 \in T, \A n \in T : n + 1 \in T
    PROVE  \A n \in Nat : n \in T
<1> SUFFICES ASSUME Nat \ T # {} PROVE FALSE
    OBVIOUS
<1>1. PICK m \in Nat \ T : \A n \in Nat \ T : m <= n
    BY NatLeast
<1>2. m - 1 \in T
    BY <1>1
<1> QED BY <1>1, <1>2

-----------------------------------------------------------------------------
(* The scan, line by line *)

\* The function the fold is made of: what was found in a set of lines.
IterAt(f, sh, lines, s) ==
    IF s = {} THEN NoScan ELSE Read(sh, f[s \ {Max(s)}], lines[Max(s)])

IsIter(f, sh, lines) == f = [s \in SUBSET DOMAIN lines |-> IterAt(f, sh, lines, s)]

Iter(sh, lines) == CHOOSE f : IsIter(f, sh, lines)

LEMMA ScanIs == \A sh, lines : ScanOf(sh, lines) = Iter(sh, lines)[DOMAIN lines]
BY DEF ScanOf, FoldLeft, MapThenFoldSet, Iter, IsIter, IterAt

LEMMA MaxIs ==
    ASSUME NEW n \in Nat, NEW s \in SUBSET (1 .. n), s # {}
    PROVE  Max(s) \in s /\ \A y \in s : y <= Max(s)
<1> DEFINE U == {n - x : x \in s}
<1>1. U \in SUBSET Nat /\ U # {}
    <2>1. ASSUME NEW x \in s PROVE n - x \in Nat
        <3>1. x \in 1 .. n
            OBVIOUS
        <3> QED BY <3>1
    <2> QED BY <2>1
<1>2. PICK m \in U : \A y \in U : m <= y
    <2> HIDE DEF U
    <2> QED BY <1>1, NatLeast
<1>3. PICK x \in s : m = n - x
    BY <1>2
<1>4. \A y \in s : x >= y
    <2> TAKE y \in s
    <2>1. n - x <= n - y
        BY <1>2, <1>3
    <2> QED BY <2>1
<1>5. Max(s) \in s /\ \A y \in s : Max(s) >= y
    BY <1>3, <1>4 DEF Max
<1> QED BY <1>5

\* The lines up to k, without the last of them.
LEMMA WithoutMax ==
    ASSUME NEW k \in Nat, NEW s \in SUBSET (1 .. k + 1), s # {}
    PROVE  s \ {Max(s)} \subseteq 1 .. k /\ Max(s) \in s
<1>1. Max(s) \in s /\ \A y \in s : y <= Max(s)
    <2>1. PICK m \in Nat : m = k + 1
        OBVIOUS
    <2>2. s \in SUBSET (1 .. m)
        BY <2>1
    <2> QED BY <2>1, <2>2, MaxIs
<1>2. ASSUME NEW y \in s \ {Max(s)} PROVE y \in 1 .. k
    <2>1. y <= Max(s) /\ y # Max(s) /\ y \in 1 .. k + 1 /\ Max(s) \in 1 .. k + 1
        BY <1>1
    <2> QED BY <2>1
<1> QED BY <1>1, <1>2

LEMMA IterExists ==
    ASSUME NEW sh, NEW lines, NEW n \in Nat, DOMAIN lines = 1 .. n
    PROVE  IsIter(Iter(sh, lines), sh, lines)
<1> DEFINE D == SUBSET DOMAIN lines
           Solves(f, k) == \A s \in D : s \subseteq 1 .. k => f[s] = IterAt(f, sh, lines, s)
           T == {k \in Nat : \E f : Solves(f, k)}
<1>1. 0 \in T
    <2> DEFINE g == [s \in D |-> NoScan]
    <2>1. ASSUME NEW s \in D, s \subseteq 1 .. 0
          PROVE  g[s] = IterAt(g, sh, lines, s)
        <3>1. s = {}
            BY <2>1
        <3>2. g[s] = NoScan
            OBVIOUS
        <3> HIDE DEF g
        <3> QED BY <3>1, <3>2 DEF IterAt
    <2>2. Solves(g, 0)
        BY <2>1
    <2> HIDE DEF Solves, g
    <2> QED BY <2>2
<1>2. ASSUME NEW k \in T PROVE k + 1 \in T
    <2>1. PICK f : Solves(f, k)
        OBVIOUS
    <2> DEFINE g == [s \in D |-> IterAt(f, sh, lines, s)]
    <2>2. ASSUME NEW s \in D, s \subseteq 1 .. k + 1
          PROVE  g[s] = IterAt(g, sh, lines, s)
        <3>1. g[s] = IterAt(f, sh, lines, s)
            OBVIOUS
        <3>2. CASE s # {}
            <4> DEFINE r == s \ {Max(s)}
            <4>1. r \in D /\ r \subseteq 1 .. k
                <5>1. k \in Nat
                    OBVIOUS
                <5>2. r \subseteq 1 .. k
                    BY <2>2, <3>2, <5>1, WithoutMax
                <5> QED BY <5>2
            <4>2. g[r] = IterAt(f, sh, lines, r)
                BY <4>1
            <4>3. f[r] = IterAt(f, sh, lines, r)
                BY <4>1, <2>1
            <4> HIDE DEF g
            <4> QED BY <3>1, <4>2, <4>3, <3>2 DEF IterAt
        <3>3. CASE s = {}
            <4> HIDE DEF g
            <4> QED BY <3>1, <3>3 DEF IterAt
        <3> QED BY <3>2, <3>3
    <2>3. Solves(g, k + 1)
        BY <2>2
    <2> HIDE DEF Solves, g
    <2> QED BY <2>3
<1>3. n \in T
    <2>1. T \in SUBSET Nat
        OBVIOUS
    <2> HIDE DEF T
    <2> QED BY <1>1, <1>2, <2>1, NatRule
<1>4. PICK f : \A s \in D : f[s] = IterAt(f, sh, lines, s)
    BY <1>3
<1> DEFINE h == [s \in D |-> f[s]]
<1>5. ASSUME NEW s \in D
      PROVE  f[s] = IterAt(h, sh, lines, s)
    <2>1. f[s] = IterAt(f, sh, lines, s)
        BY <1>4
    <2>2. f[s \ {Max(s)}] = h[s \ {Max(s)}]
        <3>1. s \ {Max(s)} \in D
            OBVIOUS
        <3> QED BY <3>1
    <2> HIDE DEF h
    <2> QED BY <2>1, <2>2 DEF IterAt
<1>6. IsIter(h, sh, lines)
    BY <1>5 DEF IsIter
<1> HIDE DEF h
<1> QED BY <1>6 DEF Iter

\* What the scan has found after n lines.
After(sh, lines, n) == Iter(sh, lines)[1 .. n]

LEMMA ScanSteps ==
    ASSUME NEW sh, NEW S, NEW lines \in Seq(S)
    PROVE  /\ ScanOf(sh, lines) = After(sh, lines, Len(lines))
           /\ After(sh, lines, 0) = NoScan
           /\ \A n \in 1 .. Len(lines) :
                 After(sh, lines, n) = Read(sh, After(sh, lines, n - 1), lines[n])
<1>1. DOMAIN lines = 1 .. Len(lines) /\ Len(lines) \in Nat
    OBVIOUS
<1>2. IsIter(Iter(sh, lines), sh, lines)
    BY <1>1, IterExists
<1>3. \A s \in SUBSET (1 .. Len(lines)) :
         Iter(sh, lines)[s] = IterAt(Iter(sh, lines), sh, lines, s)
    BY <1>1, <1>2 DEF IsIter
<1>4. ScanOf(sh, lines) = After(sh, lines, Len(lines))
    BY <1>1, ScanIs DEF After
<1>5. After(sh, lines, 0) = NoScan
    <2>1. 1 .. 0 = {}
        OBVIOUS
    <2>2. Iter(sh, lines)[{}] = NoScan
        BY <1>3 DEF IterAt
    <2> QED BY <2>1, <2>2 DEF After
<1>6. ASSUME NEW n \in 1 .. Len(lines)
      PROVE  After(sh, lines, n) = Read(sh, After(sh, lines, n - 1), lines[n])
    <2> DEFINE s == 1 .. n
    <2>1. s \in SUBSET (1 .. Len(lines)) /\ s # {} /\ n \in Nat /\ n \in s
        <3>1. n \in Nat /\ 1 <= n /\ n <= Len(lines)
            BY <1>1
        <3>2. n \in s /\ \A y \in s : y \in 1 .. Len(lines)
            BY <1>1, <3>1
        <3> QED BY <3>1, <3>2
    <2>2. Max(s) \in s /\ \A y \in s : y <= Max(s)
        BY <2>1, MaxIs
    <2>3. Max(s) = n
        BY <2>1, <2>2
    <2>4. s \ {n} = 1 .. (n - 1)
        BY <2>1
    <2> HIDE DEF s
    <2>5. Iter(sh, lines)[s] = Read(sh, Iter(sh, lines)[1 .. (n - 1)], lines[n])
        BY <1>3, <2>1, <2>3, <2>4 DEF IterAt
    <2> QED BY <2>5 DEF After, s
<1> QED BY <1>4, <1>5, <1>6

-----------------------------------------------------------------------------
(* What a scan has found *)

Lines == [kind : {"launch"} \cup Printed, id : Launches \cup Pids \cup {0},
          by : Launches, late : BOOLEAN]

IsLaunch(lines, i) == lines[i].kind = "launch"

\* The last marker above line i is line j.
Above(lines, j, i) ==
    /\ j < i /\ IsLaunch(lines, j)
    /\ \A k \in j + 1 .. i - 1 : ~IsLaunch(lines, k)

\* A log and identities a scan is made with: markers and identities are of
\* launches.
Scannable(sh, lines) ==
    /\ lines \in Seq(Lines)
    /\ \A i \in 1 .. Len(lines) : IsLaunch(lines, i) => lines[i].id \in Launches
    /\ \A x \in sh : \E l \in Launches : \E p : x = <<l, p>>

ScanTypes(sh) ==
    [launch : Launches \cup {0}, tail : BOOLEAN,
     confirmed : SUBSET sh, hidden : SUBSET Lines]

\* The launch of the scan is that of the last marker read.
FoundLaunch(lines, n, t) ==
    /\ t.launch = 0 => \A i \in 1 .. n : ~IsLaunch(lines, i)
    /\ t.launch # 0 => \E j \in 1 .. n : Above(lines, j, n + 1) /\ lines[j].id = t.launch

\* A confirmed identity is of a launch with a marker.
FoundConfirmed(lines, n, t) ==
    \A x \in t.confirmed : \E j \in 1 .. n : IsLaunch(lines, j) /\ lines[j].id = x[1]

\* A hidden line stands below the marker of a launch that is looked for.
FoundHidden(sh, lines, n, t) ==
    \A h \in t.hidden : \E i \in 1 .. n, j \in 1 .. n :
        /\ Above(lines, j, i) /\ ~IsLaunch(lines, i) /\ h = lines[i]
        /\ \E p : <<lines[j].id, p>> \in sh

FoundTail(sh, t) == t.tail => \E p : <<t.launch, p>> \in sh

Found(sh, lines, n, t) ==
    /\ t \in ScanTypes(sh) /\ FoundTail(sh, t)
    /\ FoundLaunch(lines, n, t)
    /\ FoundConfirmed(lines, n, t)
    /\ FoundHidden(sh, lines, n, t)

LEMMA FoundNone ==
    ASSUME NEW sh, NEW lines, NEW t, t = NoScan
    PROVE  Found(sh, lines, 0, t)
<1>1. t \in ScanTypes(sh)
    BY DEF ScanTypes, NoScan
<1>2. t.launch = 0 /\ t.tail = FALSE /\ t.confirmed = {} /\ t.hidden = {}
    BY DEF NoScan
<1> QED BY <1>1, <1>2
        DEF Found, FoundTail, FoundLaunch, FoundConfirmed, FoundHidden

\* One more line that is no marker leaves the last marker where it is.
LEMMA LaunchStays ==
    ASSUME NEW lines, NEW n \in Nat, NEW s, NEW t, t.launch = s.launch,
           FoundLaunch(lines, n, s), ~IsLaunch(lines, n + 1)
    PROVE  FoundLaunch(lines, n + 1, t)
<1>1. ASSUME t.launch = 0, NEW i \in 1 .. n + 1 PROVE ~IsLaunch(lines, i)
    <2>1. i = n + 1 \/ i \in 1 .. n
        OBVIOUS
    <2> QED BY <1>1, <2>1 DEF FoundLaunch
<1>2. ASSUME t.launch # 0
      PROVE  \E j \in 1 .. n + 1 : Above(lines, j, n + 2) /\ lines[j].id = t.launch
    <2>1. PICK j \in 1 .. n : Above(lines, j, n + 1) /\ lines[j].id = t.launch
        BY <1>2 DEF FoundLaunch
    <2>2. j \in 1 .. n + 1 /\ j < n + 2
        OBVIOUS
    <2>3. ASSUME NEW k \in j + 1 .. n + 2 - 1 PROVE ~IsLaunch(lines, k)
        <3>1. k = n + 1 \/ k \in j + 1 .. n + 1 - 1
            OBVIOUS
        <3> QED BY <2>1, <3>1 DEF Above
    <2>4. Above(lines, j, n + 2)
        BY <2>1, <2>2, <2>3 DEF Above
    <2> QED BY <2>1, <2>2, <2>4
<1>3. n + 2 = (n + 1) + 1
    OBVIOUS
<1> QED BY <1>1, <1>2, <1>3 DEF FoundLaunch

\* What was found stays found.
LEMMA FoundStays ==
    ASSUME NEW sh, NEW lines, NEW n \in Nat, NEW s, NEW t
    PROVE  /\ FoundConfirmed(lines, n, s) /\ t.confirmed = s.confirmed
              => FoundConfirmed(lines, n + 1, t)
           /\ FoundHidden(sh, lines, n, s) /\ t.hidden = s.hidden
              => FoundHidden(sh, lines, n + 1, t)
<1>1. 1 .. n \subseteq 1 .. n + 1
    OBVIOUS
<1>2. ASSUME FoundConfirmed(lines, n, s), t.confirmed = s.confirmed
      PROVE  FoundConfirmed(lines, n + 1, t)
    BY <1>1, <1>2 DEF FoundConfirmed
<1>3. ASSUME FoundHidden(sh, lines, n, s), t.hidden = s.hidden
      PROVE  FoundHidden(sh, lines, n + 1, t)
    <2>1. ASSUME NEW h \in t.hidden
          PROVE  \E i \in 1 .. n + 1, j \in 1 .. n + 1 :
                    /\ Above(lines, j, i) /\ ~IsLaunch(lines, i) /\ h = lines[i]
                    /\ \E p : <<lines[j].id, p>> \in sh
        <3>1. PICK i \in 1 .. n, j \in 1 .. n :
                 /\ Above(lines, j, i) /\ ~IsLaunch(lines, i) /\ h = lines[i]
                 /\ \E p : <<lines[j].id, p>> \in sh
            <4>1. h \in s.hidden
                BY <1>3
            <4>2. FoundHidden(sh, lines, n, s)
                BY <1>3
            <4> QED BY <4>1, <4>2, Zenon DEF FoundHidden
        <3> QED BY <1>1, <3>1
    <2> QED BY <2>1 DEF FoundHidden
<1> QED BY <1>2, <1>3

\* A line below the marker of a launch that is looked for is hidden.
LEMMA HiddenGrows ==
    ASSUME NEW sh, NEW lines, NEW n \in Nat, NEW s, NEW t,
           FoundLaunch(lines, n, s), FoundHidden(sh, lines, n, s),
           ~IsLaunch(lines, n + 1), s.launch # 0, \E p : <<s.launch, p>> \in sh,
           t.hidden = s.hidden \cup {lines[n + 1]}
    PROVE  FoundHidden(sh, lines, n + 1, t)
<1>1. 1 .. n \subseteq 1 .. n + 1 /\ n + 1 \in 1 .. n + 1
    OBVIOUS
<1>2. PICK j \in 1 .. n : Above(lines, j, n + 1) /\ lines[j].id = s.launch
    BY DEF FoundLaunch
<1>3. ASSUME NEW h \in t.hidden
      PROVE  \E i \in 1 .. n + 1, k \in 1 .. n + 1 :
                /\ Above(lines, k, i) /\ ~IsLaunch(lines, i) /\ h = lines[i]
                /\ \E p : <<lines[k].id, p>> \in sh
    <2>1. CASE h \in s.hidden
        BY <2>1, <1>1 DEF FoundHidden
    <2>2. CASE h = lines[n + 1]
        BY <2>2, <1>1, <1>2
    <2> QED BY <2>1, <2>2
<1> QED BY <1>3 DEF FoundHidden

LEMMA FoundNext ==
    ASSUME NEW sh, NEW lines, Scannable(sh, lines),
           NEW n \in Nat, n + 1 \in 1 .. Len(lines),
           NEW s, NEW t, Found(sh, lines, n, s), t = Read(sh, s, lines[n + 1])
    PROVE  Found(sh, lines, n + 1, t)
<1> DEFINE line == lines[n + 1]
<1>1. line \in Lines
    BY DEF Scannable
<1>2. s \in ScanTypes(sh) /\ FoundTail(sh, s) /\ FoundLaunch(lines, n, s)
      /\ FoundConfirmed(lines, n, s) /\ FoundHidden(sh, lines, n, s)
    BY DEF Found
<1> HIDE DEF line
<1>3. CASE line.kind = "launch"
    <2>1. t = [s EXCEPT !.launch = line.id, !.tail = FALSE]
        BY <1>3 DEF Read, line
    <2>2. line.id \in Launches /\ line.id # 0
        <3>1. line.id \in Launches
            BY <1>3 DEF Scannable, IsLaunch, line
        <3> QED BY <3>1 DEF Launches
    <2>3. /\ t.launch = line.id /\ t.tail = FALSE
          /\ t.confirmed = s.confirmed /\ t.hidden = s.hidden
        BY <2>1, <1>2 DEF ScanTypes
    <2>4. t \in ScanTypes(sh)
        BY <2>1, <2>2, <1>2 DEF ScanTypes
    <2>5. FoundLaunch(lines, n + 1, t)
        <3>1. Above(lines, n + 1, (n + 1) + 1)
            BY <1>3 DEF Above, IsLaunch, line
        <3>2. n + 1 \in 1 .. n + 1
            OBVIOUS
        <3> QED BY <3>1, <3>2, <2>2, <2>3 DEF FoundLaunch, line
    <2> QED BY <2>3, <2>4, <2>5, <1>2, FoundStays DEF Found, FoundTail
<1>4. CASE line.kind # "launch"
    <2>1. ~IsLaunch(lines, n + 1)
        BY <1>4 DEF IsLaunch, line
    <2>2. CASE line.kind = "exited" /\ Known(s.launch, line.id, sh)
        <3>1. t = [s EXCEPT !.confirmed = @ \cup {<<s.launch, line.id>>},
                            !.hidden = @ \cup {line}, !.tail = TRUE]
            BY <1>4, <2>2 DEF Read, line
        <3>2. /\ t.launch = s.launch /\ t.tail = TRUE
              /\ t.confirmed = s.confirmed \cup {<<s.launch, line.id>>}
              /\ t.hidden = s.hidden \cup {line}
            BY <3>1, <1>2 DEF ScanTypes
        <3>3. <<s.launch, line.id>> \in sh
            BY <2>2 DEF Known
        <3>4. s.launch # 0
            <4>1. PICK l \in Launches : \E p : <<s.launch, line.id>> = <<l, p>>
                BY <3>3 DEF Scannable
            <4>2. s.launch = l
                BY <4>1
            <4> QED BY <4>2 DEF Launches
        <3>5. t \in ScanTypes(sh)
            <4>1. /\ s.confirmed \cup {<<s.launch, line.id>>} \in SUBSET sh
                  /\ s.hidden \cup {line} \in SUBSET Lines
                BY <3>3, <1>1, <1>2 DEF ScanTypes
            <4> QED BY <3>1, <4>1, <1>2 DEF ScanTypes
        <3>6. FoundLaunch(lines, n + 1, t)
            BY <1>2, <2>1, <3>2, LaunchStays
        <3>7. FoundHidden(sh, lines, n + 1, t)
            BY <1>2, <2>1, <3>2, <3>3, <3>4, HiddenGrows DEF line
        <3>8. ASSUME NEW x \in t.confirmed
              PROVE  \E j \in 1 .. n + 1 : IsLaunch(lines, j) /\ lines[j].id = x[1]
            <4>1. 1 .. n \subseteq 1 .. n + 1
                OBVIOUS
            <4>2. CASE x \in s.confirmed
                BY <4>1, <4>2, <1>2 DEF FoundConfirmed
            <4>3. CASE x = <<s.launch, line.id>>
                <5>1. PICK j \in 1 .. n : Above(lines, j, n + 1) /\ lines[j].id = s.launch
                    BY <1>2, <3>4 DEF FoundLaunch
                <5>2. IsLaunch(lines, j) /\ lines[j].id = x[1]
                    BY <4>3, <5>1 DEF Above
                <5> QED BY <4>1, <5>2
            <4> QED BY <3>2, <4>2, <4>3
        <3>9. FoundTail(sh, t)
            BY <3>2, <3>3 DEF FoundTail
        <3> QED BY <3>5, <3>6, <3>7, <3>8, <3>9 DEF Found, FoundConfirmed
    <2>3. CASE /\ ~(line.kind = "exited" /\ Known(s.launch, line.id, sh))
               /\ line.kind = "deadly" /\ s.tail
        <3>1. t = [s EXCEPT !.hidden = @ \cup {line}]
            BY <1>4, <2>3 DEF Read, line
        <3>2. /\ t.launch = s.launch /\ t.tail = s.tail
              /\ t.confirmed = s.confirmed /\ t.hidden = s.hidden \cup {line}
            BY <3>1, <1>2 DEF ScanTypes
        <3>3. PICK p : <<s.launch, p>> \in sh
            BY <2>3, <1>2 DEF FoundTail
        <3>4. s.launch # 0
            <4>1. PICK l \in Launches : \E q : <<s.launch, p>> = <<l, q>>
                BY <3>3 DEF Scannable
            <4>2. s.launch = l
                BY <4>1
            <4> QED BY <4>2 DEF Launches
        <3>5. t \in ScanTypes(sh)
            <4>1. s.hidden \cup {line} \in SUBSET Lines
                BY <1>1, <1>2 DEF ScanTypes
            <4> QED BY <3>1, <4>1, <1>2 DEF ScanTypes
        <3>6. FoundLaunch(lines, n + 1, t)
            BY <1>2, <2>1, <3>2, LaunchStays
        <3>7. FoundHidden(sh, lines, n + 1, t)
            BY <1>2, <2>1, <3>2, <3>3, <3>4, HiddenGrows DEF line
        <3>8. FoundConfirmed(lines, n + 1, t)
            BY <1>2, <3>2, FoundStays
        <3>9. FoundTail(sh, t)
            BY <3>2, <3>3 DEF FoundTail
        <3> QED BY <3>5, <3>6, <3>7, <3>8, <3>9 DEF Found
    <2>4. CASE /\ ~(line.kind = "exited" /\ Known(s.launch, line.id, sh))
               /\ ~(line.kind = "deadly" /\ s.tail)
        <3>1. t = [s EXCEPT !.tail = FALSE]
            BY <1>4, <2>4 DEF Read, line
        <3>2. /\ t.launch = s.launch /\ t.tail = FALSE
              /\ t.confirmed = s.confirmed /\ t.hidden = s.hidden
            BY <3>1, <1>2 DEF ScanTypes
        <3>3. t \in ScanTypes(sh)
            BY <3>1, <1>2 DEF ScanTypes
        <3>4. FoundLaunch(lines, n + 1, t)
            BY <1>2, <2>1, <3>2, LaunchStays
        <3> QED BY <1>2, <3>2, <3>3, <3>4, FoundStays DEF Found, FoundTail
    <2> QED BY <2>2, <2>3, <2>4
<1> QED BY <1>3, <1>4

\* What a scan has found after n lines, for every n.
LEMMA ScanFinds ==
    ASSUME NEW sh, NEW lines, Scannable(sh, lines)
    PROVE  \A n \in 0 .. Len(lines) : Found(sh, lines, n, After(sh, lines, n))
<1> DEFINE T == {n \in Nat : n <= Len(lines) => Found(sh, lines, n, After(sh, lines, n))}
<1>1. lines \in Seq(Lines) /\ Len(lines) \in Nat
    BY DEF Scannable
<1>2. 0 \in T
    <2>1. After(sh, lines, 0) = NoScan
        BY <1>1, ScanSteps
    <2>2. Found(sh, lines, 0, After(sh, lines, 0))
        BY <2>1, FoundNone
    <2> QED BY <2>2
<1>3. ASSUME NEW n \in T PROVE n + 1 \in T
    <2> SUFFICES ASSUME n + 1 <= Len(lines)
                 PROVE  Found(sh, lines, n + 1, After(sh, lines, n + 1))
        OBVIOUS
    <2>1. n \in Nat /\ n + 1 \in 1 .. Len(lines) /\ (n + 1) - 1 = n
        BY <1>1
    <2>2. Found(sh, lines, n, After(sh, lines, n))
        BY <1>1
    <2>3. After(sh, lines, n + 1) = Read(sh, After(sh, lines, n), lines[n + 1])
        <3>1. PICK m \in 1 .. Len(lines) : m = n + 1
            BY <2>1
        <3>2. After(sh, lines, m) = Read(sh, After(sh, lines, m - 1), lines[m])
            BY <1>1, ScanSteps
        <3>3. m - 1 = n
            BY <2>1, <3>1
        <3> QED BY <3>1, <3>2, <3>3
    <2> HIDE DEF T
    <2> QED BY <2>1, <2>2, <2>3, FoundNext
<1>4. \A n \in Nat : n \in T
    <2>1. T \in SUBSET Nat
        OBVIOUS
    <2> HIDE DEF T
    <2> QED BY <1>2, <1>3, <2>1, NatRule
<1> QED BY <1>1, <1>4

\* What the whole scan has found.
LEMMA ScanResult ==
    ASSUME NEW sh, NEW lines, Scannable(sh, lines)
    PROVE  Found(sh, lines, Len(lines), ScanOf(sh, lines))
<1>1. lines \in Seq(Lines) /\ Len(lines) \in 0 .. Len(lines)
    BY DEF Scannable
<1>2. ScanOf(sh, lines) = After(sh, lines, Len(lines))
    BY <1>1, ScanSteps
<1> QED BY <1>1, <1>2, ScanFinds

\* What is confirmed stays confirmed.
LEMMA ConfirmedStays ==
    ASSUME NEW sh, NEW lines, Scannable(sh, lines), NEW n \in 0 .. Len(lines)
    PROVE  After(sh, lines, n).confirmed \subseteq ScanOf(sh, lines).confirmed
<1> DEFINE T == {d \in Nat : n + d <= Len(lines) =>
                    After(sh, lines, n).confirmed \subseteq After(sh, lines, n + d).confirmed}
<1>1. lines \in Seq(Lines) /\ Len(lines) \in Nat /\ n \in Nat
    BY DEF Scannable
<1>2. 0 \in T
    <2>1. n + 0 = n
        BY <1>1
    <2> QED BY <2>1
<1>3. ASSUME NEW d \in T PROVE d + 1 \in T
    <2> SUFFICES ASSUME n + (d + 1) <= Len(lines)
                 PROVE  After(sh, lines, n).confirmed
                        \subseteq After(sh, lines, n + (d + 1)).confirmed
        OBVIOUS
    <2>1. After(sh, lines, n).confirmed \subseteq After(sh, lines, n + d).confirmed
        BY <1>1
    <2>2. PICK m \in 1 .. Len(lines) : m = n + (d + 1) /\ m - 1 = n + d
        BY <1>1
    <2>3. After(sh, lines, m) = Read(sh, After(sh, lines, m - 1), lines[m])
        BY <1>1, ScanSteps
    <2>4. After(sh, lines, m - 1) \in ScanTypes(sh)
        <3>1. PICK k \in 0 .. Len(lines) : k = m - 1
            BY <1>1, <2>2
        <3> QED BY <3>1, ScanFinds DEF Found
    <2> DEFINE s == After(sh, lines, m - 1)
               u == Read(sh, s, lines[m])
    <2>5. s.confirmed \subseteq u.confirmed
        <3> HIDE DEF s
        <3> QED BY <2>4 DEF ScanTypes, Read, s
    <2> HIDE DEF T
    <2> QED BY <2>1, <2>2, <2>3, <2>5
<1>4. \A d \in Nat : d \in T
    <2>1. T \in SUBSET Nat
        OBVIOUS
    <2> HIDE DEF T
    <2> QED BY <1>2, <1>3, <2>1, NatRule
<1>5. PICK d \in Nat : n + d = Len(lines)
    <2>1. Len(lines) - n \in Nat /\ n + (Len(lines) - n) = Len(lines)
        BY <1>1
    <2> QED BY <2>1
<1>6. After(sh, lines, n).confirmed \subseteq After(sh, lines, n + d).confirmed
    BY <1>1, <1>4, <1>5
<1>7. ScanOf(sh, lines) = After(sh, lines, Len(lines))
    BY <1>1, ScanSteps
<1> QED BY <1>5, <1>6, <1>7

\* A line of an exit below a marker is confirmed, if it has an identity that is
\* looked for under the last marker above it.
LEMMA ScanConfirms ==
    ASSUME NEW sh, NEW lines, Scannable(sh, lines),
           NEW i \in 1 .. Len(lines), lines[i].kind = "exited",
           NEW m \in 1 .. Len(lines), m < i, IsLaunch(lines, m)
    PROVE  \E j \in 1 .. Len(lines) :
              /\ Above(lines, j, i)
              /\ <<lines[j].id, lines[i].id>> \in sh
                 => <<lines[j].id, lines[i].id>> \in ScanOf(sh, lines).confirmed
<1>1. lines \in Seq(Lines) /\ Len(lines) \in Nat
    BY DEF Scannable
<1>2. PICK n \in 0 .. Len(lines) : n = i - 1 /\ n + 1 = i
    BY <1>1
<1> DEFINE s == After(sh, lines, n)
<1>3. Found(sh, lines, n, s)
    BY ScanFinds
<1>4. s.launch # 0
    <2>1. m \in 1 .. n
        BY <1>1, <1>2
    <2> QED BY <1>3, <2>1 DEF Found, FoundLaunch
<1>5. PICK j \in 1 .. n : Above(lines, j, n + 1) /\ lines[j].id = s.launch
    BY <1>3, <1>4 DEF Found, FoundLaunch
<1>6. j \in 1 .. Len(lines) /\ Above(lines, j, i)
    <2>1. n + 1 = i /\ Above(lines, j, n + 1)
        BY <1>2, <1>5
    <2>2. j \in 1 .. Len(lines)
        BY <1>1, <1>2
    <2> QED BY <2>1, <2>2
<1>7. ASSUME <<lines[j].id, lines[i].id>> \in sh
      PROVE  <<lines[j].id, lines[i].id>> \in ScanOf(sh, lines).confirmed
    <2>1. After(sh, lines, i) = Read(sh, s, lines[i])
        BY <1>1, <1>2, ScanSteps
    <2>2. s \in ScanTypes(sh)
        BY <1>3 DEF Found
    <2>3. Known(s.launch, lines[i].id, sh)
        BY <1>5, <1>7 DEF Known
    <2> HIDE DEF s
    <2>4. After(sh, lines, i)
          = [s EXCEPT !.confirmed = @ \cup {<<s.launch, lines[i].id>>},
                      !.hidden = @ \cup {lines[i]}, !.tail = TRUE]
        BY <2>1, <2>3 DEF Read
    <2>5. <<s.launch, lines[i].id>> \in After(sh, lines, i).confirmed
        BY <2>2, <2>4 DEF ScanTypes
    <2>6. After(sh, lines, i).confirmed \subseteq ScanOf(sh, lines).confirmed
        <3>1. i \in 0 .. Len(lines)
            BY <1>1
        <3> QED BY <3>1, ConfirmedStays
    <2> QED BY <1>5, <2>5, <2>6
<1> QED BY <1>6, <1>7

-----------------------------------------------------------------------------
(* The inductive invariant *)

Types ==
    /\ sup \in {"down", "errors", "reports", "launch", "up", "signal", "wait"}
    /\ launch \in 0 .. MaxLaunches
    /\ child \in BOOLEAN /\ alive \in BOOLEAN /\ cut \in BOOLEAN
    /\ status \in {"none", "72", "137", "other"}
    /\ expected \in {"none", "72", "137"}
    /\ stopped \in SUBSET (1 .. launch)
    /\ pids \in [Launches -> Pids \cup {0}]
    /\ log \in Seq(Lines)
    /\ reports \in [Launches -> SUBSET Findings]
    /\ here \in SUBSET Launches
    /\ sidecars \in SUBSET (1 .. launch)

\* The process in the tables: it runs only there, and is marked as signalled
\* only by cleanup.
Process ==
    /\ alive => child
    /\ child => launch >= 1 /\ sup \in {"up", "signal", "wait"}
    /\ sup \in {"signal", "wait"} => child
    /\ child /\ ~alive => status # "none"
    /\ expected # "none" => sup = "wait" /\ launch \in stopped
    /\ sup \in {"up", "signal"} => launch \notin stopped

\* A record is of a process that was signalled and is gone: its report is
\* finished.
Records ==
    /\ sidecars \subseteq stopped
    /\ launch \in sidecars => ~alive

\* A line belongs to the launch whose marker is the last one above it ...
Belongs(lines) ==
    \A i \in 1 .. Len(lines), j \in 1 .. Len(lines) :
        Above(lines, j, i) /\ ~IsLaunch(lines, i) => lines[i].by = lines[j].id

\* ... the last marker is that of launch l ...
LastIs(lines, l) ==
    \A j \in 1 .. Len(lines) : Above(lines, j, Len(lines) + 1) => lines[j].id = l

\* ... and an identity in a line is that of its launch.
Named(lines, l, ids) ==
    \A i \in 1 .. Len(lines) :
        /\ IsLaunch(lines, i) => lines[i].id = lines[i].by
        /\ lines[i].by <= l
        /\ lines[i].kind = "exited" => lines[i].id = ids[lines[i].by]

Attributed == Belongs(log) /\ LastIs(log, launch) /\ Named(log, launch, pids)

HasMarkerOf(lines, l) ==
    \E i \in 1 .. Len(lines) : IsLaunch(lines, i) /\ lines[i].id = l

\* The log is emptied before the reports are moved: a launch whose report was
\* moved away has no marker in the log, and gets none.
Moved ==
    /\ sup \in {"reports", "launch"} => log = <<>>
    /\ \A l \in sidecars \ here : (l = launch => sup = "launch") /\ ~HasMarkerOf(log, l)

NoneLate(lines) == \A i \in 1 .. Len(lines) : ~lines[i].late

HasMarker(lines) == \E j \in 1 .. Len(lines) : IsLaunch(lines, j)

LateBelow(lines) ==
    \A i \in 1 .. Len(lines) :
        lines[i].late => \E j \in 1 .. Len(lines) : j < i /\ IsLaunch(lines, j)

\* What a signalled process prints stands below a marker, unless the log was
\* emptied after the one of cleanup.
Late ==
    /\ sup \in {"up", "signal"} => NoneLate(log)
    /\ sup \in {"signal", "wait"} /\ ~cut => HasMarker(log)
    /\ sup \in {"signal", "wait", "down"} /\ ~cut => LateBelow(log)

\* A candidate has its record, and shows no error or is not there any more.
Candidates ==
    /\ pc = "error" => cur \in sidecars
    /\ \A l \in cand : l \in sidecars /\ (l \notin here \/ "error" \notin reports[l])

\* What a scan has found is of stopped processes without an error.
Harmless(l) == l \in sidecars /\ "error" \notin reports[l]

Scanned ==
    /\ \A x \in scan.confirmed : Harmless(x[1])
    /\ \A line \in scan.hidden : Harmless(line.by)

IInv ==
    Types /\ Process /\ Records /\ Attributed /\ Moved /\ Late /\ Candidates /\ Scanned

-----------------------------------------------------------------------------
(* What one line more does to the log *)

LEMMA Appended ==
    ASSUME NEW lines \in Seq(Lines), NEW x \in Lines
    PROVE  /\ Append(lines, x) \in Seq(Lines)
           /\ Len(lines) \in Nat /\ Len(Append(lines, x)) = Len(lines) + 1
           /\ \A i \in 1 .. Len(lines) : Append(lines, x)[i] = lines[i]
           /\ Append(lines, x)[Len(lines) + 1] = x
OBVIOUS

LEMMA EmptyLog ==
    ASSUME NEW lines, lines = <<>>, NEW l, NEW ids
    PROVE  /\ Belongs(lines) /\ LastIs(lines, l) /\ Named(lines, l, ids)
           /\ NoneLate(lines) /\ LateBelow(lines) /\ ~HasMarkerOf(lines, l)
<1>1. 1 .. Len(lines) = {}
    OBVIOUS
<1> QED BY <1>1 DEF Belongs, LastIs, Named, NoneLate, LateBelow, HasMarkerOf

\* Above does not look at the lines below.
LEMMA AboveAlike ==
    ASSUME NEW n \in Nat, NEW u, NEW v, \A k \in 1 .. n : u[k] = v[k],
           NEW i \in 1 .. n + 1, NEW j \in 1 .. n
    PROVE  Above(u, j, i) <=> Above(v, j, i)
<1>1. IsLaunch(u, j) <=> IsLaunch(v, j)
    BY DEF IsLaunch
<1>2. ASSUME NEW k \in j + 1 .. i - 1 PROVE IsLaunch(u, k) <=> IsLaunch(v, k)
    <2>1. k \in 1 .. n
        OBVIOUS
    <2> QED BY <2>1 DEF IsLaunch
<1> QED BY <1>1, <1>2 DEF Above

LEMMA BelongsAppend ==
    ASSUME NEW lines \in Seq(Lines), NEW x \in Lines, Belongs(lines),
           x.kind # "launch" => LastIs(lines, x.by)
    PROVE  Belongs(Append(lines, x))
<1> DEFINE more == Append(lines, x)
           n == Len(lines)
<1>1. n \in Nat /\ Len(more) = n + 1 /\ more[n + 1] = x
      /\ \A k \in 1 .. n : more[k] = lines[k]
    BY Appended
<1> HIDE DEF more, n
<1> SUFFICES ASSUME NEW i \in 1 .. n + 1, NEW j \in 1 .. n + 1,
                    Above(more, j, i), ~IsLaunch(more, i)
             PROVE  more[i].by = more[j].id
    BY <1>1 DEF Belongs, more
<1>2. j \in 1 .. n
    BY <1>1 DEF Above
<1>3. Above(lines, j, i) /\ more[j] = lines[j]
    BY <1>1, <1>2, AboveAlike
<1>4. CASE i \in 1 .. n
    <2>1. more[i] = lines[i] /\ ~IsLaunch(lines, i)
        BY <1>1, <1>4 DEF IsLaunch
    <2> QED BY <1>2, <1>3, <1>4, <2>1 DEF Belongs, n
<1>5. CASE i = n + 1
    <2>1. more[i] = x /\ x.kind # "launch"
        BY <1>1, <1>5 DEF IsLaunch
    <2>2. LastIs(lines, x.by)
        BY <2>1
    <2> QED BY <1>2, <1>3, <1>5, <2>1, <2>2 DEF LastIs, n
<1> QED BY <1>1, <1>4, <1>5

LEMMA LastAppend ==
    ASSUME NEW lines \in Seq(Lines), NEW x \in Lines,
           IF x.kind = "launch" THEN x.id = x.by ELSE LastIs(lines, x.by)
    PROVE  LastIs(Append(lines, x), x.by)
<1> DEFINE more == Append(lines, x)
           n == Len(lines)
<1>1. n \in Nat /\ Len(more) = n + 1 /\ more[n + 1] = x
      /\ \A k \in 1 .. n : more[k] = lines[k]
    BY Appended
<1> HIDE DEF more, n
<1> SUFFICES ASSUME NEW j \in 1 .. n + 1, Above(more, j, (n + 1) + 1)
             PROVE  more[j].id = x.by
    BY <1>1 DEF LastIs, more
<1>2. CASE x.kind = "launch"
    <2>1. IsLaunch(more, n + 1)
        BY <1>1, <1>2 DEF IsLaunch
    <2>2. j = n + 1
        <3>1. SUFFICES ASSUME j # n + 1 PROVE FALSE
            OBVIOUS
        <3>2. n + 1 \in j + 1 .. ((n + 1) + 1) - 1
            BY <1>1, <3>1
        <3> QED BY <2>1, <3>2 DEF Above
    <2> QED BY <1>1, <1>2, <2>2
<1>3. CASE x.kind # "launch"
    <2>1. j # n + 1
        BY <1>1, <1>3 DEF Above, IsLaunch
    <2>2. j \in 1 .. n
        BY <1>1, <2>1
    <2>3. Above(more, j, n + 1)
        <3>1. j < n + 1 /\ IsLaunch(more, j)
            BY <1>1, <2>2 DEF Above
        <3>2. ASSUME NEW k \in j + 1 .. (n + 1) - 1 PROVE ~IsLaunch(more, k)
            <4>1. k \in j + 1 .. ((n + 1) + 1) - 1
                BY <1>1, <2>2
            <4> QED BY <4>1 DEF Above
        <3> QED BY <3>1, <3>2 DEF Above
    <2>4. n + 1 \in 1 .. n + 1
        BY <1>1
    <2>5. Above(lines, j, n + 1)
        BY <1>1, <2>2, <2>3, <2>4, AboveAlike
    <2>6. more[j] = lines[j]
        BY <1>1, <2>2
    <2> QED BY <1>3, <2>2, <2>5, <2>6 DEF LastIs, n
<1> QED BY <1>2, <1>3

LEMMA NamedAppend ==
    ASSUME NEW lines \in Seq(Lines), NEW x \in Lines,
           NEW l \in Nat, NEW m \in Nat, l <= m, NEW ids, NEW more,
           Named(lines, l, ids), x.by <= m,
           x.kind = "launch" => x.id = x.by,
           x.kind = "exited" => x.id = more[x.by],
           \A k \in Launches : k <= l => more[k] = ids[k]
    PROVE  Named(Append(lines, x), m, more)
<1>1. ASSUME NEW i \in 1 .. Len(Append(lines, x))
      PROVE  LET line == Append(lines, x)[i]
             IN  /\ line.kind = "launch" => line.id = line.by
                 /\ line.by <= m
                 /\ line.kind = "exited" => line.id = more[line.by]
    <2>1. CASE i \in 1 .. Len(lines)
        <3>1. Append(lines, x)[i] = lines[i]
            BY <2>1, Appended
        <3>2. /\ lines[i].kind = "launch" => lines[i].id = lines[i].by
              /\ lines[i].by <= l
              /\ lines[i].kind = "exited" => lines[i].id = ids[lines[i].by]
            BY <2>1 DEF Named, IsLaunch
        <3>3. lines[i].by \in Launches
            <4>1. lines[i] \in Lines
                BY <2>1
            <4> QED BY <4>1 DEF Lines
        <3>4. lines[i].by <= m
            BY <3>2, <3>3 DEF Launches
        <3> QED BY <3>1, <3>2, <3>3, <3>4
    <2>2. CASE i = Len(lines) + 1
        <3>1. Append(lines, x)[i] = x
            BY <2>2, Appended
        <3> QED BY <3>1
    <2>3. i \in 1 .. Len(lines) \/ i = Len(lines) + 1
        <3>1. Len(lines) \in Nat /\ Len(Append(lines, x)) = Len(lines) + 1
            BY Appended
        <3> QED BY <3>1
    <2> QED BY <2>1, <2>2, <2>3
<1> QED BY <1>1 DEF Named, IsLaunch

LEMMA MarkersAppend ==
    ASSUME NEW lines \in Seq(Lines), NEW x \in Lines
    PROVE  /\ HasMarker(lines) => HasMarker(Append(lines, x))
           /\ x.kind = "launch" => HasMarker(Append(lines, x))
           /\ NoneLate(lines) /\ ~x.late => NoneLate(Append(lines, x))
           /\ \A l : HasMarkerOf(Append(lines, x), l) =>
                 HasMarkerOf(lines, l) \/ (x.kind = "launch" /\ x.id = l)
<1> DEFINE more == Append(lines, x)
           n == Len(lines)
<1>1. n \in Nat /\ Len(more) = n + 1 /\ more[n + 1] = x
      /\ \A k \in 1 .. n : more[k] = lines[k]
    BY Appended
<1>2. 1 .. n + 1 = (1 .. n) \cup {n + 1}
    BY <1>1
<1> HIDE DEF more, n
<1>3. HasMarker(lines) => HasMarker(more)
    BY <1>1, <1>2 DEF HasMarker, IsLaunch, n
<1>4. x.kind = "launch" => HasMarker(more)
    BY <1>1, <1>2 DEF HasMarker, IsLaunch
<1>5. NoneLate(lines) /\ ~x.late => NoneLate(more)
    BY <1>1, <1>2 DEF NoneLate, n
<1>6. ASSUME NEW l, HasMarkerOf(more, l)
      PROVE  HasMarkerOf(lines, l) \/ (x.kind = "launch" /\ x.id = l)
    BY <1>1, <1>2, <1>6 DEF HasMarkerOf, IsLaunch, n
<1> QED BY <1>3, <1>4, <1>5, <1>6 DEF more

LEMMA LateAppend ==
    ASSUME NEW lines \in Seq(Lines), NEW x \in Lines, LateBelow(lines), HasMarker(lines)
    PROVE  LateBelow(Append(lines, x))
<1> DEFINE more == Append(lines, x)
           n == Len(lines)
<1>1. n \in Nat /\ Len(more) = n + 1 /\ more[n + 1] = x
      /\ \A k \in 1 .. n : more[k] = lines[k]
    BY Appended
<1>2. 1 .. n + 1 = (1 .. n) \cup {n + 1}
    BY <1>1
<1> HIDE DEF more, n
<1> SUFFICES ASSUME NEW i \in 1 .. n + 1, more[i].late
             PROVE  \E j \in 1 .. n + 1 : j < i /\ IsLaunch(more, j)
    BY <1>1 DEF LateBelow, more
<1>3. CASE i \in 1 .. n
    <2>1. PICK j \in 1 .. n : j < i /\ IsLaunch(lines, j)
        <3>1. lines[i].late
            BY <1>1, <1>3
        <3> QED BY <1>3, <3>1 DEF LateBelow, n
    <2>2. IsLaunch(more, j)
        BY <1>1, <2>1 DEF IsLaunch
    <2> QED BY <1>2, <2>1, <2>2
<1>4. CASE i = n + 1
    <2>1. PICK j \in 1 .. n : IsLaunch(lines, j)
        BY DEF HasMarker, n
    <2>2. IsLaunch(more, j) /\ j < i
        BY <1>1, <1>4, <2>1 DEF IsLaunch
    <2> QED BY <1>2, <2>2
<1> QED BY <1>2, <1>3, <1>4

LEMMA NoneLateBelow == \A lines : NoneLate(lines) => LateBelow(lines)
BY DEF NoneLate, LateBelow

-----------------------------------------------------------------------------
(* The invariant holds initially, and every action preserves it *)

LEMMA InitIInv == Init => IInv
<1> SUFFICES ASSUME Init PROVE IInv
    OBVIOUS
<1> USE TriageAssumption
<1>1. Types
    <2>1. <<>> \in Seq(Lines) /\ {} \in SUBSET (1 .. 0) /\ {} \in SUBSET Launches
        OBVIOUS
    <2>2. /\ [l \in Launches |-> 0] \in [Launches -> Pids \cup {0}]
          /\ [l \in Launches |-> {}] \in [Launches -> SUBSET Findings]
        OBVIOUS
    <2>3. 0 \in 0 .. MaxLaunches
        OBVIOUS
    <2> QED BY <2>1, <2>2, <2>3 DEF Init, Types
<1>2. Process /\ Records
    BY DEF Init, Process, Records
<1>3. Attributed /\ Moved /\ Late
    <2>1. Belongs(log) /\ LastIs(log, launch) /\ Named(log, launch, pids)
          /\ LateBelow(log)
        BY EmptyLog DEF Init
    <2> QED BY <2>1 DEF Init, Attributed, Moved, Late
<1>4. Candidates /\ Scanned
    BY DEF Init, Candidates, Scanned, NoScan
<1> QED BY <1>1, <1>2, <1>3, <1>4 DEF IInv

\* asanProcess.sh only reads what the others keep.
LEMMA Frame ==
    ASSUME IInv, UNCHANGED <<supVars, fileVars, procVars>>
    PROVE  (Types /\ Process /\ Records /\ Attributed /\ Moved /\ Late)'
<1> USE DEF IInv, supVars, fileVars, procVars
<1>1. Types'
    BY DEF Types
<1>2. Process' /\ Records'
    BY DEF Process, Records
<1>3. Attributed' /\ Moved' /\ Late'
    BY DEF Attributed, Moved, Late
<1> QED BY <1>1, <1>2, <1>3

\* What asanProcess.sh has found stays true while the reports with a record are
\* left alone or moved away.
LEMMA FindingsFrame ==
    ASSUME IInv, UNCHANGED triageVars, sidecars \subseteq sidecars',
           \A l \in sidecars : reports'[l] = reports[l] /\ (l \in here' => l \in here)
    PROVE  Candidates' /\ Scanned'
<1> USE DEF IInv, triageVars
<1>1. Candidates'
    BY DEF Candidates
<1>2. Scanned'
    BY DEF Scanned, Harmless
<1> QED BY <1>1, <1>2

LEMMA StartCampaignStep == IInv /\ StartCampaign => IInv'
<1> SUFFICES ASSUME IInv, StartCampaign PROVE IInv'
    OBVIOUS
<1> USE DEF IInv, StartCampaign, procVars
<1>1. Types'
    BY DEF Types
<1>2. Process' /\ Records'
    BY DEF Process, Records
<1>3. Attributed' /\ Moved' /\ Late'
    BY DEF Attributed, Moved, Late
<1>4. Candidates' /\ Scanned'
    BY FindingsFrame
<1> QED BY <1>1, <1>2, <1>3, <1>4

LEMMA ArchiveStep == IInv /\ Archive => IInv'
<1> SUFFICES ASSUME IInv, Archive PROVE IInv'
    OBVIOUS
<1> USE DEF IInv, Archive, procVars
<1>1. Types'
    <2>1. log' \in Seq(Lines) /\ here' \in SUBSET Launches
        <3>1. <<>> \in Seq(Lines) /\ {} \in SUBSET Launches
            OBVIOUS
        <3> QED BY <3>1 DEF Types
    <2>2. sup' \in {"reports", "launch"}
        OBVIOUS
    <2> QED BY <2>1, <2>2 DEF Types
<1>2. Process' /\ Records'
    BY DEF Process, Records
<1>3. log' = <<>>
    BY DEF Moved
<1>4. /\ Belongs(log') /\ LastIs(log', launch') /\ Named(log', launch', pids')
      /\ \A l : ~HasMarkerOf(log', l)
    BY <1>3, EmptyLog
<1>5. Attributed' /\ Late'
    BY <1>4 DEF Attributed, Late
<1>6. Moved'
    BY <1>3, <1>4 DEF Moved
<1>7. Candidates' /\ Scanned'
    BY FindingsFrame
<1> QED BY <1>1, <1>2, <1>5, <1>6, <1>7

LEMMA ReapStep == IInv /\ Reap => IInv'
<1> SUFFICES ASSUME IInv, Reap PROVE IInv'
    OBVIOUS
<1> USE DEF IInv, Reap, fileVars
<1>1. Types'
    BY DEF Types
<1>2. Process' /\ Records'
    BY DEF Process, Records
<1>3. Attributed' /\ Moved' /\ Late'
    BY DEF Attributed, Moved, Late
<1>4. Candidates' /\ Scanned'
    BY FindingsFrame
<1> QED BY <1>1, <1>2, <1>3, <1>4

LEMMA SignalStep == IInv /\ Signal => IInv'
<1> SUFFICES ASSUME IInv, Signal PROVE IInv'
    OBVIOUS
<1> USE DEF IInv, Signal, fileVars
<1>1. launch \in 1 .. launch
    BY TriageAssumption DEF Types, Process
<1>2. Types'
    BY <1>1 DEF Types, Process
<1>3. Process' /\ Records'
    BY <1>1 DEF Types, Process, Records
<1>4. Attributed' /\ Moved'
    BY DEF Attributed, Moved
<1>5. Late'
    BY DEF Late
<1>6. Candidates' /\ Scanned'
    BY FindingsFrame
<1> QED BY <1>2, <1>3, <1>4, <1>5, <1>6

LEMMA RecordStep == IInv /\ Record => IInv'
<1> SUFFICES ASSUME IInv, Record PROVE IInv'
    OBVIOUS
<1> USE DEF IInv, Record, fileVars
<1>1. launch \in 1 .. launch
    BY TriageAssumption DEF Types, Process
<1>2. Types'
    BY <1>1 DEF Types
\* The record is only made of a process that was signalled.
<1>3. sidecars' \subseteq stopped'
    BY DEF Process, Records
<1>4. Process' /\ Records'
    BY <1>3 DEF Process, Records
<1>5. sidecars' \ here' \subseteq sidecars \ here
    OBVIOUS
<1>6. Attributed' /\ Late'
    BY DEF Attributed, Late
<1>7. Moved'
    BY <1>5 DEF Moved
<1>8. Candidates' /\ Scanned'
    BY FindingsFrame
<1> QED BY <1>2, <1>4, <1>6, <1>7, <1>8

LEMMA DieStep == ASSUME NEW s \in {"72", "137", "other"} PROVE IInv /\ Die(s) => IInv'
<1> SUFFICES ASSUME IInv, Die(s) PROVE IInv'
    OBVIOUS
<1> USE DEF IInv, Die, supVars, fileVars
<1>1. Types'
    BY DEF Types
<1>2. Process' /\ Records'
    BY DEF Process, Records
<1>3. Attributed' /\ Moved' /\ Late'
    BY DEF Attributed, Moved, Late
<1>4. Candidates' /\ Scanned'
    BY FindingsFrame
<1> QED BY <1>1, <1>2, <1>3, <1>4

LEMMA ReportStep == ASSUME NEW k \in Findings PROVE IInv /\ Report(k) => IInv'
<1> SUFFICES ASSUME IInv, Report(k) PROVE IInv'
    OBVIOUS
<1> USE DEF IInv, Report, supVars, procVars
<1>1. launch \in Launches /\ launch \notin sidecars
    BY TriageAssumption DEF Types, Process, Records, Launches
<1>2. Types'
    BY <1>1 DEF Types
<1>3. Process' /\ Records'
    BY DEF Process, Records
<1>4. Attributed' /\ Late'
    BY DEF Attributed, Late
<1>5. Moved'
    BY DEF Moved
<1>6. Candidates' /\ Scanned'
    <2>1. \A l \in sidecars : reports'[l] = reports[l] /\ (l \in here' => l \in here)
        BY <1>1 DEF Types
    <2> QED BY <2>1, FindingsFrame
<1> QED BY <1>2, <1>3, <1>4, <1>5, <1>6

LEMMA RotateStep == IInv /\ Rotate => IInv'
<1> SUFFICES ASSUME IInv, Rotate PROVE IInv'
    OBVIOUS
<1> USE DEF IInv, Rotate, supVars, procVars
<1>1. Types'
    BY DEF Types
<1>2. Process' /\ Records'
    BY DEF Process, Records
<1>3. /\ Belongs(log') /\ LastIs(log', launch') /\ Named(log', launch', pids')
      /\ NoneLate(log') /\ LateBelow(log') /\ \A l : ~HasMarkerOf(log', l)
    BY EmptyLog
<1>4. Attributed'
    BY <1>3 DEF Attributed
<1>5. Moved'
    BY <1>3 DEF Moved
<1>6. Late'
    BY <1>3 DEF Late
<1>7. Candidates' /\ Scanned'
    BY FindingsFrame
<1> QED BY <1>1, <1>2, <1>4, <1>5, <1>6, <1>7

\* A marker, or a line that a process prints.
LEMMA MarkerType ==
    ASSUME Types, NEW l \in Launches
    PROVE  /\ Marker(l) \in Lines /\ Marker(l).kind = "launch" /\ Marker(l).id = l
           /\ Marker(l).by = l /\ Marker(l).late = FALSE
BY DEF Marker, Lines

LEMMA LineType ==
    ASSUME Types, launch \in Launches, NEW k \in Printed
    PROVE  /\ Line(k) \in Lines /\ Line(k).kind = k /\ Line(k).by = launch
           /\ k = "exited" => Line(k).id = pids[launch]
           /\ Line(k).late = (launch \in stopped)
BY DEF Line, Lines, Types

LEMMA CleanupStep == IInv /\ Cleanup => IInv'
<1> SUFFICES ASSUME IInv, Cleanup PROVE IInv'
    OBVIOUS
<1> USE DEF IInv, Cleanup, procVars
<1>1. CASE ~child /\ sup' = "down" /\ UNCHANGED <<log, cut>>
    <2>1. Types'
        BY <1>1 DEF Types
    <2>2. Process' /\ Records'
        BY <1>1 DEF Process, Records
    <2>3. Attributed' /\ Moved'
        BY <1>1 DEF Attributed, Moved
    <2>4. Late'
        BY <1>1, NoneLateBelow DEF Late
    <2>5. Candidates' /\ Scanned'
        BY FindingsFrame
    <2> QED BY <2>1, <2>2, <2>3, <2>4, <2>5
<1>2. CASE child /\ sup' = "signal" /\ log' = Append(log, Marker(launch)) /\ cut' = FALSE
    <2>1. launch \in Launches /\ launch \in Nat
        BY <1>2, TriageAssumption DEF Types, Process, Launches
    <2>2. /\ Marker(launch) \in Lines /\ Marker(launch).kind = "launch"
          /\ Marker(launch).id = launch /\ Marker(launch).by = launch
          /\ Marker(launch).late = FALSE
        BY <2>1, MarkerType
    <2>3. log \in Seq(Lines) /\ log' \in Seq(Lines)
        BY <1>2, <2>2, Appended DEF Types
    <2>4. Types'
        BY <1>2, <2>3 DEF Types
    <2>5. Process' /\ Records'
        BY <1>2 DEF Process, Records
    <2>6. Belongs(log') /\ LastIs(log', launch)
        BY <1>2, <2>2, <2>3, BelongsAppend, LastAppend DEF Attributed
    <2>7. Named(log', launch, pids)
        <3>1. Named(log, launch, pids) /\ log \in Seq(Lines) /\ log' = Append(log, Marker(launch))
            BY <1>2, <2>3 DEF Attributed
        <3>2. launch <= launch /\ Marker(launch).by <= launch
              /\ Marker(launch).kind # "exited" /\ Marker(launch).id = Marker(launch).by
            BY <2>1, <2>2
        <3> HIDE DEF IInv, Cleanup
        <3> QED BY <2>1, <2>2, <3>1, <3>2, NamedAppend
    <2>8. Attributed'
        BY <2>6, <2>7 DEF Attributed
    <2>9. HasMarker(log') /\ NoneLate(log')
          /\ \A l : HasMarkerOf(log', l) => HasMarkerOf(log, l) \/ l = launch
        BY <1>2, <2>2, <2>3, MarkersAppend DEF Late
    <2>10. Moved'
        BY <1>2, <2>9 DEF Moved
    <2>11. Late'
        BY <1>2, <2>9, NoneLateBelow DEF Late
    <2>12. Candidates' /\ Scanned'
        BY FindingsFrame
    <2> QED BY <2>4, <2>5, <2>8, <2>10, <2>11, <2>12
<1> QED BY <1>1, <1>2

LEMMA SayStep == ASSUME NEW k \in Printed PROVE IInv /\ Say(k) => IInv'
<1> SUFFICES ASSUME IInv, Say(k) PROVE IInv'
    OBVIOUS
<1> USE DEF IInv, Say, supVars
<1>1. launch \in Launches /\ launch \in Nat /\ child
    BY TriageAssumption DEF Types, Process, Launches
<1>2. /\ Line(k) \in Lines /\ Line(k).kind # "launch" /\ Line(k).by = launch
      /\ Line(k).kind = "exited" => Line(k).id = pids[launch]
      /\ Line(k).late = (launch \in stopped)
    BY <1>1, LineType DEF Printed
<1>3. log \in Seq(Lines) /\ log' \in Seq(Lines)
    BY <1>2, Appended DEF Types
<1>4. Types'
    BY <1>3 DEF Types
<1>5. Process' /\ Records'
    BY DEF Process, Records
<1>6. Belongs(log') /\ LastIs(log', launch)
    BY <1>2, <1>3, BelongsAppend, LastAppend DEF Attributed
<1>7. Named(log', launch, pids)
    <2>1. Named(log, launch, pids) /\ log' = Append(log, Line(k))
        BY DEF Attributed
    <2>2. launch <= launch /\ Line(k).by <= launch
          /\ (Line(k).kind = "exited" => Line(k).id = pids[Line(k).by])
        BY <1>1, <1>2
    <2> HIDE DEF IInv, Say
    <2> QED BY <1>1, <1>2, <1>3, <2>1, <2>2, NamedAppend
<1>8. Attributed'
    BY <1>6, <1>7 DEF Attributed
<1>9. /\ HasMarker(log) => HasMarker(log')
      /\ NoneLate(log) /\ launch \notin stopped => NoneLate(log')
      /\ \A l : HasMarkerOf(log', l) => HasMarkerOf(log, l)
    BY <1>2, <1>3, MarkersAppend
<1>10. Moved'
    <2>1. sup \notin {"reports", "launch"}
        BY <1>1 DEF Process
    <2> QED BY <1>9, <2>1 DEF Moved
<1>11. Late'
    <2>1. sup \in {"up", "signal", "wait"} /\ (sup \in {"up", "signal"} => launch \notin stopped)
        BY <1>1 DEF Process
    <2>2. ASSUME sup \in {"signal", "wait"}, ~cut PROVE LateBelow(log')
        BY <1>2, <1>3, <2>2, LateAppend DEF Late
    <2> QED BY <1>9, <2>1, <2>2 DEF Late
<1>12. Candidates' /\ Scanned'
    BY FindingsFrame
<1> QED BY <1>4, <1>5, <1>8, <1>10, <1>11, <1>12

LEMMA LaunchStep == ASSUME NEW p \in Pids PROVE IInv /\ Launch(p) => IInv'
<1> SUFFICES ASSUME IInv, Launch(p) PROVE IInv'
    OBVIOUS
<1> USE DEF IInv, Launch, triageVars
<1> DEFINE l == launch + 1
<1>1. l \in Launches /\ l \in Nat /\ launch \in Nat /\ launch <= l
    BY TriageAssumption DEF Types, Launches
<1>2. launch' = l /\ pids' = [pids EXCEPT ![l] = p]
    OBVIOUS
<1>3. l \notin stopped /\ l \notin sidecars
    BY <1>1 DEF Types
\* The first launch of a campaign starts the log anew, and there is none then.
<1>4. log' = Append(log, Marker(l))
    <2>1. CASE sup = "launch" /\ log' = <<Marker(l)>>
        <3>1. log = <<>>
            BY <2>1 DEF Moved
        <3> QED BY <2>1, <3>1
    <2>2. CASE sup = "up" /\ log' = Append(log, Marker(l))
        BY <2>2
    <2> QED BY <2>1, <2>2
<1> HIDE DEF l
<1>5. /\ Marker(l) \in Lines /\ Marker(l).kind = "launch" /\ Marker(l).id = l
      /\ Marker(l).by = l /\ Marker(l).late = FALSE
    BY <1>1, MarkerType
<1>6. log \in Seq(Lines) /\ log' \in Seq(Lines)
    BY <1>4, <1>5, Appended DEF Types
<1>7. Types'
    <2>1. pids' \in [Launches -> Pids \cup {0}]
        BY <1>1, <1>2 DEF Types
    <2>2. launch' \in 0 .. MaxLaunches /\ 1 .. launch \subseteq 1 .. launch'
        BY <1>1, <1>2 DEF Launches, Types
    <2>3. stopped' \in SUBSET (1 .. launch') /\ sidecars' \in SUBSET (1 .. launch')
        BY <2>2 DEF Types
    <2> QED BY <1>6, <2>1, <2>2, <2>3 DEF Types
<1>8. Process' /\ Records'
    BY <1>1, <1>2, <1>3 DEF Process, Records
<1>9. Belongs(log') /\ LastIs(log', l)
    BY <1>4, <1>5, <1>6, BelongsAppend, LastAppend DEF Attributed
<1>10. Named(log', l, pids')
    <2>1. \A k \in Launches : k <= launch => pids'[k] = pids[k]
        <3>1. ASSUME NEW k \in Launches, k <= launch PROVE k # l
            BY <1>1, <3>1 DEF l, Launches
        <3> QED BY <1>2, <3>1 DEF Types
    <2>2. Named(log, launch, pids)
        BY DEF Attributed
    <2>3. Marker(l).by <= l /\ Marker(l).kind # "exited" /\ Marker(l).id = Marker(l).by
        BY <1>1, <1>5
    <2> HIDE DEF IInv, Launch
    <2> QED BY <1>1, <1>4, <1>5, <1>6, <2>1, <2>2, <2>3, NamedAppend
<1>11. Attributed'
    BY <1>2, <1>9, <1>10 DEF Attributed
<1>12. /\ NoneLate(log) => NoneLate(log')
       /\ \A k : HasMarkerOf(log', k) => HasMarkerOf(log, k) \/ k = l
    BY <1>4, <1>5, <1>6, MarkersAppend
<1>13. Moved'
    BY <1>2, <1>3, <1>12 DEF Moved
<1>14. Late'
    <2>1. NoneLate(log)
        <3>1. CASE sup = "launch"
            BY <3>1, EmptyLog DEF Moved
        <3>2. CASE sup = "up"
            BY <3>2 DEF Late
        <3> QED BY <3>1, <3>2
    <2> QED BY <1>12, <2>1 DEF Late
<1>15. Candidates' /\ Scanned'
    BY FindingsFrame
<1> QED BY <1>7, <1>8, <1>11, <1>13, <1>14, <1>15

LEMMA BeginStep == IInv /\ Begin => IInv'
<1> SUFFICES ASSUME IInv, Begin PROVE IInv'
    OBVIOUS
<1>1. (Types /\ Process /\ Records /\ Attributed /\ Moved /\ Late)'
    BY Frame DEF Begin
<1>2. Candidates' /\ Scanned'
    BY DEF IInv, Begin, Candidates, Scanned, Harmless, supVars, fileVars
<1> QED BY <1>1, <1>2 DEF IInv

LEMMA CheckExitStep == ASSUME NEW l \in Launches PROVE IInv /\ CheckExit(l) => IInv'
<1> SUFFICES ASSUME IInv, CheckExit(l) PROVE IInv'
    OBVIOUS
<1>1. (Types /\ Process /\ Records /\ Attributed /\ Moved /\ Late)'
    BY Frame DEF CheckExit
<1>2. Candidates'
    BY DEF IInv, CheckExit, Candidates, supVars, fileVars
<1>3. Scanned'
    BY DEF IInv, CheckExit, Scanned, Harmless, supVars, fileVars
<1> QED BY <1>1, <1>2, <1>3 DEF IInv

LEMMA CheckErrorStep == IInv /\ CheckError => IInv'
<1> SUFFICES ASSUME IInv, CheckError PROVE IInv'
    OBVIOUS
<1>1. (Types /\ Process /\ Records /\ Attributed /\ Moved /\ Late)'
    BY Frame DEF CheckError
<1>2. Candidates'
    BY DEF IInv, CheckError, Candidates, supVars, fileVars
<1>3. Scanned'
    BY DEF IInv, CheckError, Scanned, Harmless, supVars, fileVars
<1> QED BY <1>1, <1>2, <1>3 DEF IInv

LEMMA EndStep == IInv /\ End => IInv'
<1> SUFFICES ASSUME IInv, End PROVE IInv'
    OBVIOUS
<1>1. (Types /\ Process /\ Records /\ Attributed /\ Moved /\ Late)'
    BY Frame DEF End
<1>2. Candidates' /\ Scanned'
    BY DEF IInv, End, Candidates, Scanned, NoScan
<1> QED BY <1>1, <1>2 DEF IInv

\* The log and the identities of launches can be scanned.
LEMMA LogScannable ==
    ASSUME IInv, NEW S \in SUBSET Launches
    PROVE  Scannable(Shutdowns(S), log)
<1>1. log \in Seq(Lines)
    BY DEF IInv, Types
<1>2. ASSUME NEW i \in 1 .. Len(log), IsLaunch(log, i) PROVE log[i].id \in Launches
    <2>1. log[i] \in Lines
        BY <1>1
    <2>2. log[i].by \in Launches
        BY <2>1 DEF Lines
    <2> QED BY <1>2, <2>2 DEF IInv, Attributed, Named
<1>3. ASSUME NEW x \in Shutdowns(S) PROVE \E l \in Launches : \E p : x = <<l, p>>
    BY DEF Shutdowns
<1> QED BY <1>1, <1>2, <1>3 DEF Scannable

LEMMA LogFits ==
    ASSUME IInv
    PROVE  /\ sidecars \subseteq Launches
           /\ \A l \in cand : HasMarkerOf(log, l) => Harmless(l)
<1>1. sidecars \subseteq Launches
    BY TriageAssumption DEF IInv, Types, Launches
<1>2. ASSUME NEW l \in cand, HasMarkerOf(log, l) PROVE Harmless(l)
    <2>1. l \in sidecars
        BY DEF IInv, Candidates
    <2>2. l \in here
        BY <1>2, <2>1 DEF IInv, Moved
    <2> QED BY <2>1, <2>2 DEF IInv, Candidates, Harmless
<1> QED BY <1>1, <1>2

\* Whatever the scan finds stands below the marker of a candidate: its report
\* was there when it was looked at, so it shows no error.
LEMMA ScanErrorsStep == IInv /\ ScanErrors => IInv'
<1> SUFFICES ASSUME IInv, ScanErrors PROVE IInv'
    OBVIOUS
<1> DEFINE sh == Shutdowns(cand)
           t == ScanOf(sh, log)
<1>1. (Types /\ Process /\ Records /\ Attributed /\ Moved /\ Late)'
    BY Frame DEF ScanErrors
<1>2. Candidates'
    BY DEF IInv, ScanErrors, Candidates, supVars, fileVars
<1>3. cand \in SUBSET Launches
    BY LogFits DEF IInv, Candidates
<1>4. Found(sh, log, Len(log), t)
    BY <1>3, LogScannable, ScanResult
<1>5. scan' = t /\ sidecars' = sidecars /\ reports' = reports
    BY DEF ScanErrors, supVars, fileVars
<1>6. \A l, p : <<l, p>> \in sh => l \in cand
    BY DEF Shutdowns
<1> HIDE DEF t
<1>7. ASSUME NEW x \in t.confirmed PROVE Harmless(x[1])
    <2>1. x \in sh
        BY <1>4 DEF Found, ScanTypes
    <2>2. x[1] \in cand
        BY <2>1 DEF Shutdowns
    <2>3. HasMarkerOf(log, x[1])
        BY <1>4 DEF Found, FoundConfirmed, HasMarkerOf
    <2> QED BY <2>2, <2>3, LogFits
<1>8. ASSUME NEW h \in t.hidden PROVE Harmless(h.by)
    <2> HIDE DEF sh
    <2>1. PICK i \in 1 .. Len(log), j \in 1 .. Len(log) :
             /\ Above(log, j, i) /\ ~IsLaunch(log, i) /\ h = log[i]
             /\ \E p : <<log[j].id, p>> \in sh
        BY <1>4 DEF Found, FoundHidden
    <2>2. log[j].id \in cand
        BY <1>6, <2>1
    <2>3. HasMarkerOf(log, log[j].id)
        BY <2>1 DEF Above, HasMarkerOf
    <2>4. h.by = log[j].id
        BY <2>1 DEF IInv, Attributed, Belongs
    <2> QED BY <2>2, <2>3, <2>4, LogFits
<1>9. Scanned'
    BY <1>5, <1>7, <1>8 DEF Scanned, Harmless
<1> QED BY <1>1, <1>2, <1>9 DEF IInv

LEMMA NextIInv == IInv /\ [Next]_vars => IInv'
<1> SUFFICES ASSUME IInv, [Next]_vars PROVE IInv'
    OBVIOUS
<1>1. CASE StartCampaign
    BY <1>1, StartCampaignStep
<1>2. CASE Archive
    BY <1>2, ArchiveStep
<1>3. CASE Reap
    BY <1>3, ReapStep
<1>4. CASE Cleanup
    BY <1>4, CleanupStep
<1>5. CASE Signal
    BY <1>5, SignalStep
<1>6. CASE Record
    BY <1>6, RecordStep
<1>7. ASSUME NEW p \in Pids, Launch(p) PROVE IInv'
    BY <1>7, LaunchStep
<1>8. ASSUME NEW k \in Findings, Report(k) PROVE IInv'
    BY <1>8, ReportStep
<1>9. ASSUME NEW k \in Printed, Say(k) PROVE IInv'
    BY <1>9, SayStep
<1>10. ASSUME NEW s \in {"72", "137", "other"}, Die(s) PROVE IInv'
    BY <1>10, DieStep
<1>11. CASE Rotate
    BY <1>11, RotateStep
<1>12. CASE Begin
    BY <1>12, BeginStep
<1>13. CASE CheckError
    BY <1>13, CheckErrorStep
<1>14. CASE ScanErrors
    BY <1>14, ScanErrorsStep
<1>15. CASE End
    BY <1>15, EndStep
<1>16. ASSUME NEW l \in Launches, CheckExit(l) PROVE IInv'
    BY <1>16, CheckExitStep
<1>17. CASE UNCHANGED vars
    <2>1. UNCHANGED <<supVars, fileVars, procVars>> /\ UNCHANGED triageVars
        BY <1>17 DEF vars
    <2>2. Candidates' /\ Scanned'
        BY <2>1, FindingsFrame DEF supVars, fileVars
    <2> QED BY <2>1, <2>2, Frame DEF IInv
<1> QED BY <1>1, <1>2, <1>3, <1>4, <1>5, <1>6, <1>7, <1>8, <1>9, <1>10, <1>11,
           <1>12, <1>13, <1>14, <1>15, <1>16, <1>17 DEF Next

-----------------------------------------------------------------------------
(* Theorems *)

\* The inductive invariant holds: in every order of the supervisor, lighttpd,
\* logrotate and asanProcess.sh, lines of the error log belong to the launch
\* whose marker is above them, and a launch whose report was moved away has none.
THEOREM Invariant == Spec => []IInv
<1>1. Init => IInv
    BY InitIInv
<1>2. IInv /\ [Next]_vars => IInv'
    BY NextIInv
<1> QED BY <1>1, <1>2, PTL DEF Spec

\* A report that asanProcess.sh leaves out is of a process that the supervisor
\* stopped, and has no error of AddressSanitizer.
THEOREM OnlyReportsOfShutdowns == Spec => []OnlyShutdownsLeftOut
<1>1. IInv => OnlyShutdownsLeftOut
    <2> SUFFICES ASSUME IInv, NEW l \in LeftOut
                 PROVE  l \in stopped /\ "error" \notin reports[l]
        BY DEF OnlyShutdownsLeftOut
    <2>1. <<l, pids[l]>> \in scan.confirmed
        BY DEF LeftOut
    <2>2. Harmless(<<l, pids[l]>>[1])
        BY <2>1 DEF IInv, Scanned
    <2>3. Harmless(l)
        BY <2>2
    <2> QED BY <2>3 DEF IInv, Records, Harmless
<1> QED BY <1>1, Invariant, PTL

\* A line of the error log that the scan leaves out was printed by such a
\* process, not by an earlier one with the same pid.
THEOREM OnlyLinesOfShutdowns == Spec => []OnlyShutdownLines
<1>1. IInv => OnlyShutdownLines
    BY DEF IInv, Scanned, Harmless, Records, OnlyShutdownLines
<1> QED BY <1>1, Invariant, PTL

\* When a campaign is over, a stopped process that libFuzzer's exit hook has
\* reported on is recognised, if its line is in the log and the log was not
\* emptied after the marker of cleanup.
THEOREM StoppedIsRecognised == Spec => []ShutdownRecognised
<1>1. IInv => ShutdownRecognised
    <2> SUFFICES ASSUME IInv, NEW l \in here \cap sidecars,
                        sup = "down", ~cut, l = launch,
                        NEW i \in DOMAIN log, log[i].kind = "exited",
                        log[i].by = l, log[i].late
                 PROVE  <<l, pids[l]>> \in ScanOf(Shutdowns({l}), log).confirmed
        BY DEF ShutdownRecognised
    <2> DEFINE sh == Shutdowns({l})
    <2>1. i \in 1 .. Len(log)
        BY DEF IInv, Types
    <2>2. Scannable(sh, log)
        <3>1. {l} \in SUBSET Launches
            BY LogFits
        <3> QED BY <3>1, LogScannable
    <2>3. PICK m \in 1 .. Len(log) : m < i /\ IsLaunch(log, m)
        BY <2>1 DEF IInv, Late, LateBelow
    <2>4. <<l, log[i].id>> \in sh
        <3>1. log[i].id = pids[l]
            BY <2>1 DEF IInv, Attributed, Named
        <3> QED BY <3>1 DEF Shutdowns
    <2> HIDE DEF sh
    <2>5. PICK j \in 1 .. Len(log) :
             /\ Above(log, j, i)
             /\ <<log[j].id, log[i].id>> \in sh
                => <<log[j].id, log[i].id>> \in ScanOf(sh, log).confirmed
        BY <2>1, <2>2, <2>3, ScanConfirms
    <2>6. log[j].id = l
        <3>1. ~IsLaunch(log, i)
            BY DEF IsLaunch
        <3> QED BY <2>1, <2>5, <3>1 DEF IInv, Attributed, Belongs
    <2>7. log[i].id = pids[l]
        BY <2>1 DEF IInv, Attributed, Named
    <2> QED BY <2>4, <2>5, <2>6, <2>7 DEF sh
<1> QED BY <1>1, Invariant, PTL

-----------------------------------------------------------------------------
(* The sections of the configuration: the last one that speaks decides *)

\* The sections of S up to position s that speak of c.
Speakers(S, s, c) ==
    {i \in s : config.sections[i] \in S /\ c \in DOMAIN Options(config.sections[i])}

\* What the last of them leaves.
Decided(S, modes, s) ==
    [c \in Checks |->
        IF Speakers(S, s, c) = {} THEN modes[c]
        ELSE Mode(Options(config.sections[Max(Speakers(S, s, c))])[c])]

\* The function the fold is made of.
UpdateAt(f, S, modes, s) ==
    IF s = {} THEN modes
    ELSE IF config.sections[Max(s)] \in S
         THEN Update(f[s \ {Max(s)}], config.sections[Max(s)])
         ELSE f[s \ {Max(s)}]

IsUpdates(f, S, modes) ==
    f = [s \in SUBSET DOMAIN config.sections |-> UpdateAt(f, S, modes, s)]

Updates(S, modes) == CHOOSE f : IsUpdates(f, S, modes)

LEMMA UpdateByIs ==
    \A S, modes : UpdateBy(S, modes) = Updates(S, modes)[DOMAIN config.sections]
BY DEF UpdateBy, FoldLeft, MapThenFoldSet, Updates, IsUpdates, UpdateAt

LEMMA DecidedStep ==
    ASSUME NEW S, NEW modes, modes = [c \in Checks |-> modes[c]],
           NEW n \in Nat, NEW s \in SUBSET (1 .. n), NEW f,
           s # {} => f[s \ {Max(s)}] = Decided(S, modes, s \ {Max(s)})
    PROVE  UpdateAt(f, S, modes, s) = Decided(S, modes, s)
<1>1. CASE s = {}
    <2>1. \A c \in Checks : Speakers(S, s, c) = {}
        BY <1>1 DEF Speakers
    <2>2. Decided(S, modes, s) = [c \in Checks |-> modes[c]]
        BY <2>1 DEF Decided
    <2> QED BY <1>1, <2>2 DEF UpdateAt
<1>2. CASE s # {}
    <2> DEFINE m == Max(s)
               r == s \ {m}
               sec == config.sections[m]
    <2>1. m \in s /\ \A y \in s : y <= m
        BY <1>2, MaxIs
    <2>2. r \in SUBSET (1 .. n) /\ f[r] = Decided(S, modes, r) /\ m \in 1 .. n
        BY <1>2, <2>1
    <2>3. ASSUME NEW c \in Checks, sec \in S, c \in DOMAIN Options(sec)
          PROVE  Decided(S, modes, s)[c] = Mode(Options(sec)[c])
        <3>1. m \in Speakers(S, s, c) /\ Speakers(S, s, c) \in SUBSET (1 .. n)
              /\ Speakers(S, s, c) \subseteq s
            BY <2>1, <2>3 DEF Speakers
        <3>2. Max(Speakers(S, s, c)) = m
            <4> DEFINE t == Max(Speakers(S, s, c))
            <4>1. t \in Speakers(S, s, c) /\ \A y \in Speakers(S, s, c) : y <= t
                BY <3>1, MaxIs
            <4>2. t <= m /\ m <= t /\ t \in 1 .. n
                BY <2>1, <3>1, <4>1
            <4>3. t = m
                <5> HIDE DEF t, m
                <5> QED BY <2>2, <4>2
            <4> QED BY <4>3
        <3> HIDE DEF m
        <3> QED BY <3>1, <3>2 DEF Decided
    <2>4. ASSUME NEW c \in Checks, ~(sec \in S /\ c \in DOMAIN Options(sec))
          PROVE  Decided(S, modes, s)[c] = Decided(S, modes, r)[c]
        <3>1. Speakers(S, s, c) = Speakers(S, r, c)
            BY <2>4 DEF Speakers
        <3> HIDE DEF r
        <3> QED BY <3>1 DEF Decided
    <2>5. CASE sec \in S
        <3>1. UpdateAt(f, S, modes, s) = Update(Decided(S, modes, r), sec)
            BY <1>2, <2>2, <2>5 DEF UpdateAt
        <3>2. \A c \in Checks :
                 Update(Decided(S, modes, r), sec)[c] = Decided(S, modes, s)[c]
            <4> HIDE DEF sec, r
            <4> QED BY <2>3, <2>4, <2>5 DEF Update
        <3> HIDE DEF sec, r
        <3> QED BY <3>1, <3>2 DEF Update, Decided
    <2>6. CASE sec \notin S
        <3>1. UpdateAt(f, S, modes, s) = Decided(S, modes, r)
            BY <1>2, <2>2, <2>6 DEF UpdateAt
        <3>2. \A c \in Checks : Decided(S, modes, r)[c] = Decided(S, modes, s)[c]
            <4> HIDE DEF sec, r
            <4> QED BY <2>4, <2>6
        <3> HIDE DEF sec, r
        <3> QED BY <3>1, <3>2 DEF Decided
    <2> QED BY <2>5, <2>6
<1> QED BY <1>1, <1>2

\* A fold of updates leaves what the last section that speaks says.
LEMMA LastSpeakerDecides ==
    ASSUME NEW S, NEW modes, modes = [c \in Checks |-> modes[c]],
           NEW n \in Nat, DOMAIN config.sections = 1 .. n
    PROVE  UpdateBy(S, modes) = Decided(S, modes, 1 .. n)
<1> DEFINE h == [s \in SUBSET (1 .. n) |-> Decided(S, modes, s)]
           f == Updates(S, modes)
           T == {k \in Nat : k <= n => f[1 .. k] = Decided(S, modes, 1 .. k)}
<1>1. IsUpdates(h, S, modes)
    <2>1. ASSUME NEW s \in SUBSET (1 .. n)
          PROVE  Decided(S, modes, s) = UpdateAt(h, S, modes, s)
        <3>1. h[s \ {Max(s)}] = Decided(S, modes, s \ {Max(s)})
            OBVIOUS
        <3> HIDE DEF h
        <3> QED BY <3>1, DecidedStep
    <2>2. h = [s \in SUBSET (1 .. n) |-> UpdateAt(h, S, modes, s)]
        <3> DEFINE g == [s \in SUBSET (1 .. n) |-> UpdateAt(h, S, modes, s)]
        <3>1. \A s \in SUBSET (1 .. n) : h[s] = g[s]
            BY <2>1
        <3>2. DOMAIN h = SUBSET (1 .. n) /\ DOMAIN g = SUBSET (1 .. n)
              /\ h = [s \in SUBSET (1 .. n) |-> h[s]] /\ g = [s \in SUBSET (1 .. n) |-> g[s]]
            OBVIOUS
        <3> HIDE DEF h, g
        <3>3. h = g
            BY <3>1, <3>2
        <3> QED BY <3>3 DEF g
    <2> HIDE DEF h
    <2> QED BY <2>2 DEF IsUpdates
<1>2. \A s \in SUBSET (1 .. n) : f[s] = UpdateAt(f, S, modes, s)
    <2>1. IsUpdates(f, S, modes)
        <3> HIDE DEF h
        <3> QED BY <1>1 DEF Updates
    <2> HIDE DEF f
    <2> QED BY <2>1 DEF IsUpdates
<1>3. 0 \in T
    <2>1. 1 .. 0 = {} /\ {} \in SUBSET (1 .. n)
        OBVIOUS
    <2>2. f[{}] = Decided(S, modes, {})
        <3> HIDE DEF f
        <3> QED BY <1>2, <2>1, DecidedStep
    <2> HIDE DEF f
    <2> QED BY <2>1, <2>2
<1>4. ASSUME NEW k \in T PROVE k + 1 \in T
    <2> HIDE DEF f
    <2> SUFFICES ASSUME k + 1 <= n PROVE f[1 .. k + 1] = Decided(S, modes, 1 .. k + 1)
        OBVIOUS
    <2> DEFINE s == 1 .. k + 1
    <2>1. k \in Nat /\ s \in SUBSET (1 .. n) /\ s # {} /\ k + 1 \in s
        OBVIOUS
    <2>2. Max(s) \in s /\ \A y \in s : y <= Max(s)
        BY <2>1, MaxIs
    <2>3. Max(s) = k + 1
        BY <2>1, <2>2
    <2>4. s \ {Max(s)} = 1 .. k
        BY <2>1, <2>3
    <2>5. f[1 .. k] = Decided(S, modes, 1 .. k)
        OBVIOUS
    <2> HIDE DEF s
    <2>6. f[s] = Decided(S, modes, s)
        BY <1>2, <2>1, <2>4, <2>5, DecidedStep
    <2> QED BY <2>6 DEF s
<1>5. n \in T
    <2>1. T \in SUBSET Nat
        OBVIOUS
    <2> HIDE DEF T
    <2> QED BY <1>3, <1>4, <2>1, NatRule
<1>6. UpdateBy(S, modes) = f[1 .. n]
    BY UpdateByIs
<1> HIDE DEF f
<1> QED BY <1>5, <1>6

\* The modes a member is judged by are those the text of the configuration
\* requires: the last section that speaks of a check, [checks] only if no other
\* does.
LEMMA ModesAreRequired ==
    ASSUME NEW n \in Nat, DOMAIN config.sections = 1 .. n,
           NEW f, NEW member, NEW c \in Checks
    PROVE  EffectiveModes(f, member)[c] = Required(c, f, member)
<1> DEFINE all == ToSet(config.sections)
           D == 1 .. n
           none == [d \in Checks |-> "ignore"]
           bases == {s \in all : s.match = None}
           rules == {s \in all : Matches(s, f, member)}
           base == UpdateBy(bases, none)
           speak == {i \in D : c \in DOMAIN config.sections[i].options}
<1>1. base = Decided(bases, none, D)
    <2> HIDE DEF bases
    <2> QED BY LastSpeakerDecides
<1>2. base = [d \in Checks |-> base[d]]
    <2> HIDE DEF bases, none, base, D
    <2> QED BY <1>1 DEF Decided
<1>3. EffectiveModes(f, member) = Decided(rules, base, D)
    <2>1. UpdateBy(rules, base) = Decided(rules, base, D)
        <3> HIDE DEF base, rules
        <3> QED BY <1>2, LastSpeakerDecides
    <2>2. EffectiveModes(f, member) = UpdateBy(rules, base)
        BY DEF EffectiveModes
    <2> HIDE DEF base, rules, D
    <2> QED BY <2>1, <2>2
<1>4. \A i \in D : config.sections[i] \in all
    BY DEF ToSet
<1>5. /\ Speakers(bases, D, c) = {i \in speak : config.sections[i].match = None}
      /\ Speakers(rules, D, c) = {i \in speak : Matches(config.sections[i], f, member)}
    <2> HIDE DEF all
    <2> QED BY <1>4 DEF Speakers, Options
<1>6. base[c] = IF Speakers(bases, D, c) = {} THEN "ignore"
                ELSE Mode(config.sections[Max(Speakers(bases, D, c))].options[c])
    <2>1. none[c] = "ignore"
        OBVIOUS
    <2> HIDE DEF base, bases, D, none
    <2> QED BY <1>1, <2>1 DEF Decided, Options
<1>7. EffectiveModes(f, member)[c] =
          IF Speakers(rules, D, c) = {} THEN base[c]
          ELSE Mode(config.sections[Max(Speakers(rules, D, c))].options[c])
    <2> HIDE DEF base, rules, D
    <2> QED BY <1>3 DEF Decided, Options
<1>8. Required(c, f, member) =
          LET r == {i \in speak : Matches(config.sections[i], f, member)}
              b == {i \in speak : config.sections[i].match = None}
              deciding == IF r # {} THEN r ELSE b
          IN IF deciding = {} THEN "ignore"
             ELSE Mode(config.sections[Max(deciding)].options[c])
    BY DEF Required
<1> HIDE DEF base, rules, bases, D, speak
<1> QED BY <1>5, <1>6, <1>7, <1>8

-----------------------------------------------------------------------------
(* The inductive invariant of the checker *)

\* It walks, or has walked, a configuration that holds together.
Past == stage \in {"output", "inspect", "write"} \/ code \in {0, 1}
Begun == stage = "discover" \/ Past

PolicyTypes ==
    /\ stage \in {"load", "discover", "output", "inspect", "write", "done"}
    /\ config \in Configs
    /\ roots \in Seq(EntrySet) /\ (listed = None \/ listed \in SUBSET Names)
    /\ matched \in BOOLEAN /\ trouble \in BOOLEAN
    /\ artifacts \in [Files -> Kinds \cup {None}]
    /\ pending \in SUBSET Files /\ errors \in SUBSET Places
    /\ failed \in SUBSET (Files \X Members \X Checks)
    /\ report \in Reports \cup {None} /\ code \in {0, 1, 2, None}
    /\ fs \in [Files -> FileContents \cup {Absent}]
    /\ first \in [Files -> FileContents \cup {Absent}]
    /\ calm \in SUBSET Files
    /\ read \in [Files -> Shown \cup {None}]

\* What readelf shows no unit of in the beginning, and what has a second name.
FirstFits ==
    \A f \in Files :
        /\ first[f] # Absent /\ first[f].magic \notin {"rel", "exec", "archive"} =>
              first[f].units = <<>>
        /\ f \in Linked => first[f] # Absent

\* What each place of main says of the others.
Order ==
    /\ stage = "load" => roots = <<>> /\ listed = None /\ artifacts = [f \in Files |-> None]
    /\ stage \in {"load", "discover"} => failed = {} /\ pending = {}
    /\ Past => roots = <<>> /\ listed = None
    /\ Begun => ConfigFits(config)
    /\ stage = "load" => errors = {}
    /\ stage # "done" => code = None /\ report = None
    /\ pending \subseteq {f \in Files : artifacts[f] # None}
    /\ stage = "write" \/ code \in {0, 1} => pending = {}
    /\ code \in {0, 1} => stage = "done" /\ report = [errors |-> errors, failed |-> failed]
                          /\ errors = {} /\ (code = 0 <=> failed = {})

\* The root that is being walked.
Walking ==
    listed # None =>
        LET root == Head(roots) IN
        /\ stage = "discover" /\ roots # <<>>
        /\ \A n \in listed : Reached(root, n)
        /\ root.path \notin config.excludes
        /\ matched => \E n \in Names : Reached(root, n) /\ artifacts[Target[n]] # None
        /\ trouble => errors # {}

\* Without an error, a root that was walked has an artifact, and everything
\* wanted that nothing disturbed was taken.
Served ==
    Begun /\ errors = {} => \A e \in EntrySet :
        \/ e \in ToSet(roots) \/ e.path \in config.excludes
        \/ \E n \in Names : Reached(e, n) /\ artifacts[Target[n]] # None

Missed ==
    Begun /\ errors = {} => \A e \in EntrySet, n \in Names :
        /\ Target[n] \in calm /\ artifacts[Target[n]] = None
        /\ Wanted(e, n, first[Target[n]])
        => e \in ToSet(roots) /\ (listed # None /\ e = Head(roots) => n \in listed)

\* Without an error, what was inspected was shown whole, and without a failure
\* complies.
Inspected ==
    Past /\ errors = {} => \A f \in Files \ pending : artifacts[f] # None =>
        /\ read[f] # None /\ ~read[f].diagnostic
        /\ failed = {} => \A i \in DOMAIN read[f].units : Complies(f, read[f].units[i])
        /\ f \in calm => first[f] # Absent /\ read[f].units = first[f].units

\* Each failure is one of a unit that was shown.
Real ==
    \A x \in failed :
        /\ x[1] \notin pending /\ read[x[1]] # None
        /\ \E i \in DOMAIN read[x[1]].units :
              ~Satisfies(x[3], Required(x[3], x[1], x[2]), read[x[1]].units[i])

\* Until the report is written nothing changes but what is disturbed; and it is
\* written only to what may be replaced.
Kept ==
    /\ stage # "done" => \A f \in calm : fs[f] = first[f]
    /\ \A f \in calm : fs[f] \in {first[f], Text}
    /\ stage \in {"inspect", "write"} /\ Target[config.report] \in calm =>
          ~Precious(Target[config.report])
    /\ InputsKept

\* An artifact that nothing disturbed was wanted.
Taken ==
    \A f \in calm : artifacts[f] # None =>
        \E e \in EntrySet, n \in Names : Target[n] = f /\ Wanted(e, n, first[f])

\* The causes of an error during the walk ...
RootCause ==
    \/ \E e \in EntrySet : e.path \notin config.excludes /\
          \/ e.path \in Closed
          \/ ~\E n \in Names : Wanted(e, n, first[Target[n]])
    \/ \A e \in EntrySet : e.path \in config.excludes
    \/ \E e \in EntrySet, n \in Names :
          /\ Reached(e, n)
          /\ Fails(first[Target[n]]) /\ (n \in Files => first[n] # Absent)

\* ... and of one later.
UnitCause ==
    \E e \in EntrySet, n \in Names :
        /\ Wanted(e, n, first[Target[n]])
        /\ Unreadable(Target[n], artifacts[Target[n]], first[Target[n]])

\* Where nothing is disturbed, what is not listed any more is not wanted, or
\* was taken; and each error has its cause.
Alarm ==
    calm = Files =>
        /\ listed # None =>
              /\ \A n \in Names : Wanted(Head(roots), n, first[Target[n]]) =>
                    n \in listed \/ matched \/ trouble
              /\ \A n \in listed \cap Files : first[n] # Absent
        /\ errors # {} => RootCause \/ (Past /\ UnitCause) \/ code = 2
        /\ AlarmHasCause

PolicyIInv ==
    PolicyTypes /\ FirstFits /\ Order /\ Walking /\ Served /\ Missed /\ Inspected /\ Real
    /\ Kept /\ Taken /\ Alarm

-----------------------------------------------------------------------------
(* One unit *)

\* The mode decides on what readelf showed of a unit as its meaning says.
LEMMA JudgedRight ==
    ASSUME NEW u \in Units, NEW c \in Checks, NEW mode, NEW p,
           p.traces = ParseElf(u).traces, p.symtab = u.symtab
    PROVE  PolicyFailed(mode, Detect(c, p)) <=> ~Satisfies(c, mode, u)
<1> DEFINE t == u.traces[c]
           s == p.traces[c]
<1>1. t \in SUBSET Traces /\ u.symtab \in BOOLEAN
    BY DEF Units
<1>2. s = t \ ({"empty"} \cup IF "definition" \in t THEN {"weak"} ELSE {})
    <2>1. ParseElf(u).traces[c] =
              t \ ({"empty"} \cup IF "definition" \in t THEN {"weak"} ELSE {})
        BY DEF ParseElf
    <2> QED BY <2>1
<1>3. /\ \A x \in {"section", "reference", "definition"} : x \in s <=> x \in t
      /\ s = {} <=> t \ {"empty"} = {}
    <2>1. \A x \in t : x \in Traces
        BY <1>1
    <2> HIDE DEF t, s
    <2> QED BY <1>2, <2>1 DEF Traces
<1>4. Detect(c, p) =
          IF {"section", "reference"} \cap s # {} THEN "FOUND"
          ELSE IF c = Driver /\ "definition" \in s THEN "FOUND"
          ELSE IF s # {} THEN "SYMBOL-ONLY"
          ELSE IF u.symtab THEN "NOT-SEEN" ELSE "UNKNOWN"
    BY DEF Detect
<1>5. Satisfies(c, mode, u) <=>
          /\ mode = "present" =>
                (t \ {"empty"}) \cap ({"section", "reference"} \cup
                                      IF c = Driver THEN {"definition"} ELSE {}) # {}
          /\ mode = "absent" => u.symtab /\ t \ {"empty"} = {}
    BY DEF Satisfies
<1> HIDE DEF t, s
<1>6. Detect(c, p) = "FOUND" <=>
          (t \ {"empty"}) \cap ({"section", "reference"} \cup
                                IF c = Driver THEN {"definition"} ELSE {}) # {}
    BY <1>3, <1>4
<1>7. Detect(c, p) = "NOT-SEEN" <=> u.symtab /\ t \ {"empty"} = {}
    BY <1>1, <1>3, <1>4
<1> QED BY <1>5, <1>6, <1>7 DEF PolicyFailed

\* Nothing changes the configuration, or what the files were at first.
LEMMA PolicyFrame ==
    ASSUME config' = config, first' = first
    PROVE  /\ EntrySet' = EntrySet
           /\ \A e, n : Reached(e, n)' <=> Reached(e, n)
           /\ \A e, n, x : Wanted(e, n, x)' <=> Wanted(e, n, x)
           /\ \A c, f, m : Required(c, f, m)' = Required(c, f, m)
           /\ \A f : Precious(f)' <=> Precious(f)
           /\ RootCause' <=> RootCause
<1>1. EntrySet' = EntrySet
    BY DEF EntrySet, Entries
<1>2. \A e, n : Reached(e, n)' <=> Reached(e, n)
    BY DEF Reached
<1>3. \A e, n, x : Wanted(e, n, x)' <=> Wanted(e, n, x)
    BY <1>2 DEF Wanted
<1>4. \A c, f, m : Required(c, f, m)' = Required(c, f, m)
    BY DEF Required, Matches
<1>5. \A f : Precious(f)' <=> Precious(f)
    BY DEF Precious
<1>6. RootCause' <=> RootCause
    BY <1>1, <1>2, <1>3 DEF RootCause, Fails
<1> QED BY <1>1, <1>2, <1>3, <1>4, <1>5, <1>6

LEMMA PolicyFrameArtifacts ==
    ASSUME config' = config, first' = first, artifacts' = artifacts
    PROVE  /\ \A f, u : Complies(f, u)' <=> Complies(f, u)
           /\ UnitCause' <=> UnitCause
<1>1. \A f, u : Complies(f, u)' <=> Complies(f, u)
    BY PolicyFrame DEF Complies
<1>2. UnitCause' <=> UnitCause
    BY PolicyFrame DEF UnitCause
<1> QED BY <1>1, <1>2

-----------------------------------------------------------------------------
(* The steps *)

LEMMA PolicyStart == PolicyInit => PolicyIInv
<1> SUFFICES ASSUME PolicyInit PROVE PolicyIInv
    OBVIOUS
<1> USE DEF PolicyInit
<1>1. PolicyTypes
    <2>1. fs \in [Files -> FileContents \cup {Absent}]
        BY TreesAssumption
    <2>2. roots \in Seq(EntrySet)
        OBVIOUS
    <2>3. artifacts \in [Files -> Kinds \cup {None}]
          /\ read \in [Files -> Shown \cup {None}]
        OBVIOUS
    <2> QED BY <2>1, <2>2, <2>3 DEF PolicyTypes
<1>2. FirstFits
    BY TreesAssumption DEF FirstFits
<1>3. ~Past /\ ~Begun
    BY NoneAssumption DEF Past, Begun
<1>4. Order
    BY <1>3, NoneAssumption DEF Order
<1>5. Walking /\ Served /\ Missed /\ Inspected /\ Real
    BY <1>3 DEF Walking, Served, Missed, Inspected, Real
<1>6. Kept
    BY DEF Kept, InputsKept
<1>7. Taken
    BY DEF Taken
<1>8. Alarm
    BY NoneAssumption DEF Alarm, AlarmHasCause
<1> QED BY <1>1, <1>2, <1>4, <1>5, <1>6, <1>7, <1>8 DEF PolicyIInv

LEMMA EntriesAre ==
    ASSUME NEW cf \in Configs
    PROVE  /\ Entries(cf) \in Seq(ToSet(Entries(cf)))
           /\ \A e \in ToSet(Entries(cf)) : e.path \in Places
<1> DEFINE O == [i \in DOMAIN cf.objects |-> [path |-> cf.objects[i], kind |-> "object"]]
           B == [i \in DOMAIN cf.binaries |-> [path |-> cf.binaries[i], kind |-> "binary"]]
           P == ToSet(cf.objects) \cup ToSet(cf.binaries)
           E == [path : P, kind : {"object", "binary"}]
<1>1. cf.objects \in Seq(P) /\ cf.binaries \in Seq(P)
    <2>1. cf.objects \in Seq(ToSet(cf.objects)) /\ cf.binaries \in Seq(ToSet(cf.binaries))
        BY ConfigsAssumption
    <2>2. \A S, T, s : s \in Seq(S) /\ S \subseteq T => s \in Seq(T)
        OBVIOUS
    <2>3. ToSet(cf.objects) \subseteq P /\ ToSet(cf.binaries) \subseteq P
        OBVIOUS
    <2> HIDE DEF P
    <2> QED BY <2>1, <2>2, <2>3
<1>2. O \in Seq(E) /\ B \in Seq(E)
    <2>1. DOMAIN cf.objects = 1 .. Len(cf.objects) /\ DOMAIN cf.binaries = 1 .. Len(cf.binaries)
          /\ Len(cf.objects) \in Nat /\ Len(cf.binaries) \in Nat
        <3> HIDE DEF P
        <3> QED BY <1>1
    <2>2. (\A i \in DOMAIN cf.objects : cf.objects[i] \in P)
          /\ (\A i \in DOMAIN cf.binaries : cf.binaries[i] \in P)
        BY DEF ToSet
    <2>3. O \in [1 .. Len(cf.objects) -> E] /\ B \in [1 .. Len(cf.binaries) -> E]
        <3> HIDE DEF P
        <3> QED BY <2>1, <2>2
    <2> HIDE DEF O, B, E
    <2> QED BY <2>1, <2>3, SeqDef
<1>3. Entries(cf) \in Seq(E)
    <2>1. Entries(cf) = O \o B
        BY DEF Entries
    <2> HIDE DEF O, B, E
    <2> QED BY <1>2, <2>1
<1>4. Entries(cf) \in Seq(ToSet(Entries(cf)))
    <2> DEFINE s == Entries(cf)
    <2>1. s \in Seq(E)
        BY <1>3
    <2>2. s \in [1 .. Len(s) -> E] /\ Len(s) \in Nat
        <3> HIDE DEF s, E
        <3> QED BY <2>1
    <2>3. s \in [1 .. Len(s) -> {s[i] : i \in DOMAIN s}]
        <3> HIDE DEF s, E
        <3> QED BY <2>2
    <2>4. ToSet(s) = {s[i] : i \in DOMAIN s}
        BY DEF ToSet
    <2> HIDE DEF s, E
    <2>5. s \in Seq(ToSet(s))
        BY <2>2, <2>3, <2>4, SeqDef
    <2> QED BY <2>5 DEF s
<1>5. ASSUME NEW e \in ToSet(Entries(cf)) PROVE e.path \in Places
    <2>1. e \in E
        <3>1. PICK i \in DOMAIN Entries(cf) : e = Entries(cf)[i]
            BY DEF ToSet
        <3> HIDE DEF E
        <3> QED BY <1>3, <3>1
    <2>2. P \subseteq Places
        BY DEF Places
    <2> QED BY <2>1, <2>2
<1> QED BY <1>4, <1>5

LEMMA LoadConfigStep == ASSUME PolicyIInv, LoadConfig PROVE PolicyIInv'
<1> USE DEF LoadConfig, found, history, Exit
<1>1. /\ config' = config /\ artifacts' = artifacts /\ errors' = errors /\ failed' = failed
      /\ listed' = listed /\ pending' = pending /\ report' = report /\ fs' = fs
      /\ first' = first /\ calm' = calm /\ read' = read /\ matched' = matched
      /\ trouble' = trouble /\ stage = "load" /\ config \in Configs
      /\ installed' = installed
      /\ \/ /\ ~(Opens(fs[ConfigFile]) /\ ConfigFits(config) /\ installed)
            /\ stage' = "done" /\ code' = 2 /\ roots' = roots
         \/ /\ ConfigFits(config) /\ stage' = "discover"
            /\ roots' = Entries(config) /\ code' = code
    BY DEF PolicyIInv, PolicyTypes
<1> HIDE DEF LoadConfig, found, history, Exit
<1>2. PolicyTypes'
    <2>1. EntrySet' = EntrySet
        BY <1>1, PolicyFrame
    <2>2. Entries(config) \in Seq(EntrySet)
        BY <1>1, EntriesAre DEF EntrySet
    <2> QED BY <1>1, <2>1, <2>2 DEF PolicyIInv, PolicyTypes
<1>3. FirstFits'
    BY <1>1 DEF PolicyIInv, FirstFits
<1>4. ~Past' /\ ~Past /\ (Begun' => stage' = "discover") /\ code = None
    BY <1>1, NoneAssumption DEF PolicyIInv, Order, Past, Begun
<1>5. Order'
    BY <1>1, <1>4, NoneAssumption DEF PolicyIInv, Order
<1>6. listed = None /\ errors = {} /\ failed = {}
    BY <1>1 DEF PolicyIInv, Order
<1>7. Walking' /\ Inspected' /\ Real'
    BY <1>1, <1>4, <1>6 DEF Walking, Inspected, Real
<1>8. Served' /\ Missed'
    <2>1. Begun' => roots' = Entries(config)
        BY <1>1, <1>4
    <2>2. Begun' => \A e \in EntrySet' : e \in ToSet(roots')
        BY <1>1, <2>1, PolicyFrame DEF EntrySet
    <2> QED BY <1>1, <1>6, <2>2 DEF Served, Missed
<1>9. Kept'
    BY <1>1 DEF PolicyIInv, Kept, InputsKept, Precious
<1>10. Taken'
    BY <1>1, PolicyFrame DEF PolicyIInv, Taken
<1>11. Alarm'
    <2>1. calm = Files => fs[ConfigFile] = first[ConfigFile]
        BY <1>1, PathAssumption DEF PolicyIInv, Kept
    <2>2. AlarmHasCause'
        BY <1>1, <1>4, <2>1, NoneAssumption DEF AlarmHasCause, ConfigFits, Opens
    <2> QED BY <1>1, <1>6, <2>2 DEF Alarm
<1> QED BY <1>2, <1>3, <1>5, <1>7, <1>8, <1>9, <1>10, <1>11 DEF PolicyIInv

\* During the walk there is no verdict yet.
LEMMA InDiscover ==
    ASSUME PolicyIInv, stage = "discover"
    PROVE  /\ ~Past /\ Begun /\ code = None /\ report = None
           /\ failed = {} /\ pending = {} /\ config \in Configs
           /\ \A f \in calm : fs[f] = first[f]
BY NoneAssumption DEF PolicyIInv, PolicyTypes, Order, Kept, Past, Begun

LEMMA HeadAndRest ==
    ASSUME NEW S, NEW s \in Seq(S), s # <<>>
    PROVE  /\ Head(s) \in S /\ Tail(s) \in Seq(S)
           /\ Head(s) \in ToSet(s) /\ ToSet(s) \subseteq S
           /\ \A e \in ToSet(s) : e = Head(s) \/ e \in ToSet(Tail(s))
           /\ ToSet(Tail(s)) \subseteq ToSet(s)
<1>1. Len(s) \in Nat /\ Len(s) >= 1 /\ Head(s) = s[1] /\ DOMAIN s = 1 .. Len(s)
    OBVIOUS
<1>2. /\ Tail(s) \in Seq(S) /\ Len(Tail(s)) = Len(s) - 1
      /\ DOMAIN Tail(s) = 1 .. Len(s) - 1
      /\ \A i \in 1 .. Len(s) - 1 : Tail(s)[i] = s[i + 1]
    OBVIOUS
<1>3. ASSUME NEW e \in ToSet(s), e # Head(s) PROVE e \in ToSet(Tail(s))
    <2>1. PICK i \in 1 .. Len(s) : e = s[i]
        BY <1>1 DEF ToSet
    <2>2. i - 1 \in 1 .. Len(s) - 1 /\ Tail(s)[i - 1] = s[i]
        BY <1>1, <1>2, <1>3, <2>1
    <2> QED BY <1>2, <2>1, <2>2 DEF ToSet
<1>4. ASSUME NEW e \in ToSet(Tail(s)) PROVE e \in ToSet(s)
    <2>1. PICK i \in 1 .. Len(s) - 1 : e = s[i + 1]
        BY <1>2 DEF ToSet
    <2>2. i + 1 \in DOMAIN s
        BY <1>1
    <2> QED BY <2>1, <2>2 DEF ToSet
<1>5. Head(s) \in S /\ Head(s) \in ToSet(s)
    <2>1. 1 \in DOMAIN s
        BY <1>1
    <2> QED BY <1>1, <2>1 DEF ToSet
<1>6. ToSet(s) \subseteq S
    BY DEF ToSet
<1> QED BY <1>2, <1>3, <1>4, <1>5, <1>6

LEMMA NamesTarget ==
    ASSUME NEW n \in Names
    PROVE  Target[n] \in Files /\ (n \in Files => Target[n] = n) /\ n \notin Dirs
BY PathAssumption DEF Files

LEMMA StartRootStep == ASSUME PolicyIInv, StartRoot PROVE PolicyIInv'
<1> DEFINE root == Head(roots)
           there == {n \in Inside[root.path] :
                        (n \notin Files \/ fs[n] # Absent) /\ ~Excluded(n)}
           file == root.path \in Names /\ root.kind = "binary" /\ fs[Target[root.path]] # Absent
<1>1. /\ config' = config /\ artifacts' = artifacts /\ failed' = failed /\ stage' = stage
      /\ pending' = pending /\ report' = report /\ fs' = fs /\ code' = code
      /\ first' = first /\ calm' = calm /\ read' = read
      /\ stage = "discover" /\ listed = None /\ roots # <<>> /\ matched' = FALSE
    BY DEF StartRoot, found, history
<1>2. \/ /\ Excluded(root.path) /\ roots' = Tail(roots)
         /\ listed' = listed /\ trouble' = trouble /\ errors' = errors
      \/ /\ ~Excluded(root.path) /\ root.path \in Dirs /\ listed' = there
         /\ trouble' = (root.path \in Closed) /\ roots' = roots
         /\ errors' = errors \cup ({root.path} \cap Closed)
      \/ /\ ~Excluded(root.path) /\ file /\ listed' = {root.path}
         /\ trouble' = FALSE /\ roots' = roots /\ errors' = errors
      \/ /\ ~Excluded(root.path) /\ root.path \notin Dirs /\ ~file /\ listed' = {}
         /\ trouble' = TRUE /\ roots' = roots /\ errors' = errors \cup {root.path}
    BY DEF StartRoot
<1> HIDE DEF root, there, file
<1>3. /\ ~Past /\ Begun /\ code = None /\ report = None
      /\ failed = {} /\ pending = {} /\ config \in Configs
      /\ \A f \in calm : fs[f] = first[f]
    BY <1>1, InDiscover
<1>4. /\ root \in EntrySet /\ roots \in Seq(EntrySet) /\ Tail(roots) \in Seq(EntrySet)
      /\ \A e \in ToSet(roots) : e = root \/ e \in ToSet(Tail(roots))
      /\ ToSet(Tail(roots)) \subseteq ToSet(roots) /\ root \in ToSet(roots)
    BY <1>1, HeadAndRest DEF PolicyIInv, PolicyTypes, root
<1>5. root.path \in Places
    BY <1>3, <1>4, EntriesAre DEF EntrySet
<1>6. (root.path \in Dirs => there \in SUBSET Names) /\ (file => root.path \in Names)
    BY PathAssumption DEF there, file
<1>7. listed' # None => listed' \in SUBSET Names /\ roots' = roots /\ ~Excluded(root.path)
    BY <1>1, <1>2, <1>6
<1>8. listed' # None => \A n \in listed' : Reached(root, n)
    BY <1>1, <1>2, <1>6 DEF Reached, Excluded, there, file
\* What is wanted of the root, and not disturbed, is listed.
<1>9. ASSUME listed' # None, NEW n \in Names, Wanted(root, n, first[Target[n]]),
             Target[n] \in calm
      PROVE  n \in listed'
    <2>1. Reached(root, n) /\ first[Target[n]] # Absent
        BY <1>9 DEF Wanted
    <2>2. fs[Target[n]] # Absent
        BY <1>3, <1>9, <2>1
    <2>3. CASE root.path \in Dirs
        <3>1. n \in Inside[root.path] /\ ~Excluded(n)
            BY <2>1, <2>3, NamesTarget DEF Reached, Excluded
        <3>2. n \in there
            BY <2>2, <3>1, NamesTarget DEF there
        <3>3. ~file
            BY <2>3, PathAssumption DEF file
        <3> QED BY <1>1, <1>2, <1>9, <2>3, <3>2, <3>3
    <2>4. CASE root.path \notin Dirs
        <3>1. root.kind = "binary" /\ n = root.path
            BY <2>1, <2>4 DEF Reached
        <3>2. file
            BY <2>2, <3>1 DEF file
        <3> QED BY <1>1, <1>2, <1>9, <2>4, <3>1, <3>2
    <2> QED BY <2>3, <2>4
<1>10. PolicyTypes'
    <2>1. EntrySet' = EntrySet
        BY <1>1, PolicyFrame
    <2>2. trouble' \in BOOLEAN
        <3>1. trouble \in BOOLEAN /\ (root.path \in Closed) \in BOOLEAN
            BY DEF PolicyIInv, PolicyTypes
        <3> QED BY <1>2, <3>1
    <2>3. roots' \in Seq(EntrySet) /\ roots \in Seq(EntrySet)
        BY <1>2, <1>4
    <2>4. errors' \in SUBSET Places
        <3>1. errors \in SUBSET Places
            BY DEF PolicyIInv, PolicyTypes
        <3>2. \A x \in errors' : x \in errors \/ x = root.path
            BY <1>2
        <3> QED BY <1>5, <3>1, <3>2
    <2> QED BY <1>1, <1>7, <2>1, <2>2, <2>3, <2>4 DEF PolicyIInv, PolicyTypes
<1>11. FirstFits'
    BY <1>1 DEF PolicyIInv, FirstFits
<1>12. ~Past' /\ Begun'
    BY <1>1, <1>3 DEF Past, Begun
<1>13. Order'
    BY <1>1, <1>3, <1>12, NoneAssumption DEF PolicyIInv, Order
<1>14. Walking'
    <2>1. trouble' => listed' = None \/ errors' # {}
        BY <1>1, <1>2
    <2>2. listed' # None => Head(roots') = root /\ roots' # <<>>
        BY <1>1, <1>7 DEF root
    <2> QED BY <1>1, <1>7, <1>8, <2>1, <2>2, PolicyFrame DEF Walking, Excluded
<1>15. errors' = {} => errors = {}
    BY <1>2
<1>16. Served'
    <2> SUFFICES ASSUME errors' = {}, NEW e \in EntrySet
                 PROVE  \/ e \in ToSet(roots') \/ e.path \in config.excludes
                        \/ \E n \in Names : Reached(e, n) /\ artifacts[Target[n]] # None
        BY <1>1, PolicyFrame DEF Served
    <2>1. \/ e \in ToSet(roots) \/ e.path \in config.excludes
          \/ \E n \in Names : Reached(e, n) /\ artifacts[Target[n]] # None
        BY <1>3, <1>15 DEF PolicyIInv, Served
    <2>2. e = root => roots' = roots \/ e.path \in config.excludes
        BY <1>2 DEF Excluded
    <2> QED BY <1>2, <1>4, <2>1, <2>2
<1>17. Missed'
    <2> SUFFICES ASSUME errors' = {}, NEW e \in EntrySet, NEW n \in Names,
                        Target[n] \in calm, artifacts[Target[n]] = None,
                        Wanted(e, n, first[Target[n]])
                 PROVE  /\ e \in ToSet(roots')
                        /\ listed' # None /\ e = Head(roots') => n \in listed'
        BY <1>1, PolicyFrame DEF Missed
    <2>1. e \in ToSet(roots)
        BY <1>3, <1>15 DEF PolicyIInv, Missed
    <2>2. ~Excluded(e.path)
        BY DEF Wanted, Reached, Excluded
    <2>3. e \in ToSet(roots')
        BY <1>2, <1>4, <2>1, <2>2
    <2>4. listed' # None /\ e = Head(roots') => n \in listed'
        BY <1>7, <1>9 DEF root
    <2> QED BY <2>3, <2>4
<1>18. Inspected' /\ Real'
    BY <1>1, <1>3, <1>12 DEF Inspected, Real
<1>19. Kept'
    BY <1>1, PolicyFrame DEF PolicyIInv, Kept, InputsKept
<1>20. Taken'
    BY <1>1, PolicyFrame DEF PolicyIInv, Taken
<1>21. Alarm'
    <2> SUFFICES ASSUME calm = Files
                 PROVE  /\ listed' # None =>
                              /\ \A n \in Names : Wanted(Head(roots'), n, first[Target[n]]) =>
                                    n \in listed'
                              /\ \A n \in listed' \cap Files : first[n] # Absent
                        /\ errors' # {} => RootCause
        <3>1. AlarmHasCause'
            BY <1>1, <1>3, NoneAssumption DEF AlarmHasCause
        <3> QED BY <1>1, <3>1, PolicyFrame DEF Alarm
    <2>1. ASSUME listed' # None, NEW n \in Names, Wanted(Head(roots'), n, first[Target[n]])
          PROVE  n \in listed'
        BY <1>7, <1>9, <2>1, NamesTarget DEF root
    <2>2. ASSUME listed' # None, NEW n \in listed' \cap Files PROVE first[n] # Absent
        <3>1. fs[n] # Absent
            BY <1>1, <1>2, <1>7, <2>2, NamesTarget DEF there, file
        <3> QED BY <1>3, <2>2, <3>1
    <2>3. ASSUME errors' # {} PROVE RootCause
        <3>1. CASE errors # {}
            BY <1>3, <3>1, NoneAssumption DEF PolicyIInv, Alarm
        <3>2. CASE errors = {}
            <4>1. ~Excluded(root.path) /\ (listed' = {} \/ root.path \in Closed)
                BY <1>2, <2>3, <3>2
            <4>2. CASE root.path \in Closed
                BY <1>4, <4>1, <4>2 DEF RootCause, Excluded
            <4>3. CASE listed' = {}
                <5>1. listed' # None
                    BY <4>3, NoneAssumption
                <5>2. \A n \in Names : ~Wanted(root, n, first[Target[n]])
                    BY <1>9, <4>3, <5>1, NamesTarget
                <5> QED BY <1>4, <4>1, <5>2 DEF RootCause, Excluded
            <4> QED BY <4>1, <4>2, <4>3
        <3> QED BY <3>1, <3>2
    <2> QED BY <2>1, <2>2, <2>3
<1> QED BY <1>10, <1>11, <1>13, <1>14, <1>16, <1>17, <1>18, <1>19, <1>20, <1>21
        DEF PolicyIInv

\* A name that is looked at is of no interest, or taken.
LEMMA AddStep ==
    ASSUME PolicyIInv, NEW n \in Names, Add(n)
    PROVE  PolicyIInv'
<1> DEFINE root == Head(roots)
           f == Target[n]
           content == fs[f]
           kind == IF content.magic = "special" THEN None
                   ELSE Candidate(n, root.kind, content)
<1>1. /\ config' = config /\ roots' = roots /\ pending' = pending /\ failed' = failed
      /\ report' = report /\ code' = code /\ fs' = fs /\ first' = first /\ calm' = calm
      /\ read' = read /\ stage' = stage
      /\ stage = "discover" /\ listed # None /\ listed # {} /\ n = Least(listed)
      /\ listed' = listed \ {n}
    BY DEF Add, history
<1>2. \/ /\ Fails(content) /\ errors' = errors \cup {n} /\ trouble' = TRUE
         /\ artifacts' = artifacts /\ matched' = matched
      \/ /\ ~Fails(content) /\ kind # None
         /\ artifacts' = [artifacts EXCEPT ![f] = kind] /\ matched' = TRUE
         /\ errors' = errors /\ trouble' = trouble
      \/ /\ ~Fails(content) /\ kind = None /\ n = root.path
         /\ errors' = errors \cup {n} /\ trouble' = TRUE
         /\ artifacts' = artifacts /\ matched' = matched
      \/ /\ ~Fails(content) /\ kind = None /\ n # root.path
         /\ artifacts' = artifacts /\ matched' = matched
         /\ errors' = errors /\ trouble' = trouble
    BY DEF Add, Complain, Take
<1>3. /\ ~Past /\ Begun /\ code = None /\ report = None
      /\ failed = {} /\ pending = {} /\ config \in Configs
      /\ \A g \in calm : fs[g] = first[g]
    BY <1>1, InDiscover
<1>4. /\ listed \in SUBSET Names /\ n \in listed
      /\ artifacts \in [Files -> Kinds \cup {None}] /\ f \in Files
      /\ matched \in BOOLEAN /\ trouble \in BOOLEAN /\ errors \in SUBSET Places
      /\ roots \in Seq(EntrySet) /\ roots # <<>> /\ Reached(root, n)
      /\ root.path \notin config.excludes
    BY <1>1, NamesTarget DEF PolicyIInv, PolicyTypes, Walking, Least
<1>5. root \in EntrySet
    BY <1>4, HeadAndRest
\* What is taken was wanted, and what is wanted is taken.
<1>6. content # Absent => (kind # None <=> Wanted(root, n, content))
    BY <1>4 DEF Wanted
<1>7. kind # None => kind \in Kinds
    BY DEF Candidate, Kinds
<1>8. (f \in calm => content = first[f]) /\ (~Fails(content) => content # Absent)
    BY <1>3 DEF Fails
<1> HIDE DEF root, content, kind
<1>9. /\ artifacts' \in [Files -> Kinds \cup {None}]
      /\ \A g \in Files : artifacts[g] # None => artifacts'[g] # None
      /\ \A g \in Files : artifacts'[g] # None /\ artifacts[g] = None =>
            g = f /\ content # Absent /\ kind # None
      /\ ~Fails(content) /\ kind # None => artifacts'[f] # None /\ matched'
    BY <1>2, <1>4, <1>7, <1>8
<1>10. PolicyTypes'
    <2>1. EntrySet' = EntrySet
        BY <1>1, PolicyFrame
    <2>2. matched' \in BOOLEAN /\ trouble' \in BOOLEAN /\ errors' \in SUBSET Places
        BY <1>2, <1>4 DEF Places
    <2>3. listed' \in SUBSET Names
        BY <1>1, <1>4
    <2> QED BY <1>1, <1>9, <2>1, <2>2, <2>3 DEF PolicyIInv, PolicyTypes
<1>11. FirstFits'
    BY <1>1 DEF PolicyIInv, FirstFits
<1>12. ~Past' /\ Begun' /\ listed' # None
    BY <1>1, <1>3, <1>4, NoneAssumption DEF Past, Begun
<1>13. Order'
    BY <1>1, <1>3, <1>12, NoneAssumption DEF PolicyIInv, Order
<1>14. Walking'
    <2>1. trouble' => errors' # {}
        BY <1>1, <1>2 DEF PolicyIInv, Walking
    <2>2. ASSUME matched' PROVE \E m \in Names : Reached(root, m) /\ artifacts'[Target[m]] # None
        <3>1. CASE matched
            <4>1. PICK m \in Names : Reached(root, m) /\ artifacts[Target[m]] # None
                BY <1>1, <3>1 DEF PolicyIInv, Walking, root
            <4> QED BY <1>9, <4>1, NamesTarget
        <3>2. CASE ~matched
            BY <1>2, <1>4, <1>9, <2>2, <3>2
        <3> QED BY <3>1, <3>2
    <2>3. \A m \in listed' : Reached(root, m)
        BY <1>1 DEF PolicyIInv, Walking, root
    <2> QED BY <1>1, <1>4, <2>1, <2>2, <2>3, PolicyFrame DEF Walking, root
<1>15. errors' = {} => errors = {}
    BY <1>2
<1>16. Served'
    <2> SUFFICES ASSUME errors' = {}, NEW e \in EntrySet
                 PROVE  \/ e \in ToSet(roots) \/ e.path \in config.excludes
                        \/ \E m \in Names : Reached(e, m) /\ artifacts'[Target[m]] # None
        BY <1>1, PolicyFrame DEF Served
    <2>1. \/ e \in ToSet(roots) \/ e.path \in config.excludes
          \/ \E m \in Names : Reached(e, m) /\ artifacts[Target[m]] # None
        BY <1>3, <1>15 DEF PolicyIInv, Served
    <2> QED BY <1>9, <2>1, NamesTarget
<1>17. Missed'
    <2> SUFFICES ASSUME errors' = {}, NEW e \in EntrySet, NEW m \in Names,
                        Target[m] \in calm, artifacts'[Target[m]] = None,
                        Wanted(e, m, first[Target[m]])
                 PROVE  /\ e \in ToSet(roots)
                        /\ e = root => m \in listed'
        BY <1>1, <1>12, PolicyFrame DEF Missed, root
    <2>1. artifacts[Target[m]] = None
        BY <1>9, NamesTarget
    <2>2. e \in ToSet(roots) /\ (e = root => m \in listed)
        BY <1>1, <1>3, <1>15, <2>1 DEF PolicyIInv, Missed, root
    <2>3. ASSUME e = root PROVE m # n
        <3>1. SUFFICES ASSUME m = n PROVE FALSE
            OBVIOUS
        <3>2. Wanted(root, n, content) /\ content # Absent
            BY <1>8, <2>3, <3>1 DEF Wanted
        <3>3. ~Fails(content)
            BY <1>2
        <3> QED BY <1>6, <1>9, <3>1, <3>2, <3>3
    <2> QED BY <1>1, <2>2, <2>3
<1>18. Inspected' /\ Real'
    BY <1>1, <1>3, <1>12 DEF Inspected, Real
<1>19. Kept'
    BY <1>1, PolicyFrame DEF PolicyIInv, Kept, InputsKept
<1>20. Taken'
    <2> SUFFICES ASSUME NEW g \in calm, artifacts'[g] # None
                 PROVE  \E e \in EntrySet, m \in Names : Target[m] = g /\ Wanted(e, m, first[g])
        BY <1>1, PolicyFrame DEF Taken
    <2>1. CASE artifacts[g] # None
        BY <2>1 DEF PolicyIInv, Taken
    <2>2. CASE artifacts[g] = None
        <3>1. g = f /\ content # Absent /\ kind # None
            BY <1>9, <2>2 DEF PolicyIInv, PolicyTypes
        <3> QED BY <1>5, <1>6, <1>8, <3>1
    <2> QED BY <2>1, <2>2
<1>21. Alarm'
    <2> SUFFICES ASSUME calm = Files
                 PROVE  /\ \A m \in Names : Wanted(root, m, first[Target[m]]) =>
                              m \in listed' \/ matched' \/ trouble'
                        /\ \A m \in listed' \cap Files : first[m] # Absent
                        /\ errors' # {} => RootCause
        <3>1. AlarmHasCause'
            BY <1>1, <1>3, NoneAssumption DEF AlarmHasCause
        <3> QED BY <1>1, <3>1, PolicyFrame DEF Alarm, root
    <2>1. /\ \A m \in Names : Wanted(root, m, first[Target[m]]) =>
                m \in listed \/ matched \/ trouble
          /\ \A m \in listed \cap Files : first[m] # Absent
          /\ errors # {} => RootCause
        BY <1>1, <1>3, NoneAssumption DEF PolicyIInv, Alarm, root
    <2>2. content = first[f]
        BY <1>4, <1>8
    <2>3. ASSUME NEW m \in Names, Wanted(root, m, first[Target[m]])
          PROVE  m \in listed' \/ matched' \/ trouble'
        <3>1. CASE m = n
            <4>1. kind # None
                BY <1>6, <2>2, <2>3, <3>1 DEF Wanted
            <4> QED BY <1>2, <1>9, <4>1
        <3>2. CASE m # n
            BY <1>1, <1>2, <2>1, <2>3, <3>2
        <3> QED BY <3>1, <3>2
    <2>4. ASSUME errors' # {} PROVE RootCause
        <3>1. CASE errors # {}
            BY <2>1, <3>1
        <3>2. CASE errors = {} /\ Fails(content)
            <4>1. n \in Files => first[n] # Absent
                BY <1>4, <2>1
            <4> QED BY <1>4, <1>5, <2>2, <3>2, <4>1 DEF RootCause
        <3>3. CASE errors = {} /\ ~Fails(content)
            <4>1. kind = None /\ n = root.path
                BY <1>2, <2>4, <3>3
            <4>2. ASSUME NEW m \in Names, Wanted(root, m, first[Target[m]]) PROVE FALSE
                <5>1. m = n
                    BY <4>1, <4>2, NamesTarget DEF Wanted, Reached
                <5> QED BY <1>6, <1>8, <2>2, <3>3, <4>1, <4>2, <5>1
            <4> QED BY <1>4, <1>5, <4>2 DEF RootCause
        <3> QED BY <3>1, <3>2, <3>3
    <2> QED BY <1>1, <2>1, <2>3, <2>4
<1> QED BY <1>10, <1>11, <1>13, <1>14, <1>16, <1>17, <1>18, <1>19, <1>20, <1>21
        DEF PolicyIInv

LEMMA EndRootStep == ASSUME PolicyIInv, EndRoot PROVE PolicyIInv'
<1> DEFINE root == Head(roots)
<1>1. /\ config' = config /\ artifacts' = artifacts /\ failed' = failed /\ stage' = stage
      /\ pending' = pending /\ report' = report /\ fs' = fs /\ code' = code
      /\ first' = first /\ calm' = calm /\ read' = read /\ matched' = matched
      /\ trouble' = trouble /\ roots' = Tail(roots) /\ listed' = None
      /\ stage = "discover" /\ listed = {}
      /\ errors' = IF matched \/ trouble THEN errors ELSE errors \cup {root.path}
    BY DEF EndRoot, history
<1>2. listed # None
    BY <1>1, NoneAssumption
<1>3. /\ ~Past /\ Begun /\ code = None /\ report = None
      /\ failed = {} /\ pending = {} /\ config \in Configs
    BY <1>1, InDiscover
<1>4. /\ roots \in Seq(EntrySet) /\ roots # <<>> /\ root.path \notin config.excludes
      /\ matched => \E n \in Names : Reached(root, n) /\ artifacts[Target[n]] # None
      /\ trouble => errors # {}
    BY <1>2 DEF PolicyIInv, PolicyTypes, Walking
<1>5. /\ root \in EntrySet /\ Tail(roots) \in Seq(EntrySet)
      /\ \A e \in ToSet(roots) : e = root \/ e \in ToSet(Tail(roots))
    BY <1>4, HeadAndRest
<1>6. root.path \in Places
    BY <1>3, <1>5, EntriesAre DEF EntrySet
<1> HIDE DEF root
<1>7. errors' = {} => errors = {} /\ matched
    BY <1>1, <1>4
<1>8. PolicyTypes'
    <2>1. EntrySet' = EntrySet
        BY <1>1, PolicyFrame
    <2> QED BY <1>1, <1>5, <1>6, <2>1 DEF PolicyIInv, PolicyTypes
<1>9. FirstFits'
    BY <1>1 DEF PolicyIInv, FirstFits
<1>10. ~Past' /\ Begun'
    BY <1>1, <1>3 DEF Past, Begun
<1>11. Order'
    BY <1>1, <1>3, <1>10, NoneAssumption DEF PolicyIInv, Order
<1>12. Walking'
    BY <1>1 DEF Walking
<1>13. Served'
    <2> SUFFICES ASSUME errors' = {}, NEW e \in EntrySet
                 PROVE  \/ e \in ToSet(Tail(roots)) \/ e.path \in config.excludes
                        \/ \E m \in Names : Reached(e, m) /\ artifacts[Target[m]] # None
        BY <1>1, PolicyFrame DEF Served
    <2>1. \/ e \in ToSet(roots) \/ e.path \in config.excludes
          \/ \E m \in Names : Reached(e, m) /\ artifacts[Target[m]] # None
        BY <1>3, <1>7 DEF PolicyIInv, Served
    <2> QED BY <1>4, <1>5, <1>7, <2>1
<1>14. Missed'
    <2> SUFFICES ASSUME errors' = {}, NEW e \in EntrySet, NEW m \in Names,
                        Target[m] \in calm, artifacts[Target[m]] = None,
                        Wanted(e, m, first[Target[m]])
                 PROVE  e \in ToSet(Tail(roots))
        BY <1>1, PolicyFrame DEF Missed
    <2>1. e \in ToSet(roots) /\ (e = root => m \in listed)
        BY <1>2, <1>3, <1>7 DEF PolicyIInv, Missed, root
    <2> QED BY <1>1, <1>5, <2>1
<1>15. Inspected' /\ Real'
    BY <1>1, <1>3, <1>10 DEF Inspected, Real
<1>16. Kept'
    BY <1>1, PolicyFrame DEF PolicyIInv, Kept, InputsKept
<1>17. Taken'
    BY <1>1, PolicyFrame DEF PolicyIInv, Taken
<1>18. Alarm'
    <2> SUFFICES ASSUME calm = Files, errors' # {} PROVE RootCause
        <3>1. AlarmHasCause'
            BY <1>1, <1>3, NoneAssumption DEF AlarmHasCause
        <3> QED BY <1>1, <3>1, PolicyFrame DEF Alarm
    <2>1. /\ \A m \in Names : Wanted(root, m, first[Target[m]]) =>
                m \in listed \/ matched \/ trouble
          /\ errors # {} => RootCause
        BY <1>2, <1>3, NoneAssumption DEF PolicyIInv, Alarm, root
    <2>2. CASE errors # {}
        BY <2>1, <2>2
    <2>3. CASE errors = {}
        <3>1. \A m \in Names : ~Wanted(root, m, first[Target[m]])
            BY <1>1, <1>4, <2>1, <2>3
        <3> QED BY <1>4, <1>5, <3>1 DEF RootCause
    <2> QED BY <2>2, <2>3
<1> QED BY <1>8, <1>9, <1>11, <1>12, <1>13, <1>14, <1>15, <1>16, <1>17, <1>18
        DEF PolicyIInv

LEMMA EndDiscoverStep == ASSUME PolicyIInv, EndDiscover PROVE PolicyIInv'
<1>1. /\ config' = config /\ artifacts' = artifacts /\ failed' = failed /\ stage' = "output"
      /\ report' = report /\ fs' = fs /\ code' = code /\ roots' = roots /\ listed' = listed
      /\ first' = first /\ calm' = calm /\ read' = read /\ matched' = matched
      /\ trouble' = trouble /\ stage = "discover" /\ listed = None /\ roots = <<>>
      /\ pending' = {f \in Files : artifacts[f] # None}
      /\ errors' = IF pending' = {} THEN errors \cup {"no artifacts"} ELSE errors
    BY DEF EndDiscover, walk, history
<1>2. /\ ~Past /\ Begun /\ code = None /\ report = None
      /\ failed = {} /\ pending = {} /\ config \in Configs
    BY <1>1, InDiscover
<1>3. errors' = {} => errors = {}
    BY <1>1
<1>4. PolicyTypes'
    <2>1. EntrySet' = EntrySet
        BY <1>1, PolicyFrame
    <2>2. errors' \in SUBSET Places /\ pending' \in SUBSET Files
        BY <1>1 DEF PolicyIInv, PolicyTypes, Places
    <2> QED BY <1>1, <2>1, <2>2 DEF PolicyIInv, PolicyTypes
<1>5. FirstFits'
    BY <1>1 DEF PolicyIInv, FirstFits
<1>6. Past' /\ Begun'
    BY <1>1 DEF Past, Begun
<1>7. Order'
    BY <1>1, <1>2, NoneAssumption DEF PolicyIInv, Order, ConfigFits
<1>8. Walking'
    BY <1>1 DEF Walking
<1>9. Served' /\ Missed'
    BY <1>1, <1>2, <1>3, PolicyFrame DEF PolicyIInv, Served, Missed
<1>10. Inspected'
    BY <1>1 DEF Inspected
<1>11. Real'
    BY <1>1, <1>2 DEF Real
<1>12. Kept'
    BY <1>1, PolicyFrame DEF PolicyIInv, Kept, InputsKept
<1>13. Taken'
    BY <1>1, PolicyFrame DEF PolicyIInv, Taken
<1>14. Alarm'
    <2> SUFFICES ASSUME calm = Files, errors' # {} PROVE RootCause
        <3>1. AlarmHasCause'
            BY <1>1, <1>2, NoneAssumption DEF AlarmHasCause
        <3> QED BY <1>1, <3>1, PolicyFrame DEF Alarm
    <2>1. CASE errors # {}
        BY <1>2, <2>1, NoneAssumption DEF PolicyIInv, Alarm
    <2>2. CASE errors = {}
        <3>1. \A f \in Files : artifacts[f] = None
            BY <1>1, <2>2
        <3>2. ToSet(roots) = {}
            <4>1. DOMAIN <<>> = {}
                OBVIOUS
            <4> QED BY <1>1, <4>1, Zenon DEF ToSet
        <3>3. \A e \in EntrySet : e.path \in config.excludes
            BY <1>2, <2>2, <3>1, <3>2, NamesTarget DEF PolicyIInv, Served
        <3> QED BY <3>3 DEF RootCause
    <2> QED BY <2>1, <2>2
<1> QED BY <1>4, <1>5, <1>7, <1>8, <1>9, <1>10, <1>11, <1>12, <1>13, <1>14
        DEF PolicyIInv

\* The report is refused for what is there, or for an artifact that is text: one
\* that readelf shows nothing of.
LEMMA CheckOutputStep == ASSUME PolicyIInv, CheckOutput PROVE PolicyIInv'
<1> DEFINE f == Target[config.report]
<1>1. /\ config' = config /\ artifacts' = artifacts /\ failed' = failed
      /\ pending' = pending /\ report' = report /\ fs' = fs
      /\ first' = first /\ calm' = calm /\ read' = read /\ matched' = matched
      /\ trouble' = trouble /\ roots' = roots /\ listed' = listed /\ errors' = errors
      /\ stage = "output"
      /\ \/ OutputFits(config.report) /\ stage' = "inspect" /\ code' = code
         \/ ~OutputFits(config.report) /\ stage' = "done" /\ code' = 2
    BY DEF CheckOutput, Exit, found, walk, history
<1>2. /\ Past /\ Begun /\ code = None /\ report = None /\ config \in Configs
      /\ roots = <<>> /\ listed = None /\ ConfigFits(config)
      /\ \A g \in calm : fs[g] = first[g]
    BY <1>1 DEF PolicyIInv, PolicyTypes, Order, Kept, Past, Begun
<1>3. config.report \in Names /\ f \in Files
    BY <1>2, ConfigsAssumption, NamesTarget DEF ConfigFits
<1>4. PolicyTypes'
    <2>1. EntrySet' = EntrySet
        BY <1>1, PolicyFrame
    <2> QED BY <1>1, <2>1 DEF PolicyIInv, PolicyTypes
<1>5. FirstFits'
    BY <1>1 DEF PolicyIInv, FirstFits
<1>6. (Past' => stage' = "inspect" /\ code' = None) /\ (Begun' => Past')
    BY <1>1, <1>2, NoneAssumption DEF Past, Begun
<1>7. Order'
    BY <1>1, <1>2, <1>6, NoneAssumption DEF PolicyIInv, Order, ConfigFits
<1>8. Walking'
    BY <1>1, <1>2 DEF Walking
<1>9. Served' /\ Missed'
    BY <1>1, <1>2, PolicyFrame DEF PolicyIInv, Served, Missed
<1>10. Inspected'
    BY <1>1, <1>2, PolicyFrameArtifacts DEF PolicyIInv, Inspected
<1>11. Real'
    BY <1>1, PolicyFrame DEF PolicyIInv, Real
<1>12. Kept'
    <2>1. ASSUME stage' = "inspect", f \in calm PROVE ~Precious(f)
        <3>1. OutputFits(config.report) /\ fs[f] = first[f]
            BY <1>1, <1>2, <2>1
        <3>2. f \in Linked => first[f] # Absent
            BY <1>3 DEF PolicyIInv, FirstFits
        <3> QED BY <3>1, <3>2 DEF OutputFits, Precious
    <2>2. InputsKept'
        BY <1>1, PolicyFrame DEF PolicyIInv, Kept, InputsKept
    <2> QED BY <1>1, <1>2, <2>1, <2>2, PolicyFrame DEF Kept
<1>13. Taken'
    BY <1>1, PolicyFrame DEF PolicyIInv, Taken
<1>14. Alarm'
    <2> SUFFICES ASSUME calm = Files
                 PROVE  /\ errors # {} => RootCause \/ (Past' /\ UnitCause) \/ code' = 2
                        /\ AlarmHasCause'
        BY <1>1, <1>2, PolicyFrame, PolicyFrameArtifacts DEF Alarm
    <2>1. errors # {} => RootCause \/ (Past' /\ UnitCause) \/ code' = 2
        <3>1. errors # {} => RootCause \/ UnitCause
            BY <1>2, NoneAssumption DEF PolicyIInv, Alarm
        <3>2. Past' \/ code' = 2
            BY <1>1 DEF Past
        <3> QED BY <3>1, <3>2
    <2>2. ASSUME code' = 2 PROVE AlarmHasCause'
        <3>1. ~OutputFits(config.report)
            BY <1>1, <1>2, <2>2, NoneAssumption
        <3>2. fs[f] = first[f]
            BY <1>2, <1>3
        <3> DEFINE late ==
                \/ Precious(f) \/ Suffix[f] # "none" \/ Suffix[config.report] # "none"
                \/ first[f] # Absent /\ ~first[f].open
                \/ \E i \in DOMAIN config.binaries :
                      config.binaries[i] \in Names /\ Target[config.binaries[i]] = f
            taken == \E e \in EntrySet, n \in Names :
                        /\ Reached(e, n)
                        /\ \/ Fails(first[Target[n]]) /\ (n \in Files => first[n] # Absent)
                           \/ /\ Wanted(e, n, first[Target[n]])
                              /\ Unreadable(Target[n], artifacts[Target[n]], first[Target[n]])
        <3>3. late \/ taken
            <4>1. CASE artifacts[f] = None
                BY <3>1, <3>2, <4>1 DEF OutputFits, Precious
            <4>2. CASE artifacts[f] # None /\ ~Precious(f)
                <5>1. PICK e \in EntrySet, n \in Names :
                         Target[n] = f /\ Wanted(e, n, first[f])
                    BY <1>3, <4>2 DEF PolicyIInv, Taken
                <5>2. first[f] # Absent /\ first[f].magic = "text"
                    BY <4>2, <5>1 DEF Precious, Wanted
                <5>3. first[f].units = <<>>
                    BY <1>3, <5>2 DEF PolicyIInv, FirstFits
                <5>4. Unreadable(f, artifacts[f], first[f])
                    BY <5>2, <5>3 DEF Unreadable
                <5>5. Reached(e, n)
                    BY <5>1 DEF Wanted
                <5> QED BY <5>1, <5>4, <5>5
            <4>3. CASE Precious(f)
                BY <4>3
            <4> QED BY <4>1, <4>2, <4>3
        <3>4. late' <=> late
            BY <1>1, PolicyFrame
        <3>5. taken' <=> taken
            BY <1>1, PolicyFrame DEF Unreadable, Fails
        <3> HIDE DEF late, taken
        <3>6. late' \/ taken'
            BY <3>3, <3>4, <3>5
        <3> QED BY <3>6 DEF AlarmHasCause, late, taken
    <2>3. ASSUME code' # 2 PROVE AlarmHasCause'
        BY <2>3 DEF AlarmHasCause
    <2> QED BY <2>1, <2>2, <2>3
<1> QED BY <1>4, <1>5, <1>7, <1>8, <1>9, <1>10, <1>11, <1>12, <1>13, <1>14
        DEF PolicyIInv

LEMMA EndInspectStep == ASSUME PolicyIInv, EndInspect PROVE PolicyIInv'
<1>1. /\ config' = config /\ artifacts' = artifacts /\ failed' = failed
      /\ pending' = pending /\ report' = report /\ fs' = fs /\ code' = code
      /\ first' = first /\ calm' = calm /\ read' = read /\ matched' = matched
      /\ trouble' = trouble /\ roots' = roots /\ listed' = listed /\ errors' = errors
      /\ stage = "inspect" /\ pending = {} /\ stage' = "write"
    BY DEF EndInspect, found, walk, history
<1>2. /\ Past /\ Begun /\ code = None /\ report = None
      /\ roots = <<>> /\ listed = None /\ ConfigFits(config)
    BY <1>1 DEF PolicyIInv, Order, Past, Begun
<1>3. Past' /\ Begun'
    BY <1>1 DEF Past, Begun
<1>4. PolicyTypes'
    <2>1. EntrySet' = EntrySet
        BY <1>1, PolicyFrame
    <2> QED BY <1>1, <2>1 DEF PolicyIInv, PolicyTypes
<1>5. FirstFits'
    BY <1>1 DEF PolicyIInv, FirstFits
<1>6. Order'
    BY <1>1, <1>2, NoneAssumption DEF PolicyIInv, Order, ConfigFits
<1>7. Walking'
    BY <1>1, <1>2 DEF Walking
<1>8. Served' /\ Missed'
    BY <1>1, <1>2, PolicyFrame DEF PolicyIInv, Served, Missed
<1>9. Inspected'
    BY <1>1, <1>2, PolicyFrameArtifacts DEF PolicyIInv, Inspected
<1>10. Real'
    BY <1>1, PolicyFrame DEF PolicyIInv, Real
<1>11. Kept'
    BY <1>1, PolicyFrame DEF PolicyIInv, Kept, InputsKept
<1>12. Taken'
    BY <1>1, PolicyFrame DEF PolicyIInv, Taken
<1>13. Alarm'
    <2>1. AlarmHasCause'
        BY <1>1, <1>2, NoneAssumption DEF AlarmHasCause
    <2> QED BY <1>1, <1>2, <1>3, <2>1, PolicyFrame, PolicyFrameArtifacts DEF PolicyIInv, Alarm
<1> QED BY <1>4, <1>5, <1>6, <1>7, <1>8, <1>9, <1>10, <1>11, <1>12, <1>13
        DEF PolicyIInv

\* One of the units judged is what was parsed of a unit that was shown.
ParsedFrom(p, kind, u) ==
    /\ p.traces = ParseElf(u).traces /\ p.symtab = u.symtab
    /\ p.member = IF kind = "archive" THEN u.member ELSE ""

LEMMA ParsedIs ==
    ASSUME NEW u \in Units
    PROVE  LET p == ParseElf(u) IN
           /\ p.member = u.member /\ p.symtab = u.symtab
           /\ p.status = "error" <=> u.form \in {"foreign", "lto"}
           /\ p.status = "code" => u.form \in {"elf", "rmeta"}
           /\ p.status # "error" => \/ p.status = "code" /\ u.form \in {"elf", "rmeta"}
                                    \/ u.form = "rmeta" /\ ~u.runtime
<1> DEFINE st == IF u.form \in {"foreign", "lto"} THEN "error"
                 ELSE IF u.form = "rmeta" /\ ~u.runtime THEN "skipped" ELSE "code"
<1>1. ParseElf(u).member = u.member /\ ParseElf(u).symtab = u.symtab
      /\ ParseElf(u).status = st
    BY DEF ParseElf
<1>2. u.form \in {"elf", "rmeta", "lto", "foreign"}
    BY DEF Units
<1> QED BY <1>1, <1>2

\* What is judged of an artifact comes from what was shown; and unless there is
\* an error in it, everything that was shown is judged, or has no code.
LEMMA InspectIs ==
    ASSUME NEW kind, NEW arch \in BOOLEAN, NEW out \in Shown
    PROVE  LET U == Inspect(kind, arch, out) IN
           /\ \A j \in DOMAIN U : U[j].status = "code" =>
                 \E i \in DOMAIN out.units : ParsedFrom(U[j], kind, out.units[i])
           /\ (\A j \in DOMAIN U : U[j].status # "error") =>
                 /\ ~out.diagnostic
                 /\ \A i \in DOMAIN out.units :
                       \/ out.units[i].form = "rmeta" /\ ~out.units[i].runtime
                       \/ /\ out.units[i].form \in {"elf", "rmeta"}
                          /\ \E j \in DOMAIN U : U[j].status = "code"
                                /\ ParsedFrom(U[j], kind, out.units[i])
<1> DEFINE U == Inspect(kind, arch, out)
           S == out.units
           n == Len(S)
<1>1. S \in Seq(Units) /\ n \in Nat /\ DOMAIN S = 1 .. n /\ \A i \in 1 .. n : S[i] \in Units
    BY DEF Shown
<1>2. FileError.status = "error"
    BY DEF FileError
<1>3. CASE kind # "archive"
    <2>1. CASE out.diagnostic \/ n # 1
        <3>1. U = <<FileError>>
            BY <1>3, <2>1 DEF Inspect
        <3>2. DOMAIN U = {1} /\ U[1] = FileError
            BY <3>1
        <3> HIDE DEF U, S
        <3> QED BY <1>2, <3>2 DEF U
    <2>2. CASE ~(out.diagnostic \/ n # 1)
        <3> DEFINE p == ParseElf(S[1])
        <3>1. U = <<[p EXCEPT !.member = ""]>>
            BY <1>3, <2>2 DEF Inspect
        <3>2. DOMAIN U = {1} /\ U[1] = [p EXCEPT !.member = ""]
            <4> DEFINE q == [p EXCEPT !.member = ""]
            <4>1. U = <<q>>
                BY <3>1
            <4> HIDE DEF U, q
            <4>2. DOMAIN U = {1} /\ U[1] = q
                BY <4>1
            <4> QED BY <4>2 DEF q
        <3>3. U[1].traces = p.traces /\ U[1].symtab = p.symtab /\ U[1].status = p.status
              /\ U[1].member = ""
            <4> DEFINE q == [p EXCEPT !.member = ""]
            <4>1. q.traces = p.traces /\ q.symtab = p.symtab /\ q.status = p.status
                  /\ q.member = ""
                BY DEF ParseElf
            <4>2. U[1] = q
                BY <3>2
            <4> HIDE DEF U, p, q
            <4> QED BY <4>1, <4>2
        <3>4. 1 \in DOMAIN S /\ S[1] \in Units /\ \A i \in DOMAIN S : i = 1
            <4>1. n = 1
                BY <2>2
            <4> HIDE DEF S, n
            <4> QED BY <1>1, <4>1
        <3>5. ParsedFrom(U[1], kind, S[1])
            <4>1. p.symtab = S[1].symtab
                BY <3>4, ParsedIs
            <4> HIDE DEF U, S
            <4> QED BY <1>3, <3>3, <4>1 DEF ParsedFrom
        <3>6. /\ p.status = "error" <=> S[1].form \in {"foreign", "lto"}
              /\ p.status # "error" => \/ p.status = "code" /\ S[1].form \in {"elf", "rmeta"}
                                       \/ S[1].form = "rmeta" /\ ~S[1].runtime
            BY <3>4, ParsedIs
        <3> HIDE DEF U, S, p, n
        <3> QED BY <2>2, <3>2, <3>3, <3>4, <3>5, <3>6 DEF U, S
    <2> QED BY <2>1, <2>2
<1>4. CASE kind = "archive"
    <2> DEFINE shown == IF arch THEN [i \in DOMAIN S |-> ParseElf(S[i])] ELSE <<>>
               rest == IF out.diagnostic \/ shown = <<>> THEN <<FileError>> ELSE <<>>
               m == Len(shown)
               R == {ParseElf(S[i]) : i \in DOMAIN S} \cup {FileError}
    <2>1. U = shown \o rest
        BY <1>4 DEF Inspect
    <2>2. shown \in Seq(R) /\ rest \in Seq(R) /\ m \in Nat /\ DOMAIN shown = 1 .. m
          /\ (arch => m = n) /\ (~arch => shown = <<>>)
        <3>1. CASE arch
            <4>1. shown = [i \in 1 .. n |-> ParseElf(S[i])]
                BY <1>1, <3>1
            <4>2. \A i \in 1 .. n : ParseElf(S[i]) \in R
                BY <1>1
            <4>3. shown \in Seq(R) /\ Len(shown) = n
                <5> HIDE DEF R, shown, S, n
                <5> QED BY <1>1, <4>1, <4>2
            <4> HIDE DEF shown
            <4>4. rest \in Seq(R)
                <5>1. FileError \in R
                    OBVIOUS
                <5> HIDE DEF R
                <5> QED BY <5>1
            <4> HIDE DEF rest, R, S, n
            <4> QED BY <1>1, <3>1, <4>3, <4>4
        <3>2. CASE ~arch
            BY <3>2
        <3> QED BY <3>1, <3>2
    <2>3. ASSUME NEW j \in DOMAIN shown
          PROVE  j \in DOMAIN S /\ S[j] \in Units /\ shown[j] = ParseElf(S[j])
        <3>1. arch
            <4>1. ~arch => DOMAIN shown = 1 .. 0
                OBVIOUS
            <4> QED BY <2>3, <4>1
        <3> QED BY <1>1, <2>3, <3>1
    <2>4. ASSUME NEW j \in DOMAIN shown
          PROVE  ParsedFrom(shown[j], kind, S[j])
        <3>1. S[j] \in Units /\ shown[j] = ParseElf(S[j])
            BY <2>3
        <3>2. ParseElf(S[j]).symtab = S[j].symtab /\ ParseElf(S[j]).member = S[j].member
            BY <3>1, ParsedIs
        <3> HIDE DEF shown, S
        <3> QED BY <1>4, <3>1, <3>2 DEF ParsedFrom
    <2>5. \/ rest = <<FileError>>
          \/ rest = <<>> /\ ~out.diagnostic /\ shown # <<>>
        OBVIOUS
    <2>6. CASE rest = <<FileError>>
        <3>1. DOMAIN U = 1 .. m + 1 /\ U[m + 1] = FileError
              /\ \A j \in 1 .. m : U[j] = shown[j]
            <4> HIDE DEF shown, rest, R, U
            <4> QED BY <2>1, <2>2, <2>6
        <3>2. m + 1 \in DOMAIN U /\ U[m + 1].status = "error"
            BY <1>2, <2>2, <3>1
        <3>3. \A j \in DOMAIN U : U[j].status = "code" => j \in DOMAIN shown /\ U[j] = shown[j]
            <4> HIDE DEF shown, U, m
            <4> QED BY <1>2, <2>2, <3>1
        <3> HIDE DEF shown, rest, U, S, m
        <3> QED BY <2>3, <2>4, <3>2, <3>3 DEF U, S
    <2>7. CASE rest = <<>> /\ ~out.diagnostic /\ shown # <<>>
        <3>1. U = shown
            <4> HIDE DEF shown, rest, R, U
            <4> QED BY <2>1, <2>2, <2>7
        <3>2. arch
            BY <2>7
        <3>3. DOMAIN shown = DOMAIN S
            BY <1>1, <2>2, <3>2
        <3>4. \A j \in DOMAIN S :
                 /\ shown[j].status # "error" =>
                        \/ shown[j].status = "code" /\ S[j].form \in {"elf", "rmeta"}
                        \/ S[j].form = "rmeta" /\ ~S[j].runtime
            <4> TAKE j \in DOMAIN S
            <4>1. S[j] \in Units /\ shown[j] = ParseElf(S[j])
                BY <2>3, <3>3
            <4> HIDE DEF shown, S
            <4> QED BY <4>1, ParsedIs
        <3> HIDE DEF shown, rest, U, S
        <3> QED BY <2>3, <2>4, <2>7, <3>1, <3>3, <3>4 DEF U, S
    <2> HIDE DEF shown, rest, U
    <2> QED BY <2>5, <2>6, <2>7
<1> QED BY <1>3, <1>4

\* What was shown whole and without an LTO object has no error in it.
LEMMA NoErrorIn ==
    ASSUME NEW kind, NEW arch \in BOOLEAN, NEW out \in Shown, ~out.diagnostic,
           \A i \in DOMAIN out.units : out.units[i].form \notin {"foreign", "lto"},
           kind # "archive" => Len(out.units) = 1,
           kind = "archive" => arch /\ out.units # <<>>
    PROVE  \A j \in DOMAIN Inspect(kind, arch, out) : Inspect(kind, arch, out)[j].status # "error"
<1> DEFINE U == Inspect(kind, arch, out)
           S == out.units
           n == Len(S)
<1>1. S \in Seq(Units) /\ n \in Nat /\ DOMAIN S = 1 .. n /\ \A i \in 1 .. n : S[i] \in Units
    BY DEF Shown
<1>2. \A i \in 1 .. n : ParseElf(S[i]).status # "error"
    <2> TAKE i \in 1 .. n
    <2>1. S[i] \in Units /\ S[i].form \notin {"foreign", "lto"}
        BY <1>1
    <2> HIDE DEF S
    <2> QED BY <2>1, ParsedIs
<1>3. CASE kind # "archive"
    <2> DEFINE q == [ParseElf(S[1]) EXCEPT !.member = ""]
    <2>1. U = <<q>>
        BY <1>3 DEF Inspect
    <2>2. q.status = ParseElf(S[1]).status
        BY DEF ParseElf
    <2>3. n = 1
        BY <1>3
    <2> HIDE DEF U, S, q, n
    <2>4. DOMAIN U = {1} /\ U[1] = q
        BY <2>1
    <2> QED BY <1>2, <2>2, <2>3, <2>4 DEF U
<1>4. CASE kind = "archive"
    <2> DEFINE shown == [i \in DOMAIN S |-> ParseElf(S[i])]
               R == {ParseElf(S[i]) : i \in DOMAIN S}
    <2>1. shown \in Seq(R) /\ Len(shown) = n
        <3>1. shown = [i \in 1 .. n |-> ParseElf(S[i])]
            BY <1>1
        <3>2. \A i \in 1 .. n : ParseElf(S[i]) \in R
            BY <1>1
        <3> HIDE DEF R, shown, S, n
        <3> QED BY <1>1, <3>1, <3>2
    <2>2. n # 0
        <3>1. S # <<>>
            BY <1>4
        <3> HIDE DEF S
        <3> QED BY <1>1, <3>1 DEF n
    <2>3. shown # <<>>
        <3> HIDE DEF shown, n
        <3> QED BY <2>1, <2>2
    <2>4. U = shown \o <<>>
        BY <1>4, <2>3 DEF Inspect
    <2>5. U = shown
        <3> HIDE DEF shown, R, U
        <3> QED BY <2>1, <2>4
    <2>6. \A j \in DOMAIN S : shown[j].status # "error"
        BY <1>1, <1>2
    <2>7. DOMAIN shown = DOMAIN S
        OBVIOUS
    <2> HIDE DEF shown, S, U
    <2> QED BY <2>5, <2>6, <2>7 DEF U
<1> QED BY <1>3, <1>4

\* What readelf shows; without a complaint it shows everything.
LEMMA ReadIs ==
    ASSUME NEW content \in FileContents \cup {Absent}, NEW out \in ReadElf(content)
    PROVE  /\ out \in Shown
           /\ ~out.diagnostic => content # Absent /\ out.units = content.units
           /\ Opens(content) /\ ~content.torn =>
                 /\ out.units = content.units
                 /\ out.diagnostic <=> \/ content.magic \notin {"rel", "exec", "archive"}
                                       \/ \E i \in DOMAIN content.units :
                                             content.units[i].form = "foreign"
<1>1. CASE ~Opens(content)
    <2>1. out = [units |-> <<>>, diagnostic |-> TRUE]
        BY <1>1 DEF ReadElf
    <2> QED BY <1>1, <2>1 DEF Shown
<1>2. CASE Opens(content) /\ content.torn
    <2>1. PICK k \in 0 .. Len(content.units) :
              out = [units |-> SubSeq(content.units, 1, k), diagnostic |-> TRUE]
        BY <1>2 DEF ReadElf
    <2>2. content.units \in Seq(Units)
        BY <1>2 DEF FileContents, Opens
    <2>3. SubSeq(content.units, 1, k) \in Seq(Units)
        <3> DEFINE s == content.units
        <3>1. s \in Seq(Units) /\ k \in 0 .. Len(s)
            BY <2>2
        <3> HIDE DEF s
        <3>2. \A i \in 1 .. k : s[i] \in Units
            BY <3>1
        <3>3. SubSeq(s, 1, k) \in Seq(Units)
            BY <3>1, <3>2
        <3> QED BY <3>3 DEF s
    <2> QED BY <1>2, <2>1, <2>3 DEF Shown
<1>3. CASE Opens(content) /\ ~content.torn
    <2> DEFINE D == \/ content.magic \notin {"rel", "exec", "archive"}
                    \/ \E i \in DOMAIN content.units : content.units[i].form = "foreign"
    <2>1. out = [units |-> content.units, diagnostic |-> D]
        BY <1>3 DEF ReadElf
    <2>2. content.units \in Seq(Units)
        BY <1>3 DEF FileContents, Opens
    <2>3. D \in BOOLEAN
        OBVIOUS
    <2>4. out \in Shown /\ out.units = content.units /\ out.diagnostic = D
        <3> HIDE DEF D
        <3> QED BY <2>1, <2>2, <2>3 DEF Shown
    <2> QED BY <1>3, <2>4 DEF Opens
<1> QED BY <1>1, <1>2, <1>3

\* An error in a file that nothing disturbed is one of the file itself.
LEMMA ErrorHasCause ==
    ASSUME NEW content \in FileContents, NEW kind, NEW f, NEW out \in ReadElf(content),
           content.magic \notin {"rel", "exec", "archive"} => content.units = <<>>,
           NEW j \in DOMAIN Inspect(kind, content.magic = "archive", out),
           Inspect(kind, content.magic = "archive", out)[j].status = "error"
    PROVE  Unreadable(f, kind, content)
<1> SUFFICES ASSUME ~Unreadable(f, kind, content) PROVE FALSE
    OBVIOUS
<1>1. /\ ~content.torn /\ content.open
      /\ \A i \in DOMAIN content.units : content.units[i].form \notin {"foreign", "lto"}
      /\ kind = "archive" => content.magic = "archive" /\ content.units # <<>>
      /\ kind # "archive" => Len(content.units) = 1 /\ content.magic # "bitcode"
    BY DEF Unreadable
<1>2. Opens(content)
    BY <1>1, TreesAssumption DEF Opens
<1>3. /\ out \in Shown /\ out.units = content.units
      /\ out.diagnostic <=> \/ content.magic \notin {"rel", "exec", "archive"}
                            \/ \E i \in DOMAIN content.units :
                                  content.units[i].form = "foreign"
    BY <1>1, <1>2, ReadIs
<1>4. content.units # <<>>
    <2> SUFFICES ASSUME content.units = <<>> PROVE FALSE
        OBVIOUS
    <2>1. kind # "archive"
        BY <1>1
    <2>2. Len(content.units) = 1
        BY <1>1, <2>1
    <2>3. Len(content.units) = 0
        OBVIOUS
    <2> QED BY <2>2, <2>3
<1>5. ~out.diagnostic
    BY <1>1, <1>3, <1>4
<1> DEFINE arch == (content.magic = "archive")
<1>6. arch \in BOOLEAN /\ (kind = "archive" => arch)
    BY <1>1
<1>7. Inspect(kind, arch, out)[j].status = "error" /\ j \in DOMAIN Inspect(kind, arch, out)
    OBVIOUS
<1> HIDE DEF arch
<1>8. /\ \A i \in DOMAIN out.units : out.units[i].form \notin {"foreign", "lto"}
      /\ kind # "archive" => Len(out.units) = 1
      /\ kind = "archive" => arch /\ out.units # <<>>
    BY <1>1, <1>3, <1>6
<1>9. \A i \in DOMAIN Inspect(kind, arch, out) : Inspect(kind, arch, out)[i].status # "error"
    BY <1>3, <1>5, <1>6, <1>8, NoErrorIn
<1> QED BY <1>7, <1>9

\* What one artifact adds to the errors and failures, where the mode and the
\* configuration say what they mean.
LEMMA JudgedIs ==
    ASSUME NEW f \in Files, NEW kind, kind = artifacts[f], NEW arch \in BOOLEAN,
           NEW out \in Shown, NEW U, U = Inspect(kind, arch, out), Judge(f, U),
           config \in Configs
    PROVE  /\ errors' = IF \E j \in DOMAIN U : U[j].status = "error"
                        THEN errors \cup {f} ELSE errors
           /\ failed \subseteq failed'
           /\ \A x \in failed' \ failed :
                 /\ x[1] = f /\ x \in Files \X Members \X Checks
                 /\ \E i \in DOMAIN out.units :
                       ~Satisfies(x[3], Required(x[3], f, x[2]), out.units[i])
           /\ (\A j \in DOMAIN U : U[j].status # "error") /\ failed' = {} =>
                 \A i \in DOMAIN out.units : Complies(f, out.units[i])
<1> DEFINE S == out.units
           Blamed(j) == {c \in Checks :
                            PolicyFailed(EffectiveModes(f, U[j].member)[c], Detect(c, U[j]))}
           codes == {j \in DOMAIN U : U[j].status = "code"}
           new == UNION {{<<f, U[j].member, c>> : c \in Blamed(j)} : j \in codes}
<1>1. failed' = failed \cup new
      /\ errors' = IF \E j \in DOMAIN U : U[j].status = "error" THEN errors \cup {f} ELSE errors
    BY DEF Judge
<1>2. \A i \in DOMAIN S : S[i] \in Units
    BY DEF Shown
<1>3. /\ \A j \in codes : \E i \in DOMAIN S : ParsedFrom(U[j], kind, S[i])
      /\ (\A j \in DOMAIN U : U[j].status # "error") =>
            \A i \in DOMAIN S :
               \/ S[i].form = "rmeta" /\ ~S[i].runtime
               \/ /\ S[i].form \in {"elf", "rmeta"}
                  /\ \E j \in codes : ParsedFrom(U[j], kind, S[i])
    <2>1. /\ \A j \in DOMAIN U : U[j].status = "code" =>
                \E i \in DOMAIN S : ParsedFrom(U[j], kind, S[i])
          /\ (\A j \in DOMAIN U : U[j].status # "error") =>
                \A i \in DOMAIN S :
                   \/ S[i].form = "rmeta" /\ ~S[i].runtime
                   \/ /\ S[i].form \in {"elf", "rmeta"}
                      /\ \E j \in DOMAIN U : U[j].status = "code"
                            /\ ParsedFrom(U[j], kind, S[i])
        BY InspectIs
    <2> HIDE DEF S
    <2> QED BY <2>1
<1>4. PICK n \in Nat : DOMAIN config.sections = 1 .. n
    <2>1. config.sections \in Seq(ToSet(config.sections))
        BY ConfigsAssumption
    <2> DEFINE s == config.sections
               R == ToSet(config.sections)
    <2>2. s \in Seq(R)
        BY <2>1
    <2> HIDE DEF s, R
    <2>3. Len(s) \in Nat /\ DOMAIN s = 1 .. Len(s)
        BY <2>2
    <2> QED BY <2>3 DEF s
<1>5. ASSUME NEW j \in codes, NEW u \in Units, ParsedFrom(U[j], kind, u), NEW c \in Checks
      PROVE  c \in Blamed(j) <=> ~Satisfies(c, Required(c, f, U[j].member), u)
    <2>1. EffectiveModes(f, U[j].member)[c] = Required(c, f, U[j].member)
        BY <1>4, ModesAreRequired
    <2>2. U[j].traces = ParseElf(u).traces /\ U[j].symtab = u.symtab
        BY <1>5 DEF ParsedFrom
    <2>3. PolicyFailed(Required(c, f, U[j].member), Detect(c, U[j]))
              <=> ~Satisfies(c, Required(c, f, U[j].member), u)
        BY <2>2, JudgedRight
    <2> HIDE DEF codes
    <2> QED BY <2>1, <2>3
<1> HIDE DEF S, Blamed, codes
<1>6. ASSUME NEW x \in failed' \ failed
      PROVE  /\ x[1] = f /\ x \in Files \X Members \X Checks
             /\ \E i \in DOMAIN S : ~Satisfies(x[3], Required(x[3], f, x[2]), S[i])
    <2>1. x \in new
        BY <1>1
    <2>2. PICK j \in codes : x \in {<<f, U[j].member, c>> : c \in Blamed(j)}
        BY <2>1
    <2>3. PICK c \in Blamed(j) : x = <<f, U[j].member, c>>
        BY <2>2
    <2>4. PICK i \in DOMAIN S : ParsedFrom(U[j], kind, S[i])
        BY <1>3
    <2>5. S[i] \in Units /\ c \in Checks
        BY <1>2 DEF Blamed
    <2>6. ~Satisfies(c, Required(c, f, U[j].member), S[i])
        BY <1>5, <2>4, <2>5
    <2>7. U[j].member \in Members
        <3>1. S[i].member \in Members
            BY <2>5 DEF Units
        <3>2. "" \in Members
            BY PathAssumption
        <3> QED BY <2>4, <3>1, <3>2 DEF ParsedFrom
    <2>8. x[1] = f /\ x[2] = U[j].member /\ x[3] = c
        BY <2>3
    <2>9. x \in Files \X Members \X Checks
        BY <2>3, <2>5, <2>7
    <2> QED BY <2>6, <2>8, <2>9
<1>7. ASSUME \A j \in DOMAIN U : U[j].status # "error", failed' = {}, NEW i \in DOMAIN S
      PROVE  Complies(f, S[i])
    <2>1. CASE S[i].form = "rmeta" /\ ~S[i].runtime
        BY <2>1 DEF Complies
    <2>2. CASE /\ S[i].form \in {"elf", "rmeta"}
               /\ \E j \in codes : ParsedFrom(U[j], kind, S[i])
        <3>1. PICK j \in codes : ParsedFrom(U[j], kind, S[i])
            BY <2>2
        <3>2. Blamed(j) = {}
            <4>1. SUFFICES ASSUME NEW c \in Blamed(j) PROVE FALSE
                OBVIOUS
            <4>2. <<f, U[j].member, c>> \in new
                OBVIOUS
            <4> HIDE DEF new
            <4> QED BY <1>1, <1>7, <4>2
        <3>3. \A c \in Checks : Satisfies(c, Required(c, f, U[j].member), S[i])
            BY <1>2, <1>5, <3>1, <3>2
        <3>4. U[j].member = IF artifacts[f] = "archive" THEN S[i].member ELSE ""
            BY <3>1 DEF ParsedFrom
        <3> QED BY <2>2, <3>3, <3>4 DEF Complies
    <2> QED BY <1>3, <1>7, <2>1, <2>2
<1>8. failed \subseteq failed'
    BY <1>1
<1> HIDE DEF new
<1> QED BY <1>1, <1>6, <1>7, <1>8 DEF S

\* While artifacts are inspected there is no verdict yet.
LEMMA InInspect ==
    ASSUME PolicyIInv, stage = "inspect"
    PROVE  /\ Past /\ Begun /\ code = None /\ report = None /\ config \in Configs
           /\ roots = <<>> /\ listed = None /\ ConfigFits(config)
           /\ pending \subseteq {f \in Files : artifacts[f] # None}
           /\ \A f \in calm : fs[f] = first[f]
BY NoneAssumption DEF PolicyIInv, PolicyTypes, Order, Kept, Past, Begun

LEMMA InspectFileStep ==
    ASSUME PolicyIInv, NEW f \in Files, InspectFile(f)
    PROVE  PolicyIInv'
<1> DEFINE kind == artifacts[f]
           content == fs[f]
           arch == (content # Absent /\ content.magic = "archive")
<1>1. /\ config' = config /\ artifacts' = artifacts /\ stage' = stage
      /\ report' = report /\ fs' = fs /\ code' = code
      /\ first' = first /\ calm' = calm /\ matched' = matched
      /\ trouble' = trouble /\ roots' = roots /\ listed' = listed
      /\ stage = "inspect" /\ f \in pending /\ pending' = pending \ {f}
    BY DEF InspectFile, walk, Least
<1>2. PICK out \in ReadElf(content) :
          Judge(f, Inspect(kind, arch, out)) /\ read' = [read EXCEPT ![f] = out]
    BY DEF InspectFile
<1> DEFINE U == Inspect(kind, arch, out)
<1>3. /\ Past /\ Begun /\ code = None /\ report = None /\ config \in Configs
      /\ roots = <<>> /\ listed = None /\ ConfigFits(config)
      /\ kind # None
      /\ \A g \in calm : fs[g] = first[g]
    BY <1>1, InInspect
<1>4. content \in FileContents \cup {Absent}
    BY DEF PolicyIInv, PolicyTypes
<1>5. /\ out \in Shown
      /\ ~out.diagnostic => content # Absent /\ out.units = content.units
    BY <1>4, ReadIs
<1>6. /\ errors' = IF \E j \in DOMAIN U : U[j].status = "error"
                   THEN errors \cup {f} ELSE errors
      /\ failed \subseteq failed'
      /\ \A x \in failed' \ failed :
            /\ x[1] = f /\ x \in Files \X Members \X Checks
            /\ \E i \in DOMAIN out.units :
                  ~Satisfies(x[3], Required(x[3], f, x[2]), out.units[i])
      /\ (\A j \in DOMAIN U : U[j].status # "error") /\ failed' = {} =>
            \A i \in DOMAIN out.units : Complies(f, out.units[i])
    <2>1. arch \in BOOLEAN /\ kind = artifacts[f]
        OBVIOUS
    <2>2. out \in Shown /\ config \in Configs /\ Judge(f, U) /\ U = Inspect(kind, arch, out)
        BY <1>2, <1>3, <1>5
    <2> HIDE DEF arch, kind, U, content
    <2> QED BY <2>1, <2>2, JudgedIs
<1>7. (\A j \in DOMAIN U : U[j].status # "error") => ~out.diagnostic
    <2>1. arch \in BOOLEAN
        OBVIOUS
    <2> HIDE DEF arch
    <2> QED BY <1>5, <2>1, InspectIs
<1>8. errors' = {} => errors = {} /\ \A j \in DOMAIN U : U[j].status # "error"
    BY <1>6
<1>9. read \in [Files -> Shown \cup {None}]
    BY DEF PolicyIInv, PolicyTypes
<1>10. read' \in [Files -> Shown \cup {None}] /\ read'[f] = out
       /\ \A g \in Files \ {f} : read'[g] = read[g]
    BY <1>2, <1>5, <1>9
<1>11. read'[f] # None
    BY <1>5, <1>10, NoneAssumption
\* An error in it has a cause in the file, unless something disturbed it.
<1>12. ASSUME calm = Files, NEW j \in DOMAIN U, U[j].status = "error"
       PROVE  UnitCause
    <2>1. PICK e \in EntrySet, n \in Names : Target[n] = f /\ Wanted(e, n, first[f])
        BY <1>3, <1>12 DEF PolicyIInv, Taken
    <2>2. content = first[f] /\ content # Absent
        BY <1>3, <1>12, <2>1 DEF Wanted
    <2>3. content.magic \notin {"rel", "exec", "archive"} => content.units = <<>>
        BY <2>2 DEF PolicyIInv, FirstFits
    <2>4. arch = (content.magic = "archive")
        BY <2>2
    <2>5. Unreadable(f, kind, content)
        <3>1. /\ j \in DOMAIN Inspect(kind, content.magic = "archive", out)
              /\ Inspect(kind, content.magic = "archive", out)[j].status = "error"
            <4> HIDE DEF arch
            <4> QED BY <1>12, <2>4
        <3>2. content \in FileContents
            BY <1>4, <2>2
        <3> HIDE DEF kind, content, arch, U
        <3> QED BY <2>3, <3>1, <3>2, ErrorHasCause
    <2> QED BY <2>1, <2>2, <2>5 DEF UnitCause
<1> HIDE DEF U, arch, content, kind
<1>13. PolicyTypes'
    <2>1. EntrySet' = EntrySet
        BY <1>1, PolicyFrame
    <2>2. failed' \in SUBSET (Files \X Members \X Checks)
        BY <1>6 DEF PolicyIInv, PolicyTypes
    <2>3. errors' \in SUBSET Places
        BY <1>6, PathAssumption DEF PolicyIInv, PolicyTypes, Places, Files
    <2> QED BY <1>1, <1>10, <2>1, <2>2, <2>3 DEF PolicyIInv, PolicyTypes
<1>14. FirstFits'
    BY <1>1 DEF PolicyIInv, FirstFits
<1>15. Past' /\ Begun'
    BY <1>1 DEF Past, Begun
<1>16. Order'
    BY <1>1, <1>3, NoneAssumption DEF PolicyIInv, Order, ConfigFits
<1>17. Walking'
    BY <1>1, <1>3 DEF Walking
<1>18. Served' /\ Missed'
    BY <1>1, <1>3, <1>8, PolicyFrame DEF PolicyIInv, Served, Missed
<1>19. Inspected'
    <2> SUFFICES ASSUME errors' = {}, NEW g \in Files \ pending', artifacts[g] # None
                 PROVE  /\ read'[g] # None /\ ~read'[g].diagnostic
                        /\ failed' = {} =>
                              \A i \in DOMAIN read'[g].units : Complies(g, read'[g].units[i])
                        /\ g \in calm => first[g] # Absent /\ read'[g].units = first[g].units
        BY <1>1, PolicyFrameArtifacts DEF Inspected
    <2>1. CASE g = f
        <3>1. ~out.diagnostic /\ content # Absent /\ out.units = content.units
            BY <1>5, <1>7, <1>8
        <3>2. f \in calm => content = first[f]
            BY <1>3 DEF content
        <3> QED BY <1>6, <1>8, <1>10, <1>11, <2>1, <3>1, <3>2
    <2>2. CASE g # f
        <3>1. g \in Files \ pending /\ read'[g] = read[g]
            BY <1>1, <1>10, <2>2
        <3>2. failed' = {} => failed = {}
            BY <1>6
        <3> QED BY <1>3, <1>8, <3>1, <3>2 DEF PolicyIInv, Inspected
    <2> QED BY <2>1, <2>2
<1>20. Real'
    <2> SUFFICES ASSUME NEW x \in failed'
                 PROVE  /\ x[1] \notin pending' /\ read'[x[1]] # None
                        /\ \E i \in DOMAIN read'[x[1]].units :
                              ~Satisfies(x[3], Required(x[3], x[1], x[2]), read'[x[1]].units[i])
        BY <1>1, PolicyFrame DEF Real
    <2>1. CASE x \in failed
        <3>1. /\ x[1] \notin pending /\ read[x[1]] # None
              /\ \E i \in DOMAIN read[x[1]].units :
                    ~Satisfies(x[3], Required(x[3], x[1], x[2]), read[x[1]].units[i])
            BY <2>1 DEF PolicyIInv, Real
        <3>2. x[1] \in Files
            BY <2>1 DEF PolicyIInv, PolicyTypes
        <3>3. read'[x[1]] = read[x[1]]
            BY <1>1, <1>10, <3>1, <3>2
        <3> QED BY <1>1, <3>1, <3>3
    <2>2. CASE x \notin failed
        <3>1. /\ x[1] = f
              /\ \E i \in DOMAIN out.units :
                    ~Satisfies(x[3], Required(x[3], f, x[2]), out.units[i])
            BY <1>6, <2>2
        <3> QED BY <1>1, <1>10, <1>11, <3>1
    <2> QED BY <2>1, <2>2
<1>21. Kept'
    BY <1>1, PolicyFrame DEF PolicyIInv, Kept, InputsKept
<1>22. Taken'
    BY <1>1, PolicyFrame DEF PolicyIInv, Taken
<1>23. Alarm'
    <2>1. AlarmHasCause'
        BY <1>1, <1>3, NoneAssumption DEF AlarmHasCause
    <2>2. ASSUME calm = Files, errors' # {} PROVE RootCause \/ UnitCause
        <3>1. CASE errors # {}
            BY <1>3, <2>2, <3>1, NoneAssumption DEF PolicyIInv, Alarm
        <3>2. CASE errors = {}
            BY <1>6, <1>12, <2>2, <3>2
        <3> QED BY <3>1, <3>2
    <2> QED BY <1>1, <1>3, <1>15, <2>1, <2>2, PolicyFrame, PolicyFrameArtifacts DEF Alarm
<1> QED BY <1>13, <1>14, <1>16, <1>17, <1>18, <1>19, <1>20, <1>21, <1>22, <1>23
        DEF PolicyIInv

\* What was disturbed is not vouched for, and a run with a disturbance is not
\* asked for the cause of its alarm.
LEMMA InspectTimeoutStep ==
    ASSUME PolicyIInv, NEW f \in Files, InspectTimeout(f)
    PROVE  PolicyIInv'
<1>1. /\ config' = config /\ artifacts' = artifacts /\ stage' = stage
      /\ report' = report /\ fs' = fs /\ code' = code /\ failed' = failed /\ read' = read
      /\ first' = first /\ calm' = calm \ {f} /\ matched' = matched
      /\ trouble' = trouble /\ roots' = roots /\ listed' = listed
      /\ stage = "inspect" /\ pending' = pending \ {f} /\ errors' = errors \cup {f}
    BY DEF InspectTimeout, walk
<1>2. /\ Past /\ Begun /\ code = None /\ report = None /\ config \in Configs
      /\ roots = <<>> /\ listed = None /\ ConfigFits(config)
    BY <1>1, InInspect
<1>3. PolicyTypes'
    <2>1. EntrySet' = EntrySet
        BY <1>1, PolicyFrame
    <2>2. errors' \in SUBSET Places
        BY <1>1, PathAssumption DEF PolicyIInv, PolicyTypes, Places, Files
    <2> QED BY <1>1, <2>1, <2>2 DEF PolicyIInv, PolicyTypes
<1>4. FirstFits'
    BY <1>1 DEF PolicyIInv, FirstFits
<1>5. Past' /\ Begun'
    BY <1>1 DEF Past, Begun
<1>6. Order'
    BY <1>1, <1>2, NoneAssumption DEF PolicyIInv, Order, ConfigFits
<1>7. Walking'
    BY <1>1, <1>2 DEF Walking
<1>8. errors' # {}
    BY <1>1
<1>9. Served' /\ Missed' /\ Inspected'
    BY <1>8 DEF Served, Missed, Inspected
<1>10. Real'
    BY <1>1, PolicyFrame DEF PolicyIInv, Real
<1>11. Kept'
    BY <1>1, PolicyFrame DEF PolicyIInv, Kept, InputsKept
<1>12. Taken'
    BY <1>1, PolicyFrame DEF PolicyIInv, Taken
<1>13. Alarm'
    <2>1. calm' # Files
        BY <1>1
    <2>2. (calm = Files)' <=> calm' = Files
        OBVIOUS
    <2> QED BY <2>1, <2>2 DEF Alarm
<1> QED BY <1>3, <1>4, <1>6, <1>7, <1>9, <1>10, <1>11, <1>12, <1>13 DEF PolicyIInv

LEMMA DisturbStep ==
    ASSUME PolicyIInv, NEW f \in Files, Disturb(f)
    PROVE  PolicyIInv'
<1>1. /\ config' = config /\ artifacts' = artifacts /\ stage' = stage
      /\ report' = report /\ code' = code /\ failed' = failed /\ read' = read
      /\ first' = first /\ calm' = calm \ {f} /\ matched' = matched
      /\ trouble' = trouble /\ roots' = roots /\ listed' = listed
      /\ pending' = pending /\ errors' = errors /\ stage \notin {"load", "done"}
    BY DEF Disturb, walk, found
<1>2. PICK content \in Contents(f) \cup {Absent} \cup
                       {[c EXCEPT !.torn = TRUE] : c \in Contents(f) \ {Absent}} :
          fs' = [fs EXCEPT ![f] = content]
    BY DEF Disturb
<1>3. content \in FileContents \cup {Absent}
    <2>1. Contents(f) \subseteq FileContents \cup {Absent}
        BY TreesAssumption DEF Contents
    <2>2. \A c \in FileContents : [c EXCEPT !.torn = TRUE] \in FileContents
        BY DEF FileContents
    <2> QED BY <1>2, <2>1, <2>2
<1>4. \A g \in Files \ {f} : fs'[g] = fs[g]
    BY <1>2 DEF PolicyIInv, PolicyTypes
<1>5. (Past' <=> Past) /\ (Begun' <=> Begun)
    BY <1>1 DEF Past, Begun
<1>6. PolicyTypes'
    <2>1. EntrySet' = EntrySet
        BY <1>1, PolicyFrame
    <2>2. fs' \in [Files -> FileContents \cup {Absent}]
        BY <1>2, <1>3 DEF PolicyIInv, PolicyTypes
    <2> QED BY <1>1, <2>1, <2>2 DEF PolicyIInv, PolicyTypes
<1>7. FirstFits'
    BY <1>1 DEF PolicyIInv, FirstFits
<1>8. Order'
    BY <1>1, <1>5 DEF PolicyIInv, Order, ConfigFits
<1>9. Walking'
    BY <1>1, PolicyFrame DEF PolicyIInv, Walking
<1>10. Served' /\ Missed'
    BY <1>1, <1>5, PolicyFrame DEF PolicyIInv, Served, Missed
<1>11. Inspected'
    BY <1>1, <1>5, PolicyFrameArtifacts DEF PolicyIInv, Inspected
<1>12. Real'
    BY <1>1, PolicyFrame DEF PolicyIInv, Real
<1>13. Kept'
    <2>1. \A g \in calm' : g \in calm /\ fs'[g] = fs[g]
        BY <1>1, <1>4 DEF PolicyIInv, PolicyTypes
    <2>2. InputsKept'
        BY <1>1, <2>1, PolicyFrame DEF PolicyIInv, Kept, InputsKept
    <2> QED BY <1>1, <2>1, <2>2, PolicyFrame DEF PolicyIInv, Kept
<1>14. Taken'
    BY <1>1, PolicyFrame DEF PolicyIInv, Taken
<1>15. Alarm'
    <2>1. calm' # Files
        BY <1>1
    <2>2. (calm = Files)' <=> calm' = Files
        OBVIOUS
    <2> QED BY <2>1, <2>2 DEF Alarm
<1> QED BY <1>6, <1>7, <1>8, <1>9, <1>10, <1>11, <1>12, <1>13, <1>14, <1>15
        DEF PolicyIInv

\* What main knows when it writes.
LEMMA InWrite ==
    ASSUME PolicyIInv, stage = "write"
    PROVE  /\ Past /\ Begun /\ code = None /\ report = None /\ config \in Configs
           /\ roots = <<>> /\ listed = None /\ ConfigFits(config)
           /\ pending = {} /\ Target[config.report] \in Files
           /\ \A f \in calm : fs[f] = first[f]
<1>1. /\ Past /\ Begun /\ code = None /\ report = None /\ config \in Configs
      /\ roots = <<>> /\ listed = None /\ ConfigFits(config)
      /\ pending = {} /\ \A f \in calm : fs[f] = first[f]
    BY DEF PolicyIInv, PolicyTypes, Order, Kept, Past, Begun
<1>2. config.report \in Names
    BY <1>1, ConfigsAssumption DEF ConfigFits
<1> QED BY <1>1, <1>2, NamesTarget

LEMMA WriteFailsStep == ASSUME PolicyIInv, WriteFails PROVE PolicyIInv'
<1> DEFINE f == Target[config.report]
<1>1. /\ config' = config /\ artifacts' = artifacts /\ stage' = "done" /\ stage = "write"
      /\ report' = report /\ code' = 2 /\ failed' = failed /\ read' = read
      /\ first' = first /\ calm' = calm \ {f} /\ matched' = matched
      /\ trouble' = trouble /\ roots' = roots /\ listed' = listed
      /\ pending' = pending /\ errors' = errors
      /\ fs' \in {fs, [fs EXCEPT ![f] = [Text EXCEPT !.torn = TRUE]]}
    BY DEF WriteFails, Exit, walk, found
<1>2. /\ Past /\ Begun /\ code = None /\ report = None /\ config \in Configs
      /\ roots = <<>> /\ listed = None /\ ConfigFits(config)
      /\ pending = {} /\ f \in Files
      /\ \A g \in calm : fs[g] = first[g]
    BY <1>1, InWrite
<1>3. [Text EXCEPT !.torn = TRUE] \in FileContents
    <2>1. Text \in FileContents
        BY DEF Text, FileContents
    <2>2. \A c \in FileContents : [c EXCEPT !.torn = TRUE] \in FileContents
        BY DEF FileContents
    <2> QED BY <2>1, <2>2
<1>4. ~Past' /\ ~Begun'
    BY <1>1 DEF Past, Begun
<1>5. PolicyTypes'
    <2>1. EntrySet' = EntrySet
        BY <1>1, PolicyFrame
    <2>2. fs' \in [Files -> FileContents \cup {Absent}]
        BY <1>1, <1>3 DEF PolicyIInv, PolicyTypes
    <2> QED BY <1>1, <2>1, <2>2 DEF PolicyIInv, PolicyTypes
<1>6. FirstFits'
    BY <1>1 DEF PolicyIInv, FirstFits
<1>7. Order'
    BY <1>1, <1>2, <1>4 DEF Order
<1>8. Walking' /\ Served' /\ Missed' /\ Inspected'
    BY <1>1, <1>2, <1>4 DEF Walking, Served, Missed, Inspected
<1>9. Real'
    BY <1>1, PolicyFrame DEF PolicyIInv, Real
<1>10. Kept'
    <2>1. \A g \in calm' : fs'[g] = first[g]
        BY <1>1, <1>2 DEF PolicyIInv, PolicyTypes
    <2> QED BY <1>1, <2>1 DEF Kept, InputsKept
<1>11. Taken'
    BY <1>1, PolicyFrame DEF PolicyIInv, Taken
<1>12. Alarm'
    <2>1. calm' # Files
        BY <1>1, <1>2
    <2>2. (calm = Files)' <=> calm' = Files
        OBVIOUS
    <2> QED BY <2>1, <2>2 DEF Alarm
<1> QED BY <1>5, <1>6, <1>7, <1>8, <1>9, <1>10, <1>11, <1>12 DEF PolicyIInv

\* The report is written, and the status follows.
LEMMA WriteReportStep == ASSUME PolicyIInv, WriteReport PROVE PolicyIInv'
<1> DEFINE f == Target[config.report]
<1>1. /\ config' = config /\ artifacts' = artifacts /\ stage' = "done" /\ stage = "write"
      /\ report' = [errors |-> errors, failed |-> failed] /\ code' = Status
      /\ failed' = failed /\ read' = read /\ first' = first /\ calm' = calm
      /\ matched' = matched /\ trouble' = trouble /\ roots' = roots /\ listed' = listed
      /\ pending' = pending /\ errors' = errors
      /\ fs' = [fs EXCEPT ![f] = Text]
    BY DEF WriteReport, Exit, walk, found, history
<1>2. /\ Past /\ Begun /\ code = None /\ report = None /\ config \in Configs
      /\ roots = <<>> /\ listed = None /\ ConfigFits(config)
      /\ pending = {} /\ f \in Files
      /\ \A g \in calm : fs[g] = first[g]
    BY <1>1, InWrite
<1>3. /\ code' \in {0, 1, 2} /\ (code' = 2 <=> errors # {})
      /\ code' \in {0, 1} => (code' = 0 <=> failed = {})
    BY <1>1 DEF Status
<1>4. (Past' <=> code' # 2) /\ (Begun' <=> Past')
    BY <1>1, <1>3 DEF Past, Begun
<1>5. Text \in FileContents
    BY DEF Text, FileContents
<1>6. report' \in Reports /\ report' # None
    <2>1. report' \in Reports
        BY <1>1 DEF PolicyIInv, PolicyTypes, Reports
    <2> QED BY <2>1, NoneAssumption
<1>7. PolicyTypes'
    <2>1. EntrySet' = EntrySet
        BY <1>1, PolicyFrame
    <2>2. fs' \in [Files -> FileContents \cup {Absent}]
        BY <1>1, <1>5 DEF PolicyIInv, PolicyTypes
    <2> QED BY <1>1, <1>3, <1>6, <2>1, <2>2 DEF PolicyIInv, PolicyTypes
<1>8. FirstFits'
    BY <1>1 DEF PolicyIInv, FirstFits
<1>9. Order'
    BY <1>1, <1>2, <1>3, <1>4 DEF PolicyIInv, Order, ConfigFits
<1>10. Walking'
    BY <1>1, <1>2 DEF Walking
<1>11. Served' /\ Missed'
    BY <1>1, <1>2, PolicyFrame DEF PolicyIInv, Served, Missed
<1>12. Inspected'
    BY <1>1, <1>2, PolicyFrameArtifacts DEF PolicyIInv, Inspected
<1>13. Real'
    BY <1>1, PolicyFrame DEF PolicyIInv, Real
<1>14. Kept'
    <2>1. \A g \in calm : g # f => fs'[g] = first[g]
        BY <1>1, <1>2 DEF PolicyIInv, PolicyTypes
    <2>2. f \in calm => ~Precious(f)
        BY <1>1 DEF PolicyIInv, Kept
    <2>3. InputsKept'
        BY <1>1, <1>6, <2>1, <2>2, PolicyFrame DEF InputsKept
    <2>4. \A g \in calm : fs'[g] \in {first[g], Text}
        BY <1>1, <1>2, <2>1 DEF PolicyIInv, PolicyTypes
    <2> QED BY <1>1, <2>3, <2>4 DEF Kept, Text
<1>15. Taken'
    BY <1>1, PolicyFrame DEF PolicyIInv, Taken
<1>16. Alarm'
    <2> SUFFICES ASSUME calm = Files
                 PROVE  AlarmHasCause'
        BY <1>1, <1>2, <1>3 DEF Alarm
    <2>1. CASE errors = {}
        BY <1>3, <2>1 DEF AlarmHasCause
    <2>2. CASE errors # {}
        <3>1. RootCause \/ UnitCause
            BY <1>2, <2>2, NoneAssumption DEF PolicyIInv, Alarm
        <3>2. (RootCause \/ UnitCause)'
            BY <1>1, <3>1, PolicyFrame, PolicyFrameArtifacts
        <3>3. \A e, n, x : Wanted(e, n, x)' => Reached(e, n)'
            BY DEF Wanted
        <3> QED BY <3>2, <3>3 DEF AlarmHasCause, RootCause, UnitCause
    <2> QED BY <2>1, <2>2
<1> QED BY <1>7, <1>8, <1>9, <1>10, <1>11, <1>12, <1>13, <1>14, <1>15, <1>16
        DEF PolicyIInv

LEMMA PolicyStutter ==
    ASSUME PolicyIInv, UNCHANGED policyVars
    PROVE  PolicyIInv'
<1>1. /\ config' = config /\ artifacts' = artifacts /\ stage' = stage
      /\ report' = report /\ code' = code /\ failed' = failed /\ read' = read
      /\ first' = first /\ calm' = calm /\ matched' = matched /\ fs' = fs
      /\ trouble' = trouble /\ roots' = roots /\ listed' = listed
      /\ pending' = pending /\ errors' = errors /\ installed' = installed
    BY DEF policyVars, walk, found, history
<1>2. (Past' <=> Past) /\ (Begun' <=> Begun)
    BY <1>1 DEF Past, Begun
<1>3. PolicyTypes' /\ FirstFits'
    BY <1>1, PolicyFrame DEF PolicyIInv, PolicyTypes, FirstFits
<1>4. Order' /\ Walking'
    BY <1>1, <1>2, PolicyFrame DEF PolicyIInv, Order, Walking, ConfigFits
<1>5. Served' /\ Missed' /\ Inspected'
    BY <1>1, <1>2, PolicyFrame, PolicyFrameArtifacts DEF PolicyIInv, Served, Missed, Inspected
<1>6. Real' /\ Taken' /\ Kept'
    BY <1>1, PolicyFrame DEF PolicyIInv, Real, Taken, Kept, InputsKept, Text
<1>7. Alarm'
    <2> DEFINE given == ~Opens(first[ConfigFile]) \/ ~ConfigFits(config) \/ ~installed
               root == \E e \in EntrySet : e.path \notin config.excludes /\
                           \/ e.path \in Closed
                           \/ ~\E n \in Names : Wanted(e, n, first[Target[n]])
               none == \A e \in EntrySet : e.path \in config.excludes
               file == \E e \in EntrySet, n \in Names :
                   /\ Reached(e, n)
                   /\ \/ Fails(first[Target[n]]) /\ (n \in Files => first[n] # Absent)
                      \/ /\ Wanted(e, n, first[Target[n]])
                         /\ Unreadable(Target[n], artifacts[Target[n]], first[Target[n]])
               late == LET f == Target[config.report] IN
                   \/ Precious(f) \/ Suffix[f] # "none" \/ Suffix[config.report] # "none"
                   \/ first[f] # Absent /\ ~first[f].open
                   \/ \E i \in DOMAIN config.binaries :
                         config.binaries[i] \in Names /\ Target[config.binaries[i]] = f
    <2>1. given' <=> given
        BY <1>1 DEF ConfigFits, Opens
    <2>2. (root' <=> root) /\ (none' <=> none)
        BY <1>1, PolicyFrame
    <2>3. file' <=> file
        <3>1. config' = config /\ first' = first /\ artifacts' = artifacts
            BY <1>1
        <3>2. /\ EntrySet' = EntrySet
              /\ \A e, n : Reached(e, n)' <=> Reached(e, n)
              /\ \A e, n, x : Wanted(e, n, x)' <=> Wanted(e, n, x)
            BY <3>1, PolicyFrame
        <3>3. ASSUME NEW n \in Names
              PROVE  /\ Fails(first[Target[n]])' <=> Fails(first[Target[n]])
                     /\ (first[n] # Absent)' <=> first[n] # Absent
                     /\ Unreadable(Target[n], artifacts[Target[n]], first[Target[n]])' <=>
                            Unreadable(Target[n], artifacts[Target[n]], first[Target[n]])
                     /\ \A e : Wanted(e, n, first[Target[n]])' <=>
                                  Wanted(e, n, first[Target[n]])
            BY <3>1, <3>2 DEF Fails, Unreadable
        <3> QED BY <3>2, <3>3
    <2>4. late' <=> late
        BY <1>1, PolicyFrame
    <2>5. AlarmHasCause <=>
              (code = 2 /\ calm = Files => given \/ root \/ none \/ file \/ late)
        BY DEF AlarmHasCause
    <2>6. AlarmHasCause' <=>
              (code' = 2 /\ calm' = Files => given' \/ root' \/ none' \/ file' \/ late')
        BY DEF AlarmHasCause
    <2> HIDE DEF given, root, none, file, late
    <2>7. AlarmHasCause' <=> AlarmHasCause
        BY <1>1, <2>1, <2>2, <2>3, <2>4, <2>5, <2>6
    <2> QED BY <1>1, <1>2, <2>7, PolicyFrame, PolicyFrameArtifacts DEF PolicyIInv, Alarm
<1> QED BY <1>3, <1>4, <1>5, <1>6, <1>7 DEF PolicyIInv

LEMMA PolicyInvStep == PolicyIInv /\ [PolicyNext]_policyVars => PolicyIInv'
<1> SUFFICES ASSUME PolicyIInv, [PolicyNext]_policyVars PROVE PolicyIInv'
    OBVIOUS
<1>1. CASE LoadConfig
    BY <1>1, LoadConfigStep
<1>2. CASE StartRoot
    BY <1>2, StartRootStep
<1>3. ASSUME NEW n \in Names, Add(n) PROVE PolicyIInv'
    BY <1>3, AddStep
<1>4. CASE EndRoot
    BY <1>4, EndRootStep
<1>5. CASE EndDiscover
    BY <1>5, EndDiscoverStep
<1>6. CASE CheckOutput
    BY <1>6, CheckOutputStep
<1>7. ASSUME NEW f \in Files, InspectFile(f) PROVE PolicyIInv'
    BY <1>7, InspectFileStep
<1>8. ASSUME NEW f \in Files, InspectTimeout(f) PROVE PolicyIInv'
    BY <1>8, InspectTimeoutStep
<1>9. CASE EndInspect
    BY <1>9, EndInspectStep
<1>10. CASE WriteReport
    BY <1>10, WriteReportStep
<1>11. CASE WriteFails
    BY <1>11, WriteFailsStep
<1>12. ASSUME NEW f \in Files, Disturb(f) PROVE PolicyIInv'
    BY <1>12, DisturbStep
<1>13. CASE UNCHANGED policyVars
    BY <1>13, PolicyStutter
<1> QED BY <1>1, <1>2, <1>3, <1>4, <1>5, <1>6, <1>7, <1>8, <1>9, <1>10, <1>11, <1>12,
           <1>13 DEF PolicyNext

\* The invariant of a run of the checker, whatever a build does meanwhile to
\* the files it may change (check_build.py, main).
THEOREM PolicyInvariant == PolicySpec => []PolicyIInv
BY PolicyStart, PolicyInvStep, PTL DEF PolicySpec

\* A verdict stands at the end of a run that has written its report.
LEMMA Verdict ==
    ASSUME PolicyIInv, code \in {0, 1}
    PROVE  /\ Past /\ Begun /\ roots = <<>> /\ errors = {} /\ pending = {}
           /\ report = [errors |-> errors, failed |-> failed] /\ report # None
           /\ code = 0 <=> failed = {}
<1>1. /\ Past /\ Begun /\ roots = <<>> /\ errors = {} /\ pending = {}
      /\ report = [errors |-> errors, failed |-> failed]
      /\ code = 0 <=> failed = {}
    BY DEF PolicyIInv, Order, Past, Begun
<1>2. report \in Reports
    BY <1>1 DEF PolicyIInv, PolicyTypes, Reports
<1> QED BY <1>1, <1>2, NoneAssumption

\* Whatever the configuration, the files and the build are, an exit status of 0
\* is earned: the report is written, no root is without an artifact, and what
\* was wanted and not disturbed meets what the text of the configuration
\* requires of it, unit by unit (check_build.py, discover and make_report).
THEOREM EarnedZero == PolicySpec => []ZeroIsEarned
<1>1. PolicyIInv => ZeroIsEarned
    <2> SUFFICES ASSUME PolicyIInv, code = 0
                 PROVE  /\ report # None
                        /\ \A e \in EntrySet : e.path \notin config.excludes =>
                              \E n \in Names : Reached(e, n) /\ read[Target[n]] # None
                        /\ \A e \in EntrySet, n \in Names :
                              /\ Target[n] \in calm
                              /\ Wanted(e, n, fs[Target[n]])
                              => \A i \in DOMAIN fs[Target[n]].units :
                                    Complies(Target[n], fs[Target[n]].units[i])
                        /\ \A f \in Files : artifacts[f] # None =>
                              /\ read[f] # None /\ ~read[f].diagnostic
                              /\ \A i \in DOMAIN read[f].units : Complies(f, read[f].units[i])
        BY DEF ZeroIsEarned
    <2>1. /\ Past /\ Begun /\ roots = <<>> /\ errors = {} /\ pending = {} /\ failed = {}
          /\ report # None
        BY Verdict
    <2>2. ToSet(roots) = {}
        <3>1. DOMAIN <<>> = {}
            OBVIOUS
        <3> QED BY <2>1, <3>1, Zenon DEF ToSet
    <2>3. ASSUME NEW f \in Files, artifacts[f] # None
          PROVE  /\ read[f] # None /\ ~read[f].diagnostic
                 /\ \A i \in DOMAIN read[f].units : Complies(f, read[f].units[i])
                 /\ f \in calm => read[f].units = first[f].units
        BY <2>1, <2>3 DEF PolicyIInv, Inspected
    <2>4. ASSUME NEW e \in EntrySet, e.path \notin config.excludes
          PROVE  \E n \in Names : Reached(e, n) /\ read[Target[n]] # None
        <3>1. PICK n \in Names : Reached(e, n) /\ artifacts[Target[n]] # None
            BY <2>1, <2>2, <2>4 DEF PolicyIInv, Served
        <3> QED BY <2>3, <3>1, NamesTarget
    <2>5. ASSUME NEW e \in EntrySet, NEW n \in Names, Target[n] \in calm,
                 Wanted(e, n, fs[Target[n]]), NEW i \in DOMAIN fs[Target[n]].units
          PROVE  Complies(Target[n], fs[Target[n]].units[i])
        <3> DEFINE f == Target[n]
        <3>1. fs[f] \in {first[f], Text} /\ f \in Files
            BY <2>5, NamesTarget DEF PolicyIInv, Kept
        <3>2. CASE fs[f] = first[f]
            <4>1. artifacts[f] # None
                BY <2>1, <2>2, <2>5, <3>2 DEF PolicyIInv, Missed
            <4> QED BY <2>3, <2>5, <3>1, <3>2, <4>1
        <3>3. CASE fs[f] = Text
            <4>1. fs[f].units = <<>>
                BY <3>3 DEF Text
            <4>2. DOMAIN <<>> = {}
                OBVIOUS
            <4> QED BY <2>5, <4>1, <4>2, Zenon
        <3> QED BY <3>1, <3>2, <3>3
    <2> QED BY <2>1, <2>3, <2>4, <2>5
<1> QED BY <1>1, PolicyInvariant, PTL

\* Likewise an exit status of 1 hides no error, and each failure it reports is
\* one of a unit that was shown, against what the text of the configuration
\* requires of that unit (check_build.py, effective_modes and policy_failed).
THEOREM RealFailures == PolicySpec => []FailureIsReal
<1>1. PolicyIInv => FailureIsReal
    <2> SUFFICES ASSUME PolicyIInv, code = 1 PROVE FailureIsReal
        BY DEF FailureIsReal
    <2>1. /\ errors = {} /\ failed # {} /\ report # None
          /\ report.errors = errors /\ report.failed = failed
        BY Verdict
    <2> QED BY <2>1 DEF FailureIsReal, PolicyIInv, Real
<1> QED BY <1>1, PolicyInvariant, PTL

\* And where nothing disturbs the run an exit status of 2 has one of the causes
\* it should have (check_build.py, main).
THEOREM AlarmsHaveCauses == PolicySpec => []AlarmHasCause
<1>1. PolicyIInv => AlarmHasCause
    BY DEF PolicyIInv, Alarm, AlarmHasCause
<1> QED BY <1>1, PolicyInvariant, PTL

\* No run overwrites an input: what it changes is the one plain text its report
\* replaces (check_build.py, main).
THEOREM InputsStay == PolicySpec => []InputsKept
<1>1. PolicyIInv => InputsKept
    BY DEF PolicyIInv, Kept
<1> QED BY <1>1, PolicyInvariant, PTL

=============================================================================
