--------------------------- MODULE ArtifactPolicy ---------------------------
(***************************************************************************)
(* build-check/check_build.py: what a run of the artifact checker reads, says *)
(* and overwrites.  It loads its configuration, walks the configured roots,   *)
(* inspects what it found with readelf and writes one report; its exit status *)
(* is 0 (every expectation met), 1 (one failed) or 2 (an error).  Meanwhile a *)
(* build may rewrite or remove any file.                                      *)
(*                                                                           *)
(* A name is a path; the ones that are not symbolic links are the files.  A   *)
(* file is known by its first bytes and by the ELF units readelf shows of it, *)
(* a unit by the traces of each check in its tables.  A pattern is the set of *)
(* items it matches.                                                          *)
(***************************************************************************)
EXTENDS Naturals, Sequences, FiniteSets, SequencesExt, FiniteSetsExt

CONSTANTS
    Names, Target,     \* paths, and the file each one resolves to
    Dirs, Inside,      \* directories, and the names a walk of each comes by
    Closed,            \* the ones with a part, not excluded, that cannot be listed
    Suffix,            \* of a name: "object", "archive", "library" or "none"
    Linked,            \* the files with a second hard link
    ConfigFile, Checker,
    Members,           \* names of archive members, "" for what is a file itself
    Checks, Driver,    \* CHECKS, and libfuzzer among them
    Configs,           \* the configurations to choose from
    Trees,             \* the contents of all files to choose from
    Absent,            \* nothing is
    None,              \* no root, kind, report or exit status
    Changing           \* bound: the files a build changes meanwhile

Files == {n \in Names : Target[n] = n}

ASSUME PathAssumption ==
    /\ Target \in [Names -> Files] /\ Dirs \cap Names = {}
    /\ Closed \subseteq Dirs
    /\ Inside \in [Dirs -> SUBSET Names]
    /\ {ConfigFile, Checker} \subseteq Files /\ Driver \in Checks /\ "" \in Members
    /\ Changing \subseteq Files \ ({ConfigFile, Checker} \cup Linked)

\* What readelf can show of an ELF file or archive member, and what there is to
\* know of a file: what it is, whether the checker may read it, whether it is
\* being written.  Only of ELF files and archives does readelf show units.
Traces == {"section", "reference", "definition", "weak", "empty"}
Units == [member : Members, form : {"elf", "rmeta", "lto", "foreign"},
          runtime : BOOLEAN, symtab : BOOLEAN, traces : [Checks -> SUBSET Traces]]
Shown == [units : Seq(Units), diagnostic : BOOLEAN]
FileContents == [magic : {"rel", "exec", "archive", "bitcode", "text", "special"},
                 open : BOOLEAN, torn : BOOLEAN, units : Seq(Units)]

ASSUME TreesAssumption ==
    /\ Absent \notin FileContents
    /\ \A tree \in Trees :
          /\ tree \in [Files -> FileContents \cup {Absent}]
          /\ \A f \in Files :
                tree[f] # Absent /\ tree[f].magic \notin {"rel", "exec", "archive"} =>
                    tree[f].units = <<>>
          /\ \A f \in Files \cap Linked : tree[f] # Absent

ASSUME ConfigsAssumption ==
    \A cf \in Configs :
        /\ cf.objects \in Seq(ToSet(cf.objects)) /\ cf.binaries \in Seq(ToSet(cf.binaries))
        /\ cf.sections \in Seq(ToSet(cf.sections))
        /\ cf.report \in Names \cup {None}

\* Where there may be errors, and what a report may say.
Kinds == {"object", "archive", "binary"}
Places == Names \cup {"no artifacts"} \cup
          UNION {ToSet(cf.objects) \cup ToSet(cf.binaries) : cf \in Configs}
Reports == [errors : SUBSET Places, failed : SUBSET (Files \X Members \X Checks)]

ASSUME NoneAssumption ==
    /\ None \notin Kinds /\ None \notin {0, 1, 2} /\ \A S \in SUBSET Names : None # S
    /\ None \notin Shown /\ None \notin Reports

VARIABLES
    stage,      \* "load", "discover", "output", "inspect", "write" or "done"
    config,     \* the text of the configuration
    installed,  \* there is a readelf
    roots,      \* the roots still to walk, each with its kind
    listed,     \* the names of the first of them still to look at, or None
    matched,    \* one of its names was taken
    trouble,    \* an error was recorded for it
    artifacts,  \* artifacts[f]: the kind found, or None
    pending,    \* the artifacts still to inspect
    errors,     \* where errors were recorded
    failed,     \* the <<file, member, check>> that failed
    report,     \* what the report written says, or None
    code,       \* the exit status, or None
    fs,         \* fs[f]: what is at f
    first,      \* history: fs at the start
    calm,       \* history: the files nothing has happened to
    read        \* history: read[f]: what readelf said of f, or None

found == <<artifacts, pending, errors, failed>>
walk == <<roots, listed, matched, trouble>>
history == <<first, calm, read>>
policyVars == <<stage, config, installed, walk, found, report, code, fs, history>>

\* A bug to check the properties with: an override cannot switch a check off.
DropsIgnored(s) ==
    [c \in {d \in DOMAIN s.options : s.options[d] \notin {"ignore", "report"}} |->
        s.options[c]]

Options(s) == s.options

Mode(word) ==
    CASE word = "require" -> "present" [] word = "forbid" -> "absent"
      [] word = "report" -> "ignore"   [] OTHER -> word

\* The exceptions of load_config: unknown options or words, a section that
\* comes twice, no roots, no report.
ConfigFits(cf) ==
    /\ cf.objects \o cf.binaries # <<>> /\ cf.report # None
    /\ \A i \in DOMAIN cf.sections :
          LET s == cf.sections[i] IN
          /\ DOMAIN s.options \subseteq Checks
          /\ \A c \in DOMAIN s.options :
                Mode(s.options[c]) \in {"present", "absent", "ignore"}
          /\ \A j \in 1 .. i - 1 : cf.sections[j].match # s.match

\* Later sections win; [checks], whose pattern is None, comes first wherever
\* it stands.
Update(modes, s) ==
    [c \in Checks |-> IF c \in DOMAIN Options(s) THEN Mode(Options(s)[c]) ELSE modes[c]]

Matches(s, f, member) ==
    s.match # None /\ {<<f, "">>, <<f, member>>} \cap s.match # {}

\* The sections of S, in their order.
UpdateBy(S, modes) ==
    FoldLeft(LAMBDA m, s : IF s \in S THEN Update(m, s) ELSE m, modes, config.sections)

EffectiveModes(f, member) ==
    LET sections == ToSet(config.sections)
        base == UpdateBy({s \in sections : s.match = None}, [c \in Checks |-> "ignore"])
    IN UpdateBy({s \in sections : Matches(s, f, member)}, base)

-----------------------------------------------------------------------------
(* One unit: an ELF file or an archive member *)

\* parse_elf: only one ELF header is read, and no LTO object; metadata of Rust
\* without code or data is skipped.  Empty sections say nothing, a definition
\* says more than a weak reference.
ParseElf(u) ==
    [member |-> u.member,
     status |-> IF u.form \in {"foreign", "lto"} THEN "error"
                ELSE IF u.form = "rmeta" /\ ~u.runtime THEN "skipped" ELSE "code",
     symtab |-> u.symtab,
     traces |-> [c \in Checks |->
         u.traces[c] \ ({"empty"} \cup
             IF "definition" \in u.traces[c] THEN {"weak"} ELSE {})]]

Detect(c, u) ==
    IF {"section", "reference"} \cap u.traces[c] # {} THEN "FOUND"
    ELSE IF c = Driver /\ "definition" \in u.traces[c] THEN "FOUND"
    ELSE IF u.traces[c] # {} THEN "SYMBOL-ONLY"
    ELSE IF u.symtab THEN "NOT-SEEN" ELSE "UNKNOWN"

PolicyFailed(mode, state) ==
    \/ mode = "present" /\ state # "FOUND"
    \/ mode = "absent" /\ state # "NOT-SEEN"

Opens(content) == content # Absent /\ content.open

\* stat or open fails; of what is no regular file only stat is asked.
Fails(content) == content # Absent => content.magic # "special" /\ ~content.open

\* What readelf may show of a content: the units, and whether it complained.
\* While a file is being written it shows some of them, and complains.
ReadElf(content) ==
    IF ~Opens(content) THEN {[units |-> <<>>, diagnostic |-> TRUE]}
    ELSE IF content.torn
    THEN {[units |-> SubSeq(content.units, 1, k), diagnostic |-> TRUE] :
              k \in 0 .. Len(content.units)}
    ELSE {[units |-> content.units,
           diagnostic |-> \/ content.magic \notin {"rel", "exec", "archive"}
                          \/ \E i \in DOMAIN content.units :
                                content.units[i].form = "foreign"]}

FileError == [member |-> "", status |-> "error"]

\* A bug to check the properties with: the members that were shown are enough.
InspectShown(kind, isArchive, out) ==
    IF out.units = <<>> THEN <<FileError>>
    ELSE [i \in DOMAIN out.units |-> ParseElf(out.units[i])]

\* inspect: what is not an archive must show one unit, and no complaint.  A
\* complaint about an archive is an error of the file, on top of what its
\* members show; readelf names members only of an archive.
Inspect(kind, isArchive, out) ==
    IF kind # "archive"
    THEN IF out.diagnostic \/ Len(out.units) # 1 THEN <<FileError>>
         ELSE <<[ParseElf(out.units[1]) EXCEPT !.member = ""]>>
    ELSE LET shown == IF isArchive
                      THEN [i \in DOMAIN out.units |-> ParseElf(out.units[i])]
                      ELSE <<>>
         IN shown \o IF out.diagnostic \/ shown = <<>> THEN <<FileError>> ELSE <<>>

-----------------------------------------------------------------------------
(* The checker *)

\* Names and artifacts are gone through in a fixed order, the sorted one.
Least(S) == CHOOSE n \in S : TRUE

Exit(n) == stage' = "done" /\ code' = n

PolicyInit ==
    /\ stage = "load"
    /\ config \in Configs /\ installed \in BOOLEAN
    /\ roots = <<>> /\ listed = None /\ matched = FALSE /\ trouble = FALSE
    /\ artifacts = [f \in Files |-> None]
    /\ pending = {} /\ errors = {} /\ failed = {}
    /\ report = None /\ code = None
    /\ fs \in Trees
    /\ first = fs /\ calm = Files /\ read = [f \in Files |-> None]

Entries(cf) ==
    [i \in DOMAIN cf.objects |-> [path |-> cf.objects[i], kind |-> "object"]] \o
    [i \in DOMAIN cf.binaries |-> [path |-> cf.binaries[i], kind |-> "binary"]]

\* load_config, and the look for readelf that follows it.
LoadConfig ==
    LET ready == Opens(fs[ConfigFile]) /\ ConfigFits(config) /\ installed IN
    /\ stage = "load"
    /\ \/ ~ready /\ Exit(2) /\ UNCHANGED roots
       \/ /\ ready
          /\ stage' = "discover" /\ roots' = Entries(config)
          /\ UNCHANGED code
    /\ UNCHANGED <<config, installed, listed, matched, trouble, found, report,
                   fs, history>>

Excluded(n) == n \in config.excludes

\* discover, one root: the names listed are the ones that are there, links that
\* lead nowhere among them; what is no directory and no binary file is an error,
\* and so is a part of a directory that os.walk cannot list.
StartRoot ==
    LET root == Head(roots) IN
    /\ stage = "discover" /\ listed = None /\ roots # <<>>
    /\ matched' = FALSE
    /\ \/ /\ Excluded(root.path)
          /\ roots' = Tail(roots)
          /\ UNCHANGED <<listed, trouble, errors>>
       \/ /\ ~Excluded(root.path) /\ root.path \in Dirs
          /\ listed' = {n \in Inside[root.path] :
                           (n \notin Files \/ fs[n] # Absent) /\ ~Excluded(n)}
          /\ trouble' = (root.path \in Closed)
          /\ errors' = errors \cup ({root.path} \cap Closed)
          /\ UNCHANGED roots
       \/ /\ ~Excluded(root.path) /\ root.path \in Names
          /\ root.kind = "binary" /\ fs[Target[root.path]] # Absent
          /\ listed' = {root.path} /\ trouble' = FALSE
          /\ UNCHANGED <<roots, errors>>
       \/ /\ ~Excluded(root.path) /\ root.path \notin Dirs
          /\ ~(/\ root.path \in Names /\ root.kind = "binary"
               /\ fs[Target[root.path]] # Absent)
          /\ listed' = {} /\ trouble' = TRUE
          /\ errors' = errors \cup {root.path}
          /\ UNCHANGED roots
    /\ UNCHANGED <<stage, config, installed, artifacts, pending, failed,
                   report, code, fs, history>>

\* What add takes the content of n for, under a root of the kind, or None.
\* A name with a suffix of objects stays visible whatever it holds.
Candidate(n, kind, content) ==
    IF kind = "binary" THEN IF content.magic = "exec" THEN "binary" ELSE None
    ELSE IF content.magic = "archive" THEN "archive"
    ELSE IF content.magic \in {"rel", "bitcode"} THEN "object"
    ELSE IF Suffix[n] \in {"object", "archive"} THEN Suffix[n] ELSE None

\* A bug to check the properties with: a file found already is no match.
TakeNew(f, kind) ==
    /\ artifacts' = [artifacts EXCEPT ![f] = kind]
    /\ matched' = (matched \/ artifacts[f] = None)
    /\ UNCHANGED <<errors, trouble>>

Take(f, kind) ==
    /\ artifacts' = [artifacts EXCEPT ![f] = kind]
    /\ matched' = TRUE
    /\ UNCHANGED <<errors, trouble>>

Complain(where) ==
    /\ errors' = errors \cup {where} /\ trouble' = TRUE
    /\ UNCHANGED <<artifacts, matched>>

\* add: gone since it was listed, not readable, of no interest, or taken.
Add(n) ==
    LET root == Head(roots)
        content == fs[Target[n]]
    IN
    /\ stage = "discover" /\ listed \notin {None, {}} /\ n = Least(listed)
    /\ listed' = listed \ {n}
    /\ \/ Fails(content) /\ Complain(n)
       \/ /\ ~Fails(content)
          /\ LET kind == IF content.magic = "special" THEN None
                         ELSE Candidate(n, root.kind, content) IN
             \/ kind # None /\ Take(Target[n], kind)
             \/ kind = None /\ n = root.path /\ Complain(n)
             \/ kind = None /\ n # root.path /\ UNCHANGED <<errors, trouble, artifacts, matched>>
    /\ UNCHANGED <<stage, config, installed, roots, pending, failed, report,
                   code, fs, history>>

\* A root that holds nothing is an error.
EndRoot ==
    /\ stage = "discover" /\ listed = {}
    /\ errors' = IF matched \/ trouble THEN errors ELSE errors \cup {Head(roots).path}
    /\ roots' = Tail(roots) /\ listed' = None
    /\ UNCHANGED <<stage, config, installed, matched, trouble, artifacts,
                   pending, failed, report, code, fs, history>>

EndDiscover ==
    /\ stage = "discover" /\ listed = None /\ roots = <<>>
    /\ stage' = "output"
    /\ pending' = {f \in Files : artifacts[f] # None}
    /\ errors' = IF pending' = {} THEN errors \cup {"no artifacts"} ELSE errors
    /\ UNCHANGED <<config, installed, walk, artifacts, failed, report, code,
                   fs, history>>

\* A bug to check the properties with: only the artifacts found are protected.
OutputFitsFound(n) == Suffix[n] = "none" /\ artifacts[Target[n]] = None

\* The report must not replace an input, a file with another name, or what
\* looks like an artifact though it was excluded; what is there must be read.
OutputFits(n) ==
    LET f == Target[n] IN
    /\ Suffix[n] = "none" /\ Suffix[f] = "none"
    /\ artifacts[f] = None /\ f \notin {ConfigFile, Checker}
    /\ \A i \in DOMAIN config.binaries :
          config.binaries[i] \in Names => Target[config.binaries[i]] # f
    /\ fs[f] # Absent => fs[f].magic = "text" /\ fs[f].open /\ f \notin Linked

CheckOutput ==
    /\ stage = "output"
    /\ \/ OutputFits(config.report) /\ stage' = "inspect" /\ UNCHANGED code
       \/ ~OutputFits(config.report) /\ Exit(2)
    /\ UNCHANGED <<config, installed, walk, found, report, fs, history>>

\* One artifact of make_report: every unit is judged by itself.
Judge(f, units) ==
    /\ errors' = IF \E i \in DOMAIN units : units[i].status = "error"
                 THEN errors \cup {f} ELSE errors
    /\ failed' = failed \cup
          UNION {{<<f, units[i].member, c>> : c \in {d \in Checks :
                     PolicyFailed(EffectiveModes(f, units[i].member)[d],
                                  Detect(d, units[i]))}} :
                 i \in {j \in DOMAIN units : units[j].status = "code"}}

InspectFile(f) ==
    /\ stage = "inspect" /\ pending # {} /\ f = Least(pending)
    /\ pending' = pending \ {f}
    /\ \E out \in ReadElf(fs[f]) :
          /\ Judge(f, Inspect(artifacts[f],
                              fs[f] # Absent /\ fs[f].magic = "archive", out))
          /\ read' = [read EXCEPT ![f] = out]
    /\ UNCHANGED <<stage, config, installed, walk, artifacts, report, code, fs,
                   first, calm>>

\* readelf takes longer than a minute, or cannot be run.
InspectTimeout(f) ==
    /\ stage = "inspect" /\ pending # {} /\ f = Least(pending)
    /\ pending' = pending \ {f}
    /\ errors' = errors \cup {f}
    /\ calm' = calm \ {f}
    /\ UNCHANGED <<stage, config, installed, walk, artifacts, failed, report,
                   code, fs, first, read>>

EndInspect ==
    /\ stage = "inspect" /\ pending = {}
    /\ stage' = "write"
    /\ UNCHANGED <<config, installed, walk, found, report, code, fs, history>>

Status == IF errors # {} THEN 2 ELSE IF failed # {} THEN 1 ELSE 0

Text == [magic |-> "text", open |-> TRUE, torn |-> FALSE, units |-> <<>>]

WriteReport ==
    /\ stage = "write"
    /\ report' = [errors |-> errors, failed |-> failed]
    /\ fs' = [fs EXCEPT ![Target[config.report]] = Text]
    /\ Exit(Status)
    /\ UNCHANGED <<config, installed, walk, found, history>>

\* The file system refuses the report, or runs full half way.
WriteFails ==
    /\ stage = "write"
    /\ fs' \in {fs, [fs EXCEPT ![Target[config.report]] = [Text EXCEPT !.torn = TRUE]]}
    /\ Exit(2)
    /\ calm' = calm \ {Target[config.report]}
    /\ UNCHANGED <<config, installed, walk, found, report, first, read>>

-----------------------------------------------------------------------------
(* The build, and everything else that changes files meanwhile *)

Contents(f) == {tree[f] : tree \in Trees}

\* A file vanishes, is being written, or has become another.
Disturb(f) ==
    /\ stage \notin {"load", "done"}
    /\ f \in Changing
    /\ \E content \in Contents(f) \cup {Absent} \cup
              {[c EXCEPT !.torn = TRUE] : c \in Contents(f) \ {Absent}} :
          /\ content # fs[f]
          /\ fs' = [fs EXCEPT ![f] = content]
    /\ calm' = calm \ {f}
    /\ UNCHANGED <<stage, config, installed, walk, found, report, code, first,
                   read>>

PolicyNext ==
    \/ LoadConfig \/ StartRoot \/ EndRoot \/ EndDiscover
    \/ CheckOutput \/ EndInspect \/ WriteReport \/ WriteFails
    \/ \E n \in Names : Add(n)
    \/ \E f \in Files : InspectFile(f) \/ InspectTimeout(f) \/ Disturb(f)

PolicySpec == PolicyInit /\ [][PolicyNext]_policyVars

-----------------------------------------------------------------------------
(* What the configuration asks for, from its text *)

\* The last section that speaks of c for the item decides; [checks] only when
\* no other does.
Required(c, f, member) ==
    LET speak == {i \in DOMAIN config.sections : c \in DOMAIN config.sections[i].options}
        rules == {i \in speak : Matches(config.sections[i], f, member)}
        base == {i \in speak : config.sections[i].match = None}
        deciding == IF rules # {} THEN rules ELSE base
    IN IF deciding = {} THEN "ignore" ELSE Mode(config.sections[Max(deciding)].options[c])

\* Present: a caller was instrumented, or the driver is linked.  Absent: the
\* symbols were all there, and nothing of the check among them.
Satisfies(c, mode, u) ==
    LET shown == u.traces[c] \ {"empty"}
        proof == {"section", "reference"} \cup IF c = Driver THEN {"definition"} ELSE {}
    IN /\ mode = "present" => shown \cap proof # {}
       /\ mode = "absent" => u.symtab /\ shown = {}

Complies(f, u) ==
    \/ u.form = "rmeta" /\ ~u.runtime
    \/ /\ u.form \in {"elf", "rmeta"}
       /\ LET member == IF artifacts[f] = "archive" THEN u.member ELSE ""
          IN \A c \in Checks : Satisfies(c, Required(c, f, member), u)

\* The file at n is to be inspected for an entry of the configuration.
Reached(e, n) ==
    /\ {e.path, n} \cap config.excludes = {}
    /\ \/ e.path \in Dirs /\ n \in Inside[e.path]
       \/ e.kind = "binary" /\ n = e.path

Wanted(e, n, content) ==
    /\ Reached(e, n) /\ content # Absent /\ content.magic # "special"
    /\ Candidate(n, e.kind, content) # None

EntrySet == ToSet(Entries(config))

-----------------------------------------------------------------------------
(* Properties *)

\* A run that ends with 0 has written its report, and earned it: each root that
\* is not excluded gave an artifact, and every artifact that the roots reach
\* and nothing disturbed meets every expectation in every one of its units,
\* whatever a build did to the other files meanwhile; of those that were
\* disturbed what readelf showed does, without a complaint (check_build.py,
\* discover, inspect and make_report; build-check/README.md:29).
ZeroIsEarned ==
    code = 0 =>
        /\ report # None
        /\ \A e \in EntrySet : e.path \notin config.excludes =>
              \E n \in Names : Reached(e, n) /\ read[Target[n]] # None
        /\ \A e \in EntrySet, n \in Names :
              /\ Target[n] \in calm
              /\ Wanted(e, n, fs[Target[n]])
              => \A i \in DOMAIN fs[Target[n]].units :
                    Complies(Target[n], fs[Target[n]].units[i])
        /\ \A f \in Files : artifacts[f] # None =>
              /\ read[f] # None /\ ~read[f].diagnostic
              /\ \A i \in DOMAIN read[f].units : Complies(f, read[f].units[i])

\* A run that ends with 1 found no error that it hides, and what it reports is
\* so: each failure it names is an expectation that a unit shown under that
\* name does not meet (check_build.py, policy_failed and make_report).
FailureIsReal ==
    code = 1 =>
        /\ report # None /\ report.errors = {} /\ report.failed # {}
        /\ \A x \in report.failed :
              \E i \in DOMAIN read[x[1]].units :
                 LET u == read[x[1]].units[i] IN
                 ~Satisfies(x[3], Required(x[3], x[1], x[2]), u)

Unreadable(f, kind, content) ==
    \/ content.torn \/ ~content.open
    \/ \E i \in DOMAIN content.units : content.units[i].form \in {"foreign", "lto"}
    \/ kind = "archive" /\ (content.magic # "archive" \/ content.units = <<>>)
    \/ kind # "archive" /\ (Len(content.units) # 1 \/ content.magic = "bitcode")

\* What the report would replace must not be replaced.
Precious(f) ==
    \/ f \in {ConfigFile, Checker} \cup Linked
    \/ first[f] # Absent /\ first[f].magic # "text"

\* A run that nothing disturbs ends with 2 only for a reason in what it was
\* given: a configuration that cannot be read or does not hold together, no
\* readelf, a root without an artifact or with a part that cannot be listed, an
\* artifact that cannot be read whole, another file to look at that cannot be
\* read, a link that leads nowhere, or a report that would replace what it must
\* not or what it cannot read (check_build.py, main).
AlarmHasCause ==
    code = 2 /\ calm = Files =>
        \/ ~Opens(first[ConfigFile]) \/ ~ConfigFits(config) \/ ~installed
        \/ \E e \in EntrySet : e.path \notin config.excludes /\
              \/ e.path \in Closed
              \/ ~\E n \in Names : Wanted(e, n, first[Target[n]])
        \/ \A e \in EntrySet : e.path \in config.excludes
        \/ \E e \in EntrySet, n \in Names :
              /\ Reached(e, n)
              /\ \/ Fails(first[Target[n]]) /\ (n \in Files => first[n] # Absent)
                 \/ /\ Wanted(e, n, first[Target[n]])
                    /\ Unreadable(Target[n], artifacts[Target[n]], first[Target[n]])
        \/ LET f == Target[config.report] IN
              \/ Precious(f) \/ Suffix[f] # "none" \/ Suffix[config.report] # "none"
              \/ first[f] # Absent /\ ~first[f].open
              \/ \E i \in DOMAIN config.binaries :
                    config.binaries[i] \in Names /\ Target[config.binaries[i]] = f

\* The checker changes one file at most, the one its report is configured to,
\* and never an artifact, its configuration or itself, under whatever name and
\* excluded or not: only plain text is replaced, as long as nobody puts
\* something else there meanwhile (check_build.py, main; README.md of
\* build-check).
InputsKept ==
    \A f \in calm : fs[f] # first[f] =>
        f = Target[config.report] /\ ~Precious(f) /\ report # None

=============================================================================
