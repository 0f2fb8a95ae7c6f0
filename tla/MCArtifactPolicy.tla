-------------------------- MODULE MCArtifactPolicy --------------------------
(* Instances of ArtifactPolicy for TLC: an object, an archive of two members, *)
(* an executable with a link to it, a configuration, the checker, a text; and *)
(* a directory with a part that cannot be listed.                             *)
EXTENDS ArtifactPolicy

MCNames == {"obj", "lib", "app", "link", "ini", "py", "out"}
MCTarget == [n \in MCNames |-> IF n = "link" THEN "app" ELSE n]
MCDirs == {"build", "vault"}
MCInside == [d \in MCDirs |-> IF d = "build" THEN {"obj", "lib", "app", "link", "out"}
                              ELSE {"app"}]
MCSuffix == [n \in MCNames |-> IF n = "obj" THEN "object"
                               ELSE IF n = "lib" THEN "archive" ELSE "none"]

Unit(m, form, runtime, symtab, asan, driver) ==
    [member |-> m, form |-> form, runtime |-> runtime, symtab |-> symtab,
     traces |-> [c \in Checks |-> IF c = Driver THEN driver ELSE asan]]

File(magic, units) == [magic |-> magic, open |-> TRUE, torn |-> FALSE, units |-> units]
Shut(content) == [content EXCEPT !.open = FALSE]

Good(m) == Unit(m, "elf", TRUE, TRUE, {"reference"}, {})
Bare(m) == Unit(m, "elf", TRUE, TRUE, {"empty"}, {})
Meta(m) == Unit(m, "rmeta", FALSE, TRUE, {}, {})
Data(m) == Unit(m, "rmeta", TRUE, TRUE, {"weak", "definition"}, {})
Alien(m) == Unit(m, "foreign", FALSE, FALSE, {}, {})

Obj == File("rel", <<Good("")>>)
Lib == File("archive", <<Meta("m1"), Good("m2")>>)
App == File("exec", <<Unit("", "elf", TRUE, TRUE, {"section"}, {"definition"})>>)
Objs == {Obj, File("rel", <<Bare("")>>), File("archive", <<Good("m1")>>)}
Libs == {Lib, File("archive", <<Good("m1"), Bare("m2")>>), File("archive", <<Data("m1")>>),
         File("archive", <<Good("m1"), Alien("m2")>>)}
Apps == {App, File("exec", <<Unit("", "elf", TRUE, FALSE, {}, {"weak"})>>), Absent}
Outs == {Absent, Text, App}

Tree(obj, lib, app, out) ==
    [f \in {n \in MCNames : MCTarget[n] = n} |->
        CASE f = "obj" -> obj [] f = "lib" -> lib [] f = "app" -> app
          [] f = "out" -> out [] OTHER -> Text]

MCTrees ==
    {Tree(obj, lib, App, Absent) : obj \in Objs, lib \in Libs} \cup
    {Tree(Obj, Lib, app, out) : app \in Apps, out \in Outs} \cup
    {Tree(File("bitcode", <<>>), File("archive", <<>>), Absent, Text),
     Tree(Shut(Obj), Lib, App, Absent), Tree(Obj, Shut(Lib), App, Shut(Text)),
     [Tree(Obj, Lib, App, Text) EXCEPT !["ini"] = Shut(Text)],
     [Tree(Obj, Lib, App, Text) EXCEPT !["ini"] = Absent]}

Section(match, asan, driver) ==
    [match |-> match, options |->
        [c \in {d \in Checks : IF d = Driver THEN driver # "" ELSE asan # ""} |->
            IF c = Driver THEN driver ELSE asan]]

Config(objects, binaries, excludes, sections, output) ==
    [objects |-> objects, binaries |-> binaries, excludes |-> excludes,
     sections |-> sections, report |-> output]

All == {<<f, "">> : f \in Files}

MCConfigs ==
    {Config(<<"build">>, <<"build">>, {"out"},
            <<Section({<<"lib", "m2">>}, "ignore", "report"), Section(None, "require", "")>>,
            output) : output \in {"out", "link"}}
    \cup
    {Config(<<"build">>, <<"app", "link">>, {"out"},
            <<Section(None, "present", "absent"),
              Section({<<"app", "">>}, "ignore", "require")>>, output) :
        output \in {"out", "app", "ini"}}
    \cup
    {Config(<<"build">>, <<>>, {"obj", "app"},
            <<Section(All, "present", "present"), Section(None, "absent", ""),
              Section({<<"lib", "">>}, "absent", "ignore")>>, output) :
        output \in {"link", "lib", "out"}}
    \cup
    {Config(<<"gone">>, <<"link">>, {}, <<>>, "out"), Config(<<>>, <<>>, {}, <<>>, "out"),
     Config(<<>>, <<"link">>, {}, <<Section(None, "absent", "")>>, "out"),
     Config(<<"build">>, <<>>, {"lib"}, <<Section(None, "need", "")>>, "out"),
     Config(<<"build">>, <<>>, {"lib"}, <<>>, "out"),
     Config(<<>>, <<"vault">>, {}, <<>>, "out")}
=============================================================================
