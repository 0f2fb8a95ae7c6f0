----------------------------- MODULE MCHandlers -----------------------------
(* Instances of Handlers for TLC: streams of a few units for each protocol.   *)
EXTENDS Handlers, Integers, TLC

U(k, v) == [k |-> k, v |-> v]
Eol == U("eol", "")
D(i) == U("data", i)

HttpFields ==
    {<<>>} \cup {<<U("length", n), Eol>> : n \in {<<1>>, <<2>>, <<3>>, <<-1>>, <<>>}} \cup
    {<<U("mode", m), Eol>> : m \in {"truncated", "odd", ""}} \cup
    {<<U("length", <<3>>), Eol, U("length", <<1>>), Eol>>}

HttpStreams ==
    {<<first, Eol>> \o fields \o <<Eol>> \o rest :
        first \in {U("line", "normal"), U("line", "upgrade"), U("text", "")},
        fields \in HttpFields,
        rest \in {<<>>, <<D(1), Eol, Eol, D(2)>>,
                  <<D(1), D(2), D(3), D(4), D(5)>>}}
    \cup {[i \in 1 .. 9 |-> D(i)]}

Name(v) == U("name", v)
Length(n) == U("number", n)
Mode(m) == U("word", m)

ScgiBlocks ==
    {<<Name("CONTENT_LENGTH"), Length(n)>> \o more :
        n \in {0, 2, 3, -1},
        more \in {<<>>, <<Name("MODE"), Mode("upgrade")>>,
                  <<Name("REQUEST_URI"), Mode("truncated"), Name("CONTENT_LENGTH"), Length(1)>>,
                  <<Name("MODE"), Name("REQUEST_URI"), Mode("upgrade"), Mode("x")>>,
                  <<Name("REQUEST_URI"), Mode("upgrade"), Name("MODE"), Mode("")>>}}
    \cup {<<Name("CONTENT_LENGTH"), Mode("x")>>, <<Name("REQUEST_URI"), Mode("upgrade")>>}

ScgiStreams ==
    {digits \o <<U("colon", "")>> \o block \o <<comma>> \o <<D(1), D(2), D(3)>> :
        digits \in {<<>>, <<U("digit", 0)>>, <<U("digit", 0), U("digit", 2)>>,
                    <<U("digit", 4)>>, <<U("digit", 3)>>, <<U("digit", 6)>>,
                    <<U("digit", 0), U("digit", 0), U("digit", 2)>>, <<U("digit", 9)>>},
        block \in ScgiBlocks,
        comma \in {U("comma", ""), D(0)}}

MCStreams == [p \in {"http", "scgi"} |-> IF p = "http" THEN HttpStreams ELSE ScgiStreams]
MCUnits == UNION {{s[i] : i \in DOMAIN s} : s \in HttpStreams \cup ScgiStreams}

Symmetry == Permutations(Ids)
=============================================================================
