----------------------------- MODULE MCFuzzInput -----------------------------
\* Every payload of up to five small bytes behind every combination of flags,
\* and behind a byte that is no flags byte; and framed packets on both sides
\* of the limit of two.
EXTENDS FuzzInput

MCFlags == {0, 1, 2, 3, 6, 7, 10}
Small == UNION {[1..n -> {0, 1, 2}] : n \in 0..5}
Framed == {Frame([i \in 1..n |-> p]) : n \in 1..3, p \in {<<9>>, <<8, 9>>, <<7, 8, 9>>}}
              \cup {Append(Frame(<<<<7, 8, 9>>, <<9>>>>), 0)}
MCInputs == {<<f>> \o p : f \in MCFlags, p \in Small \cup Framed} \cup {<<>>}
=============================================================================
