---- MODULE MCSupervisor ----
(* Instances of Supervisor for TLC. *)
EXTENDS Supervisor

Call(f, b, c, s) == [fuzz |-> f, backend |-> b, capture |-> c, signal |-> s]

\* The fixture, the capture, both signals, and --fuzz.
MCCalls ==
    {Call(TRUE, TRUE, FALSE, "TERM"), Call(TRUE, FALSE, TRUE, "KILL"),
     Call(FALSE, FALSE, TRUE, "TERM")}
====
