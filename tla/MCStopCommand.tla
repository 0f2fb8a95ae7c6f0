---- MODULE MCStopCommand ----
\* Instances of StopCommand for TLC: the configurations number the processes.
EXTENDS StopCommand
====
