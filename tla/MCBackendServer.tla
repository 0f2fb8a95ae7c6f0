---- MODULE MCBackendServer ----
\* Instances of BackendServer for TLC: the configurations name the clients and workers.
EXTENDS BackendServer
====
