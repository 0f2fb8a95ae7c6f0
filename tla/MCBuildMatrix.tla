---- MODULE MCBuildMatrix ----
\* The instances of BuildMatrix are all in its configuration.
EXTENDS BuildMatrix
====
