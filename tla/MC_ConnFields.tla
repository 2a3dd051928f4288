---------------------------- MODULE MC_ConnFields ----------------------------
EXTENDS ConnFields

\* Two installable names of different lengths, so a selection can grow
\* between the reader's two locks; one channel with a default file of the
\* longer length, one without.
MC_NameLen == [s \in {"f1", "f2", "d1"} |-> IF s = "f1" THEN 1 ELSE 2]
MC_DefaultFile == [c \in {"chA", "chB"} |-> IF c = "chA" THEN "d1" ELSE NULL]
MC_RetronetEnabled == [c \in {"chA", "chB"} |-> c = "chB"]

=============================================================================
