--------------------------- MODULE MCCapDependency ---------------------------
(* Every children table over four capability ids with children arrays of *)
(* up to two entries: all DAGs (including those whose order needs the    *)
(* opt_list rounds), cycles, a self-loop on entry 1; with all entries used, with one *)
(* entry unused, and with one entry whose cap_id does not match its      *)
(* index.  Two calls show the idempotent second call.                    *)
EXTENDS CapDependency

MCCaps == 1..4
MCMaxChildren == 2
MCMaxCalls == 2
MCSelfLoopIds == {1}
MCIdTables == {[c \in MCCaps |-> c],
               [c \in MCCaps |-> IF c = 4 THEN 0 ELSE c],
               [c \in MCCaps |-> IF c = 1 THEN 2 ELSE c]}
=============================================================================
