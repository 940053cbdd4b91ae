---------------------------- MODULE MCEvolution ----------------------------
(* EvolutionTrial with patches that are permitted, stale, touch the sealed   *)
(* tests, drop an invariant, or name a reserved file.                        *)
EXTENDS EvolutionTrial

MCBase == [p \in {"router", "tests"} |-> 1]
MCLow == {"router", "docs", "aux"}
AllPaths == {"router", "docs", "aux", "tests"}

Good == [plan |-> {<<"router", "replace">>}, estimate |-> 1, preserved |-> {"truth"},
         files |-> {<<"router", "replace">>}, old |-> [p \in AllPaths |-> 1], lines |-> 1]
Stale == [Good EXCEPT !.old = [p \in AllPaths |-> 2]]
Tests == [Good EXCEPT !.plan = {<<"tests", "replace">>}, !.files = {<<"tests", "replace">>}]
Named == [Good EXCEPT !.plan = {<<"aux", "create">>}, !.files = {<<"aux", "create">>}]
MCPatches == [good |-> Good, stale |-> Stale, tests |-> Tests, named |-> Named]

K8s   == [mode |-> "kubernetes_job", required |-> "kubernetes_job"]
Local == [mode |-> "local_process", required |-> "local_process"]
Wrong == [mode |-> "local_process", required |-> "kubernetes_job"]
Off   == [mode |-> "off", required |-> "kubernetes_job"]
MCEnvs == {K8s, Local, Wrong, Off}
=============================================================================
