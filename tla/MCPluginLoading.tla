--------------------------- MODULE MCPluginLoading ---------------------------
EXTENDS PluginLoading

Guest(e, m, s) == [exports |-> e, memory |-> m, signatures |-> s]

(* Every guest the SDK can build, and three that are not valid.            *)
MCModules ==
  {Guest(e, TRUE, TRUE) : e \in {x \in SUBSET AllOps : Paired(x)}}
    \cup {Guest(AllOps, FALSE, TRUE), Guest(AllOps, TRUE, FALSE),
          Guest({"reserve"}, TRUE, TRUE)}
=============================================================================
