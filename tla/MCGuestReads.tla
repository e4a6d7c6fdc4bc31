---------------------------- MODULE MCGuestReads ----------------------------
EXTENDS GuestReads

(* One answer of rejectWaitingPod: it differs from what else the buffer    *)
(* may hold.                                                               *)
MCWord == {<<"word">>}

MCValue ==
  {<<"nodes", s>> : s \in [Node -> 0..MaxVersion]}
  \cup {"node", "images"} \X (Node \cup {""}) \X (0..MaxVersion)
  \cup MCWord \cup {<<"pod">>}

(* Nodes differ in size, lists are as long as their nodes, and a list of   *)
(* one node and another may have the same size.                            *)
MCSize ==
  [v \in MCValue |->
     CASE v[1] = "nodes" -> 1 + Cardinality({n \in Node : v[2][n] # 0})
       [] v[1] = "node" -> 2 * v[3]
       [] v[1] = "images" -> 1 + v[3]
       [] v[1] = "word" -> 1
       [] v[1] = "pod" -> 2]
=============================================================================
