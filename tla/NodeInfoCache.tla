---------------------------- MODULE NodeInfoCache ----------------------------
(***************************************************************************)
(* The node infos a guest keeps during a scheduling context (nodeInfoList  *)
(* and nodeInfo of guest/internal/prefilter/types.go): Get makes an entry  *)
(* by name that fetches its data from the host's snapshot when it is read, *)
(* List replaces all entries by the nodes of the snapshot, the prefilter   *)
(* export forgets them.                                                    *)
(***************************************************************************)
EXTENDS Naturals, Sequences, FiniteSets

CONSTANTS
  Node,         \* the names of nodes, other than ""
  MaxVersion    \* bound: how often the data of the nodes changes

ASSUME NodeAssumption == IsFiniteSet(Node) /\ "" \notin Node
ASSUME MaxVersionAssumption == MaxVersion \in Nat \ {0}

VARIABLES
  snapshot,              \* the host's snapshot: the version of each node's
                         \* data, 0 when there is no such node
  phase,                 \* "idle", "scheduling" or "binding"
  asOf,                  \* the snapshot the scheduling cycle started with
  currentNodeInfoList,
  isFullNodeInfoList,
  got                    \* the plugin's last Get in this call, if any

cacheVars == <<snapshot, phase, asOf, currentNodeInfoList, isFullNodeInfoList,
               got>>

(* The field of a nodeInfo that has not been fetched.                      *)
Unfetched == [of |-> "", version |-> 0]

Fetched(n) == [of |-> n, version |-> IF n \in Node THEN snapshot[n] ELSE 0]

newNodeInfo(n) == [name |-> n, node |-> Unfetched, imageStates |-> Unfetched]

(* An entry of List has its node but neither its name nor its images.      *)
ListedNodeInfo(n) ==
  [name |-> "", node |-> Fetched(n), imageStates |-> Unfetched]

NoGet == [name |-> "", found |-> FALSE]

CacheInit ==
  /\ snapshot \in [Node -> 0..1]
  /\ asOf = snapshot
  /\ phase = "idle"
  /\ currentNodeInfoList = <<>>
  /\ isFullNodeInfoList = FALSE
  /\ got = NoGet

(* A scheduling cycle takes a new snapshot and calls prefilter.  A node    *)
(* appears, disappears or changes.                                         *)
SnapshotChanges ==
  \E n \in Node, v \in 0..MaxVersion :
    snapshot' = [snapshot EXCEPT ![n] = v]

(* Bug: the list is not forgotten.                                         *)
PrefilterKeepsList ==
  /\ phase = "idle"
  /\ SnapshotChanges
  /\ asOf' = snapshot'
  /\ phase' = "scheduling"
  /\ isFullNodeInfoList' = FALSE
  /\ got' = NoGet
  /\ UNCHANGED currentNodeInfoList

Prefilter ==
  /\ phase = "idle"
  /\ SnapshotChanges
  /\ asOf' = snapshot'
  /\ phase' = "scheduling"
  /\ currentNodeInfoList' = <<>>
  /\ isFullNodeInfoList' = FALSE
  /\ got' = NoGet

Cached(n) ==
  \E i \in DOMAIN currentNodeInfoList : currentNodeInfoList[i].name = n

(* Bug: the cache is not searched first.                                   *)
GetAppends(n) ==
  /\ phase # "idle"
  /\ \/ isFullNodeInfoList /\ UNCHANGED currentNodeInfoList
     \/ /\ ~isFullNodeInfoList
        /\ currentNodeInfoList' = Append(currentNodeInfoList, newNodeInfo(n))
  /\ got' = [name |-> n, found |-> ~isFullNodeInfoList]
  /\ UNCHANGED <<snapshot, phase, asOf, isFullNodeInfoList>>

Get(n) ==
  /\ phase # "idle"
  /\ IF Cached(n) \/ isFullNodeInfoList
       THEN UNCHANGED currentNodeInfoList
       ELSE currentNodeInfoList' = Append(currentNodeInfoList, newNodeInfo(n))
  /\ got' = [name |-> n, found |-> Cached(n) \/ ~isFullNodeInfoList]
  /\ UNCHANGED <<snapshot, phase, asOf, isFullNodeInfoList>>

Present == {n \in Node : snapshot[n] # 0}

(* The host lists the nodes of the snapshot in some order; an empty list   *)
(* is not cached.                                                          *)
List ==
  /\ phase # "idle"
  /\ \/ /\ isFullNodeInfoList \/ Present = {}
        /\ UNCHANGED <<currentNodeInfoList, isFullNodeInfoList>>
     \/ /\ ~isFullNodeInfoList /\ Present # {}
        /\ isFullNodeInfoList' = TRUE
        /\ \E order \in [1..Cardinality(Present) -> Present] :
             /\ \A n \in Present : \E i \in DOMAIN order : order[i] = n
             /\ currentNodeInfoList' =
                  [i \in DOMAIN order |-> ListedNodeInfo(order[i])]
  /\ got' = NoGet
  /\ UNCHANGED <<snapshot, phase, asOf>>

(* lazyNode: the host sends an empty node for a name it does not know.     *)
LazyNode(i) ==
  /\ phase # "idle"
  /\ currentNodeInfoList[i].node = Unfetched
  /\ currentNodeInfoList' =
       [currentNodeInfoList EXCEPT ![i].node =
          Fetched(currentNodeInfoList[i].name)]
  /\ got' = NoGet
  /\ UNCHANGED <<snapshot, phase, asOf, isFullNodeInfoList>>

(* ImageStates: the null the host sends for a name it does not know is not *)
(* cached.                                                                 *)
ImageStates(i) ==
  /\ phase # "idle"
  /\ currentNodeInfoList[i].imageStates = Unfetched
  /\ currentNodeInfoList' =
       [currentNodeInfoList EXCEPT ![i].imageStates =
          LET images == Fetched(currentNodeInfoList[i].name)
          IN  IF images.version = 0 THEN Unfetched ELSE images]
  /\ got' = NoGet
  /\ UNCHANGED <<snapshot, phase, asOf, isFullNodeInfoList>>

(* The cycle fails or the pod goes to its binding cycle, on the same guest;*)
(* meanwhile the next scheduling cycle, on another guest, takes a new      *)
(* snapshot.                                                               *)
CycleEnds ==
  /\ \/ phase = "scheduling" /\ phase' \in {"idle", "binding"}
     \/ phase = "binding" /\ phase' = "idle"
  /\ got' = NoGet
  /\ UNCHANGED <<snapshot, asOf, currentNodeInfoList, isFullNodeInfoList>>

NextCycle ==
  /\ phase = "binding"
  /\ SnapshotChanges
  /\ UNCHANGED <<phase, asOf, currentNodeInfoList, isFullNodeInfoList, got>>

CacheNext ==
  \/ Prefilter \/ List \/ CycleEnds \/ NextCycle
  \/ \E n \in Node : Get(n)
  \/ \E i \in DOMAIN currentNodeInfoList : LazyNode(i) \/ ImageStates(i)

CacheSpec == CacheInit /\ [][CacheNext]_cacheVars

-----------------------------------------------------------------------------
Data == [of : Node \cup {""}, version : 0..MaxVersion]

NodeInfo == [name : Node \cup {""}, node : Data, imageStates : Data]

(* The types of the variables.                                             *)
CacheTypeOK ==
  /\ snapshot \in [Node -> 0..MaxVersion]
  /\ asOf \in [Node -> 0..MaxVersion]
  /\ phase \in {"idle", "scheduling", "binding"}
  /\ currentNodeInfoList \in Seq(NodeInfo)
  /\ isFullNodeInfoList \in BOOLEAN
  /\ got \in [name : Node \cup {""}, found : BOOLEAN]

IsOf(data, n) == data = Unfetched \/ data = [of |-> n, version |-> asOf[n]]

OfThisCycle(info) ==
  /\ info.name \in Node =>
       IsOf(info.node, info.name) /\ IsOf(info.imageStates, info.name)
  /\ info.name = "" =>
       info.node.of \in Node /\ IsOf(info.node, info.node.of)

(* Whatever a plugin reads of nodes in one scheduling cycle, in any order  *)
(* and however late it is fetched, is of the snapshot the cycle started    *)
(* with (types.go:125 "in the same scheduling cycle, we always refer to a  *)
(* completely same Node data, so caching nodes ... won't have an issue").  *)
(* It is of the cycles this guest's prefilter began; a PostFilter after    *)
(* another plugin's rejection (SchedulingCycle, "rejected") finds the      *)
(* nodes cached in an earlier one.                                         *)
OneSnapshot ==
  phase = "scheduling" =>
    \A i \in DOMAIN currentNodeInfoList : OfThisCycle(currentNodeInfoList[i])

(* A plugin that gets a node twice gets the same entry, so the node is not *)
(* fetched twice (types.go:124).                                           *)
OneEntryPerName ==
  \A i, j \in DOMAIN currentNodeInfoList :
    currentNodeInfoList[i].name = currentNodeInfoList[j].name
      => i = j \/ currentNodeInfoList[i].name = ""

(* Get finds a node of the snapshot (api/types.go:167 "Get returns the     *)
(* NodeInfo with the given name").                                         *)
GetFinds ==
  phase = "scheduling" /\ got.name \in Present => got.found
=============================================================================
